----------------------------- MODULE MemoryProofs -----------------------------
(***************************************************************************)
(* The page allocator's bitmap is exact, for any number of threads and any *)
(* pool: although palloc_free_multiple clears bits without pool->lock, no  *)
(* page ever has two owners and none is lost.  Further down, the sbrk      *)
(* system call of the memory homework: the heap's pages are those its      *)
(* break says, and a failed call takes none; the kernel's malloc: the      *)
(* blocks are apart, large enough, and each free one is listed once; and   *)
(* mm_malloc on top of sbrk: the list of blocks tiles the heap.            *)
(***************************************************************************)
EXTENDS Palloc, Sequences, FiniteSetTheorems, WellFoundedInduction, TLAPS

\* Whoever scans, marks or is about to unlock holds pool->lock.
LockExact ==
  \A t \in Thread : pc[t] \in {"scan", "mark", "unlock"} <=> lock = t

\* A block lies in the pool and the count of bits done is within it.
Bounds ==
  /\ \A t \in Thread : pc[t] \in {"scan", "mark", "clear"} => bit[t] < cnt[t]
  /\ \A t \in Thread : pc[t] \in {"unlock", "own"} => bit[t] = 0
  /\ \A t \in Thread :
       pc[t] \in {"mark", "unlock", "own", "clear"} => first[t] + cnt[t] <= PoolSize

\* What a scan has found clear stays clear, since only the holder of the lock
\* sets bits.
ScannedClear ==
  \A t \in Thread :
    /\ pc[t] = "scan" => \A p \in first[t]..first[t] + bit[t] - 1 : p \notin used
    /\ pc[t] = "mark" => \A p \in first[t] + bit[t]..first[t] + cnt[t] - 1 : p \notin used

\* BitmapExact, page by page.
UsedClaimed == \A p \in used : \E t \in Thread : p \in Claim(t)
ClaimedUsed == \A t \in Thread : Claim(t) \subseteq used

IInv ==
  /\ TypeOK /\ LockExact /\ Bounds /\ ScannedClear
  /\ NoPageTwice /\ UsedClaimed /\ ClaimedUsed

\* Blocks grow and shrink bit by bit.
LEMMA Grows ==
  ASSUME NEW a \in Nat, NEW b \in Nat
  PROVE  a..a + (b + 1) - 1 = (a..a + b - 1) \cup {a + b}
<1>1. \A p : p \in a..a + (b + 1) - 1 <=> p \in (a..a + b - 1) \cup {a + b}
  OBVIOUS
<1> QED BY <1>1

LEMMA Shrinks ==
  ASSUME NEW a \in Nat, NEW b \in Nat, NEW c \in Nat
  PROVE  a + (b + 1)..a + c - 1 = (a + b..a + c - 1) \ {a + b}
<1>1. \A p : p \in a + (b + 1)..a + c - 1 <=> p \in (a + b..a + c - 1) \ {a + b}
  OBVIOUS
<1> QED BY <1>1

LEMMA LastOne ==
  ASSUME NEW a \in Nat, NEW b \in Nat, NEW c \in Nat, b < c, ~(b + 1 < c)
  PROVE  a + b..a + c - 1 = {a + b}
<1>1. \A p : p \in a + b..a + c - 1 <=> p = a + b
  OBVIOUS
<1> QED BY <1>1

LEMMA InitInv == Init => IInv
  BY PallocAssumption
     DEF Init, IInv, TypeOK, LockExact, Bounds, ScannedClear, NoPageTwice,
         UsedClaimed, ClaimedUsed, Claim, Page

-----------------------------------------------------------------------------
\* A step of t leaves the claims of the others alone.
LEMMA OthersKeepClaims ==
  ASSUME NEW t \in Thread, NEW u \in Thread, u # t, 
         pc'[u] = pc[u], first'[u] = first[u], cnt'[u] = cnt[u], bit'[u] = bit[u]
  PROVE  Claim(u)' = Claim(u)
  BY DEF Claim

\* What a step of t changes of t's own claim decides the three invariants about
\* claims.
LEMMA ClaimsAfter ==
  ASSUME IInv, NEW t \in Thread,
         \A u \in Thread \ {t} : Claim(u)' = Claim(u),
         \/ used' = used /\ Claim(t)' = Claim(t)
         \/ \E p : /\ p \notin used
                   /\ used' = used \cup {p} /\ Claim(t)' = Claim(t) \cup {p}
         \/ \E p \in Claim(t) : used' = used \ {p} /\ Claim(t)' = Claim(t) \ {p}
  PROVE  NoPageTwice' /\ UsedClaimed' /\ ClaimedUsed'
<1>1. CASE used' = used /\ Claim(t)' = Claim(t)
  <2>1. \A u \in Thread : Claim(u)' = Claim(u) BY <1>1
  <2> QED BY <2>1, <1>1 DEF IInv, NoPageTwice, UsedClaimed, ClaimedUsed
<1>2. ASSUME NEW p, p \notin used, used' = used \cup {p}, Claim(t)' = Claim(t) \cup {p}
      PROVE  NoPageTwice' /\ UsedClaimed' /\ ClaimedUsed'
  <2>1. \A u \in Thread : p \notin Claim(u) BY <1>2 DEF IInv, ClaimedUsed
  <2>2. NoPageTwice' BY <2>1, <1>2 DEF IInv, NoPageTwice
  <2>3. UsedClaimed' BY <1>2 DEF IInv, UsedClaimed
  <2>4. ClaimedUsed' BY <1>2 DEF IInv, ClaimedUsed
  <2> QED BY <2>2, <2>3, <2>4
<1>3. ASSUME NEW p \in Claim(t), used' = used \ {p}, Claim(t)' = Claim(t) \ {p}
      PROVE  NoPageTwice' /\ UsedClaimed' /\ ClaimedUsed'
  <2>1. \A u \in Thread \ {t} : p \notin Claim(u) BY <1>3 DEF IInv, NoPageTwice
  <2>2. NoPageTwice' BY <1>3 DEF IInv, NoPageTwice
  <2>3. UsedClaimed' BY <1>3 DEF IInv, UsedClaimed
  <2>4. ClaimedUsed' BY <2>1, <1>3 DEF IInv, ClaimedUsed
  <2> QED BY <2>2, <2>3, <2>4
<1> QED BY <1>1, <1>2, <1>3

\* Bits that are not set by a step keep what the scans have found.
LEMMA OthersScans ==
  ASSUME IInv, NEW t \in Thread, NEW u \in Thread, u # t,
         pc'[u] = pc[u], first'[u] = first[u], cnt'[u] = cnt[u], bit'[u] = bit[u],
         used' \subseteq used \/ lock = t
  PROVE  /\ pc'[u] = "scan" => \A p \in first'[u]..first'[u] + bit'[u] - 1 : p \notin used'
         /\ pc'[u] = "mark" =>
              \A p \in first'[u] + bit'[u]..first'[u] + cnt'[u] - 1 : p \notin used'
<1>1. CASE used' \subseteq used
  BY <1>1 DEF IInv, ScannedClear
<1>2. CASE lock = t
  <2>1. pc[u] \notin {"scan", "mark"} BY <1>2 DEF IInv, LockExact
  <2> QED BY <2>1
<1> QED BY <1>1, <1>2

\* A step of t touches no other thread's variables.
OthersStay(t) ==
  \A u \in Thread \ {t} :
    pc'[u] = pc[u] /\ first'[u] = first[u] /\ cnt'[u] = cnt[u] /\ bit'[u] = bit[u]

\* What is left to show of each action.
LEMMA StepInv ==
  ASSUME IInv, NEW t \in Thread, OthersStay(t),
         TypeOK' /\ LockExact' /\ Bounds',
         used' \subseteq used \/ lock = t,
         pc'[t] = "scan" => \A p \in first'[t]..first'[t] + bit'[t] - 1 : p \notin used',
         pc'[t] = "mark" =>
           \A p \in first'[t] + bit'[t]..first'[t] + cnt'[t] - 1 : p \notin used',
         \/ used' = used /\ Claim(t)' = Claim(t)
         \/ \E p : /\ p \notin used
                   /\ used' = used \cup {p} /\ Claim(t)' = Claim(t) \cup {p}
         \/ \E p \in Claim(t) : used' = used \ {p} /\ Claim(t)' = Claim(t) \ {p}
  PROVE  IInv'
<1>1. \A u \in Thread \ {t} : Claim(u)' = Claim(u)
  BY OthersKeepClaims DEF OthersStay
<1>2. NoPageTwice' /\ UsedClaimed' /\ ClaimedUsed'
  BY <1>1, ClaimsAfter
<1>3. ScannedClear'
  BY OthersScans DEF OthersStay, ScannedClear
<1> QED BY <1>2, <1>3 DEF IInv

LEMMA LockInv ==
  ASSUME IInv, NEW t \in Thread, NEW n \in 1..PoolSize + 1, Lock(t, n)
  PROVE  IInv'
<1> USE PallocAssumption
<1>1. OthersStay(t)
  BY DEF OthersStay, Lock, Goto, IInv, TypeOK
<1>2. TypeOK'
  BY DEF Lock, Goto, IInv, TypeOK
<1>3. LockExact'
  BY DEF Lock, Goto, IInv, TypeOK, LockExact
<1>4. Bounds'
  BY DEF Lock, Goto, IInv, TypeOK, Bounds
<1>5. pc'[t] = "scan" /\ first'[t] = 0 /\ bit'[t] = 0 /\ used' = used
  BY DEF Lock, Goto, IInv, TypeOK
<1>6. Claim(t)' = {} /\ Claim(t) = {}
  BY <1>5 DEF Claim, Lock
<1> QED BY <1>1, <1>2, <1>3, <1>4, <1>5, <1>6, StepInv

LEMMA ScanFailsInv ==
  ASSUME IInv, NEW t \in Thread, ScanFails(t)
  PROVE  IInv'
<1> USE PallocAssumption
<1>1. OthersStay(t)
  BY DEF OthersStay, ScanFails, Goto, IInv, TypeOK
<1>2. TypeOK'
  BY DEF ScanFails, Goto, IInv, TypeOK
<1>3. LockExact'
  BY DEF ScanFails, Goto, IInv, TypeOK, LockExact
<1>4. Bounds'
  BY DEF ScanFails, Goto, IInv, TypeOK, Bounds
<1>5. pc'[t] = "idle" /\ used' = used
  BY DEF ScanFails, Goto, IInv, TypeOK
<1>6. Claim(t)' = {} /\ Claim(t) = {}
  BY <1>5 DEF Claim, ScanFails
<1> QED BY <1>1, <1>2, <1>3, <1>4, <1>5, <1>6, StepInv

LEMMA ScanSetInv ==
  ASSUME IInv, NEW t \in Thread, ScanSet(t)
  PROVE  IInv'
<1>1. OthersStay(t)
  BY DEF OthersStay, ScanSet, IInv, TypeOK
<1>2. TypeOK'
  BY DEF ScanSet, IInv, TypeOK
<1>3. LockExact'
  BY DEF ScanSet, IInv, TypeOK, LockExact
<1>4. Bounds'
  BY DEF ScanSet, IInv, TypeOK, Bounds
<1>5. pc'[t] = "scan" /\ bit'[t] = 0 /\ used' = used /\ first'[t] \in Nat
  BY DEF ScanSet, IInv, TypeOK
<1>6. Claim(t)' = {} /\ Claim(t) = {}
  BY <1>5 DEF Claim, ScanSet
<1>7. \A p \in first'[t]..first'[t] + bit'[t] - 1 : p \notin used'
  BY <1>5
<1> QED BY <1>1, <1>2, <1>3, <1>4, <1>5, <1>6, <1>7, StepInv

LEMMA ScanClearInv ==
  ASSUME IInv, NEW t \in Thread, ScanClear(t)
  PROVE  IInv'
<1>1. OthersStay(t)
  BY DEF OthersStay, ScanClear, Goto, IInv, TypeOK
<1>2. TypeOK'
  BY DEF ScanClear, Goto, IInv, TypeOK
<1>3. LockExact'
  BY DEF ScanClear, Goto, IInv, TypeOK, LockExact
<1>4. Bounds'
  BY DEF ScanClear, Goto, IInv, TypeOK, Bounds
<1>5. \A p \in first[t]..first[t] + bit[t] : p \notin used
  BY DEF ScanClear, IInv, TypeOK, ScannedClear, Current
<1>6. CASE bit[t] + 1 < cnt[t]
  <2>1. /\ pc'[t] = "scan" /\ used' = used /\ first'[t] = first[t]
        /\ bit'[t] = bit[t] + 1
    BY <1>6 DEF ScanClear, IInv, TypeOK
  <2>2. \A p \in first'[t]..first'[t] + bit'[t] - 1 : p \notin used'
    BY <1>5, <2>1 DEF IInv, TypeOK
  <2>3. Claim(t)' = {} /\ Claim(t) = {}
    BY <2>1 DEF Claim, ScanClear
  <2> QED BY <1>1, <1>2, <1>3, <1>4, <2>1, <2>2, <2>3, StepInv
<1>7. CASE ~(bit[t] + 1 < cnt[t])
  <2>1. /\ pc'[t] = "mark" /\ used' = used /\ first'[t] = first[t]
        /\ cnt'[t] = cnt[t] /\ bit'[t] = 0
    BY <1>7 DEF ScanClear, Goto, IInv, TypeOK
  <2>2. \A p \in first'[t] + bit'[t]..first'[t] + cnt'[t] - 1 : p \notin used'
    BY <1>5, <1>7, <2>1 DEF IInv, TypeOK, Bounds, ScanClear
  <2>3. Claim(t)' = {} /\ Claim(t) = {}
    BY <2>1 DEF Claim, ScanClear, IInv, TypeOK
  <2> QED BY <1>1, <1>2, <1>3, <1>4, <2>1, <2>2, <2>3, StepInv
<1> QED BY <1>6, <1>7

LEMMA MarkInv ==
  ASSUME IInv, NEW t \in Thread, Mark(t)
  PROVE  IInv'
<1>1. OthersStay(t)
  BY DEF OthersStay, Mark, Goto, IInv, TypeOK
<1>2. Current(t) \in Page
  BY PallocAssumption DEF Mark, IInv, TypeOK, Bounds, Current, Page
<1>3. TypeOK'
  BY <1>2 DEF Mark, Goto, IInv, TypeOK
<1>4. LockExact'
  BY DEF Mark, Goto, IInv, TypeOK, LockExact
<1>5. Bounds'
  BY DEF Mark, Goto, IInv, TypeOK, Bounds
<1>6. lock = t
  BY DEF Mark, IInv, LockExact
<1>7. Current(t) \notin used /\ used' = used \cup {Current(t)}
  BY DEF Mark, IInv, TypeOK, Bounds, ScannedClear, Current
<1>8. Claim(t) = first[t]..first[t] + bit[t] - 1 /\ Current(t) = first[t] + bit[t]
  BY DEF Mark, Claim, Current
<1>9. CASE bit[t] + 1 < cnt[t]
  <2>1. /\ pc'[t] = "mark" /\ first'[t] = first[t] /\ cnt'[t] = cnt[t]
        /\ bit'[t] = bit[t] + 1
    BY <1>9 DEF Mark, IInv, TypeOK
  <2>2. \A p \in first'[t] + bit'[t]..first'[t] + cnt'[t] - 1 : p \notin used'
    BY <1>7, <1>8, <2>1 DEF Mark, IInv, TypeOK, ScannedClear
  <2>3. Claim(t)' = first[t]..first[t] + (bit[t] + 1) - 1
    BY <2>1 DEF Claim
  <2>4. Claim(t)' = Claim(t) \cup {Current(t)}
    BY <1>8, <2>3, Grows DEF IInv, TypeOK
  <2> QED BY <1>1, <1>3, <1>4, <1>5, <1>6, <1>7, <2>1, <2>2, <2>4, StepInv
<1>10. CASE ~(bit[t] + 1 < cnt[t])
  <2>1. pc'[t] = "unlock" /\ first'[t] = first[t] /\ cnt'[t] = cnt[t]
    BY <1>10 DEF Mark, Goto, IInv, TypeOK
  <2>2. cnt[t] = bit[t] + 1
    BY <1>10 DEF Mark, IInv, TypeOK, Bounds
  <2>3. Claim(t)' = first[t]..first[t] + (bit[t] + 1) - 1
    BY <2>1, <2>2 DEF Claim
  <2>4. Claim(t)' = Claim(t) \cup {Current(t)}
    BY <1>8, <2>3, Grows DEF IInv, TypeOK
  <2> QED BY <1>1, <1>3, <1>4, <1>5, <1>6, <1>7, <2>1, <2>4, StepInv
<1> QED BY <1>9, <1>10

LEMMA UnlockInv ==
  ASSUME IInv, NEW t \in Thread, Unlock(t)
  PROVE  IInv'
<1> USE PallocAssumption
<1>1. OthersStay(t)
  BY DEF OthersStay, Unlock, Goto, IInv, TypeOK
<1>2. TypeOK'
  BY DEF Unlock, Goto, IInv, TypeOK
<1>3. LockExact'
  BY DEF Unlock, Goto, IInv, TypeOK, LockExact
<1>4. Bounds'
  BY DEF Unlock, Goto, IInv, TypeOK, Bounds
<1>5. /\ pc'[t] = "own" /\ used' = used /\ first'[t] = first[t] /\ cnt'[t] = cnt[t]
  BY DEF Unlock, Goto, IInv, TypeOK
<1>6. Claim(t)' = Claim(t)
  BY <1>5 DEF Claim, Unlock
<1> QED BY <1>1, <1>2, <1>3, <1>4, <1>5, <1>6, StepInv

LEMMA PoisonInv ==
  ASSUME IInv, NEW t \in Thread, Poison(t)
  PROVE  IInv'
<1>1. OthersStay(t)
  BY DEF OthersStay, Poison, Goto, IInv, TypeOK
<1>2. TypeOK'
  BY PallocAssumption DEF Poison, Goto, IInv, TypeOK, Bounds, Page
<1>3. LockExact'
  BY DEF Poison, Goto, IInv, TypeOK, LockExact
<1>4. Bounds'
  BY DEF Poison, Goto, IInv, TypeOK, Bounds
<1>5. /\ pc'[t] = "clear" /\ used' = used /\ first'[t] = first[t] /\ cnt'[t] = cnt[t]
      /\ bit'[t] = 0
  BY DEF Poison, Goto, IInv, TypeOK, Bounds
<1>6. Claim(t)' = Claim(t)
  BY <1>5 DEF Claim, Poison, IInv, TypeOK
<1> QED BY <1>1, <1>2, <1>3, <1>4, <1>5, <1>6, StepInv

LEMMA ClearInv ==
  ASSUME IInv, NEW t \in Thread, Clear(t)
  PROVE  IInv'
<1>1. OthersStay(t)
  BY DEF OthersStay, Clear, Goto, IInv, TypeOK
<1>2. TypeOK'
  BY DEF Clear, Goto, IInv, TypeOK
<1>3. LockExact'
  BY DEF Clear, Goto, IInv, TypeOK, LockExact
<1>4. Bounds'
  BY DEF Clear, Goto, IInv, TypeOK, Bounds
<1>5. used' = used \ {Current(t)}
  BY DEF Clear
<1>6. Claim(t) = first[t] + bit[t]..first[t] + cnt[t] - 1 /\ Current(t) = first[t] + bit[t]
  BY DEF Clear, Claim, Current
<1>7. Current(t) \in Claim(t)
  BY <1>6 DEF Clear, IInv, TypeOK, Bounds
<1>8. CASE bit[t] + 1 < cnt[t]
  <2>1. /\ pc'[t] = "clear" /\ first'[t] = first[t] /\ cnt'[t] = cnt[t]
        /\ bit'[t] = bit[t] + 1
    BY <1>8 DEF Clear, IInv, TypeOK
  <2>2. Claim(t)' = first[t] + (bit[t] + 1)..first[t] + cnt[t] - 1
    BY <2>1 DEF Claim
  <2>3. Claim(t)' = Claim(t) \ {Current(t)}
    BY <1>6, <2>2, Shrinks DEF IInv, TypeOK
  <2> QED BY <1>1, <1>2, <1>3, <1>4, <1>5, <1>7, <2>1, <2>3, StepInv
<1>9. CASE ~(bit[t] + 1 < cnt[t])
  <2>1. pc'[t] = "idle"
    BY <1>9 DEF Clear, Goto, IInv, TypeOK
  <2>2. Claim(t)' = {}
    BY <2>1 DEF Claim
  <2>3. Claim(t) = {Current(t)}
    BY <1>6, <1>9, LastOne DEF Clear, IInv, TypeOK, Bounds
  <2> QED BY <1>1, <1>2, <1>3, <1>4, <1>5, <1>7, <2>1, <2>2, <2>3, StepInv
<1> QED BY <1>8, <1>9

LEMMA StutterInv ==
  ASSUME IInv, UNCHANGED vars
  PROVE  IInv'
BY DEF vars, IInv, TypeOK, LockExact, Bounds, ScannedClear, NoPageTwice,
       UsedClaimed, ClaimedUsed, Claim

LEMMA NextInv == IInv /\ [Next]_vars => IInv'
<1> SUFFICES ASSUME IInv, Next PROVE IInv'
  BY StutterInv
<1>1. PICK t \in Thread : (\E n \in 1..PoolSize + 1 : Lock(t, n)) \/ Step(t)
  BY DEF Next
<1>2. CASE \E n \in 1..PoolSize + 1 : Lock(t, n)
  BY <1>2, LockInv
<1>3. CASE Step(t)
  BY <1>3, ScanFailsInv, ScanSetInv, ScanClearInv, MarkInv, UnlockInv, PoisonInv,
     ClearInv DEF Step
<1> QED BY <1>1, <1>2, <1>3

\* IInv is an invariant of palloc_get_multiple and palloc_free_multiple.
THEOREM Invariance == Spec => []IInv
BY InitInv, NextInv, PTL DEF Spec

\* No page belongs to two blocks (palloc.c:65-91 against 103-126).
THEOREM PagesHaveOneOwner == Spec => []NoPageTwice
<1>1. IInv => NoPageTwice BY DEF IInv
<1> QED BY <1>1, Invariance, PTL

\* The bitmap says exactly which pages are claimed: no page is lost.
THEOREM BitmapIsExact == Spec => []BitmapExact
<1>1. IInv => BitmapExact BY DEF IInv, BitmapExact, UsedClaimed, ClaimedUsed
<1> QED BY <1>1, Invariance, PTL

\* The 0xcc fill of a free touches no page of another thread's block.
THEOREM FillsStayHome == Spec => FillStaysHome
<1> DEFINE Fill ==
      poisoned' # poisoned =>
        \A t \in Thread :
          pc[t] \in {"mark", "unlock", "own"} /\ pc'[t] = pc[t]
            => poisoned' \cap Claim(t) = {}
<1>1. IInv /\ [Next]_vars => [Fill]_vars
  <2> SUFFICES ASSUME IInv, Next, poisoned' # poisoned,
                      NEW u \in Thread,
                      pc[u] \in {"mark", "unlock", "own"}, pc'[u] = pc[u]
               PROVE  poisoned' \cap Claim(u) = {}
    BY DEF vars
  <2>1. PICK t \in Thread : Poison(t)
    BY DEF Next, Step, Lock, ScanFails, ScanSet, ScanClear, Mark, Unlock, Clear
  <2>2. u # t
    BY <2>1 DEF Poison, Goto, IInv, TypeOK
  <2>3. poisoned' = Claim(t)
    BY <2>1 DEF Poison, Claim
  <2> QED BY <2>2, <2>3 DEF IInv, NoPageTwice
<1> QED BY <1>1, Invariance, PTL DEF Spec, FillStaysHome
-------------------------------------------------------------------------------
(* The sbrk system call, for any pool and any size of pages and addresses.  *)
CONSTANTS PageSize, Start, Space, Pool, TableSpan, TableFails, Increment, BreakBound
VARIABLES brk, mapped, free, taken, lost, tables, call, result

Break == INSTANCE Sbrk

\* Sbrk counts pages with the same operator.
LEMMA SameCardinality == \A S : Break!Cardinality(S) = Cardinality(S)
BY DEF Break!Cardinality, Cardinality

\* Pages and the addresses in them.
LEMMA Div ==
  ASSUME NEW P \in Nat \ {0}, NEW a \in Nat
  PROVE  /\ a \div P \in Nat /\ (a \div P) * P <= a /\ a < (a \div P) * P + P
         /\ a % P = a - (a \div P) * P
OBVIOUS

LEMMA DivOnly ==
  ASSUME NEW P \in Nat \ {0}, NEW a \in Nat, NEW q \in Nat, q * P <= a, a < q * P + P
  PROVE  a \div P = q
OBVIOUS

LEMMA Times ==
  ASSUME NEW P \in Nat \ {0}, NEW x \in Int, NEW y \in Int, x <= y
  PROVE  x * P <= y * P /\ x * P \in Int
OBVIOUS

LEMMA DivMono ==
  ASSUME NEW P \in Nat \ {0}, NEW a \in Nat, NEW b \in Nat, a <= b
  PROVE  a \div P <= b \div P
<1>1. SUFFICES ASSUME b \div P + 1 <= a \div P PROVE FALSE
  BY Div
<1>2. (b \div P + 1) * P <= (a \div P) * P
  BY <1>1, Div, Times
<1>3. (b \div P + 1) * P = (b \div P) * P + P
  BY Div
<1>. QED BY <1>2, <1>3, Div

\* Addresses wrap by at most one turn.
LEMMA WrapIs ==
  ASSUME Break!SbrkAssumption
  PROVE  /\ \A a \in 0..Space - 1 : Break!Wrap(a) = a
         /\ \A a \in -Space..-1 : Break!Wrap(a) = a + Space
BY DEF Break!SbrkAssumption, Break!Wrap

LEMMA PageOf ==
  ASSUME Break!SbrkAssumption, NEW a \in Nat
  PROVE  /\ Break!PageNo(a) \in Nat /\ Break!PageNo(a) * PageSize \in Nat
         /\ Break!PageNo(a) * PageSize <= a /\ a < Break!PageNo(a) * PageSize + PageSize
         /\ a % PageSize = a - Break!PageNo(a) * PageSize
<1>. USE DEF Break!SbrkAssumption, Break!PageNo
<1>1. /\ Break!PageNo(a) \in Nat
      /\ Break!PageNo(a) * PageSize <= a /\ a < Break!PageNo(a) * PageSize + PageSize
      /\ a % PageSize = a - Break!PageNo(a) * PageSize
  BY Div
<1>. HIDE DEF Break!PageNo
<1>2. Break!PageNo(a) * PageSize \in Nat
  BY <1>1
<1>. QED BY <1>1, <1>2

LEMMA PageMono ==
  ASSUME Break!SbrkAssumption, NEW a \in Nat, NEW b \in Nat, a <= b PROVE Break!PageNo(a) <= Break!PageNo(b)
BY DivMono DEF Break!SbrkAssumption, Break!PageNo

\* Where pages begin.
LEMMA Begin ==
  ASSUME Break!SbrkAssumption, NEW p \in Nat
  PROVE  (p + 1) * PageSize = p * PageSize + PageSize /\ p * PageSize \in Nat
BY DEF Break!SbrkAssumption

LEMMA BeginMono ==
  ASSUME Break!SbrkAssumption, NEW p \in Nat, NEW q \in Nat, p <= q
  PROVE  p * PageSize <= q * PageSize
BY Times DEF Break!SbrkAssumption

\* The pages add up.
BreakSum ==
  /\ free \in Nat /\ taken \in Nat /\ lost \in Nat /\ IsFiniteSet(DOMAIN mapped)
  /\ free + taken + lost + Cardinality(DOMAIN mapped) = Pool
  /\ \A p \in DOMAIN mapped : mapped[p] \in {"zero", "data"}

\* A call of alloc under way has room below the end of the address space, and has
\* obtained at most the pages up to that of the new break.
CallInv ==
  /\ brk \in Start..Space - 1
  /\ call \in [phase : {"idle", "grow", "undo"}, inc : Increment \cup {0}, got : Nat]
  /\ call.phase = "idle" => call = Break!Idle
  /\ call.phase # "idle" =>
       /\ call.inc \in Increment /\ call.inc > 0 /\ brk <= BreakBound
       /\ call.got <= Break!PageNo(brk + call.inc) - Break!PageNo(brk)

\* Beyond the page of the break there are only pages of the call under way, and the
\* first page of an empty heap is there only while alloc grows it.
MappedInv ==
  /\ DOMAIN mapped \subseteq Break!PageNo(Start)..Break!PageNo(brk) + call.got
  /\ brk = Start /\ call.phase # "grow" => \A p \in DOMAIN mapped : p > Break!PageNo(brk)

HeapInv == BreakSum /\ CallInv /\ MappedInv /\ result \in -1..Space - 1

\* Steps and the sum of the pages.
LEMMA SetPageSum ==
  ASSUME BreakSum, taken' = taken, NEW p, p \notin DOMAIN mapped, Break!SetPage(p)
  PROVE  /\ BreakSum' /\ DOMAIN mapped' \subseteq DOMAIN mapped \cup {p}
         /\ \A q \in DOMAIN mapped : q \in DOMAIN mapped' /\ mapped'[q] = mapped[q]
<1>1. free > 0 /\ free' = free - 1
  BY DEF Break!SetPage
<1>2. Cardinality(DOMAIN mapped) \in Nat
  BY FS_CardinalityType DEF BreakSum
<1>3. CASE /\ mapped' = [q \in DOMAIN mapped \cup {p} |-> IF q = p THEN "zero" ELSE mapped[q]]
           /\ lost' = lost
  <2>1. DOMAIN mapped' = DOMAIN mapped \cup {p}
    BY <1>3
  <2>2. IsFiniteSet(DOMAIN mapped') /\ Cardinality(DOMAIN mapped') = Cardinality(DOMAIN mapped) + 1
    BY <2>1, FS_AddElement DEF BreakSum
  <2>3. free' + taken' + lost' + Cardinality(DOMAIN mapped') = Pool /\ free' \in Nat
    BY <1>1, <1>2, <1>3, <2>2 DEF BreakSum
  <2>4. /\ \A q \in DOMAIN mapped : q \in DOMAIN mapped' /\ mapped'[q] = mapped[q]
        /\ \A q \in DOMAIN mapped' : mapped'[q] \in {"zero", "data"}
    BY <1>3, <2>1 DEF BreakSum
  <2>5. taken' \in Nat /\ lost' \in Nat
    BY <1>3 DEF BreakSum
  <2>6. BreakSum'
    BY <2>2, <2>3, <2>4, <2>5 DEF BreakSum
  <2>. QED BY <2>1, <2>4, <2>6
<1>4. CASE lost' = lost + 1 /\ UNCHANGED mapped
  <2>1. BreakSum'
    BY <1>1, <1>2, <1>4 DEF BreakSum
  <2>. QED BY <1>4, <2>1
<1>. QED BY <1>3, <1>4 DEF Break!SetPage

LEMMA GiveBackSum ==
  ASSUME BreakSum, taken' = taken, NEW S, Break!GiveBack(S)
  PROVE  /\ BreakSum' /\ DOMAIN mapped' = DOMAIN mapped \ S
         /\ \A q \in DOMAIN mapped' : mapped'[q] = mapped[q]
<1>1. /\ mapped' = [q \in DOMAIN mapped \ S |-> mapped[q]] /\ lost' = lost
      /\ free' = free + Cardinality(S \cap DOMAIN mapped)
  BY SameCardinality DEF Break!GiveBack
<1>2. DOMAIN mapped' = DOMAIN mapped \ S /\ \A q \in DOMAIN mapped' : mapped'[q] = mapped[q]
  BY <1>1
<1>3. IsFiniteSet(DOMAIN mapped) /\ Cardinality(DOMAIN mapped) \in Nat
  BY FS_CardinalityType DEF BreakSum
<1>4. /\ IsFiniteSet(DOMAIN mapped') /\ Cardinality(S \cap DOMAIN mapped) \in Nat
      /\ Cardinality(DOMAIN mapped') \in Nat
      /\ Cardinality(DOMAIN mapped') = Cardinality(DOMAIN mapped) - Cardinality(S \cap DOMAIN mapped)
  <2>1. IsFiniteSet(S \cap DOMAIN mapped) /\ IsFiniteSet(DOMAIN mapped \ S)
    BY <1>3, FS_Subset
  <2>2. Cardinality(DOMAIN mapped \ S) = Cardinality(DOMAIN mapped) - Cardinality(DOMAIN mapped \cap S)
    BY <1>3, FS_Difference
  <2>3. DOMAIN mapped \cap S = S \cap DOMAIN mapped
    OBVIOUS
  <2>. QED BY <1>2, <2>1, <2>2, <2>3, FS_CardinalityType
<1>5. PICK c, d, n : /\ c = Cardinality(DOMAIN mapped) /\ d = Cardinality(DOMAIN mapped')
                     /\ n = Cardinality(S \cap DOMAIN mapped)
  OBVIOUS
<1>6. /\ c \in Nat /\ d \in Nat /\ n \in Nat /\ d = c - n /\ free' = free + n
      /\ free \in Nat /\ taken \in Nat /\ lost \in Nat /\ free + taken + lost + c = Pool
  BY <1>1, <1>3, <1>4, <1>5 DEF BreakSum
<1>7. free' \in Nat /\ taken' \in Nat /\ lost' \in Nat /\ free' + taken' + lost' + d = Pool
  BY <1>1, <1>6
<1>8. \A p \in DOMAIN mapped' : mapped'[p] \in {"zero", "data"}
  BY <1>2 DEF BreakSum
<1>9. BreakSum'
  BY <1>4, <1>5, <1>7, <1>8 DEF BreakSum
<1>. QED BY <1>2, <1>9

\* Pages and addresses of a heap whose invariant holds.
LEMMA InvFacts ==
  ASSUME Break!SbrkAssumption, CallInv
  PROVE  /\ brk \in Nat /\ brk \in Start..Space - 1 /\ Start \in Nat /\ Space \in Nat /\ Start <= brk
         /\ Break!PageNo(Start) \in Nat /\ Break!PageNo(brk) \in Nat /\ Break!PageNo(Space) \in Nat
         /\ Break!PageNo(Start) <= Break!PageNo(brk) /\ Break!PageNo(brk) <= Break!PageNo(Space)
         /\ call.got \in Nat /\ call.phase \in {"idle", "grow", "undo"}
         /\ call.phase = "idle" <=> call = Break!Idle
         /\ call.phase = "idle" => call.got = 0
<1>1. brk \in Nat /\ brk \in Start..Space - 1 /\ Start \in Nat /\ Space \in Nat /\ Start <= brk /\ brk <= Space
  BY DEF Break!SbrkAssumption, CallInv
<1>2. /\ call.got \in Nat /\ call.phase \in {"idle", "grow", "undo"}
      /\ call.phase = "idle" <=> call = Break!Idle
      /\ call.phase = "idle" => call.got = 0
  BY DEF CallInv, Break!Idle
<1>. QED BY <1>1, <1>2, PageOf, PageMono

\* alloc maps pages from the one after the break's to the one of the new break.
LEMMA Growing ==
  ASSUME Break!SbrkAssumption, CallInv, NEW inc \in Increment, inc > 0, brk <= BreakBound
  PROVE  /\ brk + inc \in Start..Space - 1 /\ brk + inc \in Nat /\ brk + inc > Start
         /\ Break!Wrap(brk + inc) = brk + inc
         /\ Break!Base = Break!PageNo(brk) + 1
         /\ Break!PageNo(brk + inc) \in Nat /\ Break!PageNo(brk) <= Break!PageNo(brk + inc)
         /\ Break!PageNo(brk + inc) <= Break!PageNo(Space)
<1>1. /\ brk \in Nat /\ inc \in Nat /\ brk + inc \in Start..Space - 1 /\ Start \in Nat
      /\ brk + inc \in Nat /\ PageSize \in Nat \ {0} /\ brk <= brk + inc /\ brk + inc <= Space
      /\ brk + inc > Start /\ Space \in Nat
  BY DEF Break!SbrkAssumption, CallInv
<1>2. Break!Wrap(brk + inc) = brk + inc
  BY <1>1, WrapIs
<1>3. Break!PageNo(brk) \in Nat /\ Break!PageNo(brk + inc) \in Nat /\ PageSize \in Nat \ {0}
  BY <1>1, PageOf
<1>4. (brk + PageSize) \div PageSize = Break!PageNo(brk) + 1
  <2>1. Break!PageNo(brk) * PageSize <= brk /\ brk < Break!PageNo(brk) * PageSize + PageSize
    BY <1>1, PageOf
  <2>2. (Break!PageNo(brk) + 1) * PageSize = Break!PageNo(brk) * PageSize + PageSize /\ Break!PageNo(brk) * PageSize \in Nat
    BY <1>3, Begin
  <2>3. /\ Break!PageNo(brk) + 1 \in Nat /\ brk + PageSize \in Nat
        /\ (Break!PageNo(brk) + 1) * PageSize <= brk + PageSize
        /\ brk + PageSize < (Break!PageNo(brk) + 1) * PageSize + PageSize
    BY <1>1, <1>3, <2>1, <2>2
  <2>. QED BY <1>3, <2>3, DivOnly
<1>5. Break!RoundUp(brk + 1) = (Break!PageNo(brk) + 1) * PageSize
  <2>1. brk + 1 + PageSize - 1 = brk + PageSize
    BY <1>1
  <2>. QED BY <1>4, <2>1 DEF Break!RoundUp
<1>6. Break!Base = Break!PageNo(brk) + 1
  <2>1. PICK q : q = Break!PageNo(brk) + 1
    OBVIOUS
  <2>2. q \in Nat /\ q * PageSize \in Nat
    BY <1>3, <2>1, Begin
  <2>3. (q * PageSize) \div PageSize = q
    BY <1>3, <2>2, DivOnly
  <2>. QED BY <1>5, <2>1, <2>3 DEF Break!PageNo, Break!Base
<1>7. Break!PageNo(brk) <= Break!PageNo(brk + inc) /\ Break!PageNo(brk + inc) <= Break!PageNo(Space)
  BY <1>1, PageMono
<1>. QED BY <1>1, <1>2, <1>3, <1>6, <1>7

LEMMA CallIs ==
  ASSUME Break!SbrkAssumption, CallInv, call.phase # "idle"
  PROVE  /\ call.inc \in Increment /\ call.inc > 0 /\ brk <= BreakBound
         /\ brk + call.inc \in Start..Space - 1 /\ brk + call.inc > Start
         /\ Break!Wrap(brk + call.inc) = brk + call.inc
         /\ Break!Base = Break!PageNo(brk) + 1
         /\ Break!PageNo(brk + call.inc) \in Nat /\ Break!PageNo(brk + call.inc) <= Break!PageNo(Space)
         /\ Break!Wanted = Break!PageNo(brk + call.inc) - Break!PageNo(brk)
         /\ call.got <= Break!PageNo(brk + call.inc) - Break!PageNo(brk)
<1>1. /\ call.inc \in Increment /\ call.inc > 0 /\ brk <= BreakBound
      /\ call.got <= Break!PageNo(brk + call.inc) - Break!PageNo(brk)
  BY DEF CallInv
<1>. QED BY <1>1, Growing DEF Break!Wanted

\* What the process had written is kept by a step, and a break that falls leaves nothing
\* above it.
Kept ==
  \A p \in DOMAIN mapped :
    p * PageSize < brk /\ p * PageSize < brk' /\ ~Break!WrappedAway(p)
      => p \in DOMAIN mapped' /\ mapped'[p] = mapped[p]
Lowered == brk' < brk => \A p \in DOMAIN mapped' : p * PageSize < brk'

StepGood == HeapInv' /\ Kept /\ Lowered

LEMMA HeapInitInv == Break!SbrkAssumption /\ Break!Init => HeapInv
<1>1. SUFFICES ASSUME Break!SbrkAssumption, Break!Init PROVE HeapInv
  OBVIOUS
<1>2. /\ brk = Start /\ DOMAIN mapped = {} /\ free = Pool /\ taken = 0 /\ lost = 0
      /\ result = Start /\ call = Break!Idle
  BY <1>1 DEF Break!Init
<1>3. Cardinality(DOMAIN mapped) = 0 /\ IsFiniteSet(DOMAIN mapped)
  BY <1>2, FS_EmptySet
<1>4. Start \in 0..Space - 1 /\ Space \in Nat /\ Pool \in Nat
  BY <1>1 DEF Break!SbrkAssumption
<1>. QED BY <1>2, <1>3, <1>4 DEF HeapInv, BreakSum, CallInv, MappedInv, Break!Idle

\* A break that stays: what is left to show of the step.
LEMMA SameBreak ==
  ASSUME Break!SbrkAssumption, HeapInv, brk' = brk
  PROVE  /\ Lowered
         /\ (\A p \in DOMAIN mapped : p * PageSize < brk => p \in DOMAIN mapped' /\ mapped'[p] = mapped[p]) => Kept
<1>1. brk \in Nat
  BY InvFacts DEF HeapInv
<1>. QED BY <1>1 DEF Lowered, Kept

LEMMA AllocStartGood ==
  ASSUME Break!SbrkAssumption, HeapInv, NEW inc \in Increment, Break!AllocStart(inc) PROVE StepGood
<1>1. /\ call = Break!Idle /\ inc > 0 /\ brk <= BreakBound /\ brk' = brk /\ taken' = taken
      /\ call.phase = "idle" /\ call.got = 0
  BY DEF Break!AllocStart, Break!Idle
<1>2. CASE brk = Start /\ free = 0
  <2>1. result' = -1 /\ UNCHANGED <<mapped, free, lost, call>>
    BY <1>2 DEF Break!AllocStart
  <2>2. HeapInv'
    BY <1>1, <2>1 DEF HeapInv, BreakSum, CallInv, MappedInv, Break!SbrkAssumption
  <2>. QED BY <1>1, <2>1, <2>2, SameBreak DEF StepGood
<1>3. CASE ~(brk = Start /\ free = 0)
  <2>1. /\ call' = [phase |-> "grow", inc |-> inc, got |-> 0] /\ result' = result
        /\ IF brk = Start THEN Break!SetPage(Break!PageNo(Start)) ELSE UNCHANGED <<mapped, free, lost, tables>>
    BY <1>3 DEF Break!AllocStart
  <2>2. CallInv'
    <3>1. 0 <= Break!PageNo(brk + inc) - Break!PageNo(brk)
      BY <1>1, Growing, InvFacts DEF HeapInv
    <3>. QED BY <1>1, <2>1, <3>1 DEF HeapInv, CallInv
  <2>3. CASE brk = Start
    <3>1. Break!PageNo(Start) \notin DOMAIN mapped
      BY <1>1, <2>3, InvFacts DEF HeapInv, MappedInv
    <3>2. /\ BreakSum' /\ DOMAIN mapped' \subseteq DOMAIN mapped \cup {Break!PageNo(Start)}
          /\ \A q \in DOMAIN mapped : q \in DOMAIN mapped' /\ mapped'[q] = mapped[q]
      BY <1>1, <2>1, <2>3, <3>1, SetPageSum DEF HeapInv
    <3>3. MappedInv'
      BY <1>1, <2>1, <2>3, <3>2, InvFacts DEF HeapInv, MappedInv
    <3>. QED BY <1>1, <2>1, <2>2, <3>2, <3>3, SameBreak DEF StepGood, HeapInv
  <2>4. CASE brk # Start
    <3>1. BreakSum' /\ MappedInv'
      BY <1>1, <2>1, <2>4 DEF HeapInv, BreakSum, MappedInv
    <3>. QED BY <1>1, <2>1, <2>2, <2>4, <3>1, SameBreak DEF StepGood, HeapInv
  <2>. QED BY <2>3, <2>4
<1>. QED BY <1>2, <1>3

LEMMA AllocGrowGood ==
  ASSUME Break!SbrkAssumption, HeapInv, Break!AllocGrow PROVE StepGood
<1>1. /\ call.phase = "grow" /\ call.got < Break!Wanted
      /\ brk' = brk /\ taken' = taken /\ result' = result
  BY DEF Break!AllocGrow
<1>2. /\ Break!Base = Break!PageNo(brk) + 1 /\ Break!PageNo(brk) \in Nat /\ call.got \in Nat
      /\ Break!Wanted = Break!PageNo(brk + call.inc) - Break!PageNo(brk)
      /\ Break!PageNo(brk + call.inc) \in Nat /\ Break!PageNo(Start) \in Nat
      /\ Break!PageNo(Start) <= Break!PageNo(brk) /\ brk \in Nat
  BY <1>1, CallIs, InvFacts DEF HeapInv
<1>3. CASE Break!SetPage(Break!Base + call.got) /\ call' = [call EXCEPT !.got = call.got + 1]
  <2>1. Break!Base + call.got = Break!PageNo(brk) + call.got + 1 /\ Break!Base + call.got \notin DOMAIN mapped
    BY <1>2 DEF HeapInv, MappedInv
  <2>2. /\ BreakSum' /\ DOMAIN mapped' \subseteq DOMAIN mapped \cup {Break!Base + call.got}
        /\ \A q \in DOMAIN mapped : q \in DOMAIN mapped' /\ mapped'[q] = mapped[q]
    BY <1>1, <1>3, <2>1, SetPageSum DEF HeapInv
  <2>3. call'.got = call.got + 1 /\ call'.phase = "grow" /\ call'.inc = call.inc
    BY <1>1, <1>3 DEF HeapInv, CallInv
  <2>4. call.got + 1 <= Break!PageNo(brk + call.inc) - Break!PageNo(brk) /\ call.got + 1 \in Nat
    BY <1>1, <1>2
  <2>5. CallInv'
    BY <1>1, <1>3, <2>3, <2>4 DEF HeapInv, CallInv
  <2>6. MappedInv'
    BY <1>1, <1>2, <2>1, <2>2, <2>3 DEF HeapInv, MappedInv
  <2>. QED BY <1>1, <2>2, <2>5, <2>6, SameBreak DEF StepGood, HeapInv
<1>4. CASE Break!GiveBack(Break!FirstPage) /\ call' = [call EXCEPT !.phase = "undo"]
  <2>1. /\ BreakSum' /\ DOMAIN mapped' = DOMAIN mapped \ Break!FirstPage
        /\ \A q \in DOMAIN mapped' : mapped'[q] = mapped[q]
    BY <1>1, <1>4, GiveBackSum DEF HeapInv
  <2>2. call'.got = call.got /\ call'.phase = "undo" /\ call'.inc = call.inc
    BY <1>1, <1>4 DEF HeapInv, CallInv
  <2>3. CallInv'
    BY <1>1, <1>4, <2>2 DEF HeapInv, CallInv
  <2>4. Break!FirstPage = IF brk = Start THEN {Break!PageNo(Start)} ELSE {}
    BY DEF Break!FirstPage
  <2>5. MappedInv'
    BY <1>1, <1>2, <2>1, <2>2, <2>4 DEF HeapInv, MappedInv
  <2>6. ASSUME NEW p \in DOMAIN mapped, p * PageSize < brk PROVE p \notin Break!FirstPage
    <3>1. SUFFICES ASSUME brk = Start, p = Break!PageNo(Start) PROVE FALSE
      BY <2>4
    <3>2. Start % PageSize = 0 /\ Start % PageSize = Start - Break!PageNo(Start) * PageSize
          /\ Start \in Nat /\ Break!PageNo(Start) * PageSize \in Nat
      BY <3>1, <1>2, PageOf DEF Break!SbrkAssumption
    <3>. QED BY <2>6, <3>1, <3>2
  <2>7. Kept
    BY <1>1, <2>1, <2>6, SameBreak
  <2>. QED BY <1>1, <2>1, <2>3, <2>5, <2>7, SameBreak DEF StepGood, HeapInv
<1>. QED BY <1>3, <1>4 DEF Break!AllocGrow

LEMMA AllocUndoGood ==
  ASSUME Break!SbrkAssumption, HeapInv, Break!AllocUndo PROVE StepGood
<1>1. call.phase = "undo" /\ brk' = brk /\ taken' = taken
  BY DEF Break!AllocUndo
<1>2. /\ Break!Base = Break!PageNo(brk) + 1 /\ Break!PageNo(brk) \in Nat /\ call.got \in Nat
      /\ Break!PageNo(Start) \in Nat /\ brk \in Nat
  BY <1>1, CallIs, InvFacts DEF HeapInv
<1>3. CASE call.got > 0
  <2>1. /\ Break!GiveBack(Break!Undone) /\ call' = [call EXCEPT !.got = call.got - 1] /\ result' = result
    BY <1>3 DEF Break!AllocUndo
  <2>2. Break!Undone = {Break!PageNo(brk) + call.got}
    BY <1>2 DEF Break!Undone
  <2>3. /\ BreakSum' /\ DOMAIN mapped' = DOMAIN mapped \ Break!Undone
        /\ \A q \in DOMAIN mapped' : mapped'[q] = mapped[q]
    BY <1>1, <2>1, GiveBackSum DEF HeapInv
  <2>4. call'.got = call.got - 1 /\ call'.phase = "undo" /\ call'.inc = call.inc
    BY <1>1, <2>1 DEF HeapInv, CallInv
  <2>5. CallInv'
    <3>1. call.got - 1 \in Nat
      BY <1>2, <1>3
    <3>2. PICK n : n = Break!PageNo(brk + call.inc) - Break!PageNo(brk)
      OBVIOUS
    <3>3. call.got - 1 <= n
      <4>1. n \in Int /\ call.got <= n
        BY <1>1, <1>2, <3>2, CallIs DEF HeapInv
      <4>. QED BY <1>2, <4>1
    <3>. QED BY <1>1, <2>1, <2>4, <3>1, <3>2, <3>3 DEF HeapInv, CallInv
  <2>6. MappedInv'
    BY <1>1, <1>2, <1>3, <2>2, <2>3, <2>4 DEF HeapInv, MappedInv
  <2>7. ASSUME NEW p \in DOMAIN mapped, p * PageSize < brk PROVE p \notin Break!Undone
    <3>1. SUFFICES ASSUME p = Break!PageNo(brk) + call.got PROVE FALSE
      BY <2>2
    <3>2. Break!PageNo(brk) + 1 \in Nat /\ p \in Nat /\ Break!PageNo(brk) + 1 <= p
      BY <1>2, <1>3, <3>1
    <3>3. (Break!PageNo(brk) + 1) * PageSize <= p * PageSize
      BY <3>2, BeginMono
    <3>4. /\ (Break!PageNo(brk) + 1) * PageSize = Break!PageNo(brk) * PageSize + PageSize
          /\ brk < Break!PageNo(brk) * PageSize + PageSize
          /\ p * PageSize \in Nat /\ Break!PageNo(brk) * PageSize \in Nat /\ PageSize \in Nat
      BY <1>2, <3>2, Begin, PageOf DEF Break!SbrkAssumption
    <3>. QED BY <1>2, <2>7, <3>3, <3>4
  <2>8. Kept
    BY <1>1, <2>3, <2>7, SameBreak
  <2>. QED BY <1>1, <2>1, <2>3, <2>5, <2>6, <2>8, SameBreak DEF StepGood, HeapInv
<1>4. CASE ~(call.got > 0)
  <2>1. result' = -1 /\ call' = Break!Idle /\ UNCHANGED <<mapped, free, lost>> /\ call.got = 0
    BY <1>2, <1>4 DEF Break!AllocUndo
  <2>2. call'.got = 0 /\ call'.phase = "idle" /\ call'.inc = 0
    BY <2>1 DEF Break!Idle
  <2>3. BreakSum' /\ MappedInv' /\ CallInv'
    BY <1>1, <2>1, <2>2 DEF HeapInv, BreakSum, MappedInv, CallInv, Break!Idle
  <2>4. result' \in -1..Space - 1
    BY <2>1, InvFacts DEF HeapInv
  <2>. QED BY <1>1, <2>1, <2>3, <2>4, SameBreak DEF StepGood, HeapInv
<1>. QED BY <1>3, <1>4

LEMMA AllocDoneGood ==
  ASSUME Break!SbrkAssumption, HeapInv, Break!AllocDone PROVE StepGood
<1>1. /\ call.phase = "grow" /\ call.got = Break!Wanted
      /\ brk' = Break!Wrap(brk + call.inc) /\ result' = brk /\ call' = Break!Idle
      /\ UNCHANGED <<mapped, free, taken, lost, tables>>
  BY DEF Break!AllocDone
<1>2. /\ brk' = brk + call.inc /\ brk' \in Start..Space - 1 /\ brk' > Start
      /\ Break!PageNo(brk + call.inc) \in Nat
      /\ call.got = Break!PageNo(brk + call.inc) - Break!PageNo(brk)
      /\ Break!PageNo(brk) \in Nat /\ brk \in Nat /\ brk \in Start..Space - 1 /\ brk' > brk
      /\ Start \in Nat /\ Space \in Nat
  <2>1. /\ call.inc \in Increment /\ call.inc > 0 /\ brk + call.inc \in Start..Space - 1
        /\ brk + call.inc > Start /\ Break!Wrap(brk + call.inc) = brk + call.inc
        /\ Break!PageNo(brk + call.inc) \in Nat
        /\ Break!Wanted = Break!PageNo(brk + call.inc) - Break!PageNo(brk)
    <3>1. CallInv /\ call.phase # "idle"
      BY <1>1 DEF HeapInv
    <3>. QED BY <3>1, CallIs
  <2>2. /\ Break!PageNo(brk) \in Nat /\ brk \in Nat /\ brk \in Start..Space - 1
        /\ Start \in Nat /\ Space \in Nat
    BY InvFacts DEF HeapInv
  <2>3. call.inc \in Int
    <3>1. ASSUME NEW i \in Increment PROVE i \in Int
      BY <3>1, InvFacts DEF HeapInv, Break!SbrkAssumption
    <3>. QED BY <2>1, <3>1
  <2>4. brk' = brk + call.inc
    BY <1>1, <2>1
  <2>5. brk + call.inc > brk
    BY <2>1, <2>2, <2>3
  <2>. QED BY <1>1, <2>1, <2>2, <2>4, <2>5
<1>3. call'.got = 0 /\ call'.phase = "idle" /\ call'.inc = 0
  BY <1>1 DEF Break!Idle
<1>4. CallInv'
  BY <1>1, <1>2, <1>3 DEF CallInv, Break!Idle
<1>5. Break!PageNo(brk') = Break!PageNo(brk) + call.got
  BY <1>2
<1>6. BreakSum' /\ MappedInv'
  BY <1>1, <1>2, <1>3, <1>5 DEF HeapInv, BreakSum, MappedInv
<1>7. result' \in -1..Space - 1
  BY <1>1, <1>2
<1>8. Kept /\ Lowered
  BY <1>1, <1>2 DEF Kept, Lowered
<1>. QED BY <1>4, <1>6, <1>7, <1>8 DEF StepGood, HeapInv

-----------------------------------------------------------------------------
\* dealloc to a break that is an address of the heap's: which pages go, which stay.
LEMMA NewBreak ==
  ASSUME Break!SbrkAssumption, CallInv, NEW inc \in Increment, inc < 0, ~(Break!Wrap(brk + inc) < Start)
  PROVE  Break!Wrap(brk + inc) \in Start..Space - 1 /\ Break!Wrap(brk + inc) # brk
<1>1. /\ brk \in 0..Space - 1 /\ Start \in Nat /\ Space \in Nat
      /\ inc \in -(Space - 1)..-1
  BY InvFacts DEF Break!SbrkAssumption
<1>2. CASE brk + inc \in 0..Space - 1
  BY <1>1, <1>2, WrapIs
<1>3. CASE brk + inc \in -Space..-1
  BY <1>1, <1>3, WrapIs
<1>. QED BY <1>1, <1>2, <1>3

LEMMA ShrunkAre ==
  ASSUME Break!SbrkAssumption, HeapInv, call = Break!Idle,
         NEW inc \in Increment, inc < 0, ~(Break!Wrap(brk + inc) < Start),
         NEW new, new = Break!Wrap(brk + inc)
  PROVE  /\ new \in Start..Space - 1
         /\ \A p \in DOMAIN mapped : p > Break!PageNo(new) => p \in Break!Shrunk(inc)
         /\ new = Start => DOMAIN mapped \subseteq Break!Shrunk(inc)
         /\ \A p \in DOMAIN mapped :
              p * PageSize < brk /\ p * PageSize < new /\ ~(new > brk /\ p = Break!PageNo(brk))
                => p \notin Break!Shrunk(inc)
         /\ new < brk => \A p \in DOMAIN mapped : p \notin Break!Shrunk(inc) => p * PageSize < new
<1>0. PICK b, n : b = Break!PageNo(brk) /\ n = Break!PageNo(new)
  OBVIOUS
<1>1. /\ new \in Start..Space - 1 /\ new \in Nat /\ brk \in Nat /\ Start \in Nat /\ Space \in Nat
      /\ new <= Space /\ brk <= Space /\ new # brk /\ Start <= brk
  BY NewBreak, InvFacts DEF HeapInv
<1>2. b \in Nat /\ n \in Nat /\ Break!PageNo(Start) \in Nat /\ PageSize \in Nat \ {0}
  BY <1>0, <1>1, PageOf DEF Break!SbrkAssumption
<1>3. (new <= brk => n <= b) /\ (brk <= new => b <= n)
  BY <1>0, <1>1, PageMono
<1>4. DOMAIN mapped \subseteq Break!PageNo(Start)..b
  <2>1. call.got = 0
    BY DEF Break!Idle
  <2>. QED BY <1>0, <1>2, <2>1 DEF HeapInv, MappedInv
<1>. DEFINE gone == Break!Positive(b - n)
<1>5. gone \in Nat /\ (n <= b => gone = b - n) /\ (b <= n => gone = 0)
  BY <1>2 DEF Break!Positive
<1>6. Break!Shrunk(inc) = {b - i : i \in 0..gone - 1} \cup (IF new % PageSize = 0 THEN {b - gone} ELSE {})
  BY <1>0 DEF Break!Shrunk
<1>. HIDE DEF gone
<1>7. ASSUME NEW p \in Int
      PROVE p \in Break!Shrunk(inc) <=> (n < p /\ p <= b) \/ (new % PageSize = 0 /\ p = b - gone)
  <2>1. ASSUME n < p, p <= b PROVE \E i \in 0..gone - 1 : p = b - i
    <3>1. b - p \in 0..gone - 1 /\ p = b - (b - p)
      BY <1>2, <1>5, <1>7, <2>1
    <3>. QED BY <3>1
  <2>2. ASSUME NEW i \in 0..gone - 1, p = b - i PROVE n < p /\ p <= b
    <3>1. CASE n <= b
      BY <1>2, <1>5, <2>2, <3>1
    <3>2. CASE b <= n
      BY <1>5, <2>2, <3>2
    <3>. QED BY <1>2, <3>1, <3>2
  <2>. QED BY <1>6, <2>1, <2>2
<1>8. \A p \in DOMAIN mapped : p \in Nat /\ p <= b
  BY <1>2, <1>4
<1>9. \A p \in DOMAIN mapped : p > n => p \in Break!Shrunk(inc)
  BY <1>2, <1>7, <1>8
<1>10. ASSUME new = Start, NEW p \in DOMAIN mapped PROVE p \in Break!Shrunk(inc)
  <2>1. new % PageSize = 0 /\ new <= brk /\ n = Break!PageNo(Start)
    BY <1>0, <1>1, <1>10 DEF Break!SbrkAssumption
  <2>2. b - gone = n
    BY <1>2, <1>3, <1>5, <2>1
  <2>. QED BY <1>2, <1>4, <1>7, <1>8, <2>1, <2>2
<1>11. /\ n * PageSize \in Nat /\ b * PageSize \in Nat /\ n * PageSize <= new
       /\ new < n * PageSize + PageSize /\ brk < b * PageSize + PageSize
       /\ new % PageSize = new - n * PageSize
  BY <1>0, <1>1, PageOf
<1>12. ASSUME NEW p \in DOMAIN mapped, p * PageSize < brk, p * PageSize < new,
              ~(new > brk /\ p = b), p \in Break!Shrunk(inc)
       PROVE FALSE
  <2>1. p \in Nat /\ p * PageSize \in Nat
    BY <1>8, Begin
  <2>2. (n + 1) * PageSize = n * PageSize + PageSize
    BY <1>2, Begin
  <2>3. ~(n < p)
    <3>1. SUFFICES ASSUME n < p PROVE FALSE
      OBVIOUS
    <3>2. n + 1 \in Nat /\ n + 1 <= p
      BY <1>2, <2>1, <3>1
    <3>3. (n + 1) * PageSize <= p * PageSize
      BY <2>1, <3>2, BeginMono
    <3>. QED BY <1>1, <1>2, <1>11, <1>12, <2>1, <2>2, <3>3
  <2>4. new % PageSize = 0 /\ p = b - gone
    BY <1>7, <1>12, <2>1, <2>3
  <2>5. p # n
    BY <1>1, <1>11, <1>12, <2>4
  <2>6. CASE n <= b
    BY <1>2, <1>5, <2>4, <2>5, <2>6
  <2>7. CASE b <= n
    <3>1. p = b
      BY <1>2, <1>5, <2>4, <2>7
    <3>2. b < n /\ ~(new > brk)
      BY <1>2, <1>12, <2>5, <2>7, <3>1
    <3>. QED BY <1>1, <1>2, <1>3, <3>2
  <2>. QED BY <1>2, <2>6, <2>7
<1>13. ASSUME new < brk, NEW p \in DOMAIN mapped, p \notin Break!Shrunk(inc) PROVE p * PageSize < new
  <2>1. p \in Nat /\ p * PageSize \in Nat /\ p <= b
    BY <1>8, Begin
  <2>2. n <= b /\ gone = b - n /\ b - gone = n
    BY <1>1, <1>2, <1>3, <1>5, <1>13
  <2>3. p <= n /\ ~(new % PageSize = 0 /\ p = n)
    BY <1>2, <1>7, <1>13, <2>1, <2>2
  <2>4. CASE p = n
    BY <1>1, <1>11, <2>3, <2>4
  <2>5. CASE p + 1 <= n
    <3>1. (p + 1) * PageSize <= n * PageSize /\ (p + 1) * PageSize = p * PageSize + PageSize
      <4>1. p + 1 \in Nat
        BY <2>1
      <4>. QED BY <1>2, <2>1, <2>5, <4>1, BeginMono, Begin
    <3>. QED BY <1>1, <1>2, <1>11, <2>1, <3>1
  <2>. QED BY <1>2, <2>1, <2>3, <2>4, <2>5
<1>14. \A p \in DOMAIN mapped :
         p * PageSize < brk /\ p * PageSize < new /\ ~(new > brk /\ p = b) => p \notin Break!Shrunk(inc)
  BY <1>12
<1>15. new < brk => \A p \in DOMAIN mapped : p \notin Break!Shrunk(inc) => p * PageSize < new
  BY <1>13
<1>. QED BY <1>0, <1>1, <1>9, <1>10, <1>14, <1>15

LEMMA DeallocGood ==
  ASSUME Break!SbrkAssumption, HeapInv, NEW inc \in Increment, Break!Dealloc(inc) PROVE StepGood
<1>0. PICK new : new = Break!Wrap(brk + inc)
  OBVIOUS
<1>1. call = Break!Idle /\ inc < 0 /\ call' = call /\ taken' = taken /\ call.phase = "idle" /\ call.got = 0
  BY DEF Break!Dealloc, Break!Idle
<1>2. CASE new < Start
  <2>1. result' = -1 /\ UNCHANGED <<brk, mapped, free, lost>>
    BY <1>0, <1>2 DEF Break!Dealloc
  <2>2. result' \in -1..Space - 1
    BY <2>1, InvFacts DEF HeapInv
  <2>3. BreakSum' /\ CallInv' /\ MappedInv'
    BY <1>1, <2>1 DEF HeapInv, BreakSum, CallInv, MappedInv
  <2>. QED BY <2>1, <2>2, <2>3, SameBreak DEF StepGood, HeapInv
<1>3. CASE ~(new < Start)
  <2>1. Break!GiveBack(Break!Shrunk(inc)) /\ brk' = new /\ result' = brk
    BY <1>0, <1>3 DEF Break!Dealloc
  <2>2. /\ new \in Start..Space - 1
        /\ \A p \in DOMAIN mapped : p > Break!PageNo(new) => p \in Break!Shrunk(inc)
        /\ new = Start => DOMAIN mapped \subseteq Break!Shrunk(inc)
        /\ \A p \in DOMAIN mapped :
             p * PageSize < brk /\ p * PageSize < new /\ ~(new > brk /\ p = Break!PageNo(brk))
               => p \notin Break!Shrunk(inc)
        /\ new < brk => \A p \in DOMAIN mapped : p \notin Break!Shrunk(inc) => p * PageSize < new
    BY <1>0, <1>1, <1>3, ShrunkAre
  <2>3. /\ BreakSum' /\ DOMAIN mapped' = DOMAIN mapped \ Break!Shrunk(inc)
        /\ \A q \in DOMAIN mapped' : mapped'[q] = mapped[q]
    BY <1>1, <2>1, GiveBackSum DEF HeapInv
  <2>4. new \in Nat /\ Break!PageNo(new) \in Nat /\ Break!PageNo(Start) \in Nat /\ Break!PageNo(brk) \in Nat
        /\ brk \in -1..Space - 1
    <3>1. new \in Nat
      BY <2>2, InvFacts DEF HeapInv
    <3>. QED BY <3>1, PageOf, InvFacts DEF HeapInv
  <2>5. CallInv'
    BY <1>1, <2>1, <2>2 DEF HeapInv, CallInv
  <2>6. DOMAIN mapped' \subseteq Break!PageNo(Start)..Break!PageNo(new)
    <3>1. DOMAIN mapped \subseteq Break!PageNo(Start)..Break!PageNo(brk)
      BY <1>1, <2>4 DEF HeapInv, MappedInv
    <3>. QED BY <2>2, <2>3, <2>4, <3>1
  <2>7. MappedInv'
    <3>1. new = Start => DOMAIN mapped' = {}
      BY <2>2, <2>3
    <3>2. Break!PageNo(new) + 0 = Break!PageNo(new) /\ call'.got = 0
      BY <1>1, <2>4
    <3>3. DOMAIN mapped' \subseteq Break!PageNo(Start)..Break!PageNo(brk') + call'.got
      BY <2>1, <2>6, <3>2
    <3>. QED BY <2>1, <3>1, <3>3 DEF MappedInv
  <2>8. Kept
    BY <1>1, <2>1, <2>2, <2>3 DEF Kept, Break!WrappedAway
  <2>9. Lowered
    BY <2>1, <2>2, <2>3 DEF Lowered
  <2>. QED BY <2>1, <2>3, <2>4, <2>5, <2>7, <2>8, <2>9 DEF StepGood, HeapInv
<1>. QED BY <1>2, <1>3

LEMMA CallGood == ASSUME Break!SbrkAssumption, HeapInv, Break!SbrkCall PROVE StepGood
<1>1. CASE Break!Query
  <2>1. result' = brk /\ UNCHANGED <<brk, mapped, free, taken, lost, call>> /\ brk \in -1..Space - 1
    BY <1>1, InvFacts DEF Break!Query, HeapInv
  <2>2. HeapInv'
    BY <2>1 DEF HeapInv, BreakSum, CallInv, MappedInv
  <2>. QED BY <2>1, <2>2, SameBreak DEF StepGood
<1>2. ASSUME NEW inc \in Increment, Break!AllocStart(inc) \/ Break!Dealloc(inc) PROVE StepGood
  BY <1>2, AllocStartGood, DeallocGood
<1>. QED BY <1>1, <1>2, AllocGrowGood, AllocUndoGood, AllocDoneGood DEF Break!SbrkCall

\* Each step keeps the invariant and leaves nothing above a break that falls; one of
\* sbrk keeps what the process has written.
LEMMA HeapNextGood ==
  ASSUME Break!SbrkAssumption, HeapInv, [Break!Next]_(Break!vars)
  PROVE  HeapInv' /\ Lowered /\ (Break!SbrkCall => Kept)
<1>1. CASE Break!SbrkCall
  BY <1>1, CallGood DEF StepGood
<1>2. ASSUME NEW p \in DOMAIN mapped, Break!Write(p) PROVE HeapInv' /\ Lowered
  <2>1. mapped' = [mapped EXCEPT ![p] = "data"] /\ UNCHANGED <<brk, free, taken, lost, call, result>>
    BY <1>2 DEF Break!Write
  <2>2. DOMAIN mapped' = DOMAIN mapped
    BY <2>1
  <2>3. BreakSum'
    BY <2>1, <2>2 DEF HeapInv, BreakSum
  <2>4. CallInv' /\ MappedInv'
    BY <2>1, <2>2 DEF HeapInv, CallInv, MappedInv
  <2>. QED BY <2>1, <2>3, <2>4, SameBreak DEF HeapInv
<1>3. CASE Break!Others
  <2>1. UNCHANGED <<brk, mapped, lost, call, result>>
    BY <1>3 DEF Break!Others
  <2>2. free' \in Nat /\ taken' \in Nat /\ free' + taken' = free + taken
    <3>1. free \in Nat /\ taken \in Nat
      BY DEF HeapInv, BreakSum
    <3>. QED BY <1>3, <3>1 DEF Break!Others
  <2>3. free' + taken' + lost' + Cardinality(DOMAIN mapped') = Pool
    BY <2>1, <2>2 DEF HeapInv, BreakSum
  <2>4. BreakSum'
    BY <2>1, <2>2, <2>3 DEF HeapInv, BreakSum
  <2>5. CallInv' /\ MappedInv'
    BY <2>1 DEF HeapInv, CallInv, MappedInv
  <2>. QED BY <2>1, <2>4, <2>5, SameBreak DEF HeapInv
<1>4. CASE UNCHANGED Break!vars
  <2>1. BreakSum' /\ CallInv' /\ MappedInv' /\ result' = result /\ brk' = brk
    BY <1>4 DEF HeapInv, BreakSum, CallInv, MappedInv, Break!vars
  <2>2. Lowered /\ Kept
    BY <1>4, SameBreak DEF Break!vars
  <2>. QED BY <2>1, <2>2 DEF HeapInv
<1>5. ~Break!SbrkCall \/ Kept
  BY CallGood DEF StepGood
<1>. QED BY <1>1, <1>2, <1>3, <1>4, <1>5 DEF Break!Next

LEMMA HeapInvariant == Break!SbrkAssumption => (Break!Spec => []HeapInv)
<1>. SUFFICES ASSUME Break!SbrkAssumption PROVE Break!Spec => []HeapInv
  OBVIOUS
<1>1. Break!Init => HeapInv
  BY HeapInitInv
<1>2. HeapInv /\ [Break!Next]_(Break!vars) => HeapInv'
  BY HeapNextGood
<1>. QED BY <1>1, <1>2, PTL DEF Break!Spec

LEMMA InvImpliesPages == ASSUME Break!SbrkAssumption, HeapInv PROVE Break!PagesExact
<1>1. /\ brk \in Start..Space - 1 /\ Break!PageNo(brk) \in Nat /\ Break!PageNo(Space) \in Nat
      /\ Break!PageNo(Start) \in Nat /\ Break!PageNo(brk) <= Break!PageNo(Space)
      /\ call.got \in Nat /\ (call.phase = "idle" => call.got = 0)
      /\ call.phase \in {"idle", "grow", "undo"} /\ call.inc \in Increment \cup {0}
  BY InvFacts DEF HeapInv, CallInv
<1>2. call.got \in 0..Break!PageNo(Space)
  <2>1. CASE call.phase = "idle"
    BY <1>1, <2>1
  <2>2. CASE call.phase # "idle"
    <3>1. PICK n : n = Break!PageNo(brk + call.inc)
      OBVIOUS
    <3>2. n \in Nat /\ n <= Break!PageNo(Space) /\ call.got <= n - Break!PageNo(brk)
      BY <2>2, <3>1, CallIs DEF HeapInv
    <3>. QED BY <1>1, <3>2
  <2>. QED BY <2>1, <2>2
<1>3. Cardinality(DOMAIN mapped) \in Nat /\ Pool \in Nat
  BY FS_CardinalityType DEF HeapInv, BreakSum, Break!SbrkAssumption
<1>4. free \in 0..Pool /\ taken \in 0..Pool /\ lost \in 0..Pool
  BY <1>3 DEF HeapInv, BreakSum
<1>5. Break!PoolExact
  BY <1>1, <1>2, <1>4, SameCardinality DEF HeapInv, BreakSum, Break!PoolExact, Break!TypeOK
<1>6. Break!NothingBeyondBreak
  <2>1. SUFFICES ASSUME call = Break!Idle
                 PROVE /\ \A p \in DOMAIN mapped : Break!PageNo(Start) <= p /\ p <= Break!PageNo(brk)
                       /\ brk = Start => DOMAIN mapped = {}
    BY DEF Break!NothingBeyondBreak
  <2>2. call.phase = "idle" /\ call.got = 0
    BY <2>1 DEF Break!Idle
  <2>3. DOMAIN mapped \subseteq Break!PageNo(Start)..Break!PageNo(brk)
    BY <1>1, <2>2 DEF HeapInv, MappedInv
  <2>4. ASSUME brk = Start, NEW p \in DOMAIN mapped PROVE FALSE
    <3>1. p > Break!PageNo(brk)
      BY <2>2, <2>4 DEF HeapInv, MappedInv
    <3>. QED BY <1>1, <2>3, <3>1
  <2>. QED BY <1>1, <2>3, <2>4
<1>. QED BY <1>5, <1>6 DEF Break!PagesExact

(* alloc and dealloc: at every step, also while alloc that ran dry half-way *)
(* gives its pages back one by one and others take them, the pages in the   *)
(* pool, with others, in the heap and lost to a failed pagedir_set_page add *)
(* up, and between calls nothing beyond the break is mapped.                *)
THEOREM SbrkPagesAreExact == Break!SbrkAssumption => (Break!Spec => []Break!PagesExact)
<1>. SUFFICES ASSUME Break!SbrkAssumption PROVE Break!Spec => []Break!PagesExact
  OBVIOUS
<1>1. HeapInv => Break!PagesExact
  BY InvImpliesPages
<1>2. Break!Spec => []HeapInv
  BY HeapInvariant
<1>. QED BY <1>1, <1>2, PTL

(* No step of sbrk unmaps or zeroes a page with a byte below the old and    *)
(* the new break, but for a dealloc that wraps to a page boundary above the *)
(* break, which takes the page of the break.                                *)
THEOREM SbrkKeepsData == Break!SbrkAssumption => (Break!Spec => Break!DataKept)
<1>. SUFFICES ASSUME Break!SbrkAssumption PROVE Break!Spec => Break!DataKept
  OBVIOUS
<1>1. HeapInv /\ [Break!Next]_(Break!vars) => [Break!SbrkCall => Kept]_(Break!vars)
  BY HeapNextGood
<1>2. Break!Spec => []HeapInv
  BY HeapInvariant
<1>3. Break!DataKept <=> [][Break!SbrkCall => Kept]_(Break!vars)
  BY DEF Break!DataKept, Kept
<1>. QED BY <1>1, <1>2, <1>3, PTL DEF Break!Spec

\* A call that lowers the break leaves no page mapped without a byte below it.
THEOREM SbrkShrinksAway == Break!SbrkAssumption => (Break!Spec => Break!ShrunkAway)
<1>. SUFFICES ASSUME Break!SbrkAssumption PROVE Break!Spec => Break!ShrunkAway
  OBVIOUS
<1>1. HeapInv /\ [Break!Next]_(Break!vars) => [Lowered]_(Break!vars)
  BY HeapNextGood
<1>2. Break!Spec => []HeapInv
  BY HeapInvariant
<1>3. Break!ShrunkAway <=> [][Lowered]_(Break!vars)
  BY DEF Break!ShrunkAway, Lowered
<1>. QED BY <1>1, <1>2, <1>3, PTL DEF Break!Spec

\* All three, for any page size, heap, pool and increments that do not wrap alloc's sum.
THEOREM SbrkIsRight == Break!SbrkAssumption => (Break!Spec => Break!BreakRight)
BY SbrkPagesAreExact, SbrkKeepsData, SbrkShrinksAway DEF Break!BreakRight
-------------------------------------------------------------------------------
(* The kernel's malloc, for any number of users, any pool and any sizes of  *)
(* pages, headers and blocks.                                               *)
CONSTANTS User, PageCnt, PGSIZE, Header, MinBlock, Wrap, Request, Factor, None
VARIABLES arena, freeList, pagesTaken, held, asked, moving

Kernel == INSTANCE Malloc WITH taken <- pagesTaken

\* Malloc counts with the same operator.
LEMMA KernelCardinality == \A S : Kernel!Cardinality(S) = Cardinality(S)
BY DEF Kernel!Cardinality, Cardinality

\* The least of a set of numbers.
LEMMA LeastNumber ==
  ASSUME NEW T \in SUBSET Nat, T # {}
  PROVE  Kernel!Sets!Min(T) \in T /\ \A m \in T : Kernel!Sets!Min(T) <= m
<1>1. PICK n \in T : \A m \in T : <<m, n>> \notin OpToRel(<, Nat)
  BY NatLessThanWellFounded, WFMin
<1>2. \A m \in T : ~(m < n)
  BY <1>1 DEF OpToRel
<1>3. \A m \in T : n <= m
  BY <1>2
<1>. QED BY <1>3 DEF Kernel!Sets!Min

\* Blocks in an arena: at least one, and each within the page.
LEMMA Room ==
  ASSUME Kernel!MallocAssumption, NEW d \in Kernel!BlockSize
  PROVE  /\ d \in Nat \ {0} /\ Kernel!BlocksPerArena(d) \in Nat \ {0}
         /\ Kernel!BlocksPerArena(d) * d <= PGSIZE - Header
<1>1. d \in Nat \ {0} /\ PGSIZE \in Nat \ {0} /\ Header \in Nat /\ 2 * Header <= PGSIZE
  BY DEF Kernel!MallocAssumption
<1>2. d < PGSIZE \div 2
  BY DEF Kernel!BlockSize
<1>3. d <= PGSIZE - Header /\ PGSIZE - Header \in Nat
  BY <1>1, <1>2
<1>. HIDE DEF Kernel!BlockSize
<1>4. \A n \in Nat : d <= n => n \div d \in Nat \ {0} /\ (n \div d) * d <= n
  BY <1>1
<1>. QED BY <1>1, <1>3, <1>4 DEF Kernel!BlocksPerArena

LEMMA NoneIs ==
  ASSUME Kernel!MallocAssumption
  PROVE  /\ None \notin Kernel!Block /\ None \notin Kernel!BlockSize
         /\ \A d \in Kernel!BlockSize \cup {None}, n \in Nat : None # [desc |-> d, freeCnt |-> n]
BY DEF Kernel!MallocAssumption

-----------------------------------------------------------------------------
\* Without drops the blocks of a page and nothing else.
Rank(S, i) == Cardinality({k \in S : k <= i})

LEMMA Ranks ==
  ASSUME NEW n \in Nat, NEW S \in SUBSET (1..n)
  PROVE  /\ IsFiniteSet(S) /\ Cardinality(S) \in Nat
         /\ \A j \in 1..Cardinality(S) : \E i \in S : Rank(S, i) = j
         /\ \A i \in S : Rank(S, i) \in 1..Cardinality(S)
         /\ \A i, k \in S : Rank(S, i) = Rank(S, k) => i = k
<1>. DEFINE upTo(i) == {k \in S : k <= i}
<1>0. S \in SUBSET Nat
  OBVIOUS
<1>1. IsFiniteSet(S) /\ Cardinality(S) \in Nat
  <2>1. IsFiniteSet(1..n)
    BY FS_Interval
  <2>2. IsFiniteSet(S)
    BY <2>1, FS_Subset
  <2>. QED BY <2>2, FS_CardinalityType
<1>2. ASSUME NEW i \in S PROVE IsFiniteSet(upTo(i)) /\ Rank(S, i) \in 1..Cardinality(S)
  <2>1. upTo(i) \in SUBSET S /\ i \in upTo(i)
    BY <1>2
  <2>2. IsFiniteSet(upTo(i)) /\ Cardinality(upTo(i)) <= Cardinality(S)
    BY <1>1, <2>1, FS_Subset
  <2>3. Cardinality(upTo(i)) \in Nat /\ Cardinality(upTo(i)) # 0
    BY <2>1, <2>2, FS_CardinalityType, FS_EmptySet
  <2>. QED BY <1>1, <2>2, <2>3 DEF Rank
<1>2a. \A i \in S : Rank(S, i) \in Nat /\ i \in Nat
  <2>1. SUFFICES ASSUME NEW i \in S PROVE Rank(S, i) \in Nat /\ i \in Nat
    OBVIOUS
  <2>2. Rank(S, i) \in 1..Cardinality(S)
    BY <1>2
  <2>. QED BY <1>0, <1>1, <2>2
<1>3. ASSUME NEW i \in S, NEW k \in S, i < k PROVE Rank(S, i) < Rank(S, k)
  <2>1. upTo(i) \in SUBSET upTo(k) /\ k \in upTo(k) /\ k \notin upTo(i)
    <3>1. i \in Nat /\ k \in Nat
      BY <1>2a
    <3>2. ASSUME NEW x \in S, x <= i PROVE x <= k
      <4>1. x \in Nat
        BY <1>2a
      <4>. QED BY <3>1, <3>2, <4>1, <1>3
    <3>3. k <= k /\ ~(k <= i)
      BY <3>1, <1>3
    <3>. QED BY <3>2, <3>3
  <2>2. IsFiniteSet(upTo(k))
    BY <1>2
  <2>3. Cardinality(upTo(i)) <= Cardinality(upTo(k)) /\ Cardinality(upTo(i)) # Cardinality(upTo(k))
    BY <2>1, <2>2, FS_Subset
  <2>4. Rank(S, i) \in Nat /\ Rank(S, k) \in Nat
    BY <1>2a
  <2>. QED BY <2>3, <2>4 DEF Rank
<1>4. \A i, k \in S : Rank(S, i) = Rank(S, k) => i = k
  <2>1. SUFFICES ASSUME NEW i \in S, NEW k \in S, Rank(S, i) = Rank(S, k) PROVE i = k
    OBVIOUS
  <2>2. Rank(S, i) \in Nat /\ Rank(S, k) \in Nat /\ i \in Nat /\ k \in Nat
    BY <1>2a
  <2>3. ~(i < k) /\ ~(k < i)
    BY <1>3, <2>1, <2>2
  <2>. QED BY <2>2, <2>3
<1>5. \A j \in 1..Cardinality(S) : \E i \in S : Rank(S, i) = j
  <2>. DEFINE f == [i \in S |-> Rank(S, i)]
              N == 1..Cardinality(S)
  <2>1. f \in [S -> N]
    BY <1>2
  <2>2. f \in Injection(S, N)
    BY <2>1, <1>4 DEF Injection, IsInjective
  <2>3. IsFiniteSet(N) /\ Cardinality(N) = Cardinality(S)
    BY <1>1, FS_Interval
  <2>4. f \in Surjection(S, N)
    BY <2>2, <2>3, FS_Injection
  <2>. QED BY <2>4 DEF Surjection
<1>. QED BY <1>1, <1>2, <1>4, <1>5

Distinct(s) == \A i, j \in 1..Len(s) : s[i] = s[j] => i = j
Listed(s, b) == \E i \in 1..Len(s) : s[i] = b

LEMMA WithoutIs ==
  ASSUME NEW s \in Seq(Kernel!Block), NEW p \in Kernel!Page, Distinct(s)
  PROVE  /\ Kernel!Without(s, p) \in Seq(Kernel!Block) /\ Distinct(Kernel!Without(s, p))
         /\ \A b \in Kernel!Block : Listed(Kernel!Without(s, p), b) <=> Listed(s, b) /\ b.page # p
<1>. DEFINE S == {i \in 1..Len(s) : s[i].page # p}
            n == Cardinality(S)
            At(j) == CHOOSE i \in S : Rank(S, i) = j
            w == [j \in 1..n |-> s[At(j)]]
<1>1. Kernel!Without(s, p) = w
  BY DEF Kernel!Without, Kernel!Cardinality, Cardinality, Rank
<1>2. S \in SUBSET (1..Len(s)) /\ Len(s) \in Nat
  OBVIOUS
<1>3. /\ n \in Nat
      /\ \A j \in 1..n : \E i \in S : Rank(S, i) = j
      /\ \A i \in S : Rank(S, i) \in 1..n
      /\ \A i, k \in S : Rank(S, i) = Rank(S, k) => i = k
  <2>. HIDE DEF S
  <2>. QED BY <1>2, Ranks
<1>4. \A j \in 1..n : At(j) \in S /\ Rank(S, At(j)) = j
  <2>. HIDE DEF S, n
  <2>. QED BY <1>3
<1>5. \A i \in S : At(Rank(S, i)) = i
  <2>. HIDE DEF S, n
  <2>. QED BY <1>3, <1>4
<1>6. \A i \in S : s[i] \in Kernel!Block /\ s[i].page # p
  BY <1>2
<1>7. w \in Seq(Kernel!Block) /\ Len(w) = n /\ \A j \in 1..n : w[j] = s[At(j)]
  <2>1. \A j \in 1..n : s[At(j)] \in Kernel!Block
    <3>. HIDE DEF S, n, At
    <3>. QED BY <1>4, <1>6
  <2>. HIDE DEF n, At
  <2>. QED BY <1>3, <2>1
<1>8. \A i \in S : i \in 1..Len(s)
  OBVIOUS
<1>9. \A i \in 1..Len(s) : s[i].page # p => i \in S
  OBVIOUS
<1>. HIDE DEF S, n, At, w
<1>10. Distinct(w)
  <2>1. SUFFICES ASSUME NEW i \in 1..n, NEW j \in 1..n, w[i] = w[j] PROVE i = j
    BY <1>7 DEF Distinct
  <2>2. At(i) = At(j)
    BY <1>4, <1>7, <1>8, <2>1 DEF Distinct
  <2>. QED BY <1>4, <2>2
<1>11. ASSUME NEW b \in Kernel!Block PROVE Listed(w, b) <=> Listed(s, b) /\ b.page # p
  <2>1. ASSUME Listed(w, b) PROVE Listed(s, b) /\ b.page # p
    <3>1. PICK j \in 1..n : w[j] = b
      BY <2>1, <1>7 DEF Listed
    <3>. QED BY <3>1, <1>4, <1>6, <1>7, <1>8 DEF Listed
  <2>2. ASSUME Listed(s, b), b.page # p PROVE Listed(w, b)
    <3>1. PICK i \in 1..Len(s) : s[i] = b
      BY <2>2 DEF Listed
    <3>2. i \in S
      BY <3>1, <2>2, <1>9
    <3>3. w[Rank(S, i)] = b /\ Rank(S, i) \in 1..n
      BY <3>1, <3>2, <1>3, <1>5, <1>7
    <3>. QED BY <3>3, <1>7 DEF Listed
  <2>. QED BY <2>1, <2>2
<1>. QED BY <1>1, <1>7, <1>10, <1>11

-----------------------------------------------------------------------------
\* The allocator's state: a the headers, f the lists, t the pages taken, and use
\* the blocks somebody has.
Headers == [desc : Kernel!BlockSize \cup {None}, freeCnt : Nat]
Extent(a, p) == p..p + (IF a[p].desc = None THEN a[p].freeCnt ELSE 1) - 1
UsedOn(use, p) == {b \in use : b.page = p}
With(f, x, v) == [f EXCEPT ![x] = v]
WithCount(a, p, n) == [a EXCEPT ![p].freeCnt = n]

StoreType(a, f, t, use) ==
  /\ a \in [Kernel!Page -> Headers \cup {None}] /\ f \in [Kernel!BlockSize -> Seq(Kernel!Block)]
  /\ t \in SUBSET Kernel!Page /\ use \in SUBSET Kernel!Block /\ IsFiniteSet(use)

\* The pages taken are those of the arenas, each of one arena.
PagesInv(a, t) ==
  /\ \A p \in Kernel!Page : a[p] # None => Extent(a, p) \subseteq t /\ p \in Extent(a, p)
  /\ \A p, q \in Kernel!Page : a[p] # None /\ a[q] # None /\ p # q => Extent(a, p) \cap Extent(a, q) = {}
  /\ \A x \in t : \E p \in Kernel!Page : a[p] # None /\ x \in Extent(a, p)

\* A block in use lies in its arena; one that is not is on the descriptor's list.
Within(a, b) ==
  /\ a[b.page] # None
  /\ IF a[b.page].desc = None THEN b.idx = 0 ELSE b.idx < Kernel!BlocksPerArena(a[b.page].desc)
UseInv(a, use) == \A b \in use : Within(a, b)
ListInv(a, f, use) ==
  \A d \in Kernel!BlockSize :
    /\ Distinct(f[d])
    /\ \A b \in Kernel!Block : Listed(f[d], b) <=>
         a[b.page] # None /\ a[b.page].desc = d /\ Within(a, b) /\ b \notin use

\* free_cnt counts the arena's blocks that nobody has, and somebody has one.
Counted(a, use, p) ==
  /\ Cardinality(UsedOn(use, p)) > 0
  /\ a[p].freeCnt = Kernel!BlocksPerArena(a[p].desc) - Cardinality(UsedOn(use, p))
CountInv(a, use) == \A p \in Kernel!Page : a[p] # None /\ a[p].desc # None => Counted(a, use, p)

StoreInv(a, f, t, use) ==
  /\ StoreType(a, f, t, use) /\ PagesInv(a, t) /\ UseInv(a, use)
  /\ ListInv(a, f, use) /\ CountInv(a, use)

\* The size of a block stays, as far as the header says it.
SizeKept(a, a2, b) ==
  /\ a2[b.page].desc = a[b.page].desc
  /\ a[b.page].desc = None => a2[b.page].freeCnt = a[b.page].freeCnt
SizesKept(a, a2, use) == \A b \in use : SizeKept(a, a2, b)

\* What a call leaves that gets a block of at least size bytes, or gives one back.
SizeUnder(a, b) == IF a[b.page].desc = None THEN PGSIZE * a[b.page].freeCnt - Header ELSE a[b.page].desc
Got(a, a2, f2, t2, use, b, size) ==
  /\ StoreInv(a2, f2, t2, use \cup {b}) /\ b \in Kernel!Block /\ b \notin use
  /\ SizeUnder(a2, b) >= size /\ SizesKept(a, a2, use)
Gone(a, a2, f2, t2, use, b) == StoreInv(a2, f2, t2, use \ {b}) /\ SizesKept(a, a2, use \ {b})

LEMMA PagesAre == ASSUME Kernel!MallocAssumption, NEW p \in Kernel!Page PROVE p \in Nat /\ p < PageCnt
BY DEF Kernel!MallocAssumption, Kernel!Page

LEMMA BlockIs ==
  ASSUME NEW b \in Kernel!Block
  PROVE  b.page \in Kernel!Page /\ b.idx \in Nat /\ b = Kernel!BlockAt(b.page, b.idx)
BY DEF Kernel!Block, Kernel!BlockAt

LEMMA BlockAtIs ==
  ASSUME NEW p \in Kernel!Page, NEW i \in Nat
  PROVE  Kernel!BlockAt(p, i) \in Kernel!Block /\ Kernel!BlockAt(p, i).page = p /\ Kernel!BlockAt(p, i).idx = i
BY DEF Kernel!Block, Kernel!BlockAt

LEMMA UsedOnFinite ==
  ASSUME NEW use, IsFiniteSet(use), NEW p
  PROVE  IsFiniteSet(UsedOn(use, p)) /\ Cardinality(UsedOn(use, p)) \in Nat
<1>1. UsedOn(use, p) \in SUBSET use
  BY DEF UsedOn
<1>. QED BY <1>1, FS_Subset, FS_CardinalityType

\* Blocks come and go one at a time.
LEMMA UsedOnAdd ==
  ASSUME NEW use, IsFiniteSet(use), NEW b \in Kernel!Block, b \notin use
  PROVE  /\ IsFiniteSet(use \cup {b})
         /\ Cardinality(UsedOn(use \cup {b}, b.page)) = Cardinality(UsedOn(use, b.page)) + 1
         /\ \A p : p # b.page => UsedOn(use \cup {b}, p) = UsedOn(use, p)
<1>1. /\ UsedOn(use \cup {b}, b.page) = UsedOn(use, b.page) \cup {b} /\ b \notin UsedOn(use, b.page)
      /\ \A p : p # b.page => UsedOn(use \cup {b}, p) = UsedOn(use, p)
  BY DEF UsedOn
<1>. QED BY <1>1, UsedOnFinite, FS_AddElement

LEMMA UsedOnRemove ==
  ASSUME NEW use, IsFiniteSet(use), NEW b \in use
  PROVE  /\ IsFiniteSet(use \ {b})
         /\ Cardinality(UsedOn(use \ {b}, b.page)) = Cardinality(UsedOn(use, b.page)) - 1
         /\ \A p : p # b.page => UsedOn(use \ {b}, p) = UsedOn(use, p)
<1>1. /\ UsedOn(use \ {b}, b.page) = UsedOn(use, b.page) \ {b} /\ b \in UsedOn(use, b.page)
      /\ \A p : p # b.page => UsedOn(use \ {b}, p) = UsedOn(use, p)
  BY DEF UsedOn
<1>2. IsFiniteSet(use \ {b})
  BY FS_RemoveElement
<1>3. Cardinality(UsedOn(use, b.page) \ {b}) = Cardinality(UsedOn(use, b.page)) - 1
  BY <1>1, UsedOnFinite, FS_RemoveElement
<1>. QED BY <1>1, <1>2, <1>3

\* Every page taken in part of no arena is free to be one.
LEMMA ArenaTaken ==
  ASSUME NEW a, NEW t, PagesInv(a, t), NEW p \in Kernel!Page, p \notin t
  PROVE  a[p] = None
BY DEF PagesInv

-----------------------------------------------------------------------------
\* New pages for one arena keep PagesInv; so do pages of an arena that goes.
LEMMA PagesAdd ==
  ASSUME Kernel!MallocAssumption, NEW a, NEW a2, NEW t \in SUBSET Kernel!Page, PagesInv(a, t),
         NEW p \in Kernel!Page, a2[p] # None, p \in Extent(a2, p),
         Extent(a2, p) \cap t = {},
         \A q \in Kernel!Page \ {p} : a2[q] = a[q]
  PROVE  PagesInv(a2, t \cup Extent(a2, p))
<1>1. \A q \in Kernel!Page \ {p} : Extent(a2, q) = Extent(a, q)
  BY DEF Extent
<1>2. \A q \in Kernel!Page \ {p} : a2[q] # None => Extent(a2, q) \subseteq t /\ q \in Extent(a2, q)
  BY <1>1 DEF PagesInv
<1>3. ASSUME NEW q \in Kernel!Page, NEW r \in Kernel!Page, a2[q] # None, a2[r] # None, q # r
      PROVE  Extent(a2, q) \cap Extent(a2, r) = {}
  <2>1. CASE q = p
    BY <2>1, <1>2, <1>3
  <2>2. CASE r = p
    BY <2>2, <1>2, <1>3
  <2>3. CASE q # p /\ r # p
    BY <2>3, <1>1, <1>3 DEF PagesInv
  <2>. QED BY <2>1, <2>2, <2>3
<1>4. p \notin t
  OBVIOUS
<1>5. a[p] = None
  BY <1>4, ArenaTaken
<1>6. ASSUME NEW x \in t \cup Extent(a2, p) PROVE \E q \in Kernel!Page : a2[q] # None /\ x \in Extent(a2, q)
  <2>1. CASE x \in Extent(a2, p)
    BY <2>1
  <2>2. CASE x \in t
    <3>1. PICK q \in Kernel!Page : a[q] # None /\ x \in Extent(a, q)
      BY <2>2 DEF PagesInv
    <3>. QED BY <3>1, <1>1, <1>5
  <2>. QED BY <2>1, <2>2
<1>. HIDE DEF Extent
<1>7. \A q \in Kernel!Page : a2[q] # None => Extent(a2, q) \subseteq t \cup Extent(a2, p) /\ q \in Extent(a2, q)
  BY <1>2
<1>. QED BY <1>3, <1>6, <1>7 DEF PagesInv

LEMMA PagesRemove ==
  ASSUME Kernel!MallocAssumption, NEW a, NEW a2, NEW t \in SUBSET Kernel!Page, PagesInv(a, t),
         NEW p \in Kernel!Page, a[p] # None, a2[p] = None,
         \A q \in Kernel!Page \ {p} : a2[q] = a[q]
  PROVE  PagesInv(a2, t \ Extent(a, p))
<1>1. \A q \in Kernel!Page \ {p} : Extent(a2, q) = Extent(a, q)
  BY DEF Extent
<1>2. \A q \in Kernel!Page : a2[q] # None => q # p /\ a[q] # None /\ Extent(a2, q) = Extent(a, q)
  BY <1>1
<1>3. \A q \in Kernel!Page : a2[q] # None => Extent(a2, q) \subseteq t \ Extent(a, p) /\ q \in Extent(a2, q)
  BY <1>2 DEF PagesInv
<1>4. \A q, r \in Kernel!Page : a2[q] # None /\ a2[r] # None /\ q # r => Extent(a2, q) \cap Extent(a2, r) = {}
  BY <1>2 DEF PagesInv
<1>5. \A x \in t \ Extent(a, p) : \E q \in Kernel!Page : a2[q] # None /\ x \in Extent(a2, q)
  BY <1>1 DEF PagesInv
<1>. QED BY <1>3, <1>4, <1>5 DEF PagesInv

LEMMA PagesSame ==
  ASSUME NEW a, NEW a2, NEW t, PagesInv(a, t),
         \A q \in Kernel!Page : (a2[q] = None <=> a[q] = None) /\ (a[q] # None => Extent(a2, q) = Extent(a, q))
  PROVE  PagesInv(a2, t)
BY DEF PagesInv

-----------------------------------------------------------------------------
\* What a block brings to the store: nothing to a page of another arena.
LEMMA WithinSame ==
  ASSUME NEW a, NEW a2, NEW b, a2[b.page] # None, a[b.page] # None, a2[b.page].desc = a[b.page].desc
  PROVE  Within(a2, b) <=> Within(a, b)
BY DEF Within

LEMMA UseAdd ==
  ASSUME NEW a, NEW a2, NEW use \in SUBSET Kernel!Block, NEW b \in Kernel!Block, UseInv(a, use), Within(a2, b),
         \A c \in use : a2[c.page] # None /\ a2[c.page].desc = a[c.page].desc
  PROVE  UseInv(a2, use \cup {b})
<1>1. \A c \in use : Within(a2, c)
  BY WithinSame DEF UseInv, Within
<1>. QED BY <1>1 DEF UseInv

LEMMA UseRemove ==
  ASSUME NEW a, NEW a2, NEW use \in SUBSET Kernel!Block, NEW b \in use, UseInv(a, use),
         \A c \in use \ {b} : a2[c.page] # None /\ a2[c.page].desc = a[c.page].desc
  PROVE  UseInv(a2, use \ {b})
<1>1. \A c \in use \ {b} : Within(a2, c)
  BY WithinSame DEF UseInv, Within
<1>. QED BY <1>1 DEF UseInv

\* A request for whole pages.
LEMMA BigGot ==
  ASSUME Kernel!MallocAssumption, NEW a, NEW f, NEW t, NEW use, StoreInv(a, f, t, use),
         NEW p \in Kernel!Page, NEW n \in Nat \ {0}, p..p + n - 1 \subseteq Kernel!Page, p..p + n - 1 \cap t = {},
         NEW size \in Nat, PGSIZE * n - Header >= size,
         NEW a2, a2 = With(a, p, [desc |-> None, freeCnt |-> n])
  PROVE  Got(a, a2, f, t \cup p..p + n - 1, use, Kernel!BlockAt(p, 0), size)
<1>. DEFINE b == Kernel!BlockAt(p, 0)
<1>0. b \in Kernel!Block /\ b.page = p /\ b.idx = 0
  BY BlockAtIs
<1>1. /\ a \in [Kernel!Page -> Headers \cup {None}] /\ f \in [Kernel!BlockSize -> Seq(Kernel!Block)]
      /\ t \in SUBSET Kernel!Page /\ use \in SUBSET Kernel!Block /\ IsFiniteSet(use)
      /\ PagesInv(a, t) /\ UseInv(a, use) /\ ListInv(a, f, use) /\ CountInv(a, use)
  BY DEF StoreInv, StoreType
<1>2. p \in Nat /\ p \in p..p + n - 1
  BY PagesAre
<1>3. p \notin t /\ a[p] = None
  BY <1>1, <1>2, ArenaTaken
<1>. HIDE DEF b
<1>4. /\ a2 \in [Kernel!Page -> Headers \cup {None}]
      /\ a2[p] # None /\ a2[p].desc = None /\ a2[p].freeCnt = n
      /\ \A q \in Kernel!Page \ {p} : a2[q] = a[q]
  <2>1. [desc |-> None, freeCnt |-> n] \in Headers /\ None # [desc |-> None, freeCnt |-> n]
    BY NoneIs DEF Headers
  <2>. QED BY <1>1, <2>1 DEF With
<1>5. Extent(a2, p) = p..p + n - 1
  BY <1>4 DEF Extent
<1>6. PagesInv(a2, t \cup p..p + n - 1)
  <2>1. Extent(a2, p) \cap t = {} /\ p \in Extent(a2, p)
    BY <1>2, <1>5
  <2>2. PagesInv(a2, t \cup Extent(a2, p))
    BY <2>1, <1>1, <1>4, PagesAdd
  <2>. QED BY <2>2, <1>5
<1>7. \A c \in use : c.page \in Kernel!Page \ {p}
  BY <1>1, <1>3, BlockIs DEF UseInv, Within
<1>8. UseInv(a2, use \cup {b})
  <2>1. Within(a2, b)
    BY <1>0, <1>4 DEF Within
  <2>2. \A c \in use : a2[c.page] # None /\ a2[c.page].desc = a[c.page].desc
    BY <1>1, <1>4, <1>7 DEF UseInv, Within
  <2>. QED BY <1>0, <1>1, <2>1, <2>2, UseAdd
<1>9. b \notin use
  BY <1>0, <1>7
<1>10. ListInv(a2, f, use \cup {b})
  <2>1. SUFFICES ASSUME NEW d \in Kernel!BlockSize
                 PROVE  /\ Distinct(f[d])
                        /\ \A c \in Kernel!Block : Listed(f[d], c) <=>
                             a2[c.page] # None /\ a2[c.page].desc = d /\ Within(a2, c) /\ c \notin use \cup {b}
    BY DEF ListInv
  <2>2. SUFFICES ASSUME NEW c \in Kernel!Block
                 PROVE  Listed(f[d], c) <=>
                           a2[c.page] # None /\ a2[c.page].desc = d /\ Within(a2, c) /\ c \notin use \cup {b}
    BY <1>1 DEF ListInv
  <2>3. Listed(f[d], c) <=> a[c.page] # None /\ a[c.page].desc = d /\ Within(a, c) /\ c \notin use
    BY <1>1 DEF ListInv
  <2>4. CASE c.page = p
    BY <2>3, <2>4, <1>3, <1>4, NoneIs
  <2>5. CASE c.page # p
    BY <2>3, <2>5, <1>0, <1>4, BlockIs DEF Within
  <2>. QED BY <2>4, <2>5
<1>11. CountInv(a2, use \cup {b})
  <2>1. SUFFICES ASSUME NEW q \in Kernel!Page, a2[q] # None, a2[q].desc # None PROVE Counted(a2, use \cup {b}, q)
    BY DEF CountInv
  <2>2. q # p /\ a2[q] = a[q]
    BY <2>1, <1>4
  <2>3. UsedOn(use \cup {b}, q) = UsedOn(use, q)
    BY <2>2, <1>0, <1>1, <1>9, UsedOnAdd
  <2>. QED BY <2>1, <2>2, <2>3, <1>1 DEF CountInv, Counted
<1>12. StoreType(a2, f, t \cup p..p + n - 1, use \cup {b})
  BY <1>0, <1>1, <1>4, <1>9, UsedOnAdd DEF StoreType
<1>13. SizesKept(a, a2, use)
  BY <1>4, <1>7 DEF SizesKept, SizeKept
<1>14. StoreInv(a2, f, t \cup p..p + n - 1, use \cup {b})
  BY <1>6, <1>8, <1>10, <1>11, <1>12 DEF StoreInv
<1>15. SizeUnder(a2, b) >= size
  BY <1>0, <1>4 DEF SizeUnder
<1>. QED BY <1>0, <1>9, <1>13, <1>14, <1>15 DEF Got, b

\* A new arena, whose first block goes to the caller.
LEMMA ArenaGot ==
  ASSUME Kernel!MallocAssumption, NEW a, NEW f, NEW t, NEW use, StoreInv(a, f, t, use),
         NEW p \in Kernel!Page, p \notin t, NEW d \in Kernel!BlockSize, f[d] = <<>>,
         NEW a2, a2 = With(a, p, [desc |-> d, freeCnt |-> Kernel!BlocksPerArena(d) - 1]),
         NEW f2, f2 = With(f, d, Tail(Kernel!ArenaBlocks(p, d))),
         NEW size \in Nat, d >= size
  PROVE  Got(a, a2, f2, t \cup {p}, use, Kernel!BlockAt(p, 0), size)
<1>. DEFINE b == Kernel!BlockAt(p, 0)
            n == Kernel!BlocksPerArena(d)
            rest == Tail(Kernel!ArenaBlocks(p, d))
<1>0. b \in Kernel!Block /\ b.page = p /\ b.idx = 0
  BY BlockAtIs
<1>1. /\ a \in [Kernel!Page -> Headers \cup {None}] /\ f \in [Kernel!BlockSize -> Seq(Kernel!Block)]
      /\ t \in SUBSET Kernel!Page /\ use \in SUBSET Kernel!Block /\ IsFiniteSet(use)
      /\ PagesInv(a, t) /\ UseInv(a, use) /\ ListInv(a, f, use) /\ CountInv(a, use)
  BY DEF StoreInv, StoreType
<1>2. p \in Nat /\ n \in Nat \ {0}
  BY PagesAre, Room
<1>3. a[p] = None
  BY <1>1, ArenaTaken
<1>4. /\ rest \in Seq(Kernel!Block) /\ Len(rest) = n - 1
      /\ \A i \in 1..n - 1 : rest[i] = Kernel!BlockAt(p, i)
  <2>. DEFINE all == Kernel!ArenaBlocks(p, d)
  <2>1. \A i \in 1..n : Kernel!BlockAt(p, i - 1) \in Kernel!Block
    BY <1>2, BlockAtIs
  <2>2. all = [i \in 1..n |-> Kernel!BlockAt(p, i - 1)]
    BY DEF Kernel!ArenaBlocks
  <2>. HIDE DEF all, n
  <2>3. all \in Seq(Kernel!Block) /\ Len(all) = n /\ \A i \in 1..n : all[i] = Kernel!BlockAt(p, i - 1)
    BY <2>1, <2>2, <1>2
  <2>4. Tail(all) \in Seq(Kernel!Block) /\ Len(Tail(all)) = n - 1 /\ \A i \in 1..n - 1 : Tail(all)[i] = all[i + 1]
    BY <2>3, <1>2
  <2>5. \A i \in 1..n - 1 : Tail(all)[i] = Kernel!BlockAt(p, i)
    BY <2>3, <2>4, <1>2
  <2>. QED BY <2>4, <2>5 DEF all
<1>. HIDE DEF b, n, rest
<1>5. /\ a2 \in [Kernel!Page -> Headers \cup {None}]
      /\ a2[p] # None /\ a2[p].desc = d /\ a2[p].freeCnt = n - 1
      /\ \A q \in Kernel!Page \ {p} : a2[q] = a[q]
  <2>1. [desc |-> d, freeCnt |-> n - 1] \in Headers /\ None # [desc |-> d, freeCnt |-> n - 1]
    BY <1>2, NoneIs DEF Headers
  <2>. QED BY <1>1, <2>1 DEF With, n
<1>6. d # None
  BY NoneIs
<1>7. Extent(a2, p) = {p}
  BY <1>2, <1>5, <1>6 DEF Extent
<1>8. PagesInv(a2, t \cup {p})
  <2>1. Extent(a2, p) \cap t = {} /\ p \in Extent(a2, p)
    BY <1>7
  <2>2. PagesInv(a2, t \cup Extent(a2, p))
    BY <2>1, <1>1, <1>5, PagesAdd
  <2>. QED BY <2>2, <1>7
<1>9. \A c \in use : c.page \in Kernel!Page \ {p}
  BY <1>1, <1>3, BlockIs DEF UseInv, Within
<1>10. UseInv(a2, use \cup {b})
  <2>1. Within(a2, b)
    BY <1>0, <1>2, <1>5, <1>6 DEF Within, n
  <2>2. \A c \in use : a2[c.page] # None /\ a2[c.page].desc = a[c.page].desc
    BY <1>1, <1>5, <1>9 DEF UseInv, Within
  <2>. QED BY <1>0, <1>1, <2>1, <2>2, UseAdd
<1>11. b \notin use
  BY <1>0, <1>9
<1>12. Distinct(rest)
  <2>1. SUFFICES ASSUME NEW i \in 1..n - 1, NEW j \in 1..n - 1, rest[i] = rest[j] PROVE i = j
    BY <1>4 DEF Distinct
  <2>2. i \in Nat /\ j \in Nat
    BY <1>2
  <2>3. Kernel!BlockAt(p, i) = Kernel!BlockAt(p, j)
    BY <2>1, <1>4
  <2>4. Kernel!BlockAt(p, i).idx = i /\ Kernel!BlockAt(p, j).idx = j
    BY <2>2, BlockAtIs
  <2>. QED BY <2>3, <2>4
<1>13. \A c \in Kernel!Block : Listed(rest, c) <=> c.page = p /\ c.idx < n /\ c.idx # 0
  <2>1. SUFFICES ASSUME NEW c \in Kernel!Block PROVE Listed(rest, c) <=> c.page = p /\ c.idx < n /\ c.idx # 0
    OBVIOUS
  <2>2. c.page \in Kernel!Page /\ c.idx \in Nat /\ c = Kernel!BlockAt(c.page, c.idx)
    BY BlockIs
  <2>3. ASSUME Listed(rest, c) PROVE c.page = p /\ c.idx < n /\ c.idx # 0
    <3>1. PICK i \in 1..n - 1 : c = Kernel!BlockAt(p, i)
      BY <2>3, <1>4 DEF Listed
    <3>. QED BY <3>1, <1>2, BlockAtIs
  <2>4. ASSUME c.page = p, c.idx < n, c.idx # 0 PROVE Listed(rest, c)
    <3>1. c.idx \in 1..n - 1 /\ rest[c.idx] = c
      BY <2>2, <2>4, <1>2, <1>4
    <3>. QED BY <3>1, <1>4 DEF Listed
  <2>. QED BY <2>3, <2>4
<1>14. f2 \in [Kernel!BlockSize -> Seq(Kernel!Block)] /\ f2[d] = rest /\ \A e \in Kernel!BlockSize \ {d} : f2[e] = f[e]
  BY <1>1, <1>4 DEF With, rest
<1>15. ListInv(a2, f2, use \cup {b})
  <2>1. SUFFICES ASSUME NEW e \in Kernel!BlockSize
                 PROVE  /\ Distinct(f2[e])
                        /\ \A c \in Kernel!Block : Listed(f2[e], c) <=>
                             a2[c.page] # None /\ a2[c.page].desc = e /\ Within(a2, c) /\ c \notin use \cup {b}
    BY DEF ListInv
  <2>2. Distinct(f2[e])
    BY <1>1, <1>12, <1>14 DEF ListInv
  <2>3. SUFFICES ASSUME NEW c \in Kernel!Block
                 PROVE  Listed(f2[e], c) <=>
                           a2[c.page] # None /\ a2[c.page].desc = e /\ Within(a2, c) /\ c \notin use \cup {b}
    BY <2>2
  <2>4. c.page \in Kernel!Page /\ c.idx \in Nat /\ c = Kernel!BlockAt(c.page, c.idx)
    BY BlockIs
  <2>5. Listed(f[e], c) <=> a[c.page] # None /\ a[c.page].desc = e /\ Within(a, c) /\ c \notin use
    BY <1>1 DEF ListInv
  <2>6. CASE c.page = p
    <3>1. c \notin use /\ (c = b <=> c.idx = 0)
      <4>1. c \notin use
        BY <2>6, <1>9
      <4>2. c.idx = 0 => c = b
        BY <2>4, <2>6 DEF b
      <4>. QED BY <4>1, <4>2, <1>0
    <3>2. Within(a2, c) <=> c.idx < n
      BY <2>6, <1>5, <1>6 DEF Within, n
    <3>3. CASE e = d
      BY <3>1, <3>2, <3>3, <2>6, <1>5, <1>13, <1>14
    <3>4. CASE e # d
      BY <3>4, <2>5, <2>6, <1>3, <1>5, <1>14
    <3>. QED BY <3>3, <3>4
  <2>7. CASE c.page # p
    <3>1. c # b /\ a2[c.page] = a[c.page] /\ (Within(a2, c) <=> Within(a, c))
      BY <2>4, <2>7, <1>0, <1>5 DEF Within
    <3>2. CASE e = d
      <4>1. ~Listed(f[e], c)
        BY <3>2 DEF Listed
      <4>2. ~Listed(f2[e], c)
        BY <3>2, <2>7, <1>13, <1>14
      <4>. QED BY <4>1, <4>2, <3>1, <2>5
    <3>3. CASE e # d
      BY <3>3, <3>1, <2>5, <1>14
    <3>. QED BY <3>2, <3>3
  <2>. QED BY <2>6, <2>7
<1>16. CountInv(a2, use \cup {b})
  <2>1. SUFFICES ASSUME NEW q \in Kernel!Page, a2[q] # None, a2[q].desc # None PROVE Counted(a2, use \cup {b}, q)
    BY DEF CountInv
  <2>2. CASE q # p
    <3>1. a2[q] = a[q] /\ UsedOn(use \cup {b}, q) = UsedOn(use, q)
      <4>1. \A r : r # b.page => UsedOn(use \cup {b}, r) = UsedOn(use, r)
        BY <1>0, <1>1, <1>11, UsedOnAdd
      <4>. QED BY <4>1, <2>2, <1>0, <1>5
    <3>. QED BY <2>1, <3>1, <1>1 DEF CountInv, Counted
  <2>3. CASE q = p
    <3>1. UsedOn(use, p) = {}
      BY <1>9 DEF UsedOn
    <3>2. Cardinality(UsedOn(use \cup {b}, p)) = 1
      <4>1. Cardinality(UsedOn(use \cup {b}, b.page)) = Cardinality(UsedOn(use, b.page)) + 1
        BY <1>0, <1>1, <1>11, UsedOnAdd
      <4>2. Cardinality(UsedOn(use, p)) = 0
        BY <3>1, FS_EmptySet
      <4>. QED BY <4>1, <4>2, <1>0
    <3>. QED BY <2>3, <3>2, <1>2, <1>5 DEF Counted, n
  <2>. QED BY <2>2, <2>3
<1>17. StoreType(a2, f2, t \cup {p}, use \cup {b})
  BY <1>0, <1>1, <1>5, <1>11, <1>14, UsedOnAdd DEF StoreType
<1>18. SizesKept(a, a2, use)
  BY <1>5, <1>9 DEF SizesKept, SizeKept
<1>19. StoreInv(a2, f2, t \cup {p}, use \cup {b})
  BY <1>8, <1>10, <1>15, <1>16, <1>17 DEF StoreInv
<1>20. SizeUnder(a2, b) >= size
  BY <1>0, <1>5, <1>6 DEF SizeUnder
<1>. QED BY <1>0, <1>11, <1>18, <1>19, <1>20 DEF Got, b

\* The first block of a list.
LEMMA BlockGot ==
  ASSUME Kernel!MallocAssumption, NEW a, NEW f, NEW t, NEW use, StoreInv(a, f, t, use),
         NEW d \in Kernel!BlockSize, f[d] # <<>>, NEW b, b = f[d][1],
         NEW a2, a2 = WithCount(a, b.page, a[b.page].freeCnt - 1),
         NEW f2, f2 = With(f, d, Tail(f[d])),
         NEW size \in Nat, d >= size
  PROVE  Got(a, a2, f2, t, use, b, size)
<1>. DEFINE n == Kernel!BlocksPerArena(d)
            p == b.page
            u == UsedOn(use, p)
<1>1. /\ a \in [Kernel!Page -> Headers \cup {None}] /\ f \in [Kernel!BlockSize -> Seq(Kernel!Block)]
      /\ t \in SUBSET Kernel!Page /\ use \in SUBSET Kernel!Block /\ IsFiniteSet(use)
      /\ PagesInv(a, t) /\ UseInv(a, use) /\ ListInv(a, f, use) /\ CountInv(a, use)
  BY DEF StoreInv, StoreType
<1>2. f[d] \in Seq(Kernel!Block) /\ Len(f[d]) \in Nat \ {0} /\ 1 \in 1..Len(f[d]) /\ b \in Kernel!Block
  BY <1>1
<1>3. Listed(f[d], b) /\ Distinct(f[d])
  BY <1>1, <1>2 DEF Listed, ListInv
<1>4. a[p] # None /\ a[p].desc = d /\ Within(a, b) /\ b \notin use
  BY <1>1, <1>2, <1>3 DEF ListInv
<1>5. p \in Kernel!Page /\ d # None /\ n \in Nat \ {0} /\ a[p] \in Headers
  BY <1>1, <1>2, <1>4, BlockIs, NoneIs, Room
<1>. HIDE DEF n, p
<1>6. /\ Cardinality(u) \in Nat /\ Cardinality(u) > 0 /\ a[p].freeCnt = n - Cardinality(u)
      /\ a[p].freeCnt \in Nat
  <2>1. Counted(a, use, p)
    BY <1>1, <1>4, <1>5 DEF CountInv
  <2>. QED BY <2>1, <1>1, <1>4, <1>5, UsedOnFinite DEF Counted, Headers, n
<1>7. a[p].freeCnt > 0
  <2>1. UsedOn(use \cup {b}, p) \subseteq {Kernel!BlockAt(p, i) : i \in 0..n - 1}
    <3>1. SUFFICES ASSUME NEW c \in use \cup {b}, c.page = p PROVE \E i \in 0..n - 1 : c = Kernel!BlockAt(p, i)
      BY DEF UsedOn
    <3>2. c \in Kernel!Block /\ Within(a, c)
      BY <1>1, <1>2, <1>4 DEF UseInv
    <3>3. c = Kernel!BlockAt(p, c.idx) /\ c.idx \in Nat
      BY <3>1, <3>2, BlockIs
    <3>4. c.idx < n
      BY <3>1, <3>2, <1>4, <1>5 DEF Within, n
    <3>. QED BY <3>3, <3>4, <1>5
  <2>2. /\ IsFiniteSet({Kernel!BlockAt(p, i) : i \in 0..n - 1})
        /\ Cardinality({Kernel!BlockAt(p, i) : i \in 0..n - 1}) <= n
    <3>. DEFINE S == 0..n - 1
                T == {Kernel!BlockAt(p, i) : i \in S}
                g == [i \in S |-> Kernel!BlockAt(p, i)]
    <3>1. 0 \in Int /\ n - 1 \in Int /\ ~(0 > n - 1) /\ (n - 1) - 0 + 1 = n
      BY <1>5
    <3>2. IsFiniteSet(0..n - 1) /\ Cardinality(0..n - 1) = n
      BY <3>1, FS_Interval
    <3>3. g \in Surjection(S, T)
      BY DEF Surjection
    <3>4. IsFiniteSet(S) /\ Cardinality(S) = n
      BY <3>2
    <3>. HIDE DEF S, T, g
    <3>5. IsFiniteSet(T) /\ Cardinality(T) <= Cardinality(S)
      BY <3>3, <3>4, FS_Surjection
    <3>6. IsFiniteSet(T) /\ Cardinality(T) <= n
      BY <3>4, <3>5
    <3>. QED BY <3>6 DEF S, T
  <2>3. Cardinality(UsedOn(use \cup {b}, p)) <= n
    <3>1. /\ Cardinality(UsedOn(use \cup {b}, p)) <= Cardinality({Kernel!BlockAt(p, i) : i \in 0..n - 1})
          /\ IsFiniteSet(UsedOn(use \cup {b}, p))
      BY <2>1, <2>2, FS_Subset
    <3>2. /\ Cardinality(UsedOn(use \cup {b}, p)) \in Nat
          /\ Cardinality({Kernel!BlockAt(p, i) : i \in 0..n - 1}) \in Nat
      BY <2>2, <3>1, FS_CardinalityType
    <3>. QED BY <3>1, <3>2, <2>2, <1>5
  <2>4. Cardinality(UsedOn(use \cup {b}, p)) = Cardinality(u) + 1
    BY <1>1, <1>2, <1>4, UsedOnAdd DEF p
  <2>. QED BY <2>3, <2>4, <1>5, <1>6
<1>8. /\ a2 \in [Kernel!Page -> Headers \cup {None}]
      /\ a2[p] # None /\ a2[p].desc = d /\ a2[p].freeCnt = a[p].freeCnt - 1
      /\ \A q \in Kernel!Page \ {p} : a2[q] = a[q]
  <2>1. PICK h : h = [a[p] EXCEPT !.freeCnt = a[p].freeCnt - 1]
    OBVIOUS
  <2>2. a2 = [a EXCEPT ![p] = h]
    BY <2>1, <1>1, <1>5 DEF WithCount, p
  <2>3. h = [desc |-> d, freeCnt |-> a[p].freeCnt - 1]
    BY <2>1, <1>4, <1>5 DEF Headers
  <2>4. a[p].freeCnt - 1 \in Nat
    BY <1>6, <1>7
  <2>5. h \in Headers /\ None # h /\ h.desc = d /\ h.freeCnt = a[p].freeCnt - 1
    BY <2>3, <2>4, NoneIs DEF Headers
  <2>6. a \in [Kernel!Page -> Headers \cup {None}] /\ p \in Kernel!Page
    BY <1>1, <1>5
  <2>7. a2 \in [Kernel!Page -> Headers \cup {None}]
    BY <2>2, <2>5, <2>6
  <2>8. a2[p] = h /\ \A q \in Kernel!Page \ {p} : a2[q] = a[q]
    BY <2>2, <2>6
  <2>. QED BY <2>5, <2>7, <2>8
<1>9. \A q \in Kernel!Page : /\ a2[q] = None <=> a[q] = None
                             /\ a2[q].desc = a[q].desc
                             /\ a[q] # None => Extent(a2, q) = Extent(a, q)
  BY <1>4, <1>5, <1>8 DEF Extent
<1>10. PagesInv(a2, t)
  <2>1. \A q \in Kernel!Page : (a2[q] = None <=> a[q] = None)
                               /\ (a[q] # None => Extent(a2, q) = Extent(a, q))
    BY <1>9
  <2>2. PagesInv(a, t)
    BY <1>1
  <2>. QED BY <2>1, <2>2 DEF PagesInv
<1>11. \A c \in Kernel!Block : Within(a2, c) <=> Within(a, c)
  BY <1>9, BlockIs DEF Within
<1>12. UseInv(a2, use \cup {b})
  BY <1>1, <1>2, <1>4, <1>11 DEF UseInv
<1>. DEFINE s == f[d]
            r == Tail(s)
<1>13. /\ r \in Seq(Kernel!Block) /\ Len(r) = Len(s) - 1 /\ s \in Seq(Kernel!Block)
       /\ \A i \in 1..Len(s) - 1 : r[i] = s[i + 1]
  BY <1>2
<1>14. f2 \in [Kernel!BlockSize -> Seq(Kernel!Block)] /\ f2[d] = r /\ \A e \in Kernel!BlockSize \ {d} : f2[e] = f[e]
  BY <1>1, <1>13 DEF With
<1>15. Distinct(s) /\ b = s[1] /\ Len(s) \in Nat \ {0}
  BY <1>2, <1>3
<1>. HIDE DEF r, s
<1>16. Distinct(r)
  <2>1. SUFFICES ASSUME NEW i \in 1..Len(r), NEW j \in 1..Len(r), r[i] = r[j] PROVE i = j
    BY DEF Distinct
  <2>2. i + 1 \in 1..Len(s) /\ j + 1 \in 1..Len(s) /\ s[i + 1] = s[j + 1]
    BY <2>1, <1>13, <1>15
  <2>3. i + 1 = j + 1
    BY <2>2, <1>15 DEF Distinct
  <2>. QED BY <2>3, <1>13, <1>15
<1>17. \A c \in Kernel!Block : Listed(r, c) <=> Listed(s, c) /\ c # b
  <2>1. SUFFICES ASSUME NEW c \in Kernel!Block PROVE Listed(r, c) <=> Listed(s, c) /\ c # b
    OBVIOUS
  <2>2. ASSUME Listed(r, c) PROVE Listed(s, c) /\ c # b
    <3>1. PICK i \in 1..Len(s) - 1 : r[i] = c
      BY <2>2, <1>13 DEF Listed
    <3>2. i + 1 \in 1..Len(s) /\ s[i + 1] = c /\ i + 1 # 1 /\ 1 \in 1..Len(s)
      BY <3>1, <1>13, <1>15
    <3>. QED BY <3>2, <1>15 DEF Listed, Distinct
  <2>3. ASSUME Listed(s, c), c # b PROVE Listed(r, c)
    <3>1. PICK i \in 1..Len(s) : s[i] = c
      BY <2>3 DEF Listed
    <3>2. i - 1 \in 1..Len(s) - 1 /\ r[i - 1] = s[(i - 1) + 1] /\ (i - 1) + 1 = i
      BY <3>1, <2>3, <1>13, <1>15
    <3>. QED BY <3>1, <3>2, <1>13 DEF Listed
  <2>. QED BY <2>2, <2>3
<1>18. ListInv(a2, f2, use \cup {b})
  <2>1. SUFFICES ASSUME NEW e \in Kernel!BlockSize
                 PROVE  /\ Distinct(f2[e])
                        /\ \A c \in Kernel!Block : Listed(f2[e], c) <=>
                             a2[c.page] # None /\ a2[c.page].desc = e /\ Within(a2, c) /\ c \notin use \cup {b}
    BY DEF ListInv
  <2>2. Distinct(f2[e])
    BY <1>1, <1>14, <1>16 DEF ListInv
  <2>3. SUFFICES ASSUME NEW c \in Kernel!Block
                 PROVE  Listed(f2[e], c) <=>
                           a2[c.page] # None /\ a2[c.page].desc = e /\ Within(a2, c) /\ c \notin use \cup {b}
    BY <2>2
  <2>4. Listed(f[e], c) <=> a[c.page] # None /\ a[c.page].desc = e /\ Within(a, c) /\ c \notin use
    BY <1>1 DEF ListInv
  <2>5. /\ c.page \in Kernel!Page /\ (a2[c.page] = None <=> a[c.page] = None)
        /\ a2[c.page].desc = a[c.page].desc /\ (Within(a2, c) <=> Within(a, c))
    BY <1>9, <1>11, BlockIs
  <2>6. CASE e = d
    BY <2>4, <2>5, <2>6, <1>14, <1>17 DEF s
  <2>7. CASE e # d
    <3>1. a[c.page].desc = e => c # b
      BY <2>7, <1>4 DEF p
    <3>. QED BY <3>1, <2>4, <2>5, <2>7, <1>14
  <2>. QED BY <2>6, <2>7
<1>19. CountInv(a2, use \cup {b})
  <2>1. SUFFICES ASSUME NEW q \in Kernel!Page, a2[q] # None, a2[q].desc # None PROVE Counted(a2, use \cup {b}, q)
    BY DEF CountInv
  <2>2. CASE q # p
    <3>1. \A x : x # b.page => UsedOn(use \cup {b}, x) = UsedOn(use, x)
      BY <1>1, <1>2, <1>4, UsedOnAdd
    <3>2. a2[q] = a[q] /\ UsedOn(use \cup {b}, q) = UsedOn(use, q)
      BY <3>1, <2>2, <1>8 DEF p
    <3>. QED BY <2>1, <3>2, <1>1 DEF CountInv, Counted
  <2>3. CASE q = p
    <3>1. Cardinality(UsedOn(use \cup {b}, p)) = Cardinality(u) + 1
      BY <1>1, <1>2, <1>4, UsedOnAdd DEF p
    <3>2. PICK x : x = Cardinality(u)
      OBVIOUS
    <3>3. x \in Nat /\ a[p].freeCnt = n - x /\ a2[p].freeCnt = a[p].freeCnt - 1 /\ n \in Nat
      BY <3>2, <1>5, <1>6, <1>8
    <3>4. x + 1 > 0 /\ a2[p].freeCnt = n - (x + 1)
      BY <3>3
    <3>5. Cardinality(UsedOn(use \cup {b}, p)) = x + 1
      BY <3>1, <3>2
    <3>. QED BY <2>3, <3>4, <3>5, <1>8 DEF Counted, n
  <2>. QED BY <2>2, <2>3
<1>20. StoreType(a2, f2, t, use \cup {b})
  BY <1>1, <1>2, <1>4, <1>8, <1>14, UsedOnAdd DEF StoreType
<1>21. SizesKept(a, a2, use)
  <2>1. SUFFICES ASSUME NEW c \in use PROVE SizeKept(a, a2, c)
    BY DEF SizesKept
  <2>2. c.page \in Kernel!Page
    BY <1>1, BlockIs
  <2>3. c.page = p => a[c.page].desc # None
    BY <1>4, <1>5
  <2>. QED BY <2>2, <2>3, <1>8, <1>9 DEF SizeKept
<1>22. StoreInv(a2, f2, t, use \cup {b})
  BY <1>10, <1>12, <1>18, <1>19, <1>20 DEF StoreInv
<1>23. SizeUnder(a2, b) >= size
  BY <1>5, <1>8 DEF SizeUnder, p
<1>. QED BY <1>2, <1>4, <1>21, <1>22, <1>23 DEF Got

-----------------------------------------------------------------------------
\* A block that is alone in its arena.
LEMMA Alone ==
  ASSUME NEW use, IsFiniteSet(use), NEW b \in use, Cardinality(UsedOn(use, b.page)) = 1
  PROVE  \A c \in use : c.page = b.page => c = b
<1>1. b \in UsedOn(use, b.page)
  BY DEF UsedOn
<1>2. PICK x : UsedOn(use, b.page) = {x}
  BY UsedOnFinite, FS_Singleton
<1>. QED BY <1>1, <1>2 DEF UsedOn

LEMMA Cons ==
  ASSUME NEW s \in Seq(Kernel!Block), NEW b \in Kernel!Block, Distinct(s), ~Listed(s, b)
  PROVE  /\ <<b>> \o s \in Seq(Kernel!Block) /\ Distinct(<<b>> \o s)
         /\ \A c \in Kernel!Block : Listed(<<b>> \o s, c) <=> c = b \/ Listed(s, c)
<1>. DEFINE r == <<b>> \o s
<1>1. /\ r \in Seq(Kernel!Block) /\ Len(r) = Len(s) + 1 /\ r[1] = b /\ Len(s) \in Nat
      /\ \A i \in 1..Len(s) : r[i + 1] = s[i]
  OBVIOUS
<1>. HIDE DEF r
<1>2. \A i \in 1..Len(r) : i = 1 \/ (i - 1 \in 1..Len(s) /\ r[i] = s[i - 1])
  <2>1. SUFFICES ASSUME NEW i \in 1..Len(r), i # 1 PROVE i - 1 \in 1..Len(s) /\ r[i] = s[i - 1]
    OBVIOUS
  <2>2. i - 1 \in 1..Len(s) /\ (i - 1) + 1 = i
    BY <2>1, <1>1
  <2>. QED BY <2>2, <1>1
<1>3. Distinct(r)
  <2>1. SUFFICES ASSUME NEW i \in 1..Len(r), NEW j \in 1..Len(r), r[i] = r[j] PROVE i = j
    BY DEF Distinct
  <2>2. i = 1 => j = 1
    BY <2>1, <1>1, <1>2 DEF Listed
  <2>3. j = 1 => i = 1
    BY <2>1, <1>1, <1>2 DEF Listed
  <2>4. CASE i # 1 /\ j # 1
    <3>1. i - 1 = j - 1
      BY <2>1, <2>4, <1>2 DEF Distinct
    <3>. QED BY <3>1, <1>1
  <2>. QED BY <2>2, <2>3, <2>4
<1>4. ASSUME NEW c \in Kernel!Block PROVE Listed(r, c) <=> c = b \/ Listed(s, c)
  <2>1. ASSUME Listed(r, c) PROVE c = b \/ Listed(s, c)
    BY <2>1, <1>1, <1>2 DEF Listed
  <2>2. ASSUME c = b PROVE Listed(r, c)
    <3>1. 1 \in 1..Len(r)
      BY <1>1
    <3>. QED BY <3>1, <2>2, <1>1 DEF Listed
  <2>3. ASSUME Listed(s, c) PROVE Listed(r, c)
    <3>1. PICK i \in 1..Len(s) : s[i] = c
      BY <2>3 DEF Listed
    <3>2. i + 1 \in 1..Len(r) /\ r[i + 1] = c
      BY <3>1, <1>1
    <3>. QED BY <3>2 DEF Listed
  <2>. QED BY <2>1, <2>2, <2>3
<1>. QED BY <1>1, <1>3, <1>4 DEF r

\* A big block goes with its pages.
LEMMA BigPut ==
  ASSUME Kernel!MallocAssumption, NEW a, NEW f, NEW t, NEW use, StoreInv(a, f, t, use),
         NEW b \in use, a[b.page].desc = None,
         NEW a2, a2 = With(a, b.page, None)
  PROVE  Gone(a, a2, f, t \ (b.page..b.page + a[b.page].freeCnt - 1), use, b)
<1>. DEFINE p == b.page
<1>1. /\ a \in [Kernel!Page -> Headers \cup {None}] /\ f \in [Kernel!BlockSize -> Seq(Kernel!Block)]
      /\ t \in SUBSET Kernel!Page /\ use \in SUBSET Kernel!Block /\ IsFiniteSet(use)
      /\ PagesInv(a, t) /\ UseInv(a, use) /\ ListInv(a, f, use) /\ CountInv(a, use)
  BY DEF StoreInv, StoreType
<1>2. p \in Kernel!Page /\ b \in Kernel!Block
  BY <1>1, BlockIs
<1>3. a[p] # None /\ a[p].desc = None
  BY <1>1 DEF UseInv, Within
<1>. HIDE DEF p
<1>4. /\ a2 \in [Kernel!Page -> Headers \cup {None}] /\ a2[p] = None
      /\ \A q \in Kernel!Page \ {p} : a2[q] = a[q]
  BY <1>1, <1>2 DEF With, p
<1>5. Extent(a, p) = p..p + a[p].freeCnt - 1
  BY <1>3 DEF Extent
<1>6. PagesInv(a2, t \ (p..p + a[p].freeCnt - 1))
  <2>1. PagesInv(a2, t \ Extent(a, p))
    BY <1>1, <1>2, <1>3, <1>4, PagesRemove
  <2>. QED BY <2>1, <1>5
<1>7. \A c \in use \ {b} : c.page \in Kernel!Page \ {p}
  <2>1. SUFFICES ASSUME NEW c \in use \ {b} PROVE c.page \in Kernel!Page /\ c.page # p
    OBVIOUS
  <2>2. c \in Kernel!Block /\ c.page \in Kernel!Page
    BY <1>1, BlockIs
  <2>3. c.page = p => c.idx = 0
    BY <1>1, <1>3 DEF UseInv, Within
  <2>4. b.idx = 0
    BY <1>1, <1>3 DEF UseInv, Within, p
  <2>. QED BY <2>2, <2>3, <2>4, <1>2, BlockIs DEF p
<1>8. UseInv(a2, use \ {b})
  <2>1. \A c \in use \ {b} : a2[c.page] # None /\ a2[c.page].desc = a[c.page].desc
    BY <1>1, <1>4, <1>7 DEF UseInv, Within
  <2>. QED BY <1>1, <2>1, UseRemove
<1>9. ListInv(a2, f, use \ {b})
  <2>1. SUFFICES ASSUME NEW d \in Kernel!BlockSize, NEW c \in Kernel!Block
                 PROVE  Listed(f[d], c) <=>
                           a2[c.page] # None /\ a2[c.page].desc = d /\ Within(a2, c) /\ c \notin use \ {b}
    BY <1>1 DEF ListInv
  <2>2. Listed(f[d], c) <=> a[c.page] # None /\ a[c.page].desc = d /\ Within(a, c) /\ c \notin use
    BY <1>1 DEF ListInv
  <2>3. CASE c.page = p
    BY <2>2, <2>3, <1>3, <1>4, NoneIs
  <2>4. CASE c.page # p
    <3>1. c # b /\ a2[c.page] = a[c.page]
      BY <2>4, <1>4, BlockIs DEF p
    <3>. QED BY <3>1, <2>2 DEF Within
  <2>. QED BY <2>3, <2>4
<1>10. CountInv(a2, use \ {b})
  <2>1. SUFFICES ASSUME NEW q \in Kernel!Page, a2[q] # None, a2[q].desc # None PROVE Counted(a2, use \ {b}, q)
    BY DEF CountInv
  <2>2. q # p /\ a2[q] = a[q]
    BY <2>1, <1>4
  <2>3. \A x : x # b.page => UsedOn(use \ {b}, x) = UsedOn(use, x)
    BY <1>1, UsedOnRemove
  <2>4. UsedOn(use \ {b}, q) = UsedOn(use, q)
    BY <2>2, <2>3 DEF p
  <2>. QED BY <2>1, <2>2, <2>4, <1>1 DEF CountInv, Counted
<1>11. StoreType(a2, f, t \ (p..p + a[p].freeCnt - 1), use \ {b})
  BY <1>1, <1>4, UsedOnRemove DEF StoreType
<1>12. SizesKept(a, a2, use \ {b})
  BY <1>4, <1>7 DEF SizesKept, SizeKept
<1>. QED BY <1>6, <1>8, <1>9, <1>10, <1>11, <1>12 DEF Gone, StoreInv, p

\* The last block of an arena in use: the others leave the list, and the page goes.
LEMMA ArenaPut ==
  ASSUME Kernel!MallocAssumption, NEW a, NEW f, NEW t, NEW use, StoreInv(a, f, t, use),
         NEW b \in use, NEW d, d = a[b.page].desc, d # None,
         a[b.page].freeCnt + 1 >= Kernel!BlocksPerArena(d),
         NEW a2, a2 = With(a, b.page, None),
         NEW f2, f2 = With(f, d, Kernel!Without(<<b>> \o f[d], b.page))
  PROVE  Gone(a, a2, f2, t \ {b.page}, use, b)
<1>. DEFINE p == b.page
            w == Kernel!Without(<<b>> \o f[d], b.page)
<1>1. /\ a \in [Kernel!Page -> Headers \cup {None}] /\ f \in [Kernel!BlockSize -> Seq(Kernel!Block)]
      /\ t \in SUBSET Kernel!Page /\ use \in SUBSET Kernel!Block /\ IsFiniteSet(use)
      /\ PagesInv(a, t) /\ UseInv(a, use) /\ ListInv(a, f, use) /\ CountInv(a, use)
  BY DEF StoreInv, StoreType
<1>2. p \in Kernel!Page /\ b \in Kernel!Block
  BY <1>1, BlockIs
<1>3. a[p] # None /\ a[p].desc = d /\ Within(a, b)
  BY <1>1 DEF UseInv, Within
<1>4. d \in Kernel!BlockSize /\ a[p].freeCnt \in Nat /\ Kernel!BlocksPerArena(d) \in Nat \ {0}
  BY <1>1, <1>2, <1>3, Room DEF Headers
<1>5. ~Listed(f[d], b) /\ Distinct(f[d]) /\ f[d] \in Seq(Kernel!Block)
  BY <1>1, <1>2, <1>4 DEF ListInv
<1>6. /\ w \in Seq(Kernel!Block) /\ Distinct(w)
      /\ \A c \in Kernel!Block : Listed(w, c) <=> Listed(f[d], c) /\ c.page # p
  <2>. DEFINE s == <<b>> \o f[d]
  <2>1. /\ s \in Seq(Kernel!Block) /\ Distinct(s)
        /\ \A c \in Kernel!Block : Listed(s, c) <=> c = b \/ Listed(f[d], c)
    BY <1>2, <1>5, Cons
  <2>. HIDE DEF s
  <2>2. /\ Kernel!Without(s, p) \in Seq(Kernel!Block) /\ Distinct(Kernel!Without(s, p))
        /\ \A c \in Kernel!Block : Listed(Kernel!Without(s, p), c) <=> Listed(s, c) /\ c.page # p
    BY <2>1, <1>2, WithoutIs
  <2>. QED BY <2>1, <2>2 DEF s
<1>. HIDE DEF p, w
<1>7. Counted(a, use, p)
  BY <1>1, <1>2, <1>3 DEF CountInv
<1>8. Cardinality(UsedOn(use, p)) = 1
  <2>1. Cardinality(UsedOn(use, p)) \in Nat
    BY <1>1, UsedOnFinite
  <2>2. a[p].freeCnt + 1 >= Kernel!BlocksPerArena(d)
    BY DEF p
  <2>. QED BY <2>1, <2>2, <1>3, <1>4, <1>7 DEF Counted
<1>9. /\ a2 \in [Kernel!Page -> Headers \cup {None}] /\ a2[p] = None
      /\ \A q \in Kernel!Page \ {p} : a2[q] = a[q]
  BY <1>1, <1>2 DEF With, p
<1>10. Extent(a, p) = {p}
  <2>1. p \in Nat
    BY <1>2, PagesAre
  <2>. QED BY <2>1, <1>3 DEF Extent
<1>11. PagesInv(a2, t \ {p})
  <2>1. PagesInv(a2, t \ Extent(a, p))
    BY <1>1, <1>2, <1>3, <1>9, PagesRemove
  <2>. QED BY <2>1, <1>10
<1>12. \A c \in use \ {b} : c.page \in Kernel!Page \ {p}
  <2>1. \A c \in use : c.page = b.page => c = b
    BY <1>1, <1>8, Alone DEF p
  <2>. QED BY <2>1, <1>1, BlockIs DEF p
<1>13. UseInv(a2, use \ {b})
  <2>1. \A c \in use \ {b} : a2[c.page] # None /\ a2[c.page].desc = a[c.page].desc
    BY <1>1, <1>9, <1>12 DEF UseInv, Within
  <2>. QED BY <1>1, <2>1, UseRemove
<1>14. f2 \in [Kernel!BlockSize -> Seq(Kernel!Block)] /\ f2[d] = w /\ \A e \in Kernel!BlockSize \ {d} : f2[e] = f[e]
  BY <1>1, <1>4, <1>6 DEF With, w
<1>15. ListInv(a2, f2, use \ {b})
  <2>1. SUFFICES ASSUME NEW e \in Kernel!BlockSize
                 PROVE  /\ Distinct(f2[e])
                        /\ \A c \in Kernel!Block : Listed(f2[e], c) <=>
                             a2[c.page] # None /\ a2[c.page].desc = e /\ Within(a2, c) /\ c \notin use \ {b}
    BY DEF ListInv
  <2>2. Distinct(f2[e])
    BY <1>1, <1>6, <1>14 DEF ListInv
  <2>3. SUFFICES ASSUME NEW c \in Kernel!Block
                 PROVE  Listed(f2[e], c) <=>
                           a2[c.page] # None /\ a2[c.page].desc = e /\ Within(a2, c) /\ c \notin use \ {b}
    BY <2>2
  <2>4. Listed(f[e], c) <=> a[c.page] # None /\ a[c.page].desc = e /\ Within(a, c) /\ c \notin use
    BY <1>1 DEF ListInv
  <2>5. Listed(f2[e], c) <=> Listed(f[e], c) /\ c.page # p
    <3>1. CASE e = d
      BY <3>1, <1>6, <1>14
    <3>2. CASE e # d
      BY <3>2, <2>4, <1>3, <1>14
    <3>. QED BY <3>1, <3>2
  <2>6. CASE c.page = p
    BY <2>5, <2>6, <1>9
  <2>7. CASE c.page # p
    <3>1. c # b /\ a2[c.page] = a[c.page]
      BY <2>7, <1>9, BlockIs DEF p
    <3>. QED BY <3>1, <2>4, <2>5, <2>7 DEF Within
  <2>. QED BY <2>6, <2>7
<1>16. CountInv(a2, use \ {b})
  <2>1. SUFFICES ASSUME NEW q \in Kernel!Page, a2[q] # None, a2[q].desc # None PROVE Counted(a2, use \ {b}, q)
    BY DEF CountInv
  <2>2. q # p /\ a2[q] = a[q]
    BY <2>1, <1>9
  <2>3. \A x : x # b.page => UsedOn(use \ {b}, x) = UsedOn(use, x)
    BY <1>1, UsedOnRemove
  <2>4. UsedOn(use \ {b}, q) = UsedOn(use, q)
    BY <2>2, <2>3 DEF p
  <2>. QED BY <2>1, <2>2, <2>4, <1>1 DEF CountInv, Counted
<1>17. StoreType(a2, f2, t \ {p}, use \ {b})
  BY <1>1, <1>9, <1>14, UsedOnRemove DEF StoreType
<1>18. SizesKept(a, a2, use \ {b})
  BY <1>9, <1>12 DEF SizesKept, SizeKept
<1>. QED BY <1>11, <1>13, <1>15, <1>16, <1>17, <1>18 DEF Gone, StoreInv, p

\* Another block goes back to the front of its list.
LEMMA BlockPut ==
  ASSUME Kernel!MallocAssumption, NEW a, NEW f, NEW t, NEW use, StoreInv(a, f, t, use),
         NEW b \in use, NEW d, d = a[b.page].desc, d # None,
         NEW count, count = a[b.page].freeCnt + 1, ~(count >= Kernel!BlocksPerArena(d)),
         NEW a2, a2 = WithCount(a, b.page, count),
         NEW f2, f2 = With(f, d, <<b>> \o f[d])
  PROVE  Gone(a, a2, f2, t, use, b)
<1>. DEFINE p == b.page
            w == <<b>> \o f[d]
<1>1. /\ a \in [Kernel!Page -> Headers \cup {None}] /\ f \in [Kernel!BlockSize -> Seq(Kernel!Block)]
      /\ t \in SUBSET Kernel!Page /\ use \in SUBSET Kernel!Block /\ IsFiniteSet(use)
      /\ PagesInv(a, t) /\ UseInv(a, use) /\ ListInv(a, f, use) /\ CountInv(a, use)
  BY DEF StoreInv, StoreType
<1>2. p \in Kernel!Page /\ b \in Kernel!Block
  BY <1>1, BlockIs
<1>3. a[p] # None /\ a[p].desc = d /\ Within(a, b)
  BY <1>1 DEF UseInv, Within
<1>4. d \in Kernel!BlockSize /\ a[p].freeCnt \in Nat /\ Kernel!BlocksPerArena(d) \in Nat \ {0} /\ a[p] \in Headers
  BY <1>1, <1>2, <1>3, Room DEF Headers
<1>5. ~Listed(f[d], b) /\ Distinct(f[d]) /\ f[d] \in Seq(Kernel!Block)
  BY <1>1, <1>2, <1>4 DEF ListInv
<1>6. /\ w \in Seq(Kernel!Block) /\ Distinct(w)
      /\ \A c \in Kernel!Block : Listed(w, c) <=> c = b \/ Listed(f[d], c)
  BY <1>2, <1>5, Cons
<1>. HIDE DEF p, w
<1>7. Counted(a, use, p) /\ Cardinality(UsedOn(use, p)) \in Nat
  BY <1>1, <1>2, <1>3, UsedOnFinite DEF CountInv
<1>8. /\ a2 \in [Kernel!Page -> Headers \cup {None}]
      /\ a2[p] # None /\ a2[p].desc = d /\ a2[p].freeCnt = count
      /\ \A q \in Kernel!Page \ {p} : a2[q] = a[q]
  <2>1. PICK h : h = [a[p] EXCEPT !.freeCnt = count]
    OBVIOUS
  <2>2. a2 = [a EXCEPT ![p] = h]
    BY <2>1, <1>1, <1>2 DEF WithCount, p
  <2>3. h = [desc |-> d, freeCnt |-> count]
    BY <2>1, <1>3, <1>4 DEF Headers
  <2>4. count \in Nat
    BY <1>4 DEF p
  <2>5. h \in Headers /\ None # h /\ h.desc = d /\ h.freeCnt = count
    BY <1>4, <2>3, <2>4, NoneIs DEF Headers
  <2>6. a \in [Kernel!Page -> Headers \cup {None}] /\ p \in Kernel!Page
    BY <1>1, <1>2
  <2>7. a2 \in [Kernel!Page -> Headers \cup {None}]
    BY <2>2, <2>5, <2>6
  <2>8. a2[p] = h /\ \A q \in Kernel!Page \ {p} : a2[q] = a[q]
    BY <2>2, <2>6
  <2>. QED BY <2>5, <2>7, <2>8
<1>9. \A q \in Kernel!Page : /\ a2[q] = None <=> a[q] = None
                             /\ a2[q].desc = a[q].desc
                             /\ a[q] # None => Extent(a2, q) = Extent(a, q)
  BY <1>3, <1>8 DEF Extent
<1>10. PagesInv(a2, t)
  <2>1. \A q \in Kernel!Page : (a2[q] = None <=> a[q] = None)
                               /\ (a[q] # None => Extent(a2, q) = Extent(a, q))
    BY <1>9
  <2>2. PagesInv(a, t)
    BY <1>1
  <2>. QED BY <2>1, <2>2 DEF PagesInv
<1>11. \A c \in Kernel!Block : Within(a2, c) <=> Within(a, c)
  BY <1>9, BlockIs DEF Within
<1>12. UseInv(a2, use \ {b})
  BY <1>1, <1>11 DEF UseInv
<1>13. f2 \in [Kernel!BlockSize -> Seq(Kernel!Block)] /\ f2[d] = w /\ \A e \in Kernel!BlockSize \ {d} : f2[e] = f[e]
  BY <1>1, <1>4, <1>6 DEF With, w
<1>14. ListInv(a2, f2, use \ {b})
  <2>1. SUFFICES ASSUME NEW e \in Kernel!BlockSize
                 PROVE  /\ Distinct(f2[e])
                        /\ \A c \in Kernel!Block : Listed(f2[e], c) <=>
                             a2[c.page] # None /\ a2[c.page].desc = e /\ Within(a2, c) /\ c \notin use \ {b}
    BY DEF ListInv
  <2>2. Distinct(f2[e])
    BY <1>1, <1>6, <1>13 DEF ListInv
  <2>3. SUFFICES ASSUME NEW c \in Kernel!Block
                 PROVE  Listed(f2[e], c) <=>
                           a2[c.page] # None /\ a2[c.page].desc = e /\ Within(a2, c) /\ c \notin use \ {b}
    BY <2>2
  <2>4. Listed(f[e], c) <=> a[c.page] # None /\ a[c.page].desc = e /\ Within(a, c) /\ c \notin use
    BY <1>1 DEF ListInv
  <2>5. /\ c.page \in Kernel!Page /\ (a2[c.page] = None <=> a[c.page] = None)
        /\ a2[c.page].desc = a[c.page].desc /\ (Within(a2, c) <=> Within(a, c))
    BY <1>9, <1>11, BlockIs
  <2>6. c = b => a[c.page] # None /\ a[c.page].desc = d /\ Within(a, c)
    BY <1>3 DEF p
  <2>7. CASE e = d
    <3>1. Listed(f2[e], c) <=> c = b \/ Listed(f[e], c)
      BY <2>7, <1>6, <1>13
    <3>2. c \notin use \ {b} <=> c = b \/ c \notin use
      OBVIOUS
    <3>. QED BY <3>1, <3>2, <2>4, <2>5, <2>6, <2>7
  <2>8. CASE e # d
    <3>1. f2[e] = f[e]
      BY <2>8, <1>13
    <3>2. a[c.page].desc = e => c # b
      BY <2>6, <2>8
    <3>3. c # b => (c \notin use \ {b} <=> c \notin use)
      OBVIOUS
    <3>. QED BY <3>1, <3>2, <3>3, <2>4, <2>5
  <2>. QED BY <2>7, <2>8
<1>15. CountInv(a2, use \ {b})
  <2>1. SUFFICES ASSUME NEW q \in Kernel!Page, a2[q] # None, a2[q].desc # None PROVE Counted(a2, use \ {b}, q)
    BY DEF CountInv
  <2>2. CASE q # p
    <3>1. \A x : x # b.page => UsedOn(use \ {b}, x) = UsedOn(use, x)
      BY <1>1, UsedOnRemove
    <3>2. a2[q] = a[q] /\ UsedOn(use \ {b}, q) = UsedOn(use, q)
      BY <3>1, <2>2, <1>8 DEF p
    <3>. QED BY <2>1, <3>2, <1>1 DEF CountInv, Counted
  <2>3. CASE q = p
    <3>1. Cardinality(UsedOn(use \ {b}, p)) = Cardinality(UsedOn(use, p)) - 1
      BY <1>1, UsedOnRemove DEF p
    <3>2. count = a[p].freeCnt + 1 /\ ~(count >= Kernel!BlocksPerArena(d))
      BY DEF p
    <3>. QED BY <2>3, <3>1, <3>2, <1>3, <1>4, <1>7, <1>8 DEF Counted
  <2>. QED BY <2>2, <2>3
<1>16. StoreType(a2, f2, t, use \ {b})
  BY <1>1, <1>8, <1>13, UsedOnRemove DEF StoreType
<1>17. SizesKept(a, a2, use \ {b})
  <2>1. SUFFICES ASSUME NEW c \in use \ {b} PROVE SizeKept(a, a2, c)
    BY DEF SizesKept
  <2>2. c.page \in Kernel!Page
    BY <1>1, BlockIs
  <2>3. c.page = p => a[c.page].desc # None
    BY <1>3
  <2>. QED BY <2>2, <2>3, <1>8, <1>9 DEF SizeKept
<1>. QED BY <1>10, <1>12, <1>14, <1>15, <1>16, <1>17 DEF Gone, StoreInv

-----------------------------------------------------------------------------
\* malloc, whichever way, keeps the store, and its block is new and large enough.
Gets(r, size) ==
  r = Kernel!Failed \/ Got(arena, r.arena, r.freeList, r.taken, Kernel!InUse, r.block, size)

LEMMA GroupIs ==
  ASSUME Kernel!MallocAssumption, NEW n \in Nat \ {0}, Kernel!Group(n) # {}
  PROVE  LET p == Kernel!Sets!Min(Kernel!Group(n))
         IN  p \in Kernel!Page /\ p..p + n - 1 \subseteq Kernel!Page /\ p..p + n - 1 \cap pagesTaken = {}
<1>1. Kernel!Group(n) \in SUBSET Nat
  BY PagesAre DEF Kernel!Group
<1>2. Kernel!Sets!Min(Kernel!Group(n)) \in Kernel!Group(n)
  BY <1>1, LeastNumber
<1>3. PageCnt \in Nat
  BY DEF Kernel!MallocAssumption
<1>. DEFINE p == Kernel!Sets!Min(Kernel!Group(n))
<1>. HIDE DEF p
<1>4. p \in Kernel!Page /\ p + n <= PageCnt /\ p..p + n - 1 \cap pagesTaken = {}
  BY <1>2 DEF Kernel!Group, p
<1>5. p..p + n - 1 \subseteq Kernel!Page
  BY <1>3, <1>4 DEF Kernel!Page
<1>. QED BY <1>4, <1>5 DEF p

\* Pages for a block, header included, are a number of them and enough, unless the
\* number of bytes wraps.
PagesFor(size) == ((((size + Header) % Wrap) + PGSIZE - 1) % Wrap) \div PGSIZE

LEMMA PagesForFits ==
  ASSUME Kernel!MallocAssumption, NEW size \in Nat \ {0}, size + Header + PGSIZE <= Wrap
  PROVE  PGSIZE * PagesFor(size) - Header >= size
<1>1. PGSIZE \in Nat \ {0} /\ Header \in Nat /\ Wrap \in Nat
  BY DEF Kernel!MallocAssumption
<1>2. (size + Header) % Wrap = size + Header
  BY <1>1
<1>3. (size + Header + PGSIZE - 1) % Wrap = size + Header + PGSIZE - 1
  BY <1>1
<1>4. \A x, y \in Nat \ {0} : (x + y - 1) \div y \in Nat \ {0} /\ y * ((x + y - 1) \div y) >= x
  OBVIOUS
<1>5. PagesFor(size) = ((size + Header) + PGSIZE - 1) \div PGSIZE
  BY <1>1, <1>2, <1>3 DEF PagesFor
<1>6. PagesFor(size) \in Nat \ {0} /\ PGSIZE * PagesFor(size) >= size + Header
  BY <1>1, <1>4, <1>5
<1>. QED BY <1>1, <1>6

LEMMA PagesForIs ==
  ASSUME Kernel!MallocAssumption, NEW size \in Nat \ {0}
  PROVE  /\ PagesFor(size) \in Nat /\ PGSIZE * PagesFor(size) \in Nat
         /\ PagesFor(size) # 0 => PGSIZE * PagesFor(size) - Header >= Kernel!Owed(size)
<1>1. /\ PGSIZE \in Nat \ {0} /\ Header \in Nat /\ Wrap \in Nat \ {0} /\ 2 * Header <= PGSIZE
  BY DEF Kernel!MallocAssumption
<1>2. PICK m : m = (((size + Header) % Wrap) + PGSIZE - 1) % Wrap
  OBVIOUS
<1>3. m \in Nat
  <2>1. PICK k : k = (size + Header) % Wrap
    OBVIOUS
  <2>2. k \in Nat
    BY <1>1, <2>1
  <2>. QED BY <1>1, <1>2, <2>1, <2>2
<1>4. PICK n : n = PagesFor(size)
  OBVIOUS
<1>5. n = m \div PGSIZE
  BY <1>2, <1>4 DEF PagesFor
<1>6. n \in Nat
  BY <1>1, <1>3, <1>5
<1>7. PGSIZE * n \in Nat
  BY <1>1, <1>6
<1>8. ASSUME n # 0 PROVE PGSIZE * n - Header >= Kernel!Owed(size)
  <2>1. CASE size + Header + PGSIZE <= Wrap
    BY <1>4, <2>1, PagesForFits DEF Kernel!Owed
  <2>2. CASE ~(size + Header + PGSIZE <= Wrap)
    <3>1. PGSIZE * n >= PGSIZE
      BY <1>1, <1>6, <1>8
    <3>2. PGSIZE * n - Header >= 0
      BY <1>1, <1>7, <3>1
    <3>. QED BY <2>2, <3>2 DEF Kernel!Owed
  <2>. QED BY <2>1, <2>2
<1>. QED BY <1>4, <1>6, <1>7, <1>8

LEMMA OwedIs ==
  ASSUME Kernel!MallocAssumption, NEW n \in Nat
  PROVE  Kernel!Owed(n) \in Nat /\ Kernel!Owed(n) <= n
BY DEF Kernel!Owed

LEMMA BigBlockGets ==
  ASSUME Kernel!MallocAssumption, StoreInv(arena, freeList, pagesTaken, Kernel!InUse),
         NEW size \in Nat \ {0}, NEW least \in Nat, least <= Kernel!Owed(size)
  PROVE  Gets(Kernel!BigBlock(size), least)
<1>. DEFINE r == Kernel!BigBlock(size)
<1>1. PICK n : n = PagesFor(size)
  OBVIOUS
<1>2. n \in Nat /\ PGSIZE * n \in Nat
  BY <1>1, PagesForIs
<1>3. n # 0 => PGSIZE * n - Header >= least
  <2>1. Kernel!Owed(size) \in Nat /\ Header \in Nat
    BY OwedIs DEF Kernel!MallocAssumption
  <2>. QED BY <1>1, <1>2, <2>1, PagesForIs
<1>4. CASE n = 0 \/ Kernel!Group(n) = {}
  BY <1>1, <1>4 DEF Kernel!BigBlock, Gets, PagesFor
<1>5. CASE n # 0 /\ Kernel!Group(n) # {}
  <2>0. n \in Nat \ {0}
    BY <1>2, <1>5
  <2>1. PICK p : p = Kernel!Sets!Min(Kernel!Group(n))
    OBVIOUS
  <2>2. p \in Kernel!Page /\ p..p + n - 1 \subseteq Kernel!Page /\ p..p + n - 1 \cap pagesTaken = {}
    BY <2>0, <1>5, <2>1, GroupIs
  <2>3. PICK a2 : a2 = With(arena, p, [desc |-> None, freeCnt |-> n])
    OBVIOUS
  <2>4. r = Kernel!Result(Kernel!BlockAt(p, 0), a2, freeList, pagesTaken \cup p..p + n - 1)
    BY <1>1, <1>5, <2>1, <2>3 DEF Kernel!BigBlock, PagesFor, With
  <2>5. p \in Kernel!Page
    BY <2>2
  <2>. HIDE DEF r
  <2>6. p..p + n - 1 \subseteq Kernel!Page
    BY <2>2
  <2>7. p..p + n - 1 \cap pagesTaken = {}
    BY <2>2
  <2>8. PGSIZE * n - Header >= least
    BY <1>3, <1>5
  <2>9. Got(arena, a2, freeList, pagesTaken \cup p..p + n - 1, Kernel!InUse, Kernel!BlockAt(p, 0), least)
    BY <2>0, <2>3, <2>5, <2>6, <2>7, <2>8, BigGot, Zenon
  <2>10. r.block = Kernel!BlockAt(p, 0) /\ r.arena = a2 /\ r.freeList = freeList /\ r.taken = pagesTaken \cup p..p + n - 1
    BY <2>4 DEF Kernel!Result
  <2>. QED BY <2>9, <2>10 DEF Gets, r
<1>. QED BY <1>4, <1>5

LEMMA SmallBlockGets ==
  ASSUME Kernel!MallocAssumption, StoreInv(arena, freeList, pagesTaken, Kernel!InUse),
         NEW d \in Kernel!BlockSize, NEW size \in Nat, d >= size
  PROVE  Gets(Kernel!SmallBlock(d), size)
<1>. DEFINE r == Kernel!SmallBlock(d)
<1>1. arena \in [Kernel!Page -> Headers \cup {None}] /\ freeList \in [Kernel!BlockSize -> Seq(Kernel!Block)]
  BY DEF StoreInv, StoreType
<1>2. CASE freeList[d] = <<>> /\ Kernel!Group(1) = {}
  BY <1>2 DEF Kernel!SmallBlock, Gets
<1>3. CASE freeList[d] # <<>>
  <2>1. PICK b : b = freeList[d][1]
    OBVIOUS
  <2>2. PICK a2 : a2 = WithCount(arena, b.page, arena[b.page].freeCnt - 1)
    OBVIOUS
  <2>3. PICK f2 : f2 = With(freeList, d, Tail(freeList[d]))
    OBVIOUS
  <2>4. r = Kernel!Result(b, a2, f2, pagesTaken)
    BY <1>3, <2>1, <2>2, <2>3 DEF Kernel!SmallBlock, With, WithCount
  <2>. HIDE DEF r
  <2>5. Got(arena, a2, f2, pagesTaken, Kernel!InUse, b, size)
    BY <1>3, <2>1, <2>2, <2>3, BlockGot, Zenon
  <2>6. r.block = b /\ r.arena = a2 /\ r.freeList = f2 /\ r.taken = pagesTaken
    BY <2>4 DEF Kernel!Result
  <2>. QED BY <2>5, <2>6 DEF Gets, r
<1>4. CASE freeList[d] = <<>> /\ Kernel!Group(1) # {}
  <2>1. PICK p : p = Kernel!Sets!Min(Kernel!Group(1))
    OBVIOUS
  <2>2. p \in Kernel!Page /\ p..p + 1 - 1 \cap pagesTaken = {}
    BY <1>4, <2>1, GroupIs
  <2>3. p \in Kernel!Page /\ p \notin pagesTaken
    <3>1. p \in Nat
      BY <2>2, PagesAre
    <3>. QED BY <2>2, <3>1
  <2>4. Kernel!BlocksPerArena(d) \in Nat \ {0}
    BY Room
  <2>5. PICK list : list = Kernel!ArenaBlocks(p, d)
    OBVIOUS
  <2>6. list[1] = Kernel!BlockAt(p, 0) /\ list[1].page = p
    <3>1. 1 \in 1..Kernel!BlocksPerArena(d) /\ 1 - 1 = 0
      BY <2>4
    <3>. QED BY <2>5, <3>1 DEF Kernel!ArenaBlocks, Kernel!BlockAt
  <2>7. PICK h : h = [desc |-> d, freeCnt |-> Kernel!BlocksPerArena(d)]
    OBVIOUS
  <2>8. PICK made : made = [arena EXCEPT ![p] = h]
    OBVIOUS
  <2>9. PICK a2 : a2 = [made EXCEPT ![p].freeCnt = @ - 1]
    OBVIOUS
  <2>10. a2 = With(arena, p, [desc |-> d, freeCnt |-> Kernel!BlocksPerArena(d) - 1])
    <3>1. made[p] = h
      BY <1>1, <2>3, <2>8
    <3>2. PICK g : g = [h EXCEPT !.freeCnt = @ - 1]
      OBVIOUS
    <3>3. g = [desc |-> d, freeCnt |-> Kernel!BlocksPerArena(d) - 1]
      BY <2>7, <3>2
    <3>4. a2 = [made EXCEPT ![p] = g]
      BY <2>9, <3>1, <3>2
    <3>5. a2 = [arena EXCEPT ![p] = g]
      BY <2>8, <3>4, <1>1
    <3>. QED BY <3>3, <3>5 DEF With
  <2>11. PICK f2 : f2 = With(freeList, d, Tail(list))
    OBVIOUS
  <2>12. r = Kernel!Result(Kernel!BlockAt(p, 0), a2, f2, pagesTaken \cup {p})
    BY <1>4, <2>1, <2>5, <2>6, <2>7, <2>8, <2>9, <2>11 DEF Kernel!SmallBlock, With
  <2>. HIDE DEF r
  <2>13. f2 = With(freeList, d, Tail(Kernel!ArenaBlocks(p, d)))
    BY <2>5, <2>11
  <2>14. freeList[d] = <<>>
    BY <1>4
  <2>15. p \notin pagesTaken
    BY <2>3
  <2>16. Got(arena, a2, f2, pagesTaken \cup {p}, Kernel!InUse, Kernel!BlockAt(p, 0), size)
    BY <2>3, <2>10, <2>13, <2>14, <2>15, ArenaGot, Zenon
  <2>17. r.block = Kernel!BlockAt(p, 0) /\ r.arena = a2 /\ r.freeList = f2 /\ r.taken = pagesTaken \cup {p}
    BY <2>12 DEF Kernel!Result
  <2>. QED BY <2>16, <2>17 DEF Gets, r
<1>. QED BY <1>2, <1>3, <1>4

LEMMA GetGets ==
  ASSUME Kernel!MallocAssumption, StoreInv(arena, freeList, pagesTaken, Kernel!InUse),
         NEW size \in Nat, NEW least \in Nat, least <= Kernel!Owed(size)
  PROVE  Gets(Kernel!Get(size), least)
<1>1. CASE size = 0
  BY <1>1 DEF Kernel!Get, Gets
<1>2. CASE size # 0 /\ Kernel!DescFor(size) = {}
  <2>1. Gets(Kernel!BigBlock(size), least)
    BY <1>2, BigBlockGets
  <2>. QED BY <1>2, <2>1 DEF Kernel!Get
<1>3. CASE size # 0 /\ Kernel!DescFor(size) # {}
  <2>1. Kernel!DescFor(size) \in SUBSET Nat
    BY Room DEF Kernel!DescFor
  <2>2. PICK d : d = Kernel!Sets!Min(Kernel!DescFor(size))
    OBVIOUS
  <2>3. d \in Kernel!DescFor(size)
    BY <1>3, <2>1, <2>2, LeastNumber
  <2>4. d \in Kernel!BlockSize /\ d >= least
    <3>1. d \in Kernel!BlockSize /\ d >= size /\ d \in Nat
      BY <2>1, <2>3 DEF Kernel!DescFor
    <3>. QED BY <3>1, OwedIs
  <2>5. Gets(Kernel!SmallBlock(d), least)
    BY <2>4, SmallBlockGets
  <2>. QED BY <1>3, <2>2, <2>5 DEF Kernel!Get
<1>. QED BY <1>1, <1>2, <1>3

\* free keeps the store.
LEMMA PutGone ==
  ASSUME Kernel!MallocAssumption, StoreInv(arena, freeList, pagesTaken, Kernel!InUse), NEW b \in Kernel!InUse
  PROVE  LET r == Kernel!Put(b) IN Gone(arena, r.arena, r.freeList, r.taken, Kernel!InUse, b)
<1>. DEFINE r == Kernel!Put(b)
<1>1. PICK d : d = arena[b.page].desc
  OBVIOUS
<1>2. PICK count : count = arena[b.page].freeCnt + 1
  OBVIOUS
<1>3. CASE d = None
  <2>1. PICK a2 : a2 = With(arena, b.page, None)
    OBVIOUS
  <2>2. r = Kernel!Result(None, a2, freeList, pagesTaken \ (b.page..b.page + arena[b.page].freeCnt - 1))
    BY <1>1, <1>3, <2>1 DEF Kernel!Put, With
  <2>. HIDE DEF r
  <2>3. arena[b.page].desc = None
    BY <1>1, <1>3
  <2>4. Gone(arena, a2, freeList, pagesTaken \ (b.page..b.page + arena[b.page].freeCnt - 1), Kernel!InUse, b)
    BY <2>1, <2>3, BigPut, Zenon
  <2>5. /\ r.arena = a2 /\ r.freeList = freeList
        /\ r.taken = pagesTaken \ (b.page..b.page + arena[b.page].freeCnt - 1)
    BY <2>2 DEF Kernel!Result
  <2>. QED BY <2>4, <2>5 DEF r
<1>4. CASE d # None /\ count >= Kernel!BlocksPerArena(d)
  <2>1. PICK a2 : a2 = With(arena, b.page, None)
    OBVIOUS
  <2>2. PICK f2 : f2 = With(freeList, d, Kernel!Without(<<b>> \o freeList[d], b.page))
    OBVIOUS
  <2>3. r = Kernel!Result(None, a2, f2, pagesTaken \ {b.page})
    BY <1>1, <1>2, <1>4, <2>1, <2>2 DEF Kernel!Put, With
  <2>. HIDE DEF r
  <2>4. arena[b.page].freeCnt + 1 >= Kernel!BlocksPerArena(d)
    BY <1>2, <1>4
  <2>5. d # None
    BY <1>4
  <2>6. Gone(arena, a2, f2, pagesTaken \ {b.page}, Kernel!InUse, b)
    BY <1>1, <2>1, <2>2, <2>4, <2>5, ArenaPut, Zenon
  <2>7. r.arena = a2 /\ r.freeList = f2 /\ r.taken = pagesTaken \ {b.page}
    BY <2>3 DEF Kernel!Result
  <2>. QED BY <2>6, <2>7 DEF r
<1>5. CASE d # None /\ ~(count >= Kernel!BlocksPerArena(d))
  <2>1. PICK a2 : a2 = WithCount(arena, b.page, count)
    OBVIOUS
  <2>2. PICK f2 : f2 = With(freeList, d, <<b>> \o freeList[d])
    OBVIOUS
  <2>3. r = Kernel!Result(None, a2, f2, pagesTaken)
    BY <1>1, <1>2, <1>5, <2>1, <2>2 DEF Kernel!Put, With, WithCount
  <2>. HIDE DEF r
  <2>4. d # None
    BY <1>5
  <2>5. ~(count >= Kernel!BlocksPerArena(d))
    BY <1>5
  <2>6. Gone(arena, a2, f2, pagesTaken, Kernel!InUse, b)
    BY <1>1, <1>2, <2>1, <2>2, <2>4, <2>5, BlockPut, Zenon
  <2>7. r.arena = a2 /\ r.freeList = f2 /\ r.taken = pagesTaken
    BY <2>3 DEF Kernel!Result
  <2>. QED BY <2>6, <2>7 DEF r
<1>. QED BY <1>3, <1>4, <1>5

-----------------------------------------------------------------------------
\* Who has what: a block is nobody else's, nor both a user's old and its new one.
HoldType ==
  /\ held \in [User -> Kernel!Block \cup {None}] /\ moving \in [User -> Kernel!Block \cup {None}]
  /\ asked \in [User -> Nat]
MovesOwn == \A u \in User : moving[u] # None => held[u] # None
Apart ==
  \A u, v \in User :
    /\ u # v /\ held[u] = held[v] => held[u] = None
    /\ u # v /\ moving[u] = moving[v] => moving[u] = None
    /\ held[u] = moving[v] => held[u] = None
HoldInv == HoldType /\ MovesOwn /\ Apart

\* The inductive invariant: the store answers to what the users hold.
AllocInv == HoldInv /\ Kernel!BlockFits /\ StoreInv(arena, freeList, pagesTaken, Kernel!InUse)

LEMMA InitAlloc == ASSUME Kernel!MallocAssumption, Kernel!Init PROVE AllocInv
<1>1. Kernel!InUse = {}
  BY DEF Kernel!Init, Kernel!InUse
<1>2. HoldInv
  BY DEF Kernel!Init, HoldInv, HoldType, MovesOwn, Apart
<1>3. Kernel!BlockFits
  BY DEF Kernel!Init, Kernel!BlockFits
<1>4. StoreType(arena, freeList, pagesTaken, Kernel!InUse)
  BY <1>1, FS_EmptySet DEF Kernel!Init, StoreType
<1>5. PagesInv(arena, pagesTaken) /\ UseInv(arena, Kernel!InUse) /\ CountInv(arena, Kernel!InUse)
  BY <1>1 DEF Kernel!Init, PagesInv, UseInv, CountInv
<1>6. ListInv(arena, freeList, Kernel!InUse)
  <2>1. SUFFICES ASSUME NEW d \in Kernel!BlockSize
                 PROVE  /\ Distinct(freeList[d])
                        /\ \A b \in Kernel!Block : ~Listed(freeList[d], b) /\ arena[b.page] = None
    BY DEF ListInv
  <2>2. freeList[d] = <<>> /\ 1..Len(<<>>) = {}
    BY DEF Kernel!Init
  <2>3. \A b \in Kernel!Block : arena[b.page] = None
    BY BlockIs DEF Kernel!Init
  <2>. QED BY <2>2, <2>3 DEF Distinct, Listed
<1>. QED BY <1>2, <1>3, <1>4, <1>5, <1>6 DEF AllocInv, StoreInv

LEMMA InUseIs ==
  ASSUME NEW u \in User
  PROVE  (held[u] # None => held[u] \in Kernel!InUse) /\ (moving[u] # None => moving[u] \in Kernel!InUse)
BY DEF Kernel!InUse

\* What changes of who has what when a block comes, ...
LEMMA HeldMore ==
  ASSUME Kernel!MallocAssumption, HoldInv, NEW u \in User, held[u] = None,
         NEW b \in Kernel!Block, b \notin Kernel!InUse, held' = [held EXCEPT ![u] = b], moving' = moving,
         asked' \in [User -> Nat]
  PROVE  HoldInv' /\ Kernel!InUse' = Kernel!InUse \cup {b}
<1>1. b # None /\ \A v \in User : held[v] # b /\ moving[v] # b
  BY NoneIs, InUseIs
<1>2. held'[u] = b /\ \A v \in User \ {u} : held'[v] = held[v]
  BY DEF HoldInv, HoldType
<1>3. HoldType'
  BY DEF HoldInv, HoldType
<1>4. MovesOwn'
  BY <1>1, <1>2 DEF HoldInv, MovesOwn
<1>5. Apart'
  BY <1>1, <1>2 DEF HoldInv, Apart
<1>6. Kernel!InUse' = Kernel!InUse \cup {b}
  BY <1>1, <1>2 DEF Kernel!InUse
<1>. QED BY <1>3, <1>4, <1>5, <1>6 DEF HoldInv

LEMMA MovingMore ==
  ASSUME Kernel!MallocAssumption, HoldInv, NEW u \in User, held[u] # None, moving[u] = None,
         NEW b \in Kernel!Block, b \notin Kernel!InUse, moving' = [moving EXCEPT ![u] = b], held' = held,
         asked' \in [User -> Nat]
  PROVE  HoldInv' /\ Kernel!InUse' = Kernel!InUse \cup {b}
<1>1. b # None /\ \A v \in User : held[v] # b /\ moving[v] # b
  BY NoneIs, InUseIs
<1>2. moving'[u] = b /\ \A v \in User \ {u} : moving'[v] = moving[v]
  BY DEF HoldInv, HoldType
<1>3. HoldType'
  BY DEF HoldInv, HoldType
<1>4. MovesOwn'
  BY <1>1, <1>2 DEF HoldInv, MovesOwn
<1>5. Apart'
  BY <1>1, <1>2 DEF HoldInv, Apart
<1>6. Kernel!InUse' = Kernel!InUse \cup {b}
  BY <1>1, <1>2 DEF Kernel!InUse
<1>. QED BY <1>3, <1>4, <1>5, <1>6 DEF HoldInv

\* ... and when one goes, for nothing or for another.
LEMMA HeldLess ==
  ASSUME Kernel!MallocAssumption, HoldInv, NEW u \in User, held[u] # None,
         held' = [held EXCEPT ![u] = moving[u]], moving' = [moving EXCEPT ![u] = None],
         asked' \in [User -> Nat]
  PROVE  HoldInv' /\ Kernel!InUse' = Kernel!InUse \ {held[u]}
<1>1. /\ held'[u] = moving[u] /\ \A v \in User \ {u} : held'[v] = held[v]
      /\ moving'[u] = None /\ \A v \in User \ {u} : moving'[v] = moving[v]
  BY DEF HoldInv, HoldType
<1>2. HoldType'
  BY DEF HoldInv, HoldType
<1>3. MovesOwn'
  BY <1>1 DEF HoldInv, MovesOwn
<1>4. Apart'
  BY <1>1 DEF HoldInv, Apart
<1>5. Kernel!InUse' = Kernel!InUse \ {held[u]}
  <2>1. ASSUME NEW b, b \in Kernel!InUse' PROVE b \in Kernel!InUse \ {held[u]}
    <3>1. b # None /\ \E v \in User : b = held'[v] \/ b = moving'[v]
      BY <2>1 DEF Kernel!InUse
    <3>2. PICK v \in User : b = held'[v] \/ b = moving'[v]
      BY <3>1
    <3>3. CASE v = u
      BY <3>1, <3>2, <3>3, <1>1 DEF Kernel!InUse, HoldInv, Apart
    <3>4. CASE v # u
      BY <3>1, <3>2, <3>4, <1>1 DEF Kernel!InUse, HoldInv, Apart
    <3>. QED BY <3>3, <3>4
  <2>2. ASSUME NEW b, b \in Kernel!InUse \ {held[u]} PROVE b \in Kernel!InUse'
    <3>1. b # None /\ b # held[u] /\ \E v \in User : b = held[v] \/ b = moving[v]
      BY <2>2 DEF Kernel!InUse
    <3>2. PICK v \in User : b = held[v] \/ b = moving[v]
      BY <3>1
    <3>3. b = held'[v] \/ b = moving'[v]
      BY <3>1, <3>2, <1>1
    <3>. QED BY <3>1, <3>3 DEF Kernel!InUse
  <2>. QED BY <2>1, <2>2
<1>. QED BY <1>2, <1>3, <1>4, <1>5 DEF HoldInv

-----------------------------------------------------------------------------
\* Each action keeps the invariant.  The size of a block is its header's, and that
\* stays while the block is in use.
LEMMA SizeStays ==
  ASSUME NEW S, SizesKept(arena, arena', S), NEW c \in S
  PROVE  Kernel!SizeOf(c)' = Kernel!SizeOf(c)
BY DEF SizesKept, SizeKept, Kernel!SizeOf

Newest(u) == IF moving[u] # None THEN moving[u] ELSE held[u]
FitsAt(u) == Newest(u) # None => Kernel!SizeOf(Newest(u)) >= Kernel!Owed(asked[u])

LEMMA FitsIs == Kernel!BlockFits <=> \A u \in User : FitsAt(u)
BY DEF Kernel!BlockFits, FitsAt, Newest

\* The blocks of the others stay large enough.
LEMMA FitsStay ==
  ASSUME Kernel!BlockFits, NEW S, SizesKept(arena, arena', S), NEW v \in User,
         Newest(v) # None => Newest(v) \in S,
         held'[v] = held[v], moving'[v] = moving[v], asked'[v] = asked[v]
  PROVE  FitsAt(v)'
<1>1. FitsAt(v)
  BY FitsIs
<1>2. Newest(v)' = Newest(v)
  BY DEF Newest
<1>3. CASE Newest(v) = None
  BY <1>2, <1>3 DEF FitsAt
<1>4. CASE Newest(v) # None
  <2>1. PICK c \in S : c = Newest(v)
    BY <1>4
  <2>2. Kernel!SizeOf(c)' = Kernel!SizeOf(c)
    BY <2>1, SizeStays
  <2>3. Kernel!SizeOf(Newest(v))' = Kernel!SizeOf(c)'
    BY <2>1, <1>2 DEF Kernel!SizeOf
  <2>4. Kernel!SizeOf(c) >= Kernel!Owed(asked[v])
    BY <1>1, <1>4, <2>1 DEF FitsAt
  <2>. QED BY <2>2, <2>3, <2>4, <1>2 DEF FitsAt
<1>. QED BY <1>3, <1>4

\* The store as it was, nothing changed but what a user without a block asked for.
LEMMA NothingGot ==
  ASSUME AllocInv, NEW r, r = Kernel!Failed, Kernel!Apply(r), held' = held, moving' = moving,
         asked' \in [User -> Nat],
         \A v \in User : asked'[v] = asked[v] \/ Newest(v) = None
  PROVE  AllocInv'
<1>1. arena' = arena /\ freeList' = freeList /\ pagesTaken' = pagesTaken
  BY DEF Kernel!Apply, Kernel!Failed, Kernel!Result
<1>2. Kernel!InUse' = Kernel!InUse
  BY DEF Kernel!InUse
<1>3. StoreInv(arena, freeList, pagesTaken, Kernel!InUse)'
  BY <1>1, <1>2 DEF AllocInv
<1>4. HoldInv'
  BY DEF AllocInv, HoldInv, HoldType, MovesOwn, Apart
<1>5. Kernel!BlockFits'
  <2>1. SUFFICES ASSUME NEW v \in User PROVE FitsAt(v)'
    BY DEF Kernel!BlockFits, FitsAt, Newest
  <2>2. Newest(v)' = Newest(v)
    BY DEF Newest
  <2>3. Kernel!SizeOf(Newest(v))' = Kernel!SizeOf(Newest(v))
    BY <1>1, <2>2 DEF Kernel!SizeOf
  <2>4. FitsAt(v)
    BY FitsIs DEF AllocInv
  <2>. QED BY <2>2, <2>3, <2>4 DEF FitsAt
<1>. QED BY <1>3, <1>4, <1>5 DEF AllocInv

\* malloc and calloc: to a user without a block, ...
LEMMA HeldGets ==
  ASSUME Kernel!MallocAssumption, AllocInv, NEW u \in User, held[u] = None,
         NEW size \in Nat, NEW n \in Nat, Kernel!Owed(n) <= Kernel!Owed(size),
         NEW r, r = Kernel!Get(size), Kernel!Apply(r), held' = [held EXCEPT ![u] = r.block], moving' = moving,
         asked' = [asked EXCEPT ![u] = IF r.block = None THEN 0 ELSE n]
  PROVE  AllocInv'
<1>1. /\ HoldInv /\ Kernel!BlockFits /\ StoreInv(arena, freeList, pagesTaken, Kernel!InUse)
      /\ held \in [User -> Kernel!Block \cup {None}] /\ asked \in [User -> Nat]
  BY DEF AllocInv, HoldInv, HoldType
<1>2. asked' \in [User -> Nat] /\ \A v \in User \ {u} : asked'[v] = asked[v]
  BY <1>1
<1>3. CASE r = Kernel!Failed
  <2>1. held' = held
    BY <1>1, <1>3 DEF Kernel!Failed, Kernel!Result
  <2>2. Newest(u) = None
    BY <1>1 DEF HoldInv, MovesOwn, Newest
  <2>3. \A v \in User : asked'[v] = asked[v] \/ Newest(v) = None
    BY <1>2, <2>2
  <2>. QED BY <1>2, <1>3, <2>1, <2>3, NothingGot
<1>4. CASE Got(arena, r.arena, r.freeList, r.taken, Kernel!InUse, r.block, Kernel!Owed(n))
  <2>1. PICK b : b = r.block
    OBVIOUS
  <2>2. /\ StoreInv(arena', freeList', pagesTaken', Kernel!InUse \cup {b}) /\ b \in Kernel!Block /\ b \notin Kernel!InUse
        /\ SizeUnder(arena', b) >= Kernel!Owed(n) /\ SizesKept(arena, arena', Kernel!InUse)
    BY <1>4, <2>1 DEF Got, Kernel!Apply
  <2>3. HoldInv' /\ Kernel!InUse' = Kernel!InUse \cup {b}
    BY <1>1, <1>2, <2>1, <2>2, HeldMore
  <2>4. StoreInv(arena, freeList, pagesTaken, Kernel!InUse)'
    BY <2>2, <2>3
  <2>5. SUFFICES ASSUME NEW v \in User PROVE FitsAt(v)'
    BY <2>3, <2>4 DEF AllocInv, Kernel!BlockFits, FitsAt, Newest
  <2>6. CASE v # u
    <3>1. Newest(v) # None => Newest(v) \in Kernel!InUse
      BY InUseIs DEF Newest
    <3>2. held'[v] = held[v] /\ moving'[v] = moving[v] /\ asked'[v] = asked[v]
      BY <2>6, <1>1, <1>2
    <3>. QED BY <3>1, <3>2, <2>2, <1>1, FitsStay
  <2>7. CASE v = u
    <3>1. held'[u] = b /\ moving'[u] = None
      BY <1>1, <2>1 DEF HoldInv, MovesOwn
    <3>2. asked'[u] = n
      BY <1>1, <2>1, <2>2, NoneIs
    <3>3. Kernel!SizeOf(b)' >= Kernel!Owed(n)
      BY <2>2 DEF Kernel!SizeOf, SizeUnder
    <3>4. Newest(u)' = b
      BY <3>1 DEF Newest
    <3>5. Kernel!SizeOf(Newest(u))' = Kernel!SizeOf(b)'
      BY <3>4 DEF Kernel!SizeOf
    <3>. QED BY <2>7, <3>2, <3>3, <3>5 DEF FitsAt, Kernel!Owed
  <2>. QED BY <2>6, <2>7
<1>5. Gets(r, Kernel!Owed(n))
  BY <1>1, OwedIs, GetGets
<1>. QED BY <1>3, <1>4, <1>5 DEF Gets

\* ... realloc's first half: to one that keeps its block meanwhile, ...
LEMMA MovingGets ==
  ASSUME Kernel!MallocAssumption, AllocInv, NEW u \in User, held[u] # None, moving[u] = None,
         NEW size \in Nat, NEW n \in Nat, Kernel!Owed(n) <= Kernel!Owed(size),
         NEW r, r = Kernel!Get(size), Kernel!Apply(r), moving' = [moving EXCEPT ![u] = r.block], held' = held,
         asked' = [asked EXCEPT ![u] = IF r.block = None THEN @ ELSE n]
  PROVE  AllocInv'
<1>1. /\ HoldInv /\ Kernel!BlockFits /\ StoreInv(arena, freeList, pagesTaken, Kernel!InUse)
      /\ moving \in [User -> Kernel!Block \cup {None}] /\ asked \in [User -> Nat]
  BY DEF AllocInv, HoldInv, HoldType
<1>2. asked' \in [User -> Nat] /\ \A v \in User \ {u} : asked'[v] = asked[v]
  BY <1>1
<1>3. CASE r = Kernel!Failed
  <2>1. moving' = moving /\ asked' = asked
    BY <1>1, <1>3 DEF Kernel!Failed, Kernel!Result
  <2>. QED BY <1>2, <1>3, <2>1, NothingGot
<1>4. CASE Got(arena, r.arena, r.freeList, r.taken, Kernel!InUse, r.block, Kernel!Owed(n))
  <2>1. PICK b : b = r.block
    OBVIOUS
  <2>2. /\ StoreInv(arena', freeList', pagesTaken', Kernel!InUse \cup {b}) /\ b \in Kernel!Block /\ b \notin Kernel!InUse
        /\ SizeUnder(arena', b) >= Kernel!Owed(n) /\ SizesKept(arena, arena', Kernel!InUse)
    BY <1>4, <2>1 DEF Got, Kernel!Apply
  <2>3. HoldInv' /\ Kernel!InUse' = Kernel!InUse \cup {b}
    BY <1>1, <1>2, <2>1, <2>2, MovingMore
  <2>4. StoreInv(arena, freeList, pagesTaken, Kernel!InUse)'
    BY <2>2, <2>3
  <2>5. SUFFICES ASSUME NEW v \in User PROVE FitsAt(v)'
    BY <2>3, <2>4 DEF AllocInv, Kernel!BlockFits, FitsAt, Newest
  <2>6. CASE v # u
    <3>1. Newest(v) # None => Newest(v) \in Kernel!InUse
      BY InUseIs DEF Newest
    <3>2. held'[v] = held[v] /\ moving'[v] = moving[v] /\ asked'[v] = asked[v]
      BY <2>6, <1>1, <1>2
    <3>. QED BY <3>1, <3>2, <2>2, <1>1, FitsStay
  <2>7. CASE v = u
    <3>1. moving'[u] = b /\ b # None
      BY <1>1, <2>1, <2>2, NoneIs
    <3>2. asked'[u] = n
      BY <1>1, <2>1, <2>2, NoneIs
    <3>3. Kernel!SizeOf(b)' >= Kernel!Owed(n)
      BY <2>2 DEF Kernel!SizeOf, SizeUnder
    <3>4. Newest(u)' = b
      BY <3>1 DEF Newest
    <3>5. Kernel!SizeOf(Newest(u))' = Kernel!SizeOf(b)'
      BY <3>4 DEF Kernel!SizeOf
    <3>. QED BY <2>7, <3>2, <3>3, <3>5 DEF FitsAt, Kernel!Owed
  <2>. QED BY <2>6, <2>7
<1>5. Gets(r, Kernel!Owed(n))
  BY <1>1, OwedIs, GetGets
<1>. QED BY <1>3, <1>4, <1>5 DEF Gets

\* ... and free, or realloc's second half.
LEMMA HeldPut ==
  ASSUME Kernel!MallocAssumption, AllocInv, NEW u \in User, held[u] # None,
         Kernel!Apply(Kernel!Put(held[u])), held' = [held EXCEPT ![u] = moving[u]],
         moving' = [moving EXCEPT ![u] = None], asked' \in [User -> Nat],
         \A v \in User : (v = u /\ moving[u] = None) \/ asked'[v] = asked[v]
  PROVE  AllocInv'
<1>1. /\ HoldInv /\ Kernel!BlockFits /\ StoreInv(arena, freeList, pagesTaken, Kernel!InUse)
      /\ held \in [User -> Kernel!Block \cup {None}] /\ moving \in [User -> Kernel!Block \cup {None}]
  BY DEF AllocInv, HoldInv, HoldType
<1>2. PICK b : b = held[u]
  OBVIOUS
<1>3. b \in Kernel!InUse
  BY <1>2, InUseIs
<1>4. Gone(arena, arena', freeList', pagesTaken', Kernel!InUse, b)
  <2>1. PICK r : r = Kernel!Put(b)
    OBVIOUS
  <2>2. Gone(arena, r.arena, r.freeList, r.taken, Kernel!InUse, b)
    BY <1>1, <1>3, <2>1, PutGone
  <2>3. arena' = r.arena /\ freeList' = r.freeList /\ pagesTaken' = r.taken
    BY <1>2, <2>1 DEF Kernel!Apply
  <2>. QED BY <2>2, <2>3
<1>5. HoldInv' /\ Kernel!InUse' = Kernel!InUse \ {b}
  BY <1>1, <1>2, HeldLess
<1>6. StoreInv(arena, freeList, pagesTaken, Kernel!InUse)' /\ SizesKept(arena, arena', Kernel!InUse \ {b})
  BY <1>4, <1>5 DEF Gone
<1>7. /\ held'[u] = moving[u] /\ moving'[u] = None
      /\ \A v \in User \ {u} : held'[v] = held[v] /\ moving'[v] = moving[v]
  BY <1>1
<1>8. SUFFICES ASSUME NEW v \in User PROVE FitsAt(v)'
  BY <1>5, <1>6 DEF AllocInv, Kernel!BlockFits, FitsAt, Newest
<1>9. CASE v # u
  <2>1. Newest(v) # None => Newest(v) \in Kernel!InUse \ {b}
    BY <1>1, <1>2, <1>9, InUseIs DEF Newest, HoldInv, Apart
  <2>2. held'[v] = held[v] /\ moving'[v] = moving[v] /\ asked'[v] = asked[v]
    BY <1>7, <1>9
  <2>. QED BY <2>1, <2>2, <1>1, <1>6, FitsStay
<1>10. CASE v = u /\ moving[u] = None
  <2>1. Newest(u)' = None
    BY <1>7, <1>10 DEF Newest
  <2>. QED BY <1>10, <2>1 DEF FitsAt
<1>11. CASE v = u /\ moving[u] # None
  <2>1. PICK c : c = moving[u]
    OBVIOUS
  <2>2. c \in Kernel!InUse \ {b} /\ Newest(u) = c /\ Newest(u)' = c /\ c # None
    BY <1>1, <1>2, <1>7, <1>11, <2>1, InUseIs DEF Newest, HoldInv, Apart
  <2>3. asked'[u] = asked[u]
    BY <1>11
  <2>4. Kernel!SizeOf(c)' = Kernel!SizeOf(c)
    BY <1>6, <2>2, SizeStays
  <2>5. Kernel!SizeOf(Newest(u))' = Kernel!SizeOf(c)'
    BY <2>2 DEF Kernel!SizeOf
  <2>6. FitsAt(u)
    BY <1>1, FitsIs
  <2>7. Kernel!SizeOf(c) >= Kernel!Owed(asked[u])
    BY <2>2, <2>6 DEF FitsAt
  <2>. QED BY <1>11, <2>3, <2>4, <2>5, <2>7 DEF FitsAt
<1>. QED BY <1>9, <1>10, <1>11

LEMMA AllocStep == ASSUME Kernel!MallocAssumption, AllocInv, [Kernel!Next]_(Kernel!vars) PROVE AllocInv'
<1>1. /\ held \in [User -> Kernel!Block \cup {None}] /\ moving \in [User -> Kernel!Block \cup {None}]
      /\ asked \in [User -> Nat]
  BY DEF AllocInv, HoldInv, HoldType
<1>2. CASE UNCHANGED Kernel!vars
  BY <1>2 DEF Kernel!vars, AllocInv, HoldInv, HoldType, MovesOwn, Apart, Kernel!BlockFits, Kernel!SizeOf, StoreInv, Kernel!InUse
<1>3. ASSUME NEW u \in User, NEW size \in Request, Kernel!MallocBlock(u, size) PROVE AllocInv'
  <2>1. size \in Nat /\ Kernel!Owed(size) <= Kernel!Owed(size)
    BY OwedIs DEF Kernel!MallocAssumption
  <2>. QED BY <1>3, <2>1, HeldGets DEF Kernel!MallocBlock
<1>4. ASSUME NEW u \in User, NEW a \in Factor, NEW b \in Factor, Kernel!Calloc(u, a, b) PROVE AllocInv'
  <2>1. a \in Nat /\ b \in Nat /\ Wrap \in Nat \ {0} /\ Header \in Nat /\ PGSIZE \in Nat \ {0}
    BY DEF Kernel!MallocAssumption
  <2>2. PICK n : n = a * b
    OBVIOUS
  <2>3. n \in Nat
    BY <2>1, <2>2
  <2>4. PICK size : size = n % Wrap
    OBVIOUS
  <2>5. size \in Nat
    BY <2>1, <2>3, <2>4
  <2>6. Kernel!Owed(n) <= Kernel!Owed(size)
    <3>1. CASE n + Header + PGSIZE <= Wrap
      <4>1. size = n
        BY <2>1, <2>3, <2>4, <3>1
      <4>. QED BY <2>3, <4>1, OwedIs
    <3>2. CASE ~(n + Header + PGSIZE <= Wrap)
      BY <2>5, <3>2, OwedIs DEF Kernel!Owed
    <3>. QED BY <3>1, <3>2
  <2>. QED BY <1>4, <2>2, <2>3, <2>4, <2>5, <2>6, HeldGets DEF Kernel!Calloc
<1>5. ASSUME NEW u \in User, Kernel!Free(u) PROVE AllocInv'
  <2>1. held' = [held EXCEPT ![u] = moving[u]] /\ moving' = [moving EXCEPT ![u] = None]
    BY <1>1, <1>5 DEF Kernel!Free
  <2>2. /\ asked' \in [User -> Nat]
        /\ \A v \in User : (v = u /\ moving[u] = None) \/ asked'[v] = asked[v]
    BY <1>1, <1>5 DEF Kernel!Free
  <2>. QED BY <1>5, <2>1, <2>2, HeldPut DEF Kernel!Free
<1>6. ASSUME NEW u \in User, NEW size \in Request, Kernel!ReallocGet(u, size) PROVE AllocInv'
  <2>1. size \in Nat /\ Kernel!Owed(size) <= Kernel!Owed(size)
    BY OwedIs DEF Kernel!MallocAssumption
  <2>. QED BY <1>6, <2>1, MovingGets DEF Kernel!ReallocGet
<1>7. ASSUME NEW u \in User, Kernel!ReallocPut(u) PROVE AllocInv'
  <2>1. held[u] # None
    BY <1>7 DEF Kernel!ReallocPut, AllocInv, HoldInv, MovesOwn
  <2>. QED BY <1>1, <1>7, <2>1, HeldPut DEF Kernel!ReallocPut
<1>. QED BY <1>2, <1>3, <1>4, <1>5, <1>6, <1>7 DEF Kernel!Next

-----------------------------------------------------------------------------
\* Where the bytes of a block are: after the header of its page, within its pages.
ProductsGrow == \A x, y, z \in Nat : x <= y => x * z <= y * z
From(b) == b.page * PGSIZE + Header + b.idx * (IF arena[b.page].desc = None THEN 0 ELSE arena[b.page].desc)
PagesOf(p) == IF arena[p].desc = None THEN arena[p].freeCnt ELSE 1

LEMMA Multiply == ProductsGrow
BY DEF ProductsGrow

LEMMA SpanIs ==
  ASSUME Kernel!MallocAssumption, StoreInv(arena, freeList, pagesTaken, Kernel!InUse), NEW b \in Kernel!InUse
  PROVE  /\ Kernel!Span(b) = From(b)..From(b) + Kernel!SizeOf(b) - 1
         /\ From(b) \in Int /\ Kernel!SizeOf(b) \in Int
         /\ b.page * PGSIZE + Header <= From(b)
         /\ From(b) + Kernel!SizeOf(b) <= (b.page + PagesOf(b.page)) * PGSIZE
<1>1. /\ arena \in [Kernel!Page -> Headers \cup {None}] /\ Kernel!InUse \in SUBSET Kernel!Block
      /\ UseInv(arena, Kernel!InUse) /\ PGSIZE \in Nat /\ Header \in Nat
  BY DEF StoreInv, StoreType, Kernel!MallocAssumption
<1>2. PICK p : p = b.page
  OBVIOUS
<1>3. PICK i : i = b.idx
  OBVIOUS
<1>4. p \in Kernel!Page /\ p \in Nat /\ i \in Nat
  BY <1>1, <1>2, <1>3, BlockIs, PagesAre
<1>5. arena[p] \in Headers /\ Within(arena, b)
  BY <1>1, <1>2, <1>4 DEF UseInv, Within
<1>6. Kernel!Span(b) = From(b)..From(b) + Kernel!SizeOf(b) - 1
  BY DEF Kernel!Span, From
<1>7. PICK s : s = p * PGSIZE
  OBVIOUS
<1>8. s \in Nat
  BY <1>1, <1>4, <1>7
<1>9. CASE arena[p].desc = None
  <2>1. PICK n : n = arena[p].freeCnt
    OBVIOUS
  <2>2. n \in Nat /\ i = 0
    BY <1>2, <1>3, <1>5, <1>9, <2>1 DEF Headers, Within
  <2>3. From(b) = s + Header /\ Kernel!SizeOf(b) = PGSIZE * n - Header /\ PagesOf(p) = n
    BY <1>1, <1>2, <1>3, <1>7, <1>8, <1>9, <2>1, <2>2 DEF From, Kernel!SizeOf, PagesOf
  <2>4. PGSIZE * n \in Nat /\ (p + n) * PGSIZE = s + PGSIZE * n
    BY <1>1, <1>4, <1>7, <2>2
  <2>5. /\ From(b) \in Int /\ Kernel!SizeOf(b) \in Int /\ s + Header <= From(b)
        /\ From(b) + Kernel!SizeOf(b) <= s + PGSIZE * n
    BY <1>1, <1>8, <2>3, <2>4
  <2>. QED BY <1>2, <1>6, <1>7, <2>3, <2>4, <2>5
<1>10. CASE arena[p].desc # None
  <2>1. PICK d : d = arena[p].desc
    OBVIOUS
  <2>2. d \in Kernel!BlockSize /\ d # None
    BY <1>5, <1>10, <2>1 DEF Headers
  <2>3. PICK n : n = Kernel!BlocksPerArena(d)
    OBVIOUS
  <2>4. d \in Nat /\ n \in Nat /\ n * d <= PGSIZE - Header
    BY <2>2, <2>3, Room
  <2>5. i + 1 <= n
    BY <1>2, <1>3, <1>4, <1>5, <2>1, <2>2, <2>3, <2>4 DEF Within
  <2>6. (i + 1) * d <= n * d
    BY <1>4, <2>4, <2>5, Multiply DEF ProductsGrow
  <2>7. i * d \in Nat /\ (i + 1) * d = i * d + d /\ n * d \in Nat
    BY <1>4, <2>4
  <2>8. From(b) = s + Header + i * d /\ Kernel!SizeOf(b) = d /\ PagesOf(p) = 1
    BY <1>2, <1>3, <1>7, <2>1, <2>2 DEF From, Kernel!SizeOf, PagesOf
  <2>9. /\ From(b) \in Int /\ Kernel!SizeOf(b) \in Int /\ s + Header <= From(b)
        /\ From(b) + Kernel!SizeOf(b) <= s + PGSIZE
    BY <1>1, <1>8, <2>4, <2>6, <2>7, <2>8
  <2>10. (p + 1) * PGSIZE = s + PGSIZE
    BY <1>1, <1>4, <1>7
  <2>. QED BY <1>2, <1>6, <1>7, <2>8, <2>9, <2>10
<1>. QED BY <1>9, <1>10

\* The pages of two arenas: one's end before the other's begin.
LEMMA PagesApart ==
  ASSUME Kernel!MallocAssumption, StoreInv(arena, freeList, pagesTaken, Kernel!InUse),
         NEW p \in Kernel!Page, NEW q \in Kernel!Page, arena[p] # None, arena[q] # None, p # q
  PROVE  /\ p \in Nat /\ q \in Nat /\ PagesOf(p) \in Nat \ {0} /\ PagesOf(q) \in Nat \ {0}
         /\ p + PagesOf(p) <= q \/ q + PagesOf(q) <= p
<1>1. arena \in [Kernel!Page -> Headers \cup {None}] /\ PagesInv(arena, pagesTaken)
  BY DEF StoreInv, StoreType
<1>2. ASSUME NEW x \in Kernel!Page, arena[x] # None
      PROVE  x \in Nat /\ PagesOf(x) \in Nat \ {0} /\ Extent(arena, x) = x..x + PagesOf(x) - 1
  <2>1. x \in Nat /\ PagesOf(x) \in Nat
    BY <1>1, <1>2, PagesAre DEF PagesOf, Headers
  <2>2. Extent(arena, x) = x..x + PagesOf(x) - 1
    BY DEF Extent, PagesOf
  <2>3. x \in Extent(arena, x)
    BY <1>1, <1>2 DEF PagesInv
  <2>. QED BY <2>1, <2>2, <2>3
<1>3. Extent(arena, p) \cap Extent(arena, q) = {}
  BY <1>1 DEF PagesInv
<1>4. PICK k : k = PagesOf(p)
  OBVIOUS
<1>5. PICK l : l = PagesOf(q)
  OBVIOUS
<1>6. p \in Nat /\ q \in Nat /\ k \in Nat \ {0} /\ l \in Nat \ {0}
  BY <1>2, <1>4, <1>5
<1>7. (p..p + k - 1) \cap (q..q + l - 1) = {}
  BY <1>2, <1>3, <1>4, <1>5
<1>8. ~(q \in p..p + k - 1) /\ ~(p \in q..q + l - 1)
  <2>1. q \in q..q + l - 1 /\ p \in p..p + k - 1
    BY <1>6
  <2>. QED BY <1>7, <2>1
<1>9. p + k <= q \/ q + l <= p
  BY <1>6, <1>8
<1>. QED BY <1>4, <1>5, <1>6, <1>9

\* Bytes end before others begin.
LEMMA BytesApart ==
  ASSUME NEW x \in Int, NEW y \in Int, NEW z \in Int, NEW w \in Int, y <= z \/ w <= x
  PROVE  (x..y - 1) \cap (z..w - 1) = {}
OBVIOUS

LEMMA SpansApart ==
  ASSUME Kernel!MallocAssumption, StoreInv(arena, freeList, pagesTaken, Kernel!InUse),
         NEW b \in Kernel!InUse, NEW c \in Kernel!InUse, b # c
  PROVE  Kernel!Span(b) \cap Kernel!Span(c) = {}
<1>1. /\ arena \in [Kernel!Page -> Headers \cup {None}] /\ Kernel!InUse \in SUBSET Kernel!Block
      /\ UseInv(arena, Kernel!InUse) /\ PGSIZE \in Nat /\ Header \in Nat
  BY DEF StoreInv, StoreType, Kernel!MallocAssumption
<1>2. /\ Kernel!Span(b) = From(b)..From(b) + Kernel!SizeOf(b) - 1
      /\ From(b) \in Int /\ Kernel!SizeOf(b) \in Int
      /\ b.page * PGSIZE + Header <= From(b)
      /\ From(b) + Kernel!SizeOf(b) <= (b.page + PagesOf(b.page)) * PGSIZE
  BY SpanIs
<1>3. /\ Kernel!Span(c) = From(c)..From(c) + Kernel!SizeOf(c) - 1
      /\ From(c) \in Int /\ Kernel!SizeOf(c) \in Int
      /\ c.page * PGSIZE + Header <= From(c)
      /\ From(c) + Kernel!SizeOf(c) <= (c.page + PagesOf(c.page)) * PGSIZE
  BY SpanIs
<1>4. PICK p : p = b.page
  OBVIOUS
<1>5. PICK q : q = c.page
  OBVIOUS
<1>6. p \in Kernel!Page /\ q \in Kernel!Page /\ p \in Nat /\ q \in Nat /\ arena[p] # None /\ arena[q] # None
  BY <1>1, <1>4, <1>5, BlockIs, PagesAre DEF UseInv, Within
<1>7. From(b) + Kernel!SizeOf(b) <= From(c) \/ From(c) + Kernel!SizeOf(c) <= From(b)
  <2>1. CASE p # q
    <3>1. /\ PagesOf(p) \in Nat /\ PagesOf(q) \in Nat
          /\ p + PagesOf(p) <= q \/ q + PagesOf(q) <= p
      BY <1>6, <2>1, PagesApart
    <3>2. \/ (p + PagesOf(p)) * PGSIZE <= q * PGSIZE
          \/ (q + PagesOf(q)) * PGSIZE <= p * PGSIZE
      BY <1>1, <1>6, <3>1, Multiply DEF ProductsGrow
    <3>3. /\ (p + PagesOf(p)) * PGSIZE \in Nat /\ (q + PagesOf(q)) * PGSIZE \in Nat
          /\ p * PGSIZE \in Nat /\ q * PGSIZE \in Nat
      BY <1>1, <1>6, <3>1
    <3>4. CASE (p + PagesOf(p)) * PGSIZE <= q * PGSIZE
      <4>1. From(b) + Kernel!SizeOf(b) <= (p + PagesOf(p)) * PGSIZE /\ q * PGSIZE + Header <= From(c)
        BY <1>2, <1>3, <1>4, <1>5
      <4>2. From(b) + Kernel!SizeOf(b) \in Int /\ From(c) \in Int
        BY <1>2, <1>3
      <4>. QED BY <1>1, <3>3, <3>4, <4>1, <4>2
    <3>5. CASE (q + PagesOf(q)) * PGSIZE <= p * PGSIZE
      <4>1. From(c) + Kernel!SizeOf(c) <= (q + PagesOf(q)) * PGSIZE /\ p * PGSIZE + Header <= From(b)
        BY <1>2, <1>3, <1>4, <1>5
      <4>2. From(c) + Kernel!SizeOf(c) \in Int /\ From(b) \in Int
        BY <1>2, <1>3
      <4>. QED BY <1>1, <3>3, <3>5, <4>1, <4>2
    <3>. QED BY <3>2, <3>4, <3>5
  <2>2. CASE p = q
    <3>1. PICK d : d = arena[p].desc
      OBVIOUS
    <3>2. PICK i : i = b.idx
      OBVIOUS
    <3>3. PICK j : j = c.idx
      OBVIOUS
    <3>4. i \in Nat /\ j \in Nat /\ i # j
      <4>1. b = Kernel!BlockAt(p, i) /\ c = Kernel!BlockAt(q, j) /\ i \in Nat /\ j \in Nat
        BY <1>1, <1>4, <1>5, <3>2, <3>3, BlockIs
      <4>. QED BY <4>1, <2>2
    <3>5. d # None
      BY <1>1, <1>4, <1>5, <2>2, <3>1, <3>2, <3>3, <3>4 DEF UseInv, Within
    <3>6. d \in Nat
      <4>1. d \in Kernel!BlockSize
        BY <1>1, <1>6, <3>1, <3>5 DEF Headers
      <4>. QED BY <4>1, Room
    <3>7. PICK s : s = p * PGSIZE + Header
      OBVIOUS
    <3>8. s \in Nat
      <4>1. p * PGSIZE \in Nat
        BY <1>1, <1>6
      <4>. QED BY <4>1, <1>1, <3>7
    <3>9. /\ From(b) = s + i * d /\ From(c) = s + j * d
          /\ Kernel!SizeOf(b) = d /\ Kernel!SizeOf(c) = d
      BY <1>4, <1>5, <2>2, <3>1, <3>2, <3>3, <3>5, <3>7 DEF From, Kernel!SizeOf
    <3>10. (i + 1) * d <= j * d \/ (j + 1) * d <= i * d
      <4>1. i + 1 <= j \/ j + 1 <= i
        BY <3>4
      <4>. QED BY <4>1, <3>4, <3>6, Multiply DEF ProductsGrow
    <3>11. /\ i * d \in Nat /\ j * d \in Nat
           /\ (i + 1) * d = i * d + d /\ (j + 1) * d = j * d + d
      BY <3>4, <3>6
    <3>12. i * d + d <= j * d \/ j * d + d <= i * d
      BY <3>10, <3>11
    <3>13. PICK x : x = i * d
      OBVIOUS
    <3>14. PICK y : y = j * d
      OBVIOUS
    <3>15. s + x + d <= s + y \/ s + y + d <= s + x
      BY <3>6, <3>8, <3>11, <3>12, <3>13, <3>14
    <3>. QED BY <3>9, <3>13, <3>14, <3>15
  <2>. QED BY <2>1, <2>2
<1>8. From(b) + Kernel!SizeOf(b) \in Int /\ From(c) + Kernel!SizeOf(c) \in Int
  BY <1>2, <1>3
<1>. QED BY <1>2, <1>3, <1>7, <1>8, BytesApart

LEMMA HeadersApart ==
  ASSUME Kernel!MallocAssumption, StoreInv(arena, freeList, pagesTaken, Kernel!InUse),
         NEW b \in Kernel!InUse, NEW q \in Kernel!Page, arena[q] # None
  PROVE  Kernel!Span(b) \cap (q * PGSIZE..q * PGSIZE + Header - 1) = {}
<1>1. /\ arena \in [Kernel!Page -> Headers \cup {None}] /\ Kernel!InUse \in SUBSET Kernel!Block /\ UseInv(arena, Kernel!InUse)
      /\ PGSIZE \in Nat /\ Header \in Nat /\ Header <= PGSIZE
  BY DEF StoreInv, StoreType, Kernel!MallocAssumption
<1>2. /\ Kernel!Span(b) = From(b)..From(b) + Kernel!SizeOf(b) - 1
      /\ From(b) \in Int /\ Kernel!SizeOf(b) \in Int
      /\ b.page * PGSIZE + Header <= From(b)
      /\ From(b) + Kernel!SizeOf(b) <= (b.page + PagesOf(b.page)) * PGSIZE
  BY SpanIs
<1>3. PICK p : p = b.page
  OBVIOUS
<1>4. p \in Kernel!Page /\ p \in Nat /\ q \in Nat /\ arena[p] # None
  BY <1>1, <1>3, BlockIs, PagesAre DEF UseInv, Within
<1>5. p * PGSIZE \in Nat /\ q * PGSIZE \in Nat
  BY <1>1, <1>4
<1>6. From(b) + Kernel!SizeOf(b) <= q * PGSIZE \/ q * PGSIZE + Header <= From(b)
  <2>1. CASE p = q
    BY <1>2, <1>3, <2>1
  <2>2. CASE p # q
    <3>1. /\ PagesOf(p) \in Nat /\ PagesOf(q) \in Nat \ {0}
          /\ p + PagesOf(p) <= q \/ q + PagesOf(q) <= p
      BY <1>4, <2>2, PagesApart
    <3>2. p + PagesOf(p) <= q \/ q + 1 <= p
      BY <1>4, <3>1
    <3>3. \/ (p + PagesOf(p)) * PGSIZE <= q * PGSIZE
          \/ (q + 1) * PGSIZE <= p * PGSIZE
      BY <1>1, <1>4, <3>1, <3>2, Multiply DEF ProductsGrow
    <3>4. (p + PagesOf(p)) * PGSIZE \in Nat /\ (q + 1) * PGSIZE = q * PGSIZE + PGSIZE
      BY <1>1, <1>4, <3>1
    <3>. QED BY <1>1, <1>2, <1>3, <1>5, <3>3, <3>4
  <2>. QED BY <2>1, <2>2
<1>7. From(b) + Kernel!SizeOf(b) \in Int /\ q * PGSIZE + Header \in Int
  BY <1>1, <1>2, <1>5
<1>. QED BY <1>1, <1>2, <1>5, <1>6, <1>7, BytesApart

-----------------------------------------------------------------------------
\* The library's words for the lists.
LEMMA ListWords ==
  ASSUME NEW s \in Seq(Kernel!Block)
  PROVE  /\ Distinct(s) <=> Kernel!Seqs!IsInjective(s)
         /\ \A b : b \in Kernel!Seqs!ToSet(s) <=> Listed(s, b)
<1>1. DOMAIN s = 1..Len(s)
  OBVIOUS
<1>2. \A b : b \in Kernel!Seqs!ToSet(s) <=> Listed(s, b)
  BY <1>1 DEF Kernel!Seqs!ToSet, Listed
<1>3. Distinct(s) <=> Kernel!Seqs!IsInjective(s)
  BY <1>1 DEF Kernel!Seqs!IsInjective, Distinct
<1>. QED BY <1>2, <1>3

LEMMA ArenaBlocksAre ==
  ASSUME Kernel!MallocAssumption, NEW p \in Kernel!Page, NEW d \in Kernel!BlockSize
  PROVE  \A b : b \in Kernel!Seqs!ToSet(Kernel!ArenaBlocks(p, d)) <=>
                  b \in Kernel!Block /\ b.page = p /\ b.idx < Kernel!BlocksPerArena(d)
<1>1. PICK n : n = Kernel!BlocksPerArena(d)
  OBVIOUS
<1>2. n \in Nat
  BY <1>1, Room
<1>3. Kernel!Seqs!ToSet(Kernel!ArenaBlocks(p, d)) = {Kernel!BlockAt(p, i - 1) : i \in 1..n}
  BY <1>1 DEF Kernel!Seqs!ToSet, Kernel!ArenaBlocks
<1>4. ASSUME NEW i \in 1..n
      PROVE  Kernel!BlockAt(p, i - 1) \in Kernel!Block /\ Kernel!BlockAt(p, i - 1).page = p /\ Kernel!BlockAt(p, i - 1).idx < n
  <2>1. i - 1 \in Nat /\ i - 1 < n
    BY <1>2
  <2>. QED BY <2>1, BlockAtIs
<1>5. ASSUME NEW b \in Kernel!Block, b.page = p, b.idx < n PROVE \E i \in 1..n : b = Kernel!BlockAt(p, i - 1)
  <2>1. b = Kernel!BlockAt(p, b.idx) /\ b.idx \in Nat
    BY <1>5, BlockIs
  <2>2. b.idx + 1 \in 1..n /\ (b.idx + 1) - 1 = b.idx
    BY <2>1, <1>2, <1>5
  <2>. QED BY <2>1, <2>2
<1>. QED BY <1>1, <1>3, <1>4, <1>5

LEMMA AllocDisjoint == ASSUME Kernel!MallocAssumption, AllocInv PROVE Kernel!BlocksDisjoint
<1>1. /\ HoldInv /\ StoreInv(arena, freeList, pagesTaken, Kernel!InUse)
      /\ freeList \in [Kernel!BlockSize -> Seq(Kernel!Block)] /\ Kernel!InUse \in SUBSET Kernel!Block
      /\ PagesInv(arena, pagesTaken) /\ UseInv(arena, Kernel!InUse) /\ ListInv(arena, freeList, Kernel!InUse)
  BY DEF AllocInv, StoreInv, StoreType
<1>2. \A u, v \in User : u # v => {held[u], moving[u]} \cap {held[v], moving[v]} \subseteq {None}
  BY <1>1 DEF HoldInv, Apart
<1>3. \A b \in Kernel!InUse : b.page \in pagesTaken /\ arena[b.page] # None
  BY <1>1, BlockIs DEF UseInv, Within, PagesInv
<1>4. \A b, c \in Kernel!InUse : b # c => Kernel!Span(b) \cap Kernel!Span(c) = {}
  BY <1>1, SpansApart
<1>5. \A b \in Kernel!InUse, d \in Kernel!BlockSize : b \notin Kernel!Seqs!ToSet(freeList[d])
  <2>1. SUFFICES ASSUME NEW b \in Kernel!InUse, NEW d \in Kernel!BlockSize PROVE b \notin Kernel!Seqs!ToSet(freeList[d])
    OBVIOUS
  <2>2. freeList[d] \in Seq(Kernel!Block) /\ b \in Kernel!Block /\ ~Listed(freeList[d], b)
    BY <1>1 DEF ListInv
  <2>. QED BY <2>2, ListWords
<1>6. \A b \in Kernel!InUse, p \in Kernel!Page : arena[p] # None =>
        Kernel!Span(b) \cap (p * PGSIZE..p * PGSIZE + Header - 1) = {}
  BY <1>1, HeadersApart
<1>. QED BY <1>2, <1>3, <1>4, <1>5, <1>6 DEF Kernel!BlocksDisjoint

LEMMA AllocExact == ASSUME Kernel!MallocAssumption, AllocInv PROVE Kernel!ArenaExact
<1>1. /\ arena \in [Kernel!Page -> Headers \cup {None}]
      /\ freeList \in [Kernel!BlockSize -> Seq(Kernel!Block)] /\ Kernel!InUse \in SUBSET Kernel!Block /\ pagesTaken \in SUBSET Kernel!Page
      /\ PagesInv(arena, pagesTaken) /\ UseInv(arena, Kernel!InUse) /\ ListInv(arena, freeList, Kernel!InUse)
      /\ CountInv(arena, Kernel!InUse)
  BY DEF AllocInv, StoreInv, StoreType
<1>2. ASSUME NEW d \in Kernel!BlockSize
      PROVE  /\ Kernel!Seqs!IsInjective(freeList[d])
             /\ Kernel!Seqs!ToSet(freeList[d]) =
                         UNION {Kernel!Seqs!ToSet(Kernel!ArenaBlocks(p, d)) \ Kernel!InUse :
                                         p \in {q \in Kernel!Page : arena[q] # None /\ arena[q].desc = d}}
  <2>1. freeList[d] \in Seq(Kernel!Block) /\ Distinct(freeList[d]) /\ d # None
    BY <1>1, NoneIs DEF ListInv
  <2>2. Kernel!Seqs!IsInjective(freeList[d]) /\ \A b : b \in Kernel!Seqs!ToSet(freeList[d]) <=> Listed(freeList[d], b)
    BY <2>1, ListWords
  <2>3. \A b : Listed(freeList[d], b) => b \in Kernel!Block
    BY <2>1 DEF Listed
  <2>4. ASSUME NEW b
        PROVE  Listed(freeList[d], b) <=>
                 \E p \in Kernel!Page : /\ arena[p] # None /\ arena[p].desc = d
                                        /\ b \in Kernel!Seqs!ToSet(Kernel!ArenaBlocks(p, d)) /\ b \notin Kernel!InUse
    <3>1. ASSUME Listed(freeList[d], b)
          PROVE  \E p \in Kernel!Page : /\ arena[p] # None /\ arena[p].desc = d
                                        /\ b \in Kernel!Seqs!ToSet(Kernel!ArenaBlocks(p, d)) /\ b \notin Kernel!InUse
      <4>1. b \in Kernel!Block /\ b.page \in Kernel!Page
        BY <2>3, <3>1, BlockIs
      <4>2. arena[b.page] # None /\ arena[b.page].desc = d /\ Within(arena, b) /\ b \notin Kernel!InUse
        BY <1>1, <3>1, <4>1 DEF ListInv
      <4>3. b.idx < Kernel!BlocksPerArena(d)
        BY <2>1, <4>2 DEF Within
      <4>4. b \in Kernel!Seqs!ToSet(Kernel!ArenaBlocks(b.page, d))
        BY <4>1, <4>3, ArenaBlocksAre
      <4>. QED BY <4>1, <4>2, <4>4
    <3>2. ASSUME NEW p \in Kernel!Page, arena[p] # None, arena[p].desc = d,
                 b \in Kernel!Seqs!ToSet(Kernel!ArenaBlocks(p, d)), b \notin Kernel!InUse
          PROVE  Listed(freeList[d], b)
      <4>1. b \in Kernel!Block /\ b.page = p /\ b.idx < Kernel!BlocksPerArena(d)
        BY <3>2, ArenaBlocksAre
      <4>2. Within(arena, b)
        BY <2>1, <3>2, <4>1 DEF Within
      <4>. QED BY <1>1, <3>2, <4>1, <4>2 DEF ListInv
    <3>. QED BY <3>1, <3>2
  <2>5. Kernel!Seqs!ToSet(freeList[d]) =
                 UNION {Kernel!Seqs!ToSet(Kernel!ArenaBlocks(p, d)) \ Kernel!InUse :
                                 p \in {q \in Kernel!Page : arena[q] # None /\ arena[q].desc = d}}
    BY <2>2, <2>4
  <2>. QED BY <2>2, <2>5
<1>3. ASSUME NEW p \in Kernel!Page, arena[p] # None, arena[p].desc # None
      PROVE  LET inUse == Cardinality({b \in Kernel!InUse : b.page = p})
             IN  inUse > 0 /\ arena[p].freeCnt = Kernel!BlocksPerArena(arena[p].desc) - inUse
  BY <1>1, <1>3 DEF CountInv, Counted, UsedOn
<1>4. pagesTaken = UNION {p..p + (IF arena[p].desc = None THEN arena[p].freeCnt ELSE 1) - 1 :
                            p \in {q \in Kernel!Page : arena[q] # None}}
  BY <1>1 DEF PagesInv, Extent
<1>. QED BY <1>2, <1>3, <1>4, KernelCardinality DEF Kernel!ArenaExact

\* The kernel allocator is right, whoever calls it, with any number of size_t: blocks
\* in use are apart, outside the headers and at least as large as asked for (unless
\* what was asked for wraps with a header and rounded up to pages), each free block
\* is on its list once, the counts are those of the blocks in use, and no page is lost.
THEOREM MallocIsExact == Kernel!MallocAssumption => (Kernel!Spec => []Kernel!MallocExact)
<1>. SUFFICES ASSUME Kernel!MallocAssumption PROVE Kernel!Spec => []Kernel!MallocExact
  OBVIOUS
<1>1. Kernel!Init => AllocInv
  BY InitAlloc
<1>2. AllocInv /\ [Kernel!Next]_(Kernel!vars) => AllocInv'
  BY AllocStep
<1>3. AllocInv => Kernel!MallocExact
  BY AllocDisjoint, AllocExact DEF AllocInv, Kernel!MallocExact
<1>. QED BY <1>1, <1>2, <1>3, PTL DEF Kernel!Spec
-------------------------------------------------------------------------------
(* The user's mm_malloc, for any size of header and heap, and any requests. *)
CONSTANTS BlockHeader, Size, Limit, ClientSpares
VARIABLES heap, live

Client == INSTANCE MmAlloc WITH Header <- BlockHeader

\* Induction, for a set.  Were n the first that is missing, the map that moves
\* what is missing up to n down by one would be one-to-one.
LEMMA Inductive ==
  ASSUME NEW T \in SUBSET Nat, 0 \in T, \A n \in T : n + 1 \in T
  PROVE  T = Nat
<1>1. SUFFICES ASSUME NEW k \in Nat, k \notin T PROVE FALSE
  OBVIOUS
<1>2. k # 0
  BY <1>1
<1>. DEFINE f == [x \in 0..k |-> IF x \in T THEN x ELSE x - 1]
<1>3. f \in [0..k -> 0..k - 1]
  BY <1>1, <1>2
<1>4. IsFiniteSet(0..k) /\ IsFiniteSet(0..k - 1) /\ Cardinality(0..k - 1) < Cardinality(0..k)
  <2>1. IsFiniteSet(0..k) /\ Cardinality(0..k) = k + 1
    BY FS_Interval
  <2>2. IsFiniteSet(0..k - 1) /\ Cardinality(0..k - 1) = k
    BY FS_Interval, <1>2
  <2>. QED BY <2>1, <2>2
<1>. HIDE DEF f
<1>5. PICK x, y \in 0..k : x # y /\ f[x] = f[y]
  BY <1>3, <1>4, FS_PigeonHole
<1>6. \A z \in T : z + 1 \in T
  OBVIOUS
<1>. QED BY <1>5, <1>6 DEF f

\* A set of numbers has a least one.
LEMMA Least ==
  ASSUME NEW S \in SUBSET Nat, NEW m \in S
  PROVE  \E i \in S : \A j \in S : i <= j
<1>1. SUFFICES ASSUME \A i \in S : \E j \in S : j < i PROVE FALSE
  OBVIOUS
<1>. DEFINE T == {n \in Nat : \A i \in S : i >= n}
<1>2. 0 \in T
  OBVIOUS
<1>3. ASSUME NEW n \in T PROVE n + 1 \in T
  <2>1. n \notin S
    BY <1>1
  <2>. QED BY <2>1
<1>. HIDE DEF T
<1>4. T \subseteq Nat
  BY DEF T
<1>5. T = Nat
  BY <1>2, <1>3, <1>4, Inductive
<1>6. m + 1 \in T
  BY <1>5
<1>. QED BY <1>6 DEF T
-------------------------------------------------------------------------------
Steps(h, f) ==
  [i \in 0..Limit |-> IF i = 0 THEN h.base
                      ELSE IF f[i - 1] = Client!Null THEN Client!Null ELSE h.hdr[f[i - 1]].next]

\* As long as each block leads to a block or to none, the walk can be taken.
LEMMA WalkExists ==
  ASSUME Client!MmAllocAssumption, NEW h, NEW D, Client!Null \notin D,
         h.base \in D \cup {Client!Null}, \A b \in D : h.hdr[b].next \in D \cup {Client!Null}
  PROVE  \E f \in [0..Limit -> D \cup {Client!Null}] : f = Steps(h, f)
<1>. DEFINE P(n, f) == /\ f \in [0..n -> D \cup {Client!Null}] /\ f[0] = h.base
                       /\ \A i \in 1..n : f[i] = IF f[i - 1] = Client!Null THEN Client!Null ELSE h.hdr[f[i - 1]].next
            T == {n \in Nat : \E f : P(n, f)}
<1>1. 0 \in T
  <2>1. P(0, [i \in 0..0 |-> h.base])
    OBVIOUS
  <2>. QED BY <2>1
<1>2. ASSUME NEW n \in T PROVE n + 1 \in T
  <2>1. PICK f : P(n, f)
    OBVIOUS
  <2>2. n \in Nat
    OBVIOUS
  <2>. DEFINE g == [i \in 0..n + 1 |-> IF i <= n THEN f[i]
                                       ELSE IF f[n] = Client!Null THEN Client!Null ELSE h.hdr[f[n]].next]
  <2>3. g \in [0..n + 1 -> D \cup {Client!Null}] /\ g[0] = h.base
    BY <2>1, <2>2
  <2>4. ASSUME NEW i \in 1..n + 1
        PROVE  g[i] = IF g[i - 1] = Client!Null THEN Client!Null ELSE h.hdr[g[i - 1]].next
    <3>1. CASE i <= n
      <4>1. i \in 1..n /\ g[i] = f[i] /\ g[i - 1] = f[i - 1]
        BY <3>1, <2>2
      <4>. QED BY <4>1, <2>1
    <3>2. CASE i = n + 1
      <4>1. g[i - 1] = f[n] /\ g[i] = IF f[n] = Client!Null THEN Client!Null ELSE h.hdr[f[n]].next
        BY <3>2, <2>2
      <4>. QED BY <4>1
    <3>. QED BY <3>1, <3>2, <2>2
  <2>. HIDE DEF g
  <2>5. P(n + 1, g)
    BY <2>3, <2>4
  <2>. QED BY <2>5, <2>2
<1>. HIDE DEF T
<1>3. T \subseteq Nat
  BY DEF T
<1>4. Limit \in T
  BY <1>1, <1>2, <1>3, Inductive DEF Client!MmAllocAssumption
<1>5. PICK f : P(Limit, f)
  BY <1>4 DEF T
<1>6. f = Steps(h, f)
  <2>1. \A i \in 0..Limit : f[i] = Steps(h, f)[i]
    BY <1>5 DEF Steps, Client!MmAllocAssumption
  <2>. QED BY <2>1, <1>5 DEF Steps
<1>. QED BY <1>5, <1>6

\* So the list is what following next from base comes to.
LEMMA ChainSteps ==
  ASSUME Client!MmAllocAssumption, NEW h, NEW D, Client!Null \notin D,
         h.base \in D \cup {Client!Null}, \A b \in D : h.hdr[b].next \in D \cup {Client!Null}
  PROVE  /\ DOMAIN Client!Chain(h) = 0..Limit /\ Client!Chain(h)[0] = h.base
         /\ \A i \in 1..Limit : Client!Chain(h)[i] = IF Client!Chain(h)[i - 1] = Client!Null THEN Client!Null
                                              ELSE h.hdr[Client!Chain(h)[i - 1]].next
         /\ \A i \in 0..Limit : Client!Chain(h)[i] \in D \cup {Client!Null}
<1>1. \E f : f = Steps(h, f)
  BY WalkExists
<1>2. Client!Chain(h) = CHOOSE f : f = Steps(h, f)
  BY Zenon DEF Client!Chain, Steps
<1>3. Client!Chain(h) = Steps(h, Client!Chain(h))
  BY <1>1, <1>2
<1>4. /\ DOMAIN Client!Chain(h) = 0..Limit /\ Client!Chain(h)[0] = h.base
      /\ \A i \in 1..Limit : Client!Chain(h)[i] = IF Client!Chain(h)[i - 1] = Client!Null THEN Client!Null
                                           ELSE h.hdr[Client!Chain(h)[i - 1]].next
  <2>1. PICK c : c = Client!Chain(h)
    OBVIOUS
  <2>2. c = Steps(h, c)
    BY <2>1, <1>3
  <2>3. DOMAIN c = 0..Limit /\ \A i \in 0..Limit : c[i] = IF i = 0 THEN h.base
                      ELSE IF c[i - 1] = Client!Null THEN Client!Null ELSE h.hdr[c[i - 1]].next
    BY <2>2 DEF Steps
  <2>. QED BY <2>1, <2>3 DEF Client!MmAllocAssumption
<1>. DEFINE T == {i \in Nat : i <= Limit => Client!Chain(h)[i] \in D \cup {Client!Null}}
<1>5. 0 \in T
  BY <1>4
<1>6. ASSUME NEW n \in T PROVE n + 1 \in T
  BY <1>4 DEF Client!MmAllocAssumption
<1>. HIDE DEF T
<1>7. T \subseteq Nat
  BY DEF T
<1>8. T = Nat
  BY <1>5, <1>6, <1>7, Inductive
<1>. QED BY <1>4, <1>8 DEF T
-------------------------------------------------------------------------------
BlockType == [size : Nat, free : BOOLEAN, next : Nat, prev : Nat]
EndOf(h, b) == b + BlockHeader + h.hdr[b].size

HeapType(h) ==
  /\ h = [hdr |-> h.hdr, base |-> h.base, end |-> h.end, top |-> h.top, first |-> h.first]
  /\ DOMAIN h.hdr \subseteq 1..Limit /\ h.hdr \in [DOMAIN h.hdr -> BlockType]
  /\ h.base \in Nat /\ h.end \in Nat /\ h.top \in 1..Limit + 1 /\ h.first \in BOOLEAN

\* The blocks lie one after the other from base to the break, and are linked so.
Tiles(h) ==
  /\ HeapType(h) /\ ~h.first /\ h.base = 1 /\ 1 \in DOMAIN h.hdr /\ h.end \in DOMAIN h.hdr
  /\ h.hdr[1].prev = Client!Null
  /\ \A b \in DOMAIN h.hdr :
       /\ EndOf(h, b) <= h.top
       /\ h.hdr[b].next = IF EndOf(h, b) = h.top THEN Client!Null ELSE EndOf(h, b)
       /\ EndOf(h, b) # h.top => EndOf(h, b) \in DOMAIN h.hdr /\ h.hdr[EndOf(h, b)].prev = b
       /\ EndOf(h, b) = h.top <=> h.end = b
       /\ b # 1 => h.hdr[b].prev \in DOMAIN h.hdr /\ EndOf(h, h.hdr[b].prev) = b
  /\ \A a, b \in DOMAIN h.hdr : a < b => EndOf(h, a) <= b

\* No two free blocks are neighbours, and the others are those that l holds.
FreeRight(h) ==
  \A b \in DOMAIN h.hdr :
    h.hdr[b].free /\ h.hdr[b].next # Client!Null => ~h.hdr[h.hdr[b].next].free
HeldBy(h, l) ==
  /\ l \in [DOMAIN l -> Nat] /\ DOMAIN l = {b \in DOMAIN h.hdr : ~h.hdr[b].free}
  /\ \A b \in DOMAIN l : h.hdr[b].size >= l[b]
HeapGood(h, l) == Tiles(h) /\ FreeRight(h) /\ HeldBy(h, l)

Bare(h) == HeapType(h) /\ DOMAIN h.hdr = {} /\ h.top = 1 /\ h.end = Client!Null

MmInv ==
  /\ DOMAIN live = {} /\ Bare(heap) /\ heap.base = IF heap.first THEN Client!Null ELSE Client!Failed
  \/ HeapGood(heap, live)

\* The list has every header there is.
LEMMA BlocksAre ==
  ASSUME Client!MmAllocAssumption, NEW h, Tiles(h)
  PROVE  Client!Blocks(h) = DOMAIN h.hdr
<1>. DEFINE D == DOMAIN h.hdr
            c == Client!Chain(h)
<1>1. /\ Client!Null \notin D /\ D \subseteq 1..Limit /\ h.base = 1 /\ 1 \in D
      /\ \A b \in D : h.hdr[b].next \in D \cup {Client!Null} /\ h.hdr[b].size \in Nat
      /\ BlockHeader \in Nat /\ BlockHeader > 0 /\ Limit \in Nat
  BY DEF Tiles, HeapType, BlockType, Client!Null, Client!MmAllocAssumption
<1>2. /\ c[0] = 1
      /\ \A i \in 1..Limit : c[i] = IF c[i - 1] = Client!Null THEN Client!Null ELSE h.hdr[c[i - 1]].next
      /\ \A i \in 0..Limit : c[i] \in D \cup {Client!Null}
  <2>1. h.base \in D \cup {Client!Null} /\ \A b \in D : h.hdr[b].next \in D \cup {Client!Null}
    BY <1>1
  <2>. HIDE DEF D
  <2>. QED BY <1>1, <2>1, ChainSteps
<1>. HIDE DEF c
<1>3. \A b \in D : /\ h.hdr[b].next # Client!Null => h.hdr[b].next >= b + 1
                   /\ b # 1 => h.hdr[b].prev \in D /\ h.hdr[b].prev < b /\ h.hdr[h.hdr[b].prev].next = b
  <2>1. ASSUME NEW b \in D
        PROVE  EndOf(h, b) \in Nat /\ EndOf(h, b) > b
    BY <1>1 DEF EndOf
  <2>2. ASSUME NEW b \in D
        PROVE  h.hdr[b].next # Client!Null => h.hdr[b].next >= b + 1
    BY <1>1, <2>1 DEF Tiles
  <2>3. ASSUME NEW b \in D, b # 1
        PROVE  h.hdr[b].prev \in D /\ h.hdr[b].prev < b /\ h.hdr[h.hdr[b].prev].next = b
    <3>1. PICK p \in D : p = h.hdr[b].prev /\ EndOf(h, p) = b
      BY <2>3 DEF Tiles
    <3>2. b < h.top
      <4>1. EndOf(h, b) <= h.top /\ h.top \in Nat
        BY DEF Tiles, HeapType
      <4>. QED BY <4>1, <2>1, <1>1
    <3>3. h.hdr[p].next = IF EndOf(h, p) = h.top THEN Client!Null ELSE EndOf(h, p)
      BY DEF Tiles
    <3>4. h.hdr[p].next = b /\ p < b
      BY <3>1, <3>2, <3>3, <2>1, <1>1
    <3>. QED BY <3>1, <3>4
  <2>. QED BY <2>2, <2>3
<1>4. \A i \in 0..Limit : c[i] # Client!Null => c[i] >= i + 1
  <2>. DEFINE T == {i \in Nat : i <= Limit /\ c[i] # Client!Null => c[i] >= i + 1}
  <2>1. 0 \in T
    BY <1>2
  <2>2. ASSUME NEW n \in T PROVE n + 1 \in T
    <3>1. SUFFICES ASSUME n + 1 <= Limit, c[n + 1] # Client!Null PROVE c[n + 1] >= n + 1 + 1
      OBVIOUS
    <3>2. n + 1 \in 1..Limit /\ n \in 0..Limit /\ n + 1 - 1 = n
      BY <3>1, <1>1
    <3>3. c[n] # Client!Null /\ c[n + 1] = h.hdr[c[n]].next /\ c[n] \in D
      BY <3>1, <3>2, <1>2
    <3>4. c[n] >= n + 1
      BY <3>2, <3>3
    <3>5. c[n + 1] >= c[n] + 1
      BY <3>1, <3>3, <1>3
    <3>6. c[n] \in Nat /\ c[n + 1] \in Nat
      BY <3>2, <3>3, <1>1, <1>2, <3>1
    <3>. QED BY <3>4, <3>5, <3>6
  <2>. HIDE DEF T
  <2>3. T \subseteq Nat
    BY DEF T
  <2>4. T = Nat
    BY <2>1, <2>2, <2>3, Inductive
  <2>. QED BY <2>4 DEF T
<1>5. \A b \in D : \E i \in 0..Limit : c[i] = b
  <2>. DEFINE T == {n \in Nat : \A b \in D : b <= n => \E i \in 0..Limit : c[i] = b}
  <2>1. 0 \in T
    BY <1>1
  <2>2. ASSUME NEW n \in T PROVE n + 1 \in T
    <3>1. SUFFICES ASSUME n + 1 \in D PROVE \E i \in 0..Limit : c[i] = n + 1
      BY <1>1
    <3>2. CASE n + 1 = 1
      BY <3>2, <1>1, <1>2
    <3>3. CASE n + 1 # 1
      <4>1. PICK p \in D : p < n + 1 /\ h.hdr[p].next = n + 1
        BY <3>1, <3>3, <1>3
      <4>2. p <= n
        BY <4>1, <1>1
      <4>3. PICK i \in 0..Limit : c[i] = p
        BY <4>2
      <4>4. c[i] # Client!Null /\ p >= i + 1
        BY <4>1, <4>3, <1>1, <1>4
      <4>5. i + 1 \in 1..Limit /\ i + 1 \in 0..Limit /\ i + 1 - 1 = i
        BY <4>1, <4>4, <3>1, <1>1
      <4>6. c[i + 1] = n + 1
        BY <4>1, <4>3, <4>4, <4>5, <1>2
      <4>. QED BY <4>5, <4>6
    <3>. QED BY <3>2, <3>3
  <2>. HIDE DEF T
  <2>3. T \subseteq Nat
    BY DEF T
  <2>4. T = Nat
    BY <2>1, <2>2, <2>3, Inductive
  <2>. QED BY <2>4, <1>1 DEF T
<1>. QED BY <1>1, <1>2, <1>5 DEF Client!Blocks, c

\* Where a block fits, the first that fits is one of them.
LEMMA FirstFitFits ==
  ASSUME Client!MmAllocAssumption, NEW h, Tiles(h), NEW size,
         \E b \in Client!Blocks(h) : Client!Fits(h, b, size)
  PROVE  Client!FirstFit(h, size) \in DOMAIN h.hdr /\ Client!Fits(h, Client!FirstFit(h, size), size)
<1>. DEFINE c == Client!Chain(h)
            S == {i \in 0..Limit : c[i] # Client!Null /\ Client!Fits(h, c[i], size)}
<1>1. Client!Blocks(h) = DOMAIN h.hdr /\ Limit \in Nat
  BY BlocksAre DEF Client!MmAllocAssumption
<1>2. \A i \in 1..Limit : c[i - 1] = Client!Null => c[i] = Client!Null
  <2>1. h.base \in DOMAIN h.hdr \cup {Client!Null} /\ Client!Null \notin DOMAIN h.hdr
        /\ \A b \in DOMAIN h.hdr : h.hdr[b].next \in DOMAIN h.hdr \cup {Client!Null}
    BY DEF Tiles, HeapType, Client!Null
  <2>. QED BY <2>1, ChainSteps
<1>3. PICK m \in S : TRUE
  BY DEF Client!Blocks
<1>4. PICK i \in S : \A j \in S : i <= j
  <2>1. S \in SUBSET Nat
    OBVIOUS
  <2>. HIDE DEF S
  <2>. QED BY <2>1, <1>3, Least
<1>. HIDE DEF c
<1>5. \A j \in 0..i : c[j] # Client!Null
  <2>. DEFINE T == {k \in Nat : \A j \in 0..Limit : c[j] = Client!Null /\ j + k <= Limit => c[j + k] = Client!Null}
  <2>1. 0 \in T
    OBVIOUS
  <2>2. ASSUME NEW k \in T PROVE k + 1 \in T
    <3>1. SUFFICES ASSUME NEW j \in 0..Limit, c[j] = Client!Null, j + (k + 1) <= Limit PROVE c[j + (k + 1)] = Client!Null
      OBVIOUS
    <3>2. j + k <= Limit /\ j + (k + 1) \in 1..Limit /\ j + (k + 1) - 1 = j + k
      BY <3>1, <1>1
    <3>3. c[j + k] = Client!Null
      BY <3>1, <3>2
    <3>. QED BY <3>2, <3>3, <1>2
  <2>. HIDE DEF T
  <2>3. T \subseteq Nat
    BY DEF T
  <2>4. T = Nat
    BY <2>1, <2>2, <2>3, Inductive
  <2>5. SUFFICES ASSUME NEW j \in 0..i, c[j] = Client!Null PROVE FALSE
    OBVIOUS
  <2>6. PICK k \in Nat : j + k = i
    BY <2>5, <1>1
  <2>7. k \in T /\ j \in 0..Limit /\ j + k <= Limit
    BY <2>4, <2>5, <2>6, <1>1
  <2>8. c[j + k] = Client!Null
    BY <2>5, <2>7 DEF T
  <2>9. c[i] = Client!Null
    BY <2>6, <2>8
  <2>. QED BY <2>9
<1>6. \A j \in 0..i - 1 : ~Client!Fits(h, c[j], size)
  <2>1. SUFFICES ASSUME NEW j \in 0..i - 1, Client!Fits(h, c[j], size) PROVE FALSE
    OBVIOUS
  <2>2. j \in S /\ j < i
    BY <2>1, <1>1, <1>5
  <2>. QED BY <2>2, <1>4, <1>1
<1>. DEFINE f == CHOOSE k \in 0..Limit : /\ c[k] # Client!Null /\ Client!Fits(h, c[k], size)
                                        /\ \A j \in 0..k - 1 : ~Client!Fits(h, c[j], size)
<1>7. f \in 0..Limit /\ c[f] # Client!Null /\ Client!Fits(h, c[f], size)
  BY <1>4, <1>6
<1>8. Client!FirstFit(h, size) = c[f]
  BY DEF Client!FirstFit, c
<1>9. c[f] \in Client!Blocks(h)
  BY <1>7 DEF Client!Blocks, c
<1>. QED BY <1>1, <1>7, <1>8, <1>9
-------------------------------------------------------------------------------
\* What the writes to a heap change, field by field.
SameEnds(g, h) == g.base = h.base /\ g.end = h.end /\ g.top = h.top /\ g.first = h.first

LEMMA WriteIs ==
  ASSUME NEW h, HeapType(h), NEW b \in 1..Limit, NEW x \in BlockType, NEW g, g = Client!Write(h, b, x)
  PROVE  /\ HeapType(g) /\ DOMAIN g.hdr = DOMAIN h.hdr \cup {b} /\ SameEnds(g, h)
         /\ g.hdr[b] = x /\ \A a \in DOMAIN h.hdr \ {b} : g.hdr[a] = h.hdr[a]
<1>. DEFINE f == [a \in DOMAIN h.hdr \cup {b} |-> IF a = b THEN x ELSE h.hdr[a]]
<1>1. g = [h EXCEPT !.hdr = f]
  BY DEF Client!Write
<1>2. f \in [DOMAIN h.hdr \cup {b} -> BlockType] /\ DOMAIN f = DOMAIN h.hdr \cup {b}
      /\ f[b] = x /\ \A a \in DOMAIN h.hdr \ {b} : f[a] = h.hdr[a]
  BY DEF HeapType
<1>. HIDE DEF f
<1>3. g = [hdr |-> f, base |-> h.base, end |-> h.end, top |-> h.top, first |-> h.first]
  BY <1>1 DEF HeapType
<1>4. g.hdr = f /\ SameEnds(g, h)
  BY <1>3 DEF SameEnds
<1>5. HeapType(g)
  BY <1>2, <1>3, <1>4 DEF HeapType, SameEnds
<1>. QED BY <1>2, <1>4, <1>5

LEMMA SetPrevIs ==
  ASSUME NEW h, HeapType(h), NEW b \in DOMAIN h.hdr \cup {Client!Null}, NEW p \in Nat, NEW g, g = Client!SetPrev(h, b, p)
  PROVE  /\ HeapType(g) /\ DOMAIN g.hdr = DOMAIN h.hdr /\ SameEnds(g, h)
         /\ \A a \in DOMAIN h.hdr :
              /\ g.hdr[a].size = h.hdr[a].size /\ g.hdr[a].free = h.hdr[a].free
              /\ g.hdr[a].next = h.hdr[a].next
              /\ g.hdr[a].prev = IF a = b THEN p ELSE h.hdr[a].prev
<1>1. CASE b = Client!Null
  <2>1. g = h /\ b \notin DOMAIN h.hdr
    BY <1>1 DEF Client!SetPrev, HeapType, Client!Null
  <2>. QED BY <2>1 DEF SameEnds
<1>2. CASE b # Client!Null
  <2>. DEFINE f == [h.hdr EXCEPT ![b] = [h.hdr[b] EXCEPT !.prev = p]]
  <2>1. g = [h EXCEPT !.hdr = f] /\ b \in DOMAIN h.hdr
    BY <1>2 DEF Client!SetPrev, HeapType
  <2>2. h.hdr \in [DOMAIN h.hdr -> BlockType]
    BY DEF HeapType
  <2>3. h.hdr[b] \in BlockType /\ \A a \in DOMAIN h.hdr : h.hdr[a] \in BlockType
    BY <2>1, <2>2
  <2>4. [h.hdr[b] EXCEPT !.prev = p] \in BlockType
        /\ [h.hdr[b] EXCEPT !.prev = p] = [size |-> h.hdr[b].size, free |-> h.hdr[b].free,
                                           next |-> h.hdr[b].next, prev |-> p]
    BY <2>3 DEF BlockType
  <2>5. f \in [DOMAIN h.hdr -> BlockType] /\ DOMAIN f = DOMAIN h.hdr
        /\ f[b] = [h.hdr[b] EXCEPT !.prev = p] /\ \A a \in DOMAIN h.hdr \ {b} : f[a] = h.hdr[a]
    BY <2>1, <2>2, <2>4
  <2>. HIDE DEF f
  <2>6. g = [hdr |-> f, base |-> h.base, end |-> h.end, top |-> h.top, first |-> h.first]
    BY <2>1 DEF HeapType
  <2>7. g.hdr = f /\ SameEnds(g, h)
    BY <2>6 DEF SameEnds
  <2>8. HeapType(g)
    BY <2>5, <2>6, <2>7 DEF HeapType, SameEnds
  <2>9. ASSUME NEW a \in DOMAIN h.hdr
        PROVE  /\ f[a].size = h.hdr[a].size /\ f[a].free = h.hdr[a].free
               /\ f[a].next = h.hdr[a].next
               /\ f[a].prev = IF a = b THEN p ELSE h.hdr[a].prev
    BY <2>4, <2>5
  <2>. QED BY <2>5, <2>7, <2>8, <2>9
<1>. QED BY <1>1, <1>2

LEMMA PutIs ==
  ASSUME NEW h, HeapType(h), NEW b \in DOMAIN h.hdr, NEW x \in BlockType,
         NEW g, g = [h EXCEPT !.hdr[b] = x]
  PROVE  /\ HeapType(g) /\ DOMAIN g.hdr = DOMAIN h.hdr /\ SameEnds(g, h)
         /\ g.hdr[b] = x /\ \A a \in DOMAIN h.hdr \ {b} : g.hdr[a] = h.hdr[a]
<1>. DEFINE f == [h.hdr EXCEPT ![b] = x]
<1>1. g = [h EXCEPT !.hdr = f]
  BY DEF HeapType
<1>2. f \in [DOMAIN h.hdr -> BlockType] /\ DOMAIN f = DOMAIN h.hdr
      /\ f[b] = x /\ \A a \in DOMAIN h.hdr \ {b} : f[a] = h.hdr[a]
  BY DEF HeapType
<1>. HIDE DEF f
<1>3. g = [hdr |-> f, base |-> h.base, end |-> h.end, top |-> h.top, first |-> h.first]
  BY <1>1 DEF HeapType
<1>4. g.hdr = f /\ SameEnds(g, h)
  BY <1>3 DEF SameEnds
<1>5. HeapType(g)
  BY <1>2, <1>3, <1>4 DEF HeapType, SameEnds
<1>. QED BY <1>2, <1>4, <1>5

\* Block b of h has taken in c, whose header is still there, in g.
IsAbsorbed(g, h, b, c) ==
  /\ HeapType(g) /\ DOMAIN g.hdr = DOMAIN h.hdr /\ SameEnds(g, h)
  /\ \A a \in DOMAIN h.hdr :
       /\ g.hdr[a].size = IF a = b THEN h.hdr[b].size + BlockHeader + h.hdr[c].size ELSE h.hdr[a].size
       /\ g.hdr[a].free = h.hdr[a].free
       /\ g.hdr[a].next = IF a = b THEN h.hdr[c].next ELSE h.hdr[a].next
       /\ g.hdr[a].prev = IF a = h.hdr[c].next THEN b ELSE h.hdr[a].prev

LEMMA AbsorbedIs ==
  ASSUME NEW h, HeapType(h), BlockHeader \in Nat, NEW b \in DOMAIN h.hdr, NEW c \in DOMAIN h.hdr,
         h.hdr[c].next \in DOMAIN h.hdr \cup {Client!Null}, NEW g, g = Client!Absorbed(h, b, c)
  PROVE  IsAbsorbed(g, h, b, c)
<1>. DEFINE x == Client!Block(h.hdr[b].size + BlockHeader + h.hdr[c].size, h.hdr[b].free, h.hdr[c].next, h.hdr[b].prev)
            f == [h EXCEPT !.hdr[b] = x]
<1>1. h.hdr[b] \in BlockType /\ h.hdr[c] \in BlockType /\ b \in Nat
  BY DEF HeapType
<1>2. /\ x \in BlockType /\ x.size = h.hdr[b].size + BlockHeader + h.hdr[c].size
      /\ x.free = h.hdr[b].free /\ x.next = h.hdr[c].next /\ x.prev = h.hdr[b].prev
  BY <1>1 DEF BlockType, Client!Block
<1>3. g = Client!SetPrev(f, h.hdr[c].next, b)
  BY DEF Client!Absorbed
<1>. HIDE DEF x
<1>4. /\ HeapType(f) /\ DOMAIN f.hdr = DOMAIN h.hdr /\ SameEnds(f, h)
      /\ f.hdr[b] = x /\ \A a \in DOMAIN h.hdr \ {b} : f.hdr[a] = h.hdr[a]
  BY <1>2, PutIs
<1>. HIDE DEF f
<1>5. /\ HeapType(g) /\ DOMAIN g.hdr = DOMAIN f.hdr /\ SameEnds(g, f)
      /\ \A a \in DOMAIN f.hdr :
           /\ g.hdr[a].size = f.hdr[a].size /\ g.hdr[a].free = f.hdr[a].free
           /\ g.hdr[a].next = f.hdr[a].next
           /\ g.hdr[a].prev = IF a = h.hdr[c].next THEN b ELSE f.hdr[a].prev
  <2>1. PICK q \in DOMAIN f.hdr \cup {Client!Null} : q = h.hdr[c].next
    BY <1>4
  <2>2. g = Client!SetPrev(f, q, b)
    BY <1>3, <2>1
  <2>3. /\ HeapType(g) /\ DOMAIN g.hdr = DOMAIN f.hdr /\ SameEnds(g, f)
        /\ \A a \in DOMAIN f.hdr :
             /\ g.hdr[a].size = f.hdr[a].size /\ g.hdr[a].free = f.hdr[a].free
             /\ g.hdr[a].next = f.hdr[a].next
             /\ g.hdr[a].prev = IF a = q THEN b ELSE f.hdr[a].prev
    BY <1>1, <1>4, <2>2, SetPrevIs
  <2>. QED BY <2>1, <2>3
<1>6. SameEnds(g, h)
  BY <1>4, <1>5 DEF SameEnds
<1>7. ASSUME NEW a \in DOMAIN h.hdr
      PROVE  /\ g.hdr[a].size = IF a = b THEN h.hdr[b].size + BlockHeader + h.hdr[c].size ELSE h.hdr[a].size
             /\ g.hdr[a].free = h.hdr[a].free
             /\ g.hdr[a].next = IF a = b THEN h.hdr[c].next ELSE h.hdr[a].next
             /\ g.hdr[a].prev = IF a = h.hdr[c].next THEN b ELSE h.hdr[a].prev
  <2>1. CASE a = b
    BY <2>1, <1>2, <1>4, <1>5
  <2>2. CASE a # b
    BY <2>2, <1>4, <1>5
  <2>. QED BY <2>1, <2>2
<1>. QED BY <1>4, <1>5, <1>6, <1>7 DEF IsAbsorbed

\* In g block b of h is marked free or not.
IsMarked(g, h, b, v) ==
  /\ HeapType(g) /\ DOMAIN g.hdr = DOMAIN h.hdr /\ SameEnds(g, h)
  /\ \A a \in DOMAIN h.hdr :
       /\ g.hdr[a].size = h.hdr[a].size /\ g.hdr[a].prev = h.hdr[a].prev
       /\ g.hdr[a].next = h.hdr[a].next
       /\ g.hdr[a].free = IF a = b THEN v ELSE h.hdr[a].free

LEMMA MarkedIs ==
  ASSUME NEW h, HeapType(h), NEW b \in DOMAIN h.hdr, NEW v \in BOOLEAN,
         NEW g, g = [h EXCEPT !.hdr[b].free = v]
  PROVE  IsMarked(g, h, b, v)
<1>. DEFINE x == [h.hdr[b] EXCEPT !.free = v]
            f == [h.hdr EXCEPT ![b] = x]
<1>1. h.hdr \in [DOMAIN h.hdr -> BlockType] /\ h.hdr[b] \in BlockType
  BY DEF HeapType
<1>2. x \in BlockType
      /\ x = [size |-> h.hdr[b].size, free |-> v, next |-> h.hdr[b].next, prev |-> h.hdr[b].prev]
  BY <1>1 DEF BlockType
<1>3. g = [h EXCEPT !.hdr = f]
  BY DEF HeapType
<1>4. f \in [DOMAIN h.hdr -> BlockType] /\ DOMAIN f = DOMAIN h.hdr
      /\ f[b] = x /\ \A a \in DOMAIN h.hdr \ {b} : f[a] = h.hdr[a]
  BY <1>1, <1>2
<1>. HIDE DEF f, x
<1>5. g = [hdr |-> f, base |-> h.base, end |-> h.end, top |-> h.top, first |-> h.first]
  BY <1>3 DEF HeapType
<1>6. g.hdr = f /\ SameEnds(g, h)
  BY <1>5 DEF SameEnds
<1>7. HeapType(g)
  BY <1>4, <1>5, <1>6 DEF HeapType, SameEnds
<1>8. \A a \in DOMAIN h.hdr :
              /\ f[a].size = h.hdr[a].size /\ f[a].prev = h.hdr[a].prev
              /\ f[a].next = h.hdr[a].next
              /\ f[a].free = IF a = b THEN v ELSE h.hdr[a].free
  BY <1>2, <1>4
<1>. QED BY <1>4, <1>6, <1>7, <1>8 DEF IsMarked

LEMMA LinkedIs ==
  ASSUME NEW h, HeapType(h), NEW b \in DOMAIN h.hdr, NEW v \in Nat,
         NEW g, g = [h EXCEPT !.hdr[b].next = v]
  PROVE  /\ HeapType(g) /\ DOMAIN g.hdr = DOMAIN h.hdr /\ SameEnds(g, h)
         /\ \A a \in DOMAIN h.hdr :
              /\ g.hdr[a].size = h.hdr[a].size /\ g.hdr[a].prev = h.hdr[a].prev
              /\ g.hdr[a].free = h.hdr[a].free
              /\ g.hdr[a].next = IF a = b THEN v ELSE h.hdr[a].next
<1>. DEFINE x == [h.hdr[b] EXCEPT !.next = v]
            f == [h.hdr EXCEPT ![b] = x]
<1>1. h.hdr \in [DOMAIN h.hdr -> BlockType] /\ h.hdr[b] \in BlockType
  BY DEF HeapType
<1>2. x \in BlockType
      /\ x = [size |-> h.hdr[b].size, free |-> h.hdr[b].free, next |-> v, prev |-> h.hdr[b].prev]
  BY <1>1 DEF BlockType
<1>3. g = [h EXCEPT !.hdr = f]
  BY DEF HeapType
<1>4. f \in [DOMAIN h.hdr -> BlockType] /\ DOMAIN f = DOMAIN h.hdr
      /\ f[b] = x /\ \A a \in DOMAIN h.hdr \ {b} : f[a] = h.hdr[a]
  BY <1>1, <1>2
<1>. HIDE DEF f, x
<1>5. g = [hdr |-> f, base |-> h.base, end |-> h.end, top |-> h.top, first |-> h.first]
  BY <1>3 DEF HeapType
<1>6. g.hdr = f /\ SameEnds(g, h)
  BY <1>5 DEF SameEnds
<1>7. HeapType(g)
  BY <1>4, <1>5, <1>6 DEF HeapType, SameEnds
<1>8. \A a \in DOMAIN h.hdr :
              /\ f[a].size = h.hdr[a].size /\ f[a].prev = h.hdr[a].prev
              /\ f[a].free = h.hdr[a].free
              /\ f[a].next = IF a = b THEN v ELSE h.hdr[a].next
  BY <1>2, <1>4
<1>. QED BY <1>4, <1>6, <1>7, <1>8

LEMMA MergedIs ==
  ASSUME NEW h, HeapType(h), NEW c \in DOMAIN h.hdr, h.end # c, NEW g, g = Client!Merged(h, c)
  PROVE  /\ HeapType(g) /\ DOMAIN g.hdr = DOMAIN h.hdr \ {c} /\ SameEnds(g, h)
         /\ \A a \in DOMAIN h.hdr \ {c} : g.hdr[a] = h.hdr[a]
<1>. DEFINE f == [a \in DOMAIN h.hdr \ {c} |-> h.hdr[a]]
<1>1. g = [h EXCEPT !.hdr = f]
  BY DEF Client!Merged
<1>2. f \in [DOMAIN h.hdr \ {c} -> BlockType] /\ DOMAIN f = DOMAIN h.hdr \ {c}
      /\ \A a \in DOMAIN h.hdr \ {c} : f[a] = h.hdr[a]
  BY DEF HeapType
<1>. HIDE DEF f
<1>3. g = [hdr |-> f, base |-> h.base, end |-> h.end, top |-> h.top, first |-> h.first]
  BY <1>1 DEF HeapType
<1>4. g.hdr = f /\ SameEnds(g, h)
  BY <1>3 DEF SameEnds
<1>5. HeapType(g)
  BY <1>2, <1>3, <1>4 DEF HeapType, SameEnds
<1>. QED BY <1>2, <1>4, <1>5
-------------------------------------------------------------------------------
\* What the steps have in common: the blocks' own numbers.
LEMMA Addresses ==
  ASSUME Client!MmAllocAssumption, NEW h, Tiles(h)
  PROVE  /\ BlockHeader \in Nat /\ BlockHeader > 0 /\ Limit \in Nat /\ h.top \in Nat /\ h.top <= Limit + 1
         /\ Client!Null \notin DOMAIN h.hdr
         /\ \A b \in DOMAIN h.hdr :
              /\ b \in Nat /\ b > 0 /\ h.hdr[b].size \in Nat /\ h.hdr[b].free \in BOOLEAN
              /\ h.hdr[b].next \in DOMAIN h.hdr \cup {Client!Null} /\ h.hdr[b].prev \in DOMAIN h.hdr \cup {Client!Null}
              /\ EndOf(h, b) \in Nat /\ EndOf(h, b) = b + BlockHeader + h.hdr[b].size /\ EndOf(h, b) > b
              /\ b < h.top
<1>1. /\ BlockHeader \in Nat /\ BlockHeader > 0 /\ Limit \in Nat /\ h.top \in Nat /\ h.top <= Limit + 1
      /\ Client!Null \notin DOMAIN h.hdr
  BY DEF Tiles, HeapType, Client!Null, Client!MmAllocAssumption
<1>2. ASSUME NEW b \in DOMAIN h.hdr
      PROVE  /\ b \in Nat /\ b > 0 /\ h.hdr[b].size \in Nat /\ h.hdr[b].free \in BOOLEAN
             /\ h.hdr[b].next \in DOMAIN h.hdr \cup {Client!Null} /\ h.hdr[b].prev \in DOMAIN h.hdr \cup {Client!Null}
  <2>1. b \in Nat /\ b > 0 /\ h.hdr[b].size \in Nat /\ h.hdr[b].free \in BOOLEAN
    BY DEF Tiles, HeapType, BlockType
  <2>2. h.hdr[b].next \in DOMAIN h.hdr \cup {Client!Null} /\ h.hdr[b].prev \in DOMAIN h.hdr \cup {Client!Null}
    BY DEF Tiles
  <2>. QED BY <2>1, <2>2
<1>3. ASSUME NEW b \in DOMAIN h.hdr
      PROVE  /\ EndOf(h, b) \in Nat /\ EndOf(h, b) = b + BlockHeader + h.hdr[b].size /\ EndOf(h, b) > b
             /\ b < h.top
  <2>1. EndOf(h, b) \in Nat /\ EndOf(h, b) = b + BlockHeader + h.hdr[b].size /\ EndOf(h, b) > b
    BY <1>1, <1>2 DEF EndOf
  <2>2. EndOf(h, b) <= h.top
    BY DEF Tiles
  <2>. QED BY <1>1, <1>2, <2>1, <2>2
<1>. QED BY <1>1, <1>2, <1>3

\* Marking a block does not move any.
LEMMA MarkTiles ==
  ASSUME Client!MmAllocAssumption, NEW h, Tiles(h), NEW g, HeapType(g), DOMAIN g.hdr = DOMAIN h.hdr,
         SameEnds(g, h),
         \A a \in DOMAIN h.hdr : /\ g.hdr[a].size = h.hdr[a].size /\ g.hdr[a].prev = h.hdr[a].prev
                                 /\ g.hdr[a].next = h.hdr[a].next
  PROVE  Tiles(g)
<1>1. \A a \in DOMAIN h.hdr : EndOf(g, a) = EndOf(h, a)
  BY DEF EndOf
<1>2. h.hdr[1].prev = Client!Null /\ 1 \in DOMAIN h.hdr
  BY DEF Tiles
<1>. QED BY <1>1, <1>2 DEF Tiles, SameEnds

\* A block may take in the one after it.
LEMMA AbsorbTiles ==
  ASSUME Client!MmAllocAssumption, NEW h, Tiles(h), NEW b \in DOMAIN h.hdr, NEW c \in DOMAIN h.hdr,
         h.hdr[b].next = c, NEW g, HeapType(g), DOMAIN g.hdr = DOMAIN h.hdr \ {c},
         g.base = h.base, g.top = h.top, g.first = h.first, g.end = IF h.end = c THEN b ELSE h.end,
         \A a \in DOMAIN h.hdr \ {c} :
           /\ g.hdr[a].size = IF a = b THEN h.hdr[b].size + BlockHeader + h.hdr[c].size ELSE h.hdr[a].size
           /\ g.hdr[a].next = IF a = b THEN h.hdr[c].next ELSE h.hdr[a].next
           /\ g.hdr[a].prev = IF a = h.hdr[c].next THEN b ELSE h.hdr[a].prev
  PROVE  Tiles(g)
<1>1. EndOf(h, b) = c /\ b < c /\ h.hdr[c].prev = b /\ EndOf(h, b) # h.top
  BY Addresses DEF Tiles
<1>2. \A a \in DOMAIN g.hdr : EndOf(g, a) = IF a = b THEN EndOf(h, c) ELSE EndOf(h, a)
  BY <1>1, Addresses DEF EndOf
<1>3. c # 1 /\ b # c
  BY <1>1, Addresses
<1>4. \A a \in DOMAIN h.hdr : EndOf(h, a) = c => a = b
  BY <1>1 DEF Tiles
<1>5. HeapType(g) /\ ~g.first /\ g.base = 1 /\ 1 \in DOMAIN g.hdr /\ g.end \in DOMAIN g.hdr
  BY <1>3 DEF Tiles
<1>6. g.hdr[1].prev = Client!Null
  <2>1. h.hdr[c].next # 1
    <3>1. h.hdr[c].next = IF EndOf(h, c) = h.top THEN Client!Null ELSE EndOf(h, c)
      BY DEF Tiles
    <3>2. EndOf(h, c) > c /\ c \in Nat /\ c > 0 /\ EndOf(h, c) \in Nat /\ Client!Null # 1
      BY Addresses DEF Client!Null
    <3>. QED BY <3>1, <3>2
  <2>. QED BY <2>1, <1>3, <1>5 DEF Tiles
<1>7. ASSUME NEW a \in DOMAIN g.hdr
      PROVE  /\ EndOf(g, a) <= g.top
             /\ g.hdr[a].next = IF EndOf(g, a) = g.top THEN Client!Null ELSE EndOf(g, a)
             /\ EndOf(g, a) # g.top => EndOf(g, a) \in DOMAIN g.hdr /\ g.hdr[EndOf(g, a)].prev = a
             /\ EndOf(g, a) = g.top <=> g.end = a
             /\ a # 1 => g.hdr[a].prev \in DOMAIN g.hdr /\ EndOf(g, g.hdr[a].prev) = a
  <2>1. CASE a = b
    <3>1. EndOf(g, a) = EndOf(h, c) /\ g.hdr[a].next = h.hdr[c].next
      BY <2>1, <1>2
    <3>2. EndOf(h, c) # c /\ EndOf(h, c) # b
      BY <1>1, Addresses
    <3>3. EndOf(g, a) <= g.top /\ g.hdr[a].next = IF EndOf(g, a) = g.top THEN Client!Null ELSE EndOf(g, a)
      BY <3>1 DEF Tiles
    <3>4. EndOf(g, a) # g.top => EndOf(g, a) \in DOMAIN g.hdr /\ g.hdr[EndOf(g, a)].prev = a
      BY <3>1, <3>2, <3>3, <2>1 DEF Tiles
    <3>5. EndOf(g, a) = g.top <=> g.end = a
      BY <3>1, <2>1, <1>1, <1>3 DEF Tiles
    <3>6. a # 1 => g.hdr[a].prev \in DOMAIN g.hdr /\ EndOf(g, g.hdr[a].prev) = a
      <4>1. SUFFICES ASSUME a # 1 PROVE g.hdr[a].prev \in DOMAIN g.hdr /\ EndOf(g, g.hdr[a].prev) = a
        OBVIOUS
      <4>2. h.hdr[b].prev \in DOMAIN h.hdr /\ EndOf(h, h.hdr[b].prev) = b
        BY <4>1, <2>1 DEF Tiles
      <4>3. h.hdr[c].next # b
        <5>1. h.hdr[c].next = Client!Null \/ h.hdr[c].next = EndOf(h, c)
          BY DEF Tiles
        <5>. QED BY <5>1, <3>2, Addresses
      <4>4. h.hdr[b].prev # c /\ h.hdr[b].prev # b
        BY <4>2, <3>2, Addresses
      <4>. QED BY <4>2, <4>3, <4>4, <2>1, <1>2
    <3>. QED BY <3>3, <3>4, <3>5, <3>6
  <2>2. CASE a # b
    <3>1. EndOf(g, a) = EndOf(h, a) /\ g.hdr[a].next = h.hdr[a].next /\ EndOf(h, a) # c /\ a # c
      BY <2>2, <1>2, <1>4
    <3>2. EndOf(g, a) <= g.top /\ g.hdr[a].next = IF EndOf(g, a) = g.top THEN Client!Null ELSE EndOf(g, a)
      BY <3>1 DEF Tiles
    <3>3. EndOf(g, a) # g.top => EndOf(g, a) \in DOMAIN g.hdr /\ g.hdr[EndOf(g, a)].prev = a
      <4>1. SUFFICES ASSUME EndOf(g, a) # g.top PROVE EndOf(g, a) \in DOMAIN g.hdr /\ g.hdr[EndOf(g, a)].prev = a
        OBVIOUS
      <4>2. EndOf(h, a) \in DOMAIN h.hdr /\ h.hdr[EndOf(h, a)].prev = a
        BY <3>1, <4>1 DEF Tiles
      <4>3. EndOf(h, a) # h.hdr[c].next
        <5>1. h.hdr[c].next # Client!Null => h.hdr[c].next \in DOMAIN h.hdr /\ h.hdr[h.hdr[c].next].prev = c
          BY DEF Tiles
        <5>. QED BY <5>1, <4>2, <3>1, Addresses
      <4>. QED BY <4>2, <4>3, <3>1
    <3>4. EndOf(g, a) = g.top <=> g.end = a
      BY <3>1, <2>2, <1>1 DEF Tiles
    <3>5. a # 1 => g.hdr[a].prev \in DOMAIN g.hdr /\ EndOf(g, g.hdr[a].prev) = a
      <4>1. SUFFICES ASSUME a # 1 PROVE g.hdr[a].prev \in DOMAIN g.hdr /\ EndOf(g, g.hdr[a].prev) = a
        OBVIOUS
      <4>2. h.hdr[a].prev \in DOMAIN h.hdr /\ EndOf(h, h.hdr[a].prev) = a
        BY <4>1, <3>1 DEF Tiles
      <4>3. CASE a = h.hdr[c].next
        <5>1. EndOf(h, c) = a /\ g.hdr[a].prev = b
          BY <4>3, Addresses DEF Tiles
        <5>. QED BY <5>1, <1>2, <1>3
      <4>4. CASE a # h.hdr[c].next
        <5>1. h.hdr[a].prev # c
          <6>1. h.hdr[c].next = IF EndOf(h, c) = h.top THEN Client!Null ELSE EndOf(h, c)
            BY DEF Tiles
          <6>2. a # h.top
            BY Addresses
          <6>. QED BY <6>1, <6>2, <4>2, <4>4
        <5>2. h.hdr[a].prev # b
          BY <4>2, <1>1, <3>1
        <5>. QED BY <5>1, <5>2, <4>2, <4>4, <1>2
      <4>. QED BY <4>3, <4>4
    <3>. QED BY <3>2, <3>3, <3>4, <3>5
  <2>. QED BY <2>1, <2>2
<1>8. \A a, d \in DOMAIN g.hdr : a < d => EndOf(g, a) <= d
  <2>1. SUFFICES ASSUME NEW a \in DOMAIN g.hdr, NEW d \in DOMAIN g.hdr, a < d PROVE EndOf(g, a) <= d
    OBVIOUS
  <2>2. \A i, j \in DOMAIN h.hdr : i < j => EndOf(h, i) <= j
    BY DEF Tiles
  <2>3. EndOf(h, a) <= d /\ d \in DOMAIN h.hdr
    BY <2>1, <2>2
  <2>4. CASE a = b
    <3>1. c < d
      <4>1. c \in Nat /\ d \in Nat
        BY <2>3, Addresses
      <4>2. c <= d /\ c # d
        BY <2>1, <2>3, <2>4, <1>1
      <4>. QED BY <4>1, <4>2
    <3>2. EndOf(h, c) <= d
      BY <3>1, <2>2, <2>3
    <3>. QED BY <3>2, <2>4, <1>2
  <2>. QED BY <2>3, <2>4, <1>2
<1>. QED BY <1>5, <1>6, <1>7, <1>8 DEF Tiles

\* A block may be split in two.
LEMMA SplitTiles ==
  ASSUME Client!MmAllocAssumption, NEW h, Tiles(h), NEW b \in DOMAIN h.hdr, NEW size \in Nat,
         size + BlockHeader <= h.hdr[b].size, NEW new, new = b + BlockHeader + size,
         NEW g, HeapType(g), DOMAIN g.hdr = DOMAIN h.hdr \cup {new},
         g.base = h.base, g.top = h.top, g.first = h.first,
         g.end = IF h.hdr[b].next = Client!Null THEN new ELSE h.end,
         g.hdr[new].size = h.hdr[b].size - BlockHeader - size, g.hdr[new].next = h.hdr[b].next,
         g.hdr[new].prev = b,
         \A a \in DOMAIN h.hdr :
           /\ g.hdr[a].size = IF a = b THEN size ELSE h.hdr[a].size
           /\ g.hdr[a].next = IF a = b THEN new ELSE h.hdr[a].next
           /\ g.hdr[a].prev = IF a = h.hdr[b].next THEN new ELSE h.hdr[a].prev
  PROVE  Tiles(g) /\ new \notin DOMAIN h.hdr
<1>1. b < new /\ new < EndOf(h, b) /\ new \in Nat
  BY Addresses
<1>2. new \notin DOMAIN h.hdr
  <2>1. \A d \in DOMAIN h.hdr : b < d => EndOf(h, b) <= d
    BY DEF Tiles
  <2>2. EndOf(h, b) \in Nat
    BY Addresses
  <2>. QED BY <1>1, <2>1, <2>2
<1>3. EndOf(g, new) = EndOf(h, b) /\ EndOf(g, b) = new
  <2>1. EndOf(g, new) = new + BlockHeader + (h.hdr[b].size - BlockHeader - size) /\ EndOf(g, b) = b + BlockHeader + size
    BY DEF EndOf
  <2>. QED BY <2>1, Addresses
<1>4. \A a \in DOMAIN h.hdr : a # b => EndOf(g, a) = EndOf(h, a)
  BY DEF EndOf
<1>5. h.hdr[b].next = IF EndOf(h, b) = h.top THEN Client!Null ELSE EndOf(h, b)
  BY DEF Tiles
<1>6. HeapType(g) /\ ~g.first /\ g.base = 1 /\ 1 \in DOMAIN g.hdr /\ g.end \in DOMAIN g.hdr
  BY DEF Tiles
<1>7. g.hdr[1].prev = Client!Null
  <2>1. h.hdr[b].next # 1
    <3>1. EndOf(h, b) > b /\ b \in Nat /\ b > 0 /\ EndOf(h, b) \in Nat /\ Client!Null # 1
      BY Addresses DEF Client!Null
    <3>. QED BY <3>1, <1>5
  <2>. QED BY <2>1 DEF Tiles
<1>8. ASSUME NEW a \in DOMAIN g.hdr
      PROVE  /\ EndOf(g, a) <= g.top
             /\ g.hdr[a].next = IF EndOf(g, a) = g.top THEN Client!Null ELSE EndOf(g, a)
             /\ EndOf(g, a) # g.top => EndOf(g, a) \in DOMAIN g.hdr /\ g.hdr[EndOf(g, a)].prev = a
             /\ EndOf(g, a) = g.top <=> g.end = a
             /\ a # 1 => g.hdr[a].prev \in DOMAIN g.hdr /\ EndOf(g, g.hdr[a].prev) = a
  <2>1. CASE a = new
    <3>1. EndOf(g, a) = EndOf(h, b) /\ g.hdr[a].next = h.hdr[b].next /\ g.hdr[a].prev = b
      BY <2>1, <1>3
    <3>2. EndOf(g, a) <= g.top /\ g.hdr[a].next = IF EndOf(g, a) = g.top THEN Client!Null ELSE EndOf(g, a)
      BY <3>1 DEF Tiles
    <3>3. EndOf(g, a) # g.top => EndOf(g, a) \in DOMAIN g.hdr /\ g.hdr[EndOf(g, a)].prev = a
      BY <3>1, <2>1, <1>5 DEF Tiles
    <3>4. EndOf(g, a) = g.top <=> g.end = a
      <4>1. EndOf(h, b) # h.top => h.hdr[b].next # Client!Null
        BY <1>5, Addresses DEF Tiles
      <4>2. h.end \in DOMAIN h.hdr
        BY DEF Tiles
      <4>. QED BY <3>1, <2>1, <1>2, <1>5, <4>1, <4>2
    <3>. QED BY <3>1, <3>2, <3>3, <3>4, <2>1, <1>3
  <2>2. CASE a = b
    <3>1. EndOf(g, a) = new /\ g.hdr[a].next = new /\ new < g.top
      <4>1. EndOf(h, b) <= h.top /\ EndOf(h, b) \in Nat /\ h.top \in Nat
        BY Addresses DEF Tiles
      <4>. QED BY <4>1, <2>2, <1>1, <1>3
    <3>2. new \in Nat /\ g.top \in Nat
      BY <1>1, Addresses
    <3>3. EndOf(g, a) <= g.top /\ EndOf(g, a) # g.top
      BY <3>1, <3>2
    <3>4. g.end # a
      <4>1. h.hdr[b].next # Client!Null => h.end # b
        BY <1>5, Addresses DEF Tiles
      <4>. QED BY <4>1, <2>2, <1>1
    <3>5. a # 1 => g.hdr[a].prev \in DOMAIN g.hdr /\ EndOf(g, g.hdr[a].prev) = a
      <4>1. SUFFICES ASSUME a # 1 PROVE g.hdr[a].prev \in DOMAIN g.hdr /\ EndOf(g, g.hdr[a].prev) = a
        OBVIOUS
      <4>2. h.hdr[b].prev \in DOMAIN h.hdr /\ EndOf(h, h.hdr[b].prev) = b
        BY <4>1, <2>2 DEF Tiles
      <4>3. h.hdr[b].next # b /\ h.hdr[b].prev # b
        BY <4>2, <1>5, Addresses
      <4>. QED BY <4>2, <4>3, <2>2, <1>4
    <3>. QED BY <3>1, <3>3, <3>4, <3>5, <2>2
  <2>3. CASE a # b /\ a # new
    <3>1. a \in DOMAIN h.hdr /\ EndOf(g, a) = EndOf(h, a) /\ g.hdr[a].next = h.hdr[a].next
      BY <2>3, <1>4
    <3>2. EndOf(g, a) <= g.top /\ g.hdr[a].next = IF EndOf(g, a) = g.top THEN Client!Null ELSE EndOf(g, a)
      BY <3>1 DEF Tiles
    <3>3. EndOf(g, a) # g.top => EndOf(g, a) \in DOMAIN g.hdr /\ g.hdr[EndOf(g, a)].prev = a
      <4>1. SUFFICES ASSUME EndOf(g, a) # g.top PROVE EndOf(g, a) \in DOMAIN g.hdr /\ g.hdr[EndOf(g, a)].prev = a
        OBVIOUS
      <4>2. EndOf(h, a) \in DOMAIN h.hdr /\ h.hdr[EndOf(h, a)].prev = a
        BY <3>1, <4>1 DEF Tiles
      <4>3. EndOf(h, a) # h.hdr[b].next
        <5>1. h.hdr[b].next # Client!Null => h.hdr[b].next \in DOMAIN h.hdr /\ h.hdr[h.hdr[b].next].prev = b
          BY DEF Tiles
        <5>. QED BY <5>1, <4>2, <2>3, Addresses
      <4>. QED BY <4>2, <4>3, <3>1
    <3>4. EndOf(g, a) = g.top <=> g.end = a
      <4>1. h.hdr[b].next = Client!Null => h.end = b
        BY <1>5, Addresses DEF Tiles
      <4>2. EndOf(h, a) = h.top <=> h.end = a
        BY <3>1 DEF Tiles
      <4>. QED BY <4>1, <4>2, <3>1, <2>3
    <3>5. a # 1 => g.hdr[a].prev \in DOMAIN g.hdr /\ EndOf(g, g.hdr[a].prev) = a
      <4>1. SUFFICES ASSUME a # 1 PROVE g.hdr[a].prev \in DOMAIN g.hdr /\ EndOf(g, g.hdr[a].prev) = a
        OBVIOUS
      <4>2. h.hdr[a].prev \in DOMAIN h.hdr /\ EndOf(h, h.hdr[a].prev) = a
        BY <4>1, <3>1 DEF Tiles
      <4>3. CASE a = h.hdr[b].next
        BY <4>3, <1>3, <1>5, <3>1, Addresses
      <4>4. CASE a # h.hdr[b].next
        <5>1. a # h.top
          BY <3>1, Addresses
        <5>2. h.hdr[a].prev # b
          BY <5>1, <4>2, <4>4, <1>5
        <5>. QED BY <5>2, <4>2, <4>4, <3>1, <1>4
      <4>. QED BY <4>3, <4>4
    <3>. QED BY <3>2, <3>3, <3>4, <3>5
  <2>. QED BY <2>1, <2>2, <2>3
<1>9. \A a, d \in DOMAIN g.hdr : a < d => EndOf(g, a) <= d
  <2>1. SUFFICES ASSUME NEW a \in DOMAIN g.hdr, NEW d \in DOMAIN g.hdr, a < d PROVE EndOf(g, a) <= d
    OBVIOUS
  <2>2. \A i, j \in DOMAIN h.hdr : i < j => EndOf(h, i) <= j
    BY DEF Tiles
  <2>3. a \in Nat /\ d \in Nat
    BY <1>1, Addresses
  <2>4. CASE a = new
    <3>1. d # new /\ d \in DOMAIN h.hdr /\ b < d
      BY <2>1, <2>3, <2>4, <1>1, Addresses
    <3>. QED BY <3>1, <2>2, <2>4, <1>3
  <2>5. CASE a # new /\ d = new
    <3>1. a \in DOMAIN h.hdr /\ ~(b < a)
      <4>1. a \in DOMAIN h.hdr
        BY <2>5
      <4>2. b < a => EndOf(h, b) <= a
        BY <4>1, <2>2
      <4>. QED BY <4>1, <4>2, <2>1, <2>3, <2>5, <1>1, Addresses
    <3>2. CASE a = b
      BY <3>2, <2>5, <1>1, <1>3
    <3>3. CASE a # b
      <4>a. a \in Nat /\ b \in Nat
        BY <2>3, Addresses
      <4>1. a < b
        BY <4>a, <3>1, <3>3
      <4>2. EndOf(h, a) <= b /\ EndOf(h, a) \in Nat
        BY <4>1, <3>1, <2>2, Addresses
      <4>. QED BY <4>2, <3>1, <3>3, <2>5, <1>1, <1>4, Addresses
    <3>. QED BY <3>2, <3>3
  <2>6. CASE a # new /\ d # new
    <3>1. a \in DOMAIN h.hdr /\ d \in DOMAIN h.hdr
      BY <2>6
    <3>2. EndOf(h, a) <= d
      BY <3>1, <2>1, <2>2
    <3>3. CASE a = b
      BY <3>1, <3>2, <3>3, <1>1, <1>3, <2>3, Addresses
    <3>. QED BY <3>1, <3>2, <3>3, <1>4
  <2>. QED BY <2>4, <2>5, <2>6
<1>. QED BY <1>2, <1>6, <1>7, <1>8, <1>9 DEF Tiles

\* A block may be added at the break.
LEMMA ExtendTiles ==
  ASSUME Client!MmAllocAssumption, NEW h, Tiles(h), NEW size \in Nat, NEW new, new = h.top,
         NEW g, HeapType(g), DOMAIN g.hdr = DOMAIN h.hdr \cup {new},
         g.base = h.base, g.top = new + size + BlockHeader, g.first = h.first, g.end = new,
         g.hdr[new].size = size, g.hdr[new].next = Client!Null, g.hdr[new].prev = h.end,
         \A a \in DOMAIN h.hdr :
           /\ g.hdr[a].size = h.hdr[a].size /\ g.hdr[a].prev = h.hdr[a].prev
           /\ g.hdr[a].next = IF a = h.end THEN new ELSE h.hdr[a].next
  PROVE  Tiles(g) /\ new \notin DOMAIN h.hdr
<1>1. new \in Nat /\ g.top \in Nat /\ new < g.top /\ \A a \in DOMAIN h.hdr : a < new /\ EndOf(h, a) <= new
  BY Addresses DEF Tiles
<1>2. new \notin DOMAIN h.hdr /\ h.end \in DOMAIN h.hdr /\ h.end # new
  BY <1>1, Addresses DEF Tiles
<1>3. EndOf(g, new) = g.top
  <2>1. EndOf(g, new) = new + BlockHeader + size
    BY DEF EndOf
  <2>. QED BY <2>1, <1>1, Addresses
<1>4. \A a \in DOMAIN h.hdr : EndOf(g, a) = EndOf(h, a)
  BY DEF EndOf
<1>5. EndOf(h, h.end) = new
  BY <1>2 DEF Tiles
<1>6. HeapType(g) /\ ~g.first /\ g.base = 1 /\ 1 \in DOMAIN g.hdr /\ g.end \in DOMAIN g.hdr
      /\ g.hdr[1].prev = Client!Null
  BY DEF Tiles
<1>7. ASSUME NEW a \in DOMAIN g.hdr
      PROVE  /\ EndOf(g, a) <= g.top
             /\ g.hdr[a].next = IF EndOf(g, a) = g.top THEN Client!Null ELSE EndOf(g, a)
             /\ EndOf(g, a) # g.top => EndOf(g, a) \in DOMAIN g.hdr /\ g.hdr[EndOf(g, a)].prev = a
             /\ EndOf(g, a) = g.top <=> g.end = a
             /\ a # 1 => g.hdr[a].prev \in DOMAIN g.hdr /\ EndOf(g, g.hdr[a].prev) = a
  <2>1. CASE a = new
    BY <2>1, <1>1, <1>2, <1>3, <1>4, <1>5
  <2>2. CASE a # new
    <3>1. a \in DOMAIN h.hdr /\ EndOf(g, a) = EndOf(h, a) /\ EndOf(g, a) \in Nat /\ EndOf(g, a) <= new
      BY <2>2, <1>1, <1>4, Addresses
    <3>2. EndOf(g, a) <= g.top /\ EndOf(g, a) # g.top /\ g.end # a
      BY <3>1, <2>2, <1>1
    <3>3. a # 1 => g.hdr[a].prev \in DOMAIN g.hdr /\ EndOf(g, g.hdr[a].prev) = a
      BY <3>1, <1>4 DEF Tiles
    <3>4. CASE a = h.end
      BY <3>1, <3>2, <3>3, <3>4, <1>2, <1>5
    <3>5. CASE a # h.end
      <4>1. EndOf(h, a) # h.top /\ h.hdr[a].next = EndOf(h, a) /\ EndOf(h, a) \in DOMAIN h.hdr
            /\ h.hdr[EndOf(h, a)].prev = a
        BY <3>1, <3>5 DEF Tiles
      <4>. QED BY <4>1, <3>1, <3>2, <3>3, <3>5
    <3>. QED BY <3>4, <3>5
  <2>. QED BY <2>1, <2>2
<1>8. \A a, d \in DOMAIN g.hdr : a < d => EndOf(g, a) <= d
  <2>1. SUFFICES ASSUME NEW a \in DOMAIN g.hdr, NEW d \in DOMAIN g.hdr, a < d PROVE EndOf(g, a) <= d
    OBVIOUS
  <2>2. a \in DOMAIN h.hdr
    BY <2>1, <1>1, Addresses
  <2>3. CASE d = new
    BY <2>2, <2>3, <1>1, <1>4
  <2>4. CASE d # new
    BY <2>1, <2>2, <2>4, <1>4 DEF Tiles
  <2>. QED BY <2>3, <2>4
<1>. QED BY <1>2, <1>6, <1>7, <1>8 DEF Tiles
-------------------------------------------------------------------------------
\* The second half of mm_free: b, which is free, takes in a free block after it.
LEMMA AbsorbNextIs ==
  ASSUME Client!MmAllocAssumption, NEW h, Tiles(h), NEW b \in DOMAIN h.hdr, h.hdr[b].free,
         NEW n, n = h.hdr[b].next, NEW g, g = Client!AbsorbNext(h, b),
         \A a \in DOMAIN h.hdr \ {b} :
           h.hdr[a].free /\ h.hdr[a].next # Client!Null => ~h.hdr[h.hdr[a].next].free
  PROVE  /\ Tiles(g) /\ FreeRight(g)
         /\ DOMAIN g.hdr = DOMAIN h.hdr \ (IF n # Client!Null /\ h.hdr[n].free THEN {n} ELSE {})
         /\ \A a \in DOMAIN g.hdr : g.hdr[a].free = h.hdr[a].free
         /\ \A a \in DOMAIN g.hdr \ {b} : g.hdr[a].size = h.hdr[a].size
         /\ b \in DOMAIN g.hdr
         /\ g.hdr[b].size = h.hdr[b].size + IF n # Client!Null /\ h.hdr[n].free THEN h.hdr[n].size + BlockHeader ELSE 0
<1>1. CASE n = Client!Null \/ ~h.hdr[n].free
  <2>1. g = h
    BY <1>1 DEF Client!AbsorbNext
  <2>2. FreeRight(g)
    BY <2>1, <1>1 DEF FreeRight
  <2>3. h.hdr[b].size \in Nat
    BY Addresses
  <2>. QED BY <2>1, <2>2, <2>3, <1>1
<1>2. CASE n # Client!Null /\ h.hdr[n].free
  <2>1. n \in DOMAIN h.hdr /\ n # b /\ h.hdr[n].next \in DOMAIN h.hdr \cup {Client!Null} /\ HeapType(h)
        /\ BlockHeader \in Nat /\ h.hdr[b].size \in Nat /\ h.hdr[n].size \in Nat /\ h.end \in Nat
    <3>1. n \in DOMAIN h.hdr
      BY <1>2, Addresses
    <3>2. n = EndOf(h, b)
      BY <1>2 DEF Tiles
    <3>3. n # b
      BY <3>2, Addresses
    <3>4. h.hdr[n].next \in DOMAIN h.hdr \cup {Client!Null} /\ BlockHeader \in Nat /\ h.hdr[b].size \in Nat /\ h.hdr[n].size \in Nat
      BY <3>1, Addresses
    <3>. QED BY <3>1, <3>3, <3>4 DEF Tiles, HeapType
  <2>. DEFINE k == Client!Absorbed(h, b, n)
              m == IF h.hdr[n].next = Client!Null THEN [k EXCEPT !.end = b] ELSE k
  <2>2. g = Client!Merged(m, n)
    BY <1>2 DEF Client!AbsorbNext
  <2>3. /\ HeapType(k) /\ DOMAIN k.hdr = DOMAIN h.hdr /\ SameEnds(k, h)
        /\ \A a \in DOMAIN h.hdr :
             /\ k.hdr[a].size = IF a = b THEN h.hdr[b].size + BlockHeader + h.hdr[n].size ELSE h.hdr[a].size
             /\ k.hdr[a].free = h.hdr[a].free
             /\ k.hdr[a].next = IF a = b THEN h.hdr[n].next ELSE h.hdr[a].next
             /\ k.hdr[a].prev = IF a = h.hdr[n].next THEN b ELSE h.hdr[a].prev
    <3>1. IsAbsorbed(k, h, b, n)
      BY <2>1, AbsorbedIs
    <3>. QED BY <3>1 DEF IsAbsorbed
  <2>. HIDE DEF k
  <2>4. (h.hdr[n].next = Client!Null) <=> (h.end = n)
    <3>1. h.hdr[n].next = IF EndOf(h, n) = h.top THEN Client!Null ELSE EndOf(h, n)
      BY <2>1 DEF Tiles
    <3>2. (EndOf(h, n) = h.top) <=> (h.end = n)
      BY <2>1 DEF Tiles
    <3>3. EndOf(h, n) # Client!Null
      BY <2>1, Addresses DEF Client!Null
    <3>. QED BY <3>1, <3>2, <3>3
  <2>5. /\ HeapType(m) /\ m.hdr = k.hdr /\ m.base = h.base /\ m.top = h.top /\ m.first = h.first
        /\ m.end = IF h.end = n THEN b ELSE h.end
    <3>1. CASE h.end = n
      <4>1. m = [k EXCEPT !.end = b] /\ b \in Nat
        BY <3>1, <2>4, Addresses
      <4>2. m = [hdr |-> k.hdr, base |-> k.base, end |-> b, top |-> k.top, first |-> k.first]
        BY <4>1, <2>3 DEF HeapType
      <4>. QED BY <3>1, <4>1, <4>2, <2>3 DEF HeapType, SameEnds
    <3>2. CASE h.end # n
      <4>1. m = k
        BY <3>2, <2>4
      <4>. QED BY <3>2, <4>1, <2>3 DEF SameEnds
    <3>. QED BY <3>1, <3>2
  <2>. HIDE DEF m
  <2>6. m.end # n
    BY <2>1, <2>5
  <2>7. /\ HeapType(g) /\ DOMAIN g.hdr = DOMAIN h.hdr \ {n} /\ SameEnds(g, m)
        /\ \A a \in DOMAIN h.hdr \ {n} : g.hdr[a] = k.hdr[a]
    <3>1. n \in DOMAIN m.hdr /\ DOMAIN m.hdr = DOMAIN h.hdr
      BY <2>1, <2>3, <2>5
    <3>2. /\ HeapType(g) /\ DOMAIN g.hdr = DOMAIN m.hdr \ {n} /\ SameEnds(g, m)
          /\ \A a \in DOMAIN m.hdr \ {n} : g.hdr[a] = m.hdr[a]
      BY <3>1, <2>2, <2>5, <2>6, MergedIs
    <3>. QED BY <3>1, <3>2, <2>5
  <2>8. /\ g.base = h.base /\ g.top = h.top /\ g.first = h.first /\ g.end = IF h.end = n THEN b ELSE h.end
        /\ \A a \in DOMAIN h.hdr \ {n} :
             /\ g.hdr[a].size = IF a = b THEN h.hdr[b].size + BlockHeader + h.hdr[n].size ELSE h.hdr[a].size
             /\ g.hdr[a].free = h.hdr[a].free
             /\ g.hdr[a].next = IF a = b THEN h.hdr[n].next ELSE h.hdr[a].next
             /\ g.hdr[a].prev = IF a = h.hdr[n].next THEN b ELSE h.hdr[a].prev
    BY <2>3, <2>5, <2>7 DEF SameEnds
  <2>9. Tiles(g)
    BY <2>1, <2>7, <2>8, AbsorbTiles
  <2>10. FreeRight(g)
    <3>1. SUFFICES ASSUME NEW a \in DOMAIN g.hdr, g.hdr[a].free, g.hdr[a].next # Client!Null
                   PROVE  ~g.hdr[g.hdr[a].next].free
      BY DEF FreeRight
    <3>2. g.hdr[a].next \in DOMAIN g.hdr /\ a \in DOMAIN h.hdr \ {n}
      BY <3>1, <2>7, <2>9, Addresses
    <3>3. CASE a = b
      <4>1. g.hdr[a].next = h.hdr[n].next /\ h.hdr[n].next # Client!Null
        BY <3>1, <3>2, <3>3, <2>8
      <4>2. ~h.hdr[h.hdr[n].next].free
        BY <4>1, <2>1, <1>2
      <4>. QED BY <4>1, <4>2, <3>2, <2>7, <2>8
    <3>4. CASE a # b
      <4>1. g.hdr[a].next = h.hdr[a].next /\ h.hdr[a].free
        BY <3>1, <3>2, <3>4, <2>8
      <4>2. ~h.hdr[h.hdr[a].next].free
        BY <4>1, <3>1, <3>2, <3>4
      <4>. QED BY <4>1, <4>2, <3>2, <2>7, <2>8
    <3>. QED BY <3>3, <3>4
  <2>11. h.hdr[b].size + BlockHeader + h.hdr[n].size = h.hdr[b].size + (h.hdr[n].size + BlockHeader)
    BY <2>1
  <2>. QED BY <2>1, <2>7, <2>8, <2>9, <2>10, <2>11, <1>2
<1>. QED BY <1>1, <1>2

\* What b would leave if it was freed.
Gain(h, c) == IF c # Client!Null /\ h.hdr[c].free THEN h.hdr[c].size + BlockHeader ELSE 0
FreedRoom(h, b) == h.hdr[b].size + Gain(h, h.hdr[b].prev) + Gain(h, h.hdr[b].next)
Without1(l, b) == [a \in DOMAIN l \ {b} |-> l[a]]

\* mm_free gives up b and nothing else, and leaves room for what it had.
LEMMA FreeGood ==
  ASSUME Client!MmAllocAssumption, NEW h, NEW l, HeapGood(h, l), NEW b \in DOMAIN l,
         ~(h.hdr[b].next = Client!Null /\ h.hdr[b].prev # Client!Null /\ h.hdr[h.hdr[b].prev].free),
         NEW g, g = Client!FreeIn(h, b)
  PROVE  /\ HeapGood(g, Without1(l, b))
         /\ \A a \in DOMAIN l \ {b} : a \in DOMAIN g.hdr /\ g.hdr[a].size = h.hdr[a].size
         /\ \E c \in DOMAIN g.hdr : g.hdr[c].free /\ g.hdr[c].size >= FreedRoom(h, b)
<1>a. PICK p : p = h.hdr[b].prev
  OBVIOUS
<1>b. PICK n : n = h.hdr[b].next
  OBVIOUS
<1>c. PICK f : f = [h EXCEPT !.hdr[b].free = TRUE]
  OBVIOUS
<1>1. /\ Tiles(h) /\ FreeRight(h) /\ HeapType(h) /\ b \in DOMAIN h.hdr /\ ~h.hdr[b].free
      /\ l \in [DOMAIN l -> Nat] /\ DOMAIN l = {a \in DOMAIN h.hdr : ~h.hdr[a].free}
      /\ \A a \in DOMAIN l : h.hdr[a].size >= l[a]
  BY DEF HeapGood, HeldBy, Tiles
<1>2. /\ HeapType(f) /\ DOMAIN f.hdr = DOMAIN h.hdr /\ SameEnds(f, h)
      /\ \A a \in DOMAIN h.hdr :
           /\ f.hdr[a].size = h.hdr[a].size /\ f.hdr[a].prev = h.hdr[a].prev
           /\ f.hdr[a].next = h.hdr[a].next
           /\ f.hdr[a].free = IF a = b THEN TRUE ELSE h.hdr[a].free
  <2>1. PICK v \in BOOLEAN : v = TRUE
    OBVIOUS
  <2>2. f = [h EXCEPT !.hdr[b].free = v]
    BY <2>1, <1>c
  <2>3. IsMarked(f, h, b, v)
    BY <1>1, <2>1, <2>2, MarkedIs
  <2>. QED BY <2>1, <2>3 DEF IsMarked
<1>3. g = IF p # Client!Null /\ h.hdr[p].free THEN Client!AbsorbNext(Client!Merged(Client!Absorbed(f, p, b), b), p) ELSE Client!AbsorbNext(f, b)
  BY <1>a, <1>c DEF Client!FreeIn
<1>4. Tiles(f)
  BY <1>1, <1>2, MarkTiles
<1>5. /\ BlockHeader \in Nat /\ Client!Null \notin DOMAIN h.hdr /\ p \in DOMAIN h.hdr \cup {Client!Null} /\ n \in DOMAIN h.hdr \cup {Client!Null}
      /\ \A a \in DOMAIN h.hdr : /\ h.hdr[a].size \in Nat /\ h.hdr[a].free \in BOOLEAN
                                 /\ h.hdr[a].next \in DOMAIN h.hdr \cup {Client!Null}
  BY <1>1, <1>a, <1>b, Addresses
<1>6. (p # Client!Null => p # b /\ h.hdr[p].next = b) /\ (n # Client!Null => n # b /\ h.hdr[n].prev = b)
      /\ (p # Client!Null /\ n # Client!Null => p # n)
      /\ \A a \in DOMAIN h.hdr : h.hdr[a].next = b => p = a
  <2>1. \A a \in DOMAIN h.hdr : EndOf(h, a) \in Nat /\ EndOf(h, a) > a /\ a \in Nat /\ a < h.top
    BY <1>1, Addresses
  <2>2. p # Client!Null => EndOf(h, p) = b
    <3>1. 1 \in DOMAIN h.hdr /\ h.hdr[1].prev = Client!Null /\ (b # 1 => EndOf(h, p) = b)
      BY <1>1, <1>a DEF Tiles
    <3>. QED BY <3>1, <1>a
  <2>3. p # Client!Null => h.hdr[p].next = b /\ p # b /\ p < b
    <3>1. p # Client!Null => h.hdr[p].next = IF EndOf(h, p) = h.top THEN Client!Null ELSE EndOf(h, p)
      BY <1>1, <1>5 DEF Tiles
    <3>. QED BY <3>1, <2>1, <2>2, <1>1, <1>5
  <2>4. n # Client!Null => n = EndOf(h, b) /\ h.hdr[n].prev = b
    BY <1>1, <1>b DEF Tiles
  <2>5. \A a \in DOMAIN h.hdr : h.hdr[a].next = b => p = a
    <3>1. \A a \in DOMAIN h.hdr : h.hdr[a].next = IF EndOf(h, a) = h.top THEN Client!Null ELSE EndOf(h, a)
      BY <1>1 DEF Tiles
    <3>2. \A a \in DOMAIN h.hdr : EndOf(h, a) # h.top => h.hdr[EndOf(h, a)].prev = a
      BY <1>1 DEF Tiles
    <3>. QED BY <3>1, <3>2, <1>1, <1>5, <1>a
  <2>. QED BY <2>1, <2>3, <2>4, <2>5, <1>1, <1>5
<1>7. p = h.hdr[b].prev /\ n = h.hdr[b].next
  BY <1>a, <1>b
<1>8. Gain(h, p) \in Nat /\ Gain(h, n) \in Nat /\ FreedRoom(h, b) = h.hdr[b].size + Gain(h, p) + Gain(h, n)
  BY <1>5, <1>7 DEF Gain, FreedRoom
<1>9. \A a \in DOMAIN f.hdr : a # b /\ a # p => (f.hdr[a].free /\ f.hdr[a].next # Client!Null => ~f.hdr[f.hdr[a].next].free)
  <2>1. SUFFICES ASSUME NEW a \in DOMAIN h.hdr, a # b, a # p, h.hdr[a].free, h.hdr[a].next # Client!Null
                 PROVE  ~f.hdr[h.hdr[a].next].free
    BY <1>2
  <2>2. h.hdr[a].next \in DOMAIN h.hdr /\ ~h.hdr[h.hdr[a].next].free
    BY <2>1, <1>1, <1>5 DEF FreeRight
  <2>3. h.hdr[a].next # b
    BY <2>1, <1>6
  <2>. QED BY <2>2, <2>3, <1>2
<1>10. \* What remains to show of g
       ASSUME NEW c \in DOMAIN h.hdr, ~(c \in DOMAIN l /\ c # b), Tiles(g), FreeRight(g),
              c \in DOMAIN g.hdr, g.hdr[c].free, g.hdr[c].size = FreedRoom(h, b),
              DOMAIN g.hdr \subseteq DOMAIN h.hdr,
              \A a \in DOMAIN h.hdr : ~h.hdr[a].free /\ a # b => a \in DOMAIN g.hdr /\ ~g.hdr[a].free,
              \A a \in DOMAIN g.hdr : a # b => g.hdr[a].free = h.hdr[a].free,
              b \in DOMAIN g.hdr => g.hdr[b].free,
              \A a \in DOMAIN g.hdr \ {c} : g.hdr[a].size = h.hdr[a].size
       PROVE  /\ HeapGood(g, Without1(l, b))
              /\ \A a \in DOMAIN l \ {b} : a \in DOMAIN g.hdr /\ g.hdr[a].size = h.hdr[a].size
              /\ \E d \in DOMAIN g.hdr : g.hdr[d].free /\ g.hdr[d].size >= FreedRoom(h, b)
  <2>1. \A a \in DOMAIN l \ {b} : a \in DOMAIN g.hdr /\ g.hdr[a].size = h.hdr[a].size
    BY <1>1, <1>10
  <2>2. /\ DOMAIN Without1(l, b) = DOMAIN l \ {b} /\ Without1(l, b) \in [DOMAIN l \ {b} -> Nat]
        /\ \A a \in DOMAIN l \ {b} : Without1(l, b)[a] = l[a]
    BY <1>1 DEF Without1
  <2>3. DOMAIN l \ {b} = {a \in DOMAIN g.hdr : ~g.hdr[a].free}
    BY <1>1, <1>10
  <2>4. HeldBy(g, Without1(l, b))
    BY <2>1, <2>2, <2>3, <1>1 DEF HeldBy
  <2>5. FreedRoom(h, b) \in Nat
    BY <1>1, <1>5, <1>8
  <2>6. g.hdr[c].size >= FreedRoom(h, b)
    BY <2>5, <1>10
  <2>. QED BY <2>1, <2>4, <2>6, <1>10 DEF HeapGood
<1>11. CASE p = Client!Null \/ ~h.hdr[p].free
  <2>1. g = Client!AbsorbNext(f, b) /\ f.hdr[b].free /\ n = f.hdr[b].next /\ b \in DOMAIN f.hdr
    BY <1>1, <1>2, <1>3, <1>7, <1>11
  <2>2. \A a \in DOMAIN f.hdr \ {b} : f.hdr[a].free /\ f.hdr[a].next # Client!Null => ~f.hdr[f.hdr[a].next].free
    <3>1. p # Client!Null => ~f.hdr[p].free
      BY <1>2, <1>5, <1>6, <1>11
    <3>. QED BY <3>1, <1>2, <1>5, <1>9
  <2>. DEFINE N == IF n # Client!Null /\ f.hdr[n].free THEN {n} ELSE {}
  <2>3. /\ Tiles(g) /\ FreeRight(g) /\ DOMAIN g.hdr = DOMAIN f.hdr \ N
        /\ \A a \in DOMAIN g.hdr : g.hdr[a].free = f.hdr[a].free
        /\ \A a \in DOMAIN g.hdr \ {b} : g.hdr[a].size = f.hdr[a].size
        /\ b \in DOMAIN g.hdr
        /\ g.hdr[b].size = f.hdr[b].size + IF n # Client!Null /\ f.hdr[n].free THEN f.hdr[n].size + BlockHeader ELSE 0
    <3>. HIDE DEF N
    <3>. QED BY <1>4, <2>1, <2>2, AbsorbNextIs DEF N
  <2>4. (n # Client!Null /\ f.hdr[n].free) <=> (n # Client!Null /\ h.hdr[n].free)
    BY <1>2, <1>5, <1>6
  <2>5. g.hdr[b].size = h.hdr[b].size + Gain(h, n)
    BY <2>3, <2>4, <1>1, <1>2, <1>5 DEF Gain
  <2>6. Gain(h, p) = 0
    BY <1>11 DEF Gain
  <2>7. g.hdr[b].size = FreedRoom(h, b)
    BY <2>5, <2>6, <1>1, <1>5, <1>8
  <2>8. \A a \in DOMAIN h.hdr : ~h.hdr[a].free /\ a # b => a \in DOMAIN g.hdr /\ ~g.hdr[a].free
    BY <2>3, <2>4, <1>2
  <2>9. /\ ~(b \in DOMAIN l /\ b # b) /\ b \in DOMAIN g.hdr /\ g.hdr[b].free
        /\ DOMAIN g.hdr \subseteq DOMAIN h.hdr
        /\ \A a \in DOMAIN g.hdr : a # b => g.hdr[a].free = h.hdr[a].free
        /\ b \in DOMAIN g.hdr => g.hdr[b].free
        /\ \A a \in DOMAIN g.hdr \ {b} : g.hdr[a].size = h.hdr[a].size
    BY <2>1, <2>3, <1>2
  <2>. QED BY <2>3, <2>7, <2>8, <2>9, <1>1, <1>10
<1>12. CASE p # Client!Null /\ h.hdr[p].free
  <2>1. n # Client!Null /\ p # Client!Null /\ p \in DOMAIN h.hdr /\ n \in DOMAIN h.hdr /\ p # b /\ n # b /\ p # n
    BY <1>5, <1>6, <1>7, <1>12
  <2>a. /\ p \in DOMAIN f.hdr /\ b \in DOMAIN f.hdr /\ n \in DOMAIN f.hdr
        /\ f.hdr[b].next = n /\ f.hdr[b].next \in DOMAIN f.hdr \cup {Client!Null}
        /\ f.hdr[p].size = h.hdr[p].size /\ f.hdr[b].size = h.hdr[b].size /\ f.hdr[n].size = h.hdr[n].size
        /\ f.hdr[p].free = h.hdr[p].free /\ f.hdr[n].free = h.hdr[n].free /\ f.hdr[p].next = b
    BY <2>1, <1>1, <1>2, <1>6, <1>7
  <2>b. PICK k : k = Client!Absorbed(f, p, b)
    OBVIOUS
  <2>c. PICK m : m = Client!Merged(k, b)
    OBVIOUS
  <2>2. /\ HeapType(k) /\ DOMAIN k.hdr = DOMAIN f.hdr /\ SameEnds(k, f)
        /\ \A a \in DOMAIN f.hdr :
             /\ k.hdr[a].size = IF a = p THEN f.hdr[p].size + BlockHeader + f.hdr[b].size ELSE f.hdr[a].size
             /\ k.hdr[a].free = f.hdr[a].free
             /\ k.hdr[a].next = IF a = p THEN f.hdr[b].next ELSE f.hdr[a].next
             /\ k.hdr[a].prev = IF a = f.hdr[b].next THEN p ELSE f.hdr[a].prev
    <3>1. IsAbsorbed(k, f, p, b)
      BY <1>2, <1>5, <2>a, <2>b, AbsorbedIs
    <3>. QED BY <3>1 DEF IsAbsorbed
  <2>3. f.end # b
    <3>1. f.hdr[b].next = IF EndOf(f, b) = f.top THEN Client!Null ELSE EndOf(f, b)
      BY <1>1, <1>2, <1>4 DEF Tiles
    <3>2. (EndOf(f, b) = f.top) <=> (f.end = b)
      BY <1>1, <1>2, <1>4 DEF Tiles
    <3>. QED BY <3>1, <3>2, <2>1, <1>1, <1>2, <1>7
  <2>4. /\ HeapType(m) /\ DOMAIN m.hdr = DOMAIN f.hdr \ {b} /\ SameEnds(m, k)
        /\ \A a \in DOMAIN f.hdr \ {b} : m.hdr[a] = k.hdr[a]
    <3>1. k.end # b /\ b \in DOMAIN k.hdr
      BY <2>2, <2>3, <1>1, <1>2 DEF SameEnds
    <3>2. /\ HeapType(m) /\ DOMAIN m.hdr = DOMAIN k.hdr \ {b} /\ SameEnds(m, k)
          /\ \A a \in DOMAIN k.hdr \ {b} : m.hdr[a] = k.hdr[a]
      BY <3>1, <2>2, <2>c, MergedIs
    <3>. QED BY <3>2, <2>2
  <2>5. g = Client!AbsorbNext(m, p)
    BY <1>3, <1>12, <2>b, <2>c
  <2>6. /\ m.base = f.base /\ m.top = f.top /\ m.first = f.first /\ m.end = IF f.end = b THEN p ELSE f.end
        /\ \A a \in DOMAIN f.hdr \ {b} :
             /\ m.hdr[a].size = IF a = p THEN f.hdr[p].size + BlockHeader + f.hdr[b].size ELSE f.hdr[a].size
             /\ m.hdr[a].free = f.hdr[a].free
             /\ m.hdr[a].next = IF a = p THEN f.hdr[b].next ELSE f.hdr[a].next
             /\ m.hdr[a].prev = IF a = f.hdr[b].next THEN p ELSE f.hdr[a].prev
    BY <2>2, <2>3, <2>4 DEF SameEnds
  <2>7. f.hdr[p].next = b
    BY <2>a
  <2>8. Tiles(m)
    BY <2>1, <2>4, <2>6, <2>7, <1>1, <1>2, <1>4, AbsorbTiles
  <2>9. m.hdr[p].free /\ p \in DOMAIN m.hdr /\ n = m.hdr[p].next
    <3>1. p \in DOMAIN f.hdr \ {b}
      BY <2>1, <2>a
    <3>2. m.hdr[p].free = f.hdr[p].free /\ m.hdr[p].next = f.hdr[b].next
      BY <3>1, <2>6
    <3>3. p \in DOMAIN m.hdr
      BY <3>1, <2>4
    <3>. QED BY <3>2, <3>3, <2>a, <1>12
  <2>10. \A a \in DOMAIN m.hdr \ {p} : m.hdr[a].free /\ m.hdr[a].next # Client!Null => ~m.hdr[m.hdr[a].next].free
    <3>1. SUFFICES ASSUME NEW a \in DOMAIN m.hdr \ {p}, m.hdr[a].free, m.hdr[a].next # Client!Null
                   PROVE  ~m.hdr[m.hdr[a].next].free
      OBVIOUS
    <3>2. a \in DOMAIN f.hdr \ {b} /\ m.hdr[a].next = f.hdr[a].next /\ f.hdr[a].free
      BY <3>1, <2>4, <2>6
    <3>3. ~f.hdr[f.hdr[a].next].free
      BY <3>1, <3>2, <1>9
    <3>4. m.hdr[a].next \in DOMAIN m.hdr
      BY <3>1, <2>8, Addresses
    <3>. QED BY <3>2, <3>3, <3>4, <2>4, <2>6
  <2>d. PICK N : N = IF n # Client!Null /\ m.hdr[n].free THEN {n} ELSE {}
    OBVIOUS
  <2>11. /\ Tiles(g) /\ FreeRight(g) /\ DOMAIN g.hdr = DOMAIN m.hdr \ N
         /\ \A a \in DOMAIN g.hdr : g.hdr[a].free = m.hdr[a].free
         /\ \A a \in DOMAIN g.hdr \ {p} : g.hdr[a].size = m.hdr[a].size
         /\ p \in DOMAIN g.hdr
         /\ g.hdr[p].size = m.hdr[p].size + IF n # Client!Null /\ m.hdr[n].free THEN m.hdr[n].size + BlockHeader ELSE 0
    BY <2>5, <2>8, <2>9, <2>10, <2>d, AbsorbNextIs
  <2>e. DOMAIN g.hdr \subseteq DOMAIN m.hdr /\ \A a \in DOMAIN m.hdr \ DOMAIN g.hdr : m.hdr[a].free
    <3>1. DOMAIN g.hdr = DOMAIN m.hdr \ N
      BY <2>11
    <3>. QED BY <3>1, <2>d
  <2>f. \A a \in DOMAIN g.hdr : g.hdr[a].free = m.hdr[a].free
    BY <2>11
  <2>g. \A a \in DOMAIN m.hdr : a # b /\ a \in DOMAIN h.hdr /\ (m.hdr[a].free <=> h.hdr[a].free)
                                /\ (a # p => m.hdr[a].size = h.hdr[a].size)
                                /\ m.hdr[a].free = h.hdr[a].free
    <3>1. SUFFICES ASSUME NEW a \in DOMAIN m.hdr
                   PROVE  /\ a # b /\ a \in DOMAIN h.hdr /\ m.hdr[a].free = h.hdr[a].free
                          /\ (a # p => m.hdr[a].size = h.hdr[a].size)
      BY Zenon
    <3>2. a # b /\ a \in DOMAIN h.hdr /\ a \in DOMAIN f.hdr \ {b}
      BY <2>4, <1>2
    <3>3. f.hdr[a].free = h.hdr[a].free /\ f.hdr[a].size = h.hdr[a].size
      BY <3>2, <1>2
    <3>4. m.hdr[a].free = f.hdr[a].free /\ (a # p => m.hdr[a].size = f.hdr[a].size)
      BY <3>2, <2>6
    <3>. QED BY <3>2, <3>3, <3>4
  <2>12. (m.hdr[n].free <=> h.hdr[n].free) /\ m.hdr[n].size = h.hdr[n].size
         /\ m.hdr[p].size = h.hdr[p].size + BlockHeader + h.hdr[b].size
    BY <2>1, <2>a, <2>6
  <2>13. g.hdr[p].size = (h.hdr[p].size + BlockHeader + h.hdr[b].size) + Gain(h, n)
    <3>1. CASE h.hdr[n].free
      BY <3>1, <2>1, <2>11, <2>12 DEF Gain
    <3>2. CASE ~h.hdr[n].free
      BY <3>2, <2>1, <2>11, <2>12 DEF Gain
    <3>. QED BY <3>1, <3>2
  <2>14. Gain(h, p) = h.hdr[p].size + BlockHeader
    BY <1>12 DEF Gain
  <2>15. g.hdr[p].size = FreedRoom(h, b)
    BY <2>1, <2>13, <2>14, <1>1, <1>5, <1>8
  <2>16. \A a \in DOMAIN h.hdr : ~h.hdr[a].free /\ a # b => a \in DOMAIN g.hdr /\ ~g.hdr[a].free
    <3>1. SUFFICES ASSUME NEW a \in DOMAIN h.hdr, ~h.hdr[a].free, a # b
                   PROVE  a \in DOMAIN g.hdr /\ ~g.hdr[a].free
      OBVIOUS
    <3>2. a \in DOMAIN m.hdr /\ ~m.hdr[a].free
      BY <3>1, <2>4, <2>g, <1>2
    <3>3. a \in DOMAIN g.hdr
      BY <3>2, <2>e
    <3>. QED BY <3>2, <3>3, <2>f
  <2>17. g.hdr[p].free /\ p \notin DOMAIN l
    <3>1. p \in DOMAIN g.hdr
      BY <2>11
    <3>2. g.hdr[p].free
      BY <3>1, <2>9, <2>f
    <3>. QED BY <3>2, <1>1, <1>12
  <2>18. \A a \in DOMAIN g.hdr : g.hdr[a].free = h.hdr[a].free /\ a # b /\ a \in DOMAIN h.hdr
    BY <2>e, <2>f, <2>g
  <2>19. \A a \in DOMAIN g.hdr \ {p} : g.hdr[a].size = h.hdr[a].size
    <3>1. SUFFICES ASSUME NEW a \in DOMAIN g.hdr \ {p} PROVE g.hdr[a].size = h.hdr[a].size
      OBVIOUS
    <3>2. g.hdr[a].size = m.hdr[a].size
      BY <2>11
    <3>. QED BY <3>2, <2>e, <2>g
  <2>20. /\ ~(p \in DOMAIN l /\ p # b) /\ DOMAIN g.hdr \subseteq DOMAIN h.hdr
         /\ \A a \in DOMAIN g.hdr : a # b => g.hdr[a].free = h.hdr[a].free
         /\ b \in DOMAIN g.hdr => g.hdr[b].free
    BY <2>17, <2>18
  <2>21. Tiles(g) /\ FreeRight(g) /\ p \in DOMAIN g.hdr
    BY <2>11
  <2>. QED BY <2>1, <2>15, <2>16, <2>17, <2>19, <2>20, <2>21, <1>10
<1>. QED BY <1>11, <1>12
-------------------------------------------------------------------------------
\* The client may free a.
MayFree(h, a) ==
  ~(h.hdr[a].next = Client!Null /\ h.hdr[a].prev # Client!Null /\ h.hdr[h.hdr[a].prev].free)
With1(l, b, size) == [a \in DOMAIN l \cup {b} |-> IF a = b THEN size ELSE l[a]]

\* A call of mm_malloc that turned h into g and returned b.
Gives(g, b, h, l, size) ==
  /\ HeapGood(g, With1(l, b, size)) /\ b \notin DOMAIN l /\ b # Client!Null
  /\ \A a \in DOMAIN l : /\ a \in DOMAIN g.hdr /\ g.hdr[a].size = h.hdr[a].size
                         /\ MayFree(h, a) => MayFree(g, a)

\* Where the blocks tile the heap, and of the others nothing has changed but
\* whether b is free, b has been given.
LEMMA GivesRight ==
  ASSUME Client!MmAllocAssumption, NEW h, NEW l, HeapGood(h, l), NEW size \in Nat, NEW b, NEW g,
         Tiles(g), FreeRight(g), b \in DOMAIN g.hdr, ~g.hdr[b].free, g.hdr[b].size >= size,
         b \notin DOMAIN l,
         \A a \in DOMAIN h.hdr : a # b => /\ a \in DOMAIN g.hdr /\ g.hdr[a].free = h.hdr[a].free
                                          /\ g.hdr[a].size = h.hdr[a].size,
         \A a \in DOMAIN g.hdr : a # b => a \in DOMAIN h.hdr \/ g.hdr[a].free,
         \A a \in DOMAIN l : MayFree(h, a) => MayFree(g, a)
  PROVE  Gives(g, b, h, l, size)
<1>1. /\ l \in [DOMAIN l -> Nat] /\ DOMAIN l = {a \in DOMAIN h.hdr : ~h.hdr[a].free}
      /\ \A a \in DOMAIN l : h.hdr[a].size >= l[a]
  BY DEF HeapGood, HeldBy
<1>2. PICK w : w = With1(l, b, size)
  OBVIOUS
<1>3. /\ DOMAIN w = DOMAIN l \cup {b} /\ w \in [DOMAIN l \cup {b} -> Nat] /\ w[b] = size
      /\ \A a \in DOMAIN l : w[a] = l[a]
  BY <1>1, <1>2 DEF With1
<1>4. \A a \in DOMAIN l : a # b /\ a \in DOMAIN h.hdr /\ a \in DOMAIN g.hdr /\ g.hdr[a].size = h.hdr[a].size
  BY <1>1
<1>5. DOMAIN w = {a \in DOMAIN g.hdr : ~g.hdr[a].free}
  BY <1>1, <1>3
<1>6. \A a \in DOMAIN w : g.hdr[a].size >= w[a]
  BY <1>1, <1>3, <1>4
<1>7. HeldBy(g, w)
  BY <1>3, <1>5, <1>6 DEF HeldBy
<1>8. Client!Null \notin DOMAIN g.hdr
  BY Addresses
<1>. QED BY <1>2, <1>4, <1>7, <1>8 DEF HeapGood, Gives

\* Taken whole.
LEMMA TakeWhole ==
  ASSUME Client!MmAllocAssumption, NEW h, NEW l, HeapGood(h, l), NEW size \in Nat, NEW b \in DOMAIN h.hdr,
         Client!Fits(h, b, size), NEW g, IsMarked(g, h, b, FALSE)
  PROVE  Gives(g, b, h, l, size)
<1>1. /\ Tiles(h) /\ FreeRight(h) /\ HeapType(h) /\ h.hdr[b].free /\ h.hdr[b].size >= size
      /\ DOMAIN l = {a \in DOMAIN h.hdr : ~h.hdr[a].free}
  BY DEF HeapGood, HeldBy, Tiles, Client!Fits
<1>2. /\ HeapType(g) /\ DOMAIN g.hdr = DOMAIN h.hdr /\ SameEnds(g, h)
      /\ \A a \in DOMAIN h.hdr :
           /\ g.hdr[a].size = h.hdr[a].size /\ g.hdr[a].prev = h.hdr[a].prev
           /\ g.hdr[a].next = h.hdr[a].next
           /\ g.hdr[a].free = IF a = b THEN FALSE ELSE h.hdr[a].free
  BY DEF IsMarked
<1>3. Tiles(g)
  BY <1>1, <1>2, MarkTiles
<1>4. \A a \in DOMAIN h.hdr : /\ h.hdr[a].next # Client!Null => h.hdr[a].next \in DOMAIN h.hdr
                              /\ h.hdr[a].prev # Client!Null => h.hdr[a].prev \in DOMAIN h.hdr
  BY <1>1, Addresses
<1>5. \A a \in DOMAIN h.hdr : g.hdr[a].free => h.hdr[a].free /\ a # b
  BY <1>2
<1>6. FreeRight(g)
  BY <1>1, <1>2, <1>4, <1>5 DEF FreeRight
<1>7. \A a \in DOMAIN l : MayFree(h, a) => MayFree(g, a)
  BY <1>1, <1>2, <1>4, <1>5 DEF MayFree
<1>8. ~g.hdr[b].free /\ g.hdr[b].size >= size /\ b \notin DOMAIN l /\ b \in DOMAIN g.hdr
  BY <1>1, <1>2, <1>5
<1>9. /\ \A a \in DOMAIN h.hdr : a # b => /\ a \in DOMAIN g.hdr /\ g.hdr[a].free = h.hdr[a].free
                                          /\ g.hdr[a].size = h.hdr[a].size
      /\ \A a \in DOMAIN g.hdr : a # b => a \in DOMAIN h.hdr \/ g.hdr[a].free
  BY <1>2
<1>. QED BY <1>3, <1>6, <1>7, <1>8, <1>9, GivesRight

\* With the rest split off.
LEMMA SplitGood ==
  ASSUME Client!MmAllocAssumption, NEW h, NEW l, HeapGood(h, l), NEW size \in Nat, NEW b \in DOMAIN h.hdr,
         Client!Fits(h, b, size), size + BlockHeader <= h.hdr[b].size, NEW g, g = Client!Split(h, b, size)
  PROVE  Gives(g, b, h, l, size)
<1>1. /\ Tiles(h) /\ FreeRight(h) /\ HeapType(h) /\ h.hdr[b].free /\ h.hdr[b].size >= size
      /\ DOMAIN l = {a \in DOMAIN h.hdr : ~h.hdr[a].free}
  BY DEF HeapGood, HeldBy, Tiles, Client!Fits
<1>2. /\ BlockHeader \in Nat /\ BlockHeader > 0 /\ Limit \in Nat /\ h.top \in Nat /\ h.top <= Limit + 1
      /\ Client!Null \notin DOMAIN h.hdr
      /\ b \in Nat /\ b > 0 /\ h.hdr[b].size \in Nat /\ EndOf(h, b) = b + BlockHeader + h.hdr[b].size
      /\ EndOf(h, b) <= h.top
      /\ h.hdr[b].next \in DOMAIN h.hdr \cup {Client!Null} /\ h.hdr[b].prev \in DOMAIN h.hdr \cup {Client!Null}
  BY <1>1, Addresses DEF Tiles
<1>3. PICK new \in Nat : new = b + BlockHeader + size
  BY <1>2
<1>4. new \in 1..Limit /\ b < new /\ new < EndOf(h, b)
  BY <1>2, <1>3
<1>5. new \notin DOMAIN h.hdr
  <2>1. \A d \in DOMAIN h.hdr : b < d => EndOf(h, b) <= d
    BY <1>1 DEF Tiles
  <2>2. EndOf(h, b) \in Nat
    BY <1>2
  <2>. QED BY <1>4, <2>1, <2>2
<1>6. PICK x : x = Client!Block(size, FALSE, new, h.hdr[b].prev)
  OBVIOUS
<1>7. PICK y : y = Client!Block(h.hdr[b].size - BlockHeader - size, TRUE, h.hdr[b].next, b)
  OBVIOUS
<1>8. /\ x \in BlockType /\ x.size = size /\ ~x.free /\ x.next = new /\ x.prev = h.hdr[b].prev
  <2>1. h.hdr[b].prev \in Nat
    BY <1>1, <1>2 DEF HeapType, Client!Null
  <2>. QED BY <2>1, <1>6 DEF Client!Block, BlockType
<1>9. /\ y \in BlockType /\ y.size = h.hdr[b].size - BlockHeader - size /\ y.free
      /\ y.next = h.hdr[b].next /\ y.prev = b
  <2>1. h.hdr[b].next \in Nat /\ h.hdr[b].size - BlockHeader - size \in Nat
    BY <1>1, <1>2 DEF HeapType, Client!Null
  <2>. QED BY <2>1, <1>2, <1>7 DEF Client!Block, BlockType
<1>10. PICK f : f = Client!Write(h, b, x)
  OBVIOUS
<1>11. PICK k : k = Client!Write(f, new, y)
  OBVIOUS
<1>12. PICK q : q = h.hdr[b].next
  OBVIOUS
<1>13. PICK m : m = Client!SetPrev(k, q, new)
  OBVIOUS
<1>14. g = IF q = Client!Null THEN [m EXCEPT !.end = new] ELSE m
  BY <1>3, <1>6, <1>7, <1>10, <1>11, <1>12, <1>13, Zenon DEF Client!Split
<1>15. /\ HeapType(f) /\ DOMAIN f.hdr = DOMAIN h.hdr /\ SameEnds(f, h)
       /\ f.hdr[b] = x /\ \A a \in DOMAIN h.hdr \ {b} : f.hdr[a] = h.hdr[a]
  <2>1. b \in 1..Limit
    BY <1>1 DEF HeapType
  <2>2. /\ HeapType(f) /\ DOMAIN f.hdr = DOMAIN h.hdr \cup {b} /\ SameEnds(f, h)
        /\ f.hdr[b] = x /\ \A a \in DOMAIN h.hdr \ {b} : f.hdr[a] = h.hdr[a]
    BY <2>1, <1>1, <1>8, <1>10, WriteIs
  <2>. QED BY <2>2
<1>16. /\ HeapType(k) /\ DOMAIN k.hdr = DOMAIN h.hdr \cup {new} /\ SameEnds(k, h)
       /\ k.hdr[b] = x /\ k.hdr[new] = y /\ \A a \in DOMAIN h.hdr \ {b} : k.hdr[a] = h.hdr[a]
  <2>1. /\ HeapType(k) /\ DOMAIN k.hdr = DOMAIN f.hdr \cup {new} /\ SameEnds(k, f)
        /\ k.hdr[new] = y /\ \A a \in DOMAIN f.hdr \ {new} : k.hdr[a] = f.hdr[a]
    BY <1>4, <1>9, <1>11, <1>15, WriteIs
  <2>. QED BY <2>1, <1>5, <1>15 DEF SameEnds
<1>17. /\ HeapType(m) /\ DOMAIN m.hdr = DOMAIN h.hdr \cup {new} /\ SameEnds(m, h)
       /\ \A a \in DOMAIN k.hdr :
            /\ m.hdr[a].size = k.hdr[a].size /\ m.hdr[a].free = k.hdr[a].free
            /\ m.hdr[a].next = k.hdr[a].next
            /\ m.hdr[a].prev = IF a = q THEN new ELSE k.hdr[a].prev
  <2>1. q \in DOMAIN k.hdr \cup {Client!Null}
    BY <1>2, <1>12, <1>16
  <2>2. /\ HeapType(m) /\ DOMAIN m.hdr = DOMAIN k.hdr /\ SameEnds(m, k)
        /\ \A a \in DOMAIN k.hdr :
            /\ m.hdr[a].size = k.hdr[a].size /\ m.hdr[a].free = k.hdr[a].free
            /\ m.hdr[a].next = k.hdr[a].next
            /\ m.hdr[a].prev = IF a = q THEN new ELSE k.hdr[a].prev
    BY <2>1, <1>13, <1>16, SetPrevIs
  <2>. QED BY <2>2, <1>16 DEF SameEnds
<1>18. /\ HeapType(g) /\ g.hdr = m.hdr /\ g.base = h.base /\ g.top = h.top /\ g.first = h.first
       /\ g.end = IF q = Client!Null THEN new ELSE h.end
  <2>1. CASE q = Client!Null
    <3>1. g = [m EXCEPT !.end = new]
      BY <2>1, <1>14
    <3>2. g = [hdr |-> m.hdr, base |-> m.base, end |-> new, top |-> m.top, first |-> m.first]
      BY <3>1, <1>17 DEF HeapType
    <3>. QED BY <2>1, <3>2, <1>17 DEF HeapType, SameEnds
  <2>2. CASE q # Client!Null
    <3>1. g = m
      BY <2>2, <1>14
    <3>. QED BY <2>2, <3>1, <1>17 DEF SameEnds
  <2>. QED BY <2>1, <2>2
<1>19. /\ g.hdr[new].size = h.hdr[b].size - BlockHeader - size /\ g.hdr[new].next = h.hdr[b].next
       /\ g.hdr[new].prev = b /\ g.hdr[new].free
       /\ DOMAIN g.hdr = DOMAIN h.hdr \cup {new}
  <2>1. q # new /\ new \in DOMAIN k.hdr
    BY <1>2, <1>4, <1>5, <1>12, <1>16 DEF Client!Null
  <2>2. /\ m.hdr[new].size = y.size /\ m.hdr[new].next = y.next /\ m.hdr[new].prev = y.prev
        /\ m.hdr[new].free = y.free
    BY <2>1, <1>16, <1>17
  <2>. QED BY <2>2, <1>9, <1>17, <1>18
<1>20. ASSUME NEW a \in DOMAIN h.hdr
       PROVE  /\ g.hdr[a].size = IF a = b THEN size ELSE h.hdr[a].size
              /\ g.hdr[a].next = IF a = b THEN new ELSE h.hdr[a].next
              /\ g.hdr[a].prev = IF a = h.hdr[b].next THEN new ELSE h.hdr[a].prev
              /\ a = b => ~g.hdr[a].free
              /\ a # b => g.hdr[a].free = h.hdr[a].free
  <2>1. CASE a = b
    BY <2>1, <1>8, <1>12, <1>16, <1>17, <1>18
  <2>2. CASE a # b
    <3>1. a \in DOMAIN k.hdr /\ k.hdr[a] = h.hdr[a]
      BY <2>2, <1>16
    <3>2. /\ m.hdr[a].size = h.hdr[a].size /\ m.hdr[a].free = h.hdr[a].free
          /\ m.hdr[a].next = h.hdr[a].next
          /\ m.hdr[a].prev = IF a = q THEN new ELSE h.hdr[a].prev
      BY <3>1, <1>17
    <3>. QED BY <2>2, <3>2, <1>12, <1>18
  <2>. QED BY <2>1, <2>2
<1>21. Tiles(g)
  <2>1. g.end = IF h.hdr[b].next = Client!Null THEN new ELSE h.end
    BY <1>12, <1>18
  <2>. QED BY <2>1, <1>1, <1>3, <1>18, <1>19, <1>20, SplitTiles
<1>22. q # Client!Null => ~h.hdr[q].free
  BY <1>1, <1>12 DEF FreeRight
<1>23. \A a \in DOMAIN h.hdr : a # b => h.hdr[a].next # b \/ ~h.hdr[a].free
  BY <1>1, <1>2 DEF FreeRight
<1>24. FreeRight(g)
  <2>1. SUFFICES ASSUME NEW a \in DOMAIN g.hdr, g.hdr[a].free, g.hdr[a].next # Client!Null
                 PROVE  ~g.hdr[g.hdr[a].next].free
    BY DEF FreeRight
  <2>2. a # b
    BY <2>1, <1>20
  <2>3. CASE a = new
    <3>1. g.hdr[a].next = q /\ q # Client!Null /\ q \in DOMAIN h.hdr /\ q # b
      <4>1. g.hdr[a].next = q /\ q # Client!Null /\ q \in DOMAIN h.hdr
        BY <2>1, <2>3, <1>2, <1>12, <1>19
      <4>2. q = EndOf(h, b)
        BY <4>1, <1>1, <1>12 DEF Tiles
      <4>. QED BY <4>1, <4>2, <1>4, <1>2
    <3>. QED BY <3>1, <1>20, <1>22
  <2>4. CASE a # new
    <3>1. a \in DOMAIN h.hdr /\ h.hdr[a].free /\ g.hdr[a].next = h.hdr[a].next
      BY <2>1, <2>2, <2>4, <1>19, <1>20
    <3>2. h.hdr[a].next \in DOMAIN h.hdr /\ ~h.hdr[h.hdr[a].next].free
      BY <2>1, <3>1, <1>1, Addresses DEF FreeRight
    <3>. QED BY <3>1, <3>2, <1>20
  <2>. QED BY <2>3, <2>4
<1>25. \A a \in DOMAIN l : MayFree(h, a) => MayFree(g, a)
  <2>1. SUFFICES ASSUME NEW a \in DOMAIN l, MayFree(h, a), ~MayFree(g, a) PROVE FALSE
    OBVIOUS
  <2>2. a \in DOMAIN h.hdr /\ ~h.hdr[a].free /\ a # b
    BY <1>1
  <2>3. g.hdr[a].next = Client!Null /\ g.hdr[a].prev # Client!Null /\ g.hdr[g.hdr[a].prev].free
    BY <2>1 DEF MayFree
  <2>4. h.hdr[a].next = Client!Null
    BY <2>2, <2>3, <1>20
  <2>5. CASE a = q
    <3>1. h.hdr[a].prev = b /\ b # Client!Null
      BY <2>2, <2>5, <1>1, <1>2, <1>12 DEF Tiles
    <3>. QED BY <3>1, <2>1, <2>4, <1>1 DEF MayFree
  <2>6. CASE a # q
    <3>1. g.hdr[a].prev = h.hdr[a].prev
      BY <2>2, <2>6, <1>12, <1>20
    <3>2. h.hdr[a].prev \in DOMAIN h.hdr
      BY <2>2, <2>3, <3>1, <1>1, Addresses
    <3>3. h.hdr[h.hdr[a].prev].free
      BY <3>1, <3>2, <2>3, <1>20
    <3>. QED BY <3>1, <3>3, <2>1, <2>3, <2>4 DEF MayFree
  <2>. QED BY <2>5, <2>6
<1>26. /\ b \in DOMAIN g.hdr /\ ~g.hdr[b].free /\ g.hdr[b].size >= size /\ b \notin DOMAIN l
       /\ \A a \in DOMAIN h.hdr : a # b => /\ a \in DOMAIN g.hdr /\ g.hdr[a].free = h.hdr[a].free
                                           /\ g.hdr[a].size = h.hdr[a].size
       /\ \A a \in DOMAIN g.hdr : a # b => a \in DOMAIN h.hdr \/ g.hdr[a].free
  BY <1>1, <1>19, <1>20
<1>. QED BY <1>21, <1>24, <1>25, <1>26, GivesRight

\* A block from sbrk, ...
LEMMA ExtendGood ==
  ASSUME Client!MmAllocAssumption, NEW h, NEW l, HeapGood(h, l), NEW size \in Nat, ~Client!SbrkFails(h, size),
         NEW g, g = Client!Extend(h, size)
  PROVE  Gives(g, h.top, h, l, size)
<1>1. /\ Tiles(h) /\ FreeRight(h) /\ HeapType(h) /\ ~h.first /\ h.end \in DOMAIN h.hdr
      /\ DOMAIN l = {a \in DOMAIN h.hdr : ~h.hdr[a].free}
  BY DEF HeapGood, HeldBy, Tiles
<1>2. /\ BlockHeader \in Nat /\ BlockHeader > 0 /\ Limit \in Nat /\ h.top \in Nat /\ h.top <= Limit + 1
      /\ Client!Null \notin DOMAIN h.hdr /\ h.end \in Nat
  BY <1>1, Addresses
<1>3. PICK new : new = h.top
  OBVIOUS
<1>4. new + size + BlockHeader \in 1..Limit + 1 /\ new \in 1..Limit
  BY <1>1, <1>2, <1>3 DEF Client!SbrkFails, HeapType
<1>5. PICK e : e = [h EXCEPT !.top = new + size + BlockHeader, !.end = new, !.first = FALSE]
  OBVIOUS
<1>6. HeapType(e) /\ e.hdr = h.hdr /\ e.base = h.base /\ e.end = new /\ e.top = new + size + BlockHeader /\ ~e.first
  <2>1. e = [hdr |-> h.hdr, base |-> h.base, end |-> new, top |-> new + size + BlockHeader, first |-> FALSE]
    BY <1>1, <1>5 DEF HeapType
  <2>. QED BY <2>1, <1>1, <1>4 DEF HeapType
<1>7. PICK k : k = [e EXCEPT !.hdr[h.end].next = new]
  OBVIOUS
<1>8. /\ HeapType(k) /\ DOMAIN k.hdr = DOMAIN e.hdr /\ SameEnds(k, e)
      /\ \A a \in DOMAIN e.hdr :
           /\ k.hdr[a].size = e.hdr[a].size /\ k.hdr[a].prev = e.hdr[a].prev
           /\ k.hdr[a].free = e.hdr[a].free
           /\ k.hdr[a].next = IF a = h.end THEN new ELSE e.hdr[a].next
  <2>1. h.end \in DOMAIN e.hdr /\ new \in Nat
    BY <1>1, <1>4, <1>6
  <2>. QED BY <2>1, <1>6, <1>7, LinkedIs
<1>9. PICK x : x = Client!Block(size, FALSE, Client!Null, h.end)
  OBVIOUS
<1>10. x \in BlockType /\ x.size = size /\ ~x.free /\ x.next = Client!Null /\ x.prev = h.end
  BY <1>2, <1>9 DEF Client!Block, BlockType, Client!Null
<1>11. g = Client!Write(k, new, x)
  BY <1>1, <1>3, <1>5, <1>7, <1>9, Zenon DEF Client!Extend
<1>12. /\ HeapType(g) /\ DOMAIN g.hdr = DOMAIN k.hdr \cup {new} /\ SameEnds(g, k)
       /\ g.hdr[new] = x /\ \A a \in DOMAIN k.hdr \ {new} : g.hdr[a] = k.hdr[a]
  BY <1>4, <1>8, <1>10, <1>11, WriteIs
<1>13. \A a \in DOMAIN h.hdr : a # new
  BY <1>1, <1>3, Addresses
<1>14. /\ HeapType(g) /\ DOMAIN g.hdr = DOMAIN h.hdr \cup {new}
       /\ g.base = h.base /\ g.top = new + size + BlockHeader /\ ~g.first /\ g.end = new
       /\ g.hdr[new].size = size /\ g.hdr[new].next = Client!Null /\ g.hdr[new].prev = h.end /\ ~g.hdr[new].free
       /\ \A a \in DOMAIN h.hdr :
            /\ g.hdr[a].size = h.hdr[a].size /\ g.hdr[a].prev = h.hdr[a].prev
            /\ g.hdr[a].free = h.hdr[a].free
            /\ g.hdr[a].next = IF a = h.end THEN new ELSE h.hdr[a].next
  BY <1>6, <1>8, <1>10, <1>12, <1>13 DEF SameEnds
<1>15. g.first = h.first
  BY <1>1, <1>14 DEF HeapType
<1>16. Tiles(g)
  BY <1>1, <1>3, <1>14, <1>15, ExtendTiles
<1>17. \A a \in DOMAIN h.hdr : h.hdr[a].next \in DOMAIN h.hdr \cup {Client!Null}
  BY <1>1, Addresses
<1>18. FreeRight(g)
  <2>1. SUFFICES ASSUME NEW a \in DOMAIN g.hdr, g.hdr[a].free, g.hdr[a].next # Client!Null
                 PROVE  ~g.hdr[g.hdr[a].next].free
    BY DEF FreeRight
  <2>2. a \in DOMAIN h.hdr /\ h.hdr[a].free
    BY <2>1, <1>14
  <2>3. CASE a = h.end
    BY <2>2, <2>3, <1>14
  <2>4. CASE a # h.end
    <3>1. g.hdr[a].next = h.hdr[a].next /\ h.hdr[a].next \in DOMAIN h.hdr
      BY <2>1, <2>2, <2>4, <1>14, <1>17
    <3>2. ~h.hdr[h.hdr[a].next].free
      BY <3>1, <2>1, <2>2, <1>1 DEF FreeRight
    <3>. QED BY <3>1, <3>2, <1>14
  <2>. QED BY <2>3, <2>4
<1>19. \A a \in DOMAIN h.hdr : g.hdr[a].next # Client!Null
  <2>1. SUFFICES ASSUME NEW a \in DOMAIN h.hdr, g.hdr[a].next = Client!Null PROVE FALSE
    OBVIOUS
  <2>2. a # h.end /\ h.hdr[a].next = Client!Null
    BY <2>1, <1>4, <1>14 DEF Client!Null
  <2>3. EndOf(h, a) # h.top /\ EndOf(h, a) \in DOMAIN h.hdr /\ h.hdr[a].next = EndOf(h, a)
    BY <2>2, <1>1 DEF Tiles
  <2>. QED BY <2>2, <2>3, <1>2
<1>20. \A a \in DOMAIN l : MayFree(h, a) => MayFree(g, a)
  BY <1>1, <1>19 DEF MayFree
<1>21. new \in DOMAIN g.hdr /\ ~g.hdr[new].free /\ g.hdr[new].size >= size /\ new \notin DOMAIN l
  BY <1>1, <1>13, <1>14
<1>22. /\ \A a \in DOMAIN h.hdr : a # new => /\ a \in DOMAIN g.hdr /\ g.hdr[a].free = h.hdr[a].free
                                             /\ g.hdr[a].size = h.hdr[a].size
       /\ \A a \in DOMAIN g.hdr : a # new => a \in DOMAIN h.hdr \/ g.hdr[a].free
  BY <1>14
<1>23. Gives(g, new, h, l, size)
  BY <1>16, <1>18, <1>20, <1>21, <1>22, GivesRight
<1>. QED BY <1>3, <1>23

\* ... and the first one.
LEMMA FirstGood ==
  ASSUME Client!MmAllocAssumption, NEW h, NEW l, Bare(h), h.first, DOMAIN l = {}, NEW size \in Nat,
         ~Client!SbrkFails(h, size), NEW g, g = Client!Extend(h, size)
  PROVE  Gives(g, h.top, h, l, size)
<1>1. HeapType(h) /\ DOMAIN h.hdr = {} /\ h.top = 1 /\ BlockHeader \in Nat /\ BlockHeader > 0 /\ Limit \in Nat
  BY DEF Bare, Client!MmAllocAssumption
<1>2. 1 + size + BlockHeader \in 1..Limit + 1 /\ 1 \in 1..Limit
  BY <1>1 DEF Client!SbrkFails
<1>3. PICK e : e = [h EXCEPT !.top = 1 + size + BlockHeader, !.end = 1, !.first = FALSE]
  OBVIOUS
<1>4. HeapType(e) /\ DOMAIN e.hdr = {} /\ e.end = 1 /\ e.top = 1 + size + BlockHeader /\ ~e.first
  <2>1. e = [hdr |-> h.hdr, base |-> h.base, end |-> 1, top |-> 1 + size + BlockHeader, first |-> FALSE]
    BY <1>1, <1>3 DEF HeapType
  <2>. QED BY <2>1, <1>1, <1>2 DEF HeapType
<1>5. PICK x : x = Client!Block(size, FALSE, Client!Null, Client!Null)
  OBVIOUS
<1>6. x \in BlockType /\ x.size = size /\ ~x.free /\ x.next = Client!Null /\ x.prev = Client!Null
  BY <1>5 DEF Client!Block, BlockType, Client!Null
<1>7. PICK k : k = Client!Write(e, 1, x)
  OBVIOUS
<1>8. HeapType(k) /\ DOMAIN k.hdr = {1} /\ SameEnds(k, e) /\ k.hdr[1] = x
  <2>1. /\ HeapType(k) /\ DOMAIN k.hdr = DOMAIN e.hdr \cup {1} /\ SameEnds(k, e) /\ k.hdr[1] = x
        /\ \A a \in DOMAIN e.hdr \ {1} : k.hdr[a] = e.hdr[a]
    BY <1>2, <1>4, <1>6, <1>7, WriteIs
  <2>. QED BY <2>1, <1>4
<1>9. g = [k EXCEPT !.base = 1]
  BY <1>1, <1>3, <1>5, <1>7 DEF Client!Extend
<1>10. /\ HeapType(g) /\ g.hdr = k.hdr /\ g.base = 1 /\ g.end = 1 /\ g.top = 1 + size + BlockHeader /\ ~g.first
  <2>1. g = [hdr |-> k.hdr, base |-> 1, end |-> k.end, top |-> k.top, first |-> k.first]
    BY <1>8, <1>9 DEF HeapType
  <2>. QED BY <2>1, <1>4, <1>8 DEF HeapType, SameEnds
<1>11. /\ DOMAIN g.hdr = {1} /\ g.hdr[1].size = size /\ ~g.hdr[1].free /\ g.hdr[1].next = Client!Null
       /\ g.hdr[1].prev = Client!Null
  BY <1>6, <1>8, <1>10
<1>12. EndOf(g, 1) = g.top
  BY <1>1, <1>10, <1>11 DEF EndOf
<1>13. Tiles(g)
  BY <1>1, <1>10, <1>11, <1>12 DEF Tiles
<1>14. FreeRight(g)
  BY <1>11 DEF FreeRight
<1>15. PICK w : w = With1(l, 1, size)
  OBVIOUS
<1>16. DOMAIN w = {1} /\ w \in [{1} -> Nat] /\ w[1] = size
  BY <1>15 DEF With1
<1>17. HeldBy(g, w)
  BY <1>11, <1>16 DEF HeldBy
<1>. QED BY <1>1, <1>13, <1>14, <1>15, <1>17 DEF HeapGood, Gives, Client!Null

\* mm_malloc in a heap that is right.
LEMMA MallocGood ==
  ASSUME Client!MmAllocAssumption, NEW h, NEW l, HeapGood(h, l), NEW size \in Nat, NEW r, r = Client!MallocIn(h, size)
  PROVE  \/ Gives(r.heap, r.block, h, l, size)
         \/ r.block = Client!Null /\ r.heap = h /\ \A b \in DOMAIN h.hdr : ~Client!Fits(h, b, size)
<1>1. Tiles(h) /\ ~h.first /\ HeapType(h) /\ BlockHeader \in Nat
  BY DEF HeapGood, Tiles, Client!MmAllocAssumption
<1>2. Client!Blocks(h) = DOMAIN h.hdr
  BY <1>1, BlocksAre
<1>3. CASE \E b \in Client!Blocks(h) : Client!Fits(h, b, size)
  <2>1. PICK b : b = Client!FirstFit(h, size)
    OBVIOUS
  <2>2. b \in DOMAIN h.hdr /\ Client!Fits(h, b, size)
    BY <2>1, <1>1, <1>3, FirstFitFits
  <2>3. r = [heap |-> Client!Take(h, b, size), block |-> b]
    BY <2>1, <1>1, <1>3 DEF Client!MallocIn
  <2>4. PICK g : g = Client!Take(h, b, size)
    OBVIOUS
  <2>5. r.heap = g /\ r.block = b
    BY <2>3, <2>4
  <2>6. h.hdr[b].size \in Nat
    BY <2>2, <1>1, Addresses
  <2>7. CASE h.hdr[b].size - size >= BlockHeader
    <3>1. size + BlockHeader <= h.hdr[b].size
      BY <2>6, <2>7, <1>1
    <3>2. g = Client!Split(h, b, size)
      BY <2>4, <2>7, Zenon DEF Client!Take
    <3>3. Gives(g, b, h, l, size)
      BY <3>1, <3>2, <2>2, SplitGood
    <3>. QED BY <3>3, <2>5
  <2>8. CASE ~(h.hdr[b].size - size >= BlockHeader)
    <3>1. PICK v \in BOOLEAN : v = FALSE
      OBVIOUS
    <3>2. g = [h EXCEPT !.hdr[b].free = v]
      BY <3>1, <2>4, <2>8 DEF Client!Take
    <3>3. IsMarked(g, h, b, v)
      BY <3>1, <3>2, <2>2, <1>1, MarkedIs
    <3>4. Gives(g, b, h, l, size)
      BY <3>1, <3>3, <2>2, TakeWhole
    <3>. QED BY <3>4, <2>5
  <2>. QED BY <2>7, <2>8
<1>4. CASE ~(\E b \in Client!Blocks(h) : Client!Fits(h, b, size)) /\ ~Client!SbrkFails(h, size)
  <2>1. PICK g : g = Client!Extend(h, size)
    OBVIOUS
  <2>2. r = [heap |-> g, block |-> h.top]
    BY <2>1, <1>1, <1>4 DEF Client!MallocIn
  <2>3. Gives(g, h.top, h, l, size)
    BY <2>1, <1>4, ExtendGood
  <2>. QED BY <2>2, <2>3
<1>5. CASE ~(\E b \in Client!Blocks(h) : Client!Fits(h, b, size)) /\ Client!SbrkFails(h, size)
  <2>1. r = [heap |-> [h EXCEPT !.first = FALSE, !.base = IF h.first THEN Client!Failed ELSE @],
             block |-> Client!Null]
    BY <1>1, <1>5 DEF Client!MallocIn
  <2>2. [h EXCEPT !.first = FALSE, !.base = IF h.first THEN Client!Failed ELSE @] = h
    BY <1>1 DEF HeapType
  <2>. QED BY <2>1, <2>2, <1>2, <1>5
<1>. QED BY <1>3, <1>4, <1>5

\* The first call of it.
LEMMA MallocFirst ==
  ASSUME Client!MmAllocAssumption, NEW h, NEW l, Bare(h), h.first, DOMAIN l = {}, NEW size \in Nat,
         NEW r, r = Client!MallocIn(h, size)
  PROVE  \/ Gives(r.heap, r.block, h, l, size)
         \/ r.block = Client!Null /\ Bare(r.heap) /\ ~r.heap.first /\ r.heap.base = Client!Failed
<1>1. HeapType(h)
  BY DEF Bare
<1>2. CASE ~Client!SbrkFails(h, size)
  <2>1. PICK g : g = Client!Extend(h, size)
    OBVIOUS
  <2>2. r = [heap |-> g, block |-> h.top]
    BY <2>1, <1>2 DEF Client!MallocIn
  <2>3. Gives(g, h.top, h, l, size)
    BY <2>1, <1>2, FirstGood
  <2>. QED BY <2>2, <2>3
<1>3. CASE Client!SbrkFails(h, size)
  <2>1. PICK g : g = [h EXCEPT !.first = FALSE, !.base = IF h.first THEN Client!Failed ELSE @]
    OBVIOUS
  <2>2. r = [heap |-> g, block |-> Client!Null]
    BY <2>1, <1>3 DEF Client!MallocIn
  <2>3. g = [hdr |-> h.hdr, base |-> Client!Failed, end |-> h.end, top |-> h.top, first |-> FALSE]
    BY <2>1, <1>1 DEF HeapType
  <2>4. Client!Failed \in Nat
    BY DEF Client!Failed, Client!MmAllocAssumption
  <2>5. Bare(g) /\ ~g.first /\ g.base = Client!Failed
    BY <2>3, <2>4, <1>1 DEF Bare, HeapType
  <2>. QED BY <2>2, <2>5
<1>. QED BY <1>2, <1>3
-------------------------------------------------------------------------------
\* Each call keeps the invariant, and what it may not do.
LEMMA MallocStep ==
  ASSUME Client!MmAllocAssumption, MmInv, NEW size \in Size, Client!Malloc(size)
  PROVE  /\ MmInv'
         /\ \A b \in DOMAIN live \cap DOMAIN live' :
              live'[b] = live[b] /\ heap'.hdr[b].size = heap.hdr[b].size
<1>1. size \in Nat
  BY DEF Client!MmAllocAssumption
<1>2. PICK r : r = Client!MallocIn(heap, size)
  OBVIOUS
<1>3. /\ heap.base # Client!Failed /\ heap' = r.heap
      /\ live' = IF r.block = Client!Null THEN live ELSE Client!Holds(r.block, size)
  BY <1>2, Zenon DEF Client!Malloc
<1>4. ASSUME Gives(r.heap, r.block, heap, live, size) PROVE HeapGood(heap', live') /\ \A b \in DOMAIN live \cap DOMAIN live' :
              live'[b] = live[b] /\ heap'.hdr[b].size = heap.hdr[b].size
  <2>1. live' = With1(live, r.block, size)
    BY <1>3, <1>4 DEF Gives, Client!Holds, With1
  <2>2. HeapGood(heap', live') /\ r.block \notin DOMAIN live
    BY <1>3, <1>4, <2>1, Zenon DEF Gives
  <2>3. \A b \in DOMAIN live : heap'.hdr[b].size = heap.hdr[b].size
    BY <1>3, <1>4 DEF Gives
  <2>4. \A b \in DOMAIN live : live'[b] = live[b]
    BY <2>1, <2>2 DEF With1
  <2>. QED BY <2>2, <2>3, <2>4
<1>5. CASE HeapGood(heap, live)
  <2>1. \/ Gives(r.heap, r.block, heap, live, size)
        \/ r.block = Client!Null /\ r.heap = heap
    BY <1>1, <1>2, <1>5, MallocGood
  <2>2. CASE r.block = Client!Null /\ r.heap = heap
    BY <2>2, <1>3, <1>5 DEF MmInv
  <2>. QED BY <2>1, <2>2, <1>4 DEF MmInv
<1>6. CASE DOMAIN live = {} /\ Bare(heap) /\ heap.base = IF heap.first THEN Client!Null ELSE Client!Failed
  <2>1. heap.first
    BY <1>3, <1>6
  <2>2. \/ Gives(r.heap, r.block, heap, live, size)
        \/ r.block = Client!Null /\ Bare(r.heap) /\ ~r.heap.first /\ r.heap.base = Client!Failed
    BY <2>1, <1>1, <1>2, <1>6, MallocFirst
  <2>3. CASE r.block = Client!Null /\ Bare(r.heap) /\ ~r.heap.first /\ r.heap.base = Client!Failed
    BY <2>3, <1>3, <1>6 DEF MmInv
  <2>. QED BY <2>2, <2>3, <1>4 DEF MmInv
<1>. QED BY <1>5, <1>6 DEF MmInv

\* The client may free what it is spared for.
LEMMA SparedMay ==
  ASSUME ClientSpares, NEW b, Client!Spared(b)
  PROVE  MayFree(heap, b)
BY DEF Client!Spared, MayFree

LEMMA FreeStep ==
  ASSUME Client!MmAllocAssumption, ClientSpares, MmInv, NEW b \in DOMAIN live, Client!Free(b)
  PROVE  /\ MmInv'
         /\ \A a \in DOMAIN live \cap DOMAIN live' :
              live'[a] = live[a] /\ heap'.hdr[a].size = heap.hdr[a].size
<1>1. HeapGood(heap, live)
  BY DEF MmInv
<1>2. Client!Spared(b) /\ heap' = Client!FreeIn(heap, b) /\ live' = Client!Without(b)
  BY DEF Client!Free
<1>3. live' = Without1(live, b)
  BY <1>2 DEF Client!Without, Without1
<1>4. /\ HeapGood(heap', Without1(live, b))
      /\ \A a \in DOMAIN live \ {b} : heap'.hdr[a].size = heap.hdr[a].size
  BY <1>1, <1>2, SparedMay, FreeGood DEF MayFree
<1>5. \A a \in DOMAIN live' : a \in DOMAIN live \ {b} /\ live'[a] = live[a]
  BY <1>3 DEF Without1
<1>6. HeapGood(heap', live')
  BY <1>3, <1>4
<1>. QED BY <1>4, <1>5, <1>6 DEF MmInv

LEMMA InPlaceStep ==
  ASSUME Client!MmAllocAssumption, ClientSpares, MmInv, NEW b \in DOMAIN live, NEW size \in Size,
         Client!ReallocInPlace(b, size)
  PROVE  MmInv'
<1>1. HeapGood(heap, live) /\ size \in Nat
  BY DEF MmInv, Client!MmAllocAssumption
<1>2. PICK g : g = Client!FreeIn(heap, b)
  OBVIOUS
<1>3. PICK r : r = Client!MallocIn(g, size)
  OBVIOUS
<1>4. Client!Spared(b) /\ Client!IfWeFree(b) >= size /\ heap' = r.heap /\ live' = Client!Moved(b, r.block, size)
  BY <1>2, <1>3, Zenon DEF Client!ReallocInPlace
<1>5. /\ HeapGood(g, Without1(live, b))
      /\ \E c \in DOMAIN g.hdr : g.hdr[c].free /\ g.hdr[c].size >= FreedRoom(heap, b)
  BY <1>1, <1>2, <1>4, SparedMay, FreeGood DEF MayFree
<1>6. Client!IfWeFree(b) = FreedRoom(heap, b)
  BY DEF Client!IfWeFree, FreedRoom, Gain
<1>7. FreedRoom(heap, b) \in Nat
  <2>1. Tiles(heap) /\ b \in DOMAIN heap.hdr
    BY <1>1 DEF HeapGood, HeldBy
  <2>2. /\ BlockHeader \in Nat /\ heap.hdr[b].size \in Nat
        /\ heap.hdr[b].next \in DOMAIN heap.hdr \cup {Client!Null} /\ heap.hdr[b].prev \in DOMAIN heap.hdr \cup {Client!Null}
        /\ \A a \in DOMAIN heap.hdr : heap.hdr[a].size \in Nat
    BY <2>1, Addresses
  <2>. QED BY <2>2 DEF FreedRoom, Gain
<1>8. PICK c \in DOMAIN g.hdr : Client!Fits(g, c, size)
  <2>1. PICK c \in DOMAIN g.hdr : g.hdr[c].free /\ g.hdr[c].size >= FreedRoom(heap, b)
    BY <1>5
  <2>2. g.hdr[c].size \in Nat
    BY <1>5, Addresses DEF HeapGood
  <2>3. g.hdr[c].size >= size
    BY <2>1, <2>2, <1>1, <1>4, <1>6, <1>7
  <2>. QED BY <2>1, <2>3 DEF Client!Fits
<1>9. Gives(r.heap, r.block, g, Without1(live, b), size)
  <2>1. \/ Gives(r.heap, r.block, g, Without1(live, b), size)
        \/ r.block = Client!Null /\ r.heap = g /\ \A a \in DOMAIN g.hdr : ~Client!Fits(g, a, size)
    BY <1>1, <1>3, <1>5, MallocGood
  <2>. QED BY <2>1, <1>8
<1>10. live' = With1(Without1(live, b), r.block, size)
  <2>1. PICK w : w = Without1(live, b)
    OBVIOUS
  <2>2. DOMAIN w = DOMAIN live \ {b} /\ \A a \in DOMAIN live \ {b} : w[a] = live[a]
    BY <2>1 DEF Without1
  <2>3. Client!Moved(b, r.block, size) = With1(w, r.block, size)
    BY <2>2 DEF Client!Moved, With1
  <2>. QED BY <2>1, <2>3, <1>4
<1>. QED BY <1>4, <1>9, <1>10, Zenon DEF Gives, MmInv

LEMMA ByMovingStep ==
  ASSUME Client!MmAllocAssumption, ClientSpares, MmInv, NEW b \in DOMAIN live, NEW size \in Size,
         Client!ReallocByMoving(b, size)
  PROVE  MmInv'
<1>1. HeapGood(heap, live) /\ size \in Nat
  BY DEF MmInv, Client!MmAllocAssumption
<1>2. PICK r : r = Client!MallocIn(heap, size)
  OBVIOUS
<1>3. /\ Client!Spared(b)
      /\ IF r.block = Client!Null THEN heap' = r.heap /\ UNCHANGED live
         ELSE heap' = Client!FreeIn(r.heap, b) /\ live' = Client!Moved(b, r.block, size)
  BY <1>2, Zenon DEF Client!ReallocByMoving
<1>4. \/ Gives(r.heap, r.block, heap, live, size)
      \/ r.block = Client!Null /\ r.heap = heap
  BY <1>1, <1>2, MallocGood
<1>5. CASE r.block = Client!Null /\ r.heap = heap
  BY <1>1, <1>3, <1>5 DEF MmInv
<1>6. CASE Gives(r.heap, r.block, heap, live, size)
  <2>1. PICK g : g = r.heap
    OBVIOUS
  <2>2. PICK w : w = With1(live, r.block, size)
    OBVIOUS
  <2>3. /\ HeapGood(g, w) /\ r.block \notin DOMAIN live /\ r.block # Client!Null
        /\ \A a \in DOMAIN live : MayFree(heap, a) => MayFree(g, a)
    BY <2>1, <2>2, <1>6, Zenon DEF Gives
  <2>4. /\ DOMAIN w = DOMAIN live \cup {r.block} /\ w[r.block] = size
        /\ \A a \in DOMAIN live : w[a] = live[a]
    BY <2>2, <2>3 DEF With1
  <2>5. heap' = Client!FreeIn(g, b) /\ live' = Client!Moved(b, r.block, size)
    BY <2>1, <2>3, <1>3
  <2>6. MayFree(g, b) /\ b \in DOMAIN w
    BY <2>3, <2>4, <1>3, SparedMay
  <2>7. HeapGood(heap', Without1(w, b))
    BY <2>3, <2>5, <2>6, FreeGood DEF MayFree
  <2>8. Client!Moved(b, r.block, size) = Without1(w, b)
    <3>1. (DOMAIN live \ {b}) \cup {r.block} = DOMAIN w \ {b}
      BY <2>3, <2>4
    <3>2. \A a \in DOMAIN w \ {b} : w[a] = IF a = r.block THEN size ELSE live[a]
      BY <2>4
    <3>. QED BY <3>1, <3>2 DEF Client!Moved, Without1
  <2>. QED BY <2>5, <2>7, <2>8 DEF MmInv
<1>. QED BY <1>4, <1>5, <1>6

LEMMA ClientStart ==
  ASSUME Client!MmAllocAssumption, Client!Init
  PROVE  MmInv
<1>1. /\ DOMAIN heap.hdr = {} /\ heap.base = Client!Null /\ heap.end = Client!Null /\ heap.top = 1 /\ heap.first
      /\ DOMAIN live = {}
      /\ heap = [hdr |-> heap.hdr, base |-> heap.base, end |-> heap.end, top |-> heap.top, first |-> TRUE]
  BY DEF Client!Init
<1>2. HeapType(heap)
  <2>1. heap.hdr \in [DOMAIN heap.hdr -> BlockType]
    <3>1. heap.hdr = [a \in {} |-> Client!Null]
      BY DEF Client!Init
    <3>. QED BY <3>1
  <2>2. heap.hdr \in [DOMAIN heap.hdr -> BlockType] /\ DOMAIN heap.hdr \subseteq 1..Limit /\ 1 \in 1..Limit + 1
    BY <2>1, <1>1 DEF Client!MmAllocAssumption
  <2>. QED BY <1>1, <2>2 DEF HeapType, Client!Null
<1>. QED BY <1>1, <1>2 DEF MmInv, Bare

\* The list of a bare heap has no block.
LEMMA BareBlocks ==
  ASSUME Client!MmAllocAssumption, NEW h, Bare(h), h.base = Client!Null
  PROVE  Client!Blocks(h) = {}
<1>1. \A i \in 0..Limit : Client!Chain(h)[i] = Client!Null
  <2>. DEFINE D == {}
  <2>1. Client!Null \notin D /\ h.base \in D \cup {Client!Null} /\ \A b \in D : h.hdr[b].next \in D \cup {Client!Null}
    OBVIOUS
  <2>2. \A i \in 0..Limit : Client!Chain(h)[i] \in D \cup {Client!Null}
    <3>. HIDE DEF D
    <3>. QED BY <2>1, ChainSteps
  <2>. QED BY <2>2
<1>. QED BY <1>1 DEF Client!Blocks

LEMMA MmInvExact ==
  ASSUME Client!MmAllocAssumption, MmInv
  PROVE  Client!HeapExact
<1>1. CASE DOMAIN live = {} /\ Bare(heap) /\ heap.base = IF heap.first THEN Client!Null ELSE Client!Failed
  <2>1. Client!TypeOK
    <3>1. /\ heap.top \in 1..Limit + 1 /\ heap.first \in BOOLEAN /\ DOMAIN heap.hdr = {}
          /\ heap.end = Client!Null /\ heap.base \in {Client!Null, Client!Failed}
      BY <1>1 DEF Bare, HeapType
    <3>. QED BY <3>1, <1>1 DEF Client!TypeOK
  <2>2. heap.base \in {Client!Null, Client!Failed}
    BY <1>1
  <2>3. heap.base # Client!Failed => Client!Blocks(heap) = {}
    BY <2>2, <1>1, BareBlocks
  <2>4. Client!BlocksTile /\ Client!ListsAgree
    BY <2>1, <2>2 DEF Client!BlocksTile, Client!ListsAgree
  <2>5. Client!LiveBlocksHeld /\ Client!Coalesced
    BY <2>3, <1>1 DEF Client!LiveBlocksHeld, Client!Coalesced
  <2>. QED BY <2>4, <2>5 DEF Client!HeapExact
<1>2. CASE HeapGood(heap, live)
  <2>1. /\ Tiles(heap) /\ HeapType(heap) /\ FreeRight(heap) /\ HeldBy(heap, live)
        /\ heap.base = 1 /\ heap.end \in DOMAIN heap.hdr
    BY <1>2 DEF HeapGood, Tiles
  <2>2. Client!Blocks(heap) = DOMAIN heap.hdr
    BY <2>1, BlocksAre
  <2>3. /\ BlockHeader \in Nat /\ BlockHeader > 0 /\ Limit \in Nat /\ heap.top \in Nat /\ heap.top <= Limit + 1
        /\ Client!Null \notin DOMAIN heap.hdr
        /\ \A b \in DOMAIN heap.hdr :
              /\ b \in Nat /\ b > 0 /\ heap.hdr[b].size \in Nat /\ heap.hdr[b].free \in BOOLEAN
              /\ heap.hdr[b].next \in DOMAIN heap.hdr \cup {Client!Null} /\ heap.hdr[b].prev \in DOMAIN heap.hdr \cup {Client!Null}
              /\ EndOf(heap, b) \in Nat /\ EndOf(heap, b) = b + BlockHeader + heap.hdr[b].size /\ EndOf(heap, b) > b
    BY <2>1, Addresses
  <2>4. \A b \in DOMAIN heap.hdr :
          /\ EndOf(heap, b) <= heap.top
          /\ heap.hdr[b].next = IF EndOf(heap, b) = heap.top THEN Client!Null ELSE EndOf(heap, b)
          /\ EndOf(heap, b) # heap.top => heap.hdr[EndOf(heap, b)].prev = b
          /\ EndOf(heap, b) = heap.top <=> heap.end = b
    BY <2>1 DEF Tiles
  <2>5. \A b \in DOMAIN heap.hdr : Client!After(b) = EndOf(heap, b)
    BY DEF Client!After, EndOf
  <2>6. Client!TypeOK
    <3>1. ASSUME NEW a \in DOMAIN heap.hdr
          PROVE  a \in 1..Limit /\ heap.hdr[a].size \in 0..Limit
      <4>1. a + BlockHeader + heap.hdr[a].size <= Limit + 1
        BY <2>3, <2>4
      <4>. QED BY <4>1, <2>3
    <3>2. DOMAIN live \subseteq DOMAIN heap.hdr
      BY <2>1 DEF HeldBy
    <3>3. heap.top \in 1..Limit + 1 /\ heap.first \in BOOLEAN
      BY <2>1 DEF HeapType
    <3>4. heap.base \in DOMAIN heap.hdr
      BY <2>1 DEF Tiles
    <3>. QED BY <3>1, <3>2, <3>3, <3>4, <2>1, <2>3 DEF Client!TypeOK
  <2>7. Client!BlocksTile
    <3>1. \A b \in DOMAIN heap.hdr :
            Client!After(b) = IF heap.hdr[b].next = Client!Null THEN heap.top ELSE heap.hdr[b].next
      BY <2>3, <2>4, <2>5 DEF Client!Null
    <3>. QED BY <3>1, <2>1, <2>2, <2>6 DEF Client!BlocksTile
  <2>8. Client!ListsAgree
    <3>1. heap.hdr[heap.end].next = Client!Null
      BY <2>1, <2>4
    <3>2. \A b \in DOMAIN heap.hdr :
            heap.hdr[b].next # Client!Null => heap.hdr[heap.hdr[b].next].prev = b
      BY <2>4
    <3>. QED BY <3>1, <3>2, <2>1, <2>2 DEF Client!ListsAgree
  <2>9. Client!LiveBlocksHeld
    BY <2>1, <2>2 DEF Client!LiveBlocksHeld, HeldBy
  <2>10. Client!Coalesced
    BY <2>1, <2>2 DEF Client!Coalesced, FreeRight
  <2>. QED BY <2>7, <2>8, <2>9, <2>10 DEF Client!HeapExact
<1>. QED BY <1>1, <1>2 DEF MmInv

LEMMA ClientStep ==
  ASSUME Client!MmAllocAssumption, ClientSpares, MmInv, [Client!Next]_(Client!vars)
  PROVE  /\ MmInv'
         /\ [(\E size \in Size : Client!Malloc(size)) \/ (\E b \in DOMAIN live : Client!Free(b)) =>
               \A b \in DOMAIN live \cap DOMAIN live' :
                 live'[b] = live[b] /\ heap'.hdr[b].size = heap.hdr[b].size]_(Client!vars)
<1>1. MmInv'
  <2>1. CASE UNCHANGED Client!vars
    BY <2>1 DEF Client!vars, MmInv
  <2>2. CASE \E size \in Size : Client!Malloc(size)
    BY <2>2, MallocStep
  <2>3. CASE \E b \in DOMAIN live : Client!Free(b)
    BY <2>3, FreeStep
  <2>4. CASE \E b \in DOMAIN live, size \in Size : Client!ReallocInPlace(b, size)
    BY <2>4, InPlaceStep
  <2>5. CASE \E b \in DOMAIN live, size \in Size : Client!ReallocByMoving(b, size)
    BY <2>5, ByMovingStep
  <2>. QED BY <2>1, <2>2, <2>3, <2>4, <2>5 DEF Client!Next
<1>2. ASSUME (\E size \in Size : Client!Malloc(size)) \/ (\E b \in DOMAIN live : Client!Free(b))
      PROVE  \A b \in DOMAIN live \cap DOMAIN live' :
               live'[b] = live[b] /\ heap'.hdr[b].size = heap.hdr[b].size
  <2>1. ASSUME NEW size \in Size, Client!Malloc(size)
        PROVE  \A b \in DOMAIN live \cap DOMAIN live' :
                 live'[b] = live[b] /\ heap'.hdr[b].size = heap.hdr[b].size
    BY <2>1, MallocStep
  <2>2. ASSUME NEW a \in DOMAIN live, Client!Free(a)
        PROVE  \A b \in DOMAIN live \cap DOMAIN live' :
                 live'[b] = live[b] /\ heap'.hdr[b].size = heap.hdr[b].size
    BY <2>2, FreeStep
  <2>. QED BY <2>1, <2>2, <1>2
<1>. QED BY <1>1, <1>2

\* mm_alloc.c, for every header size, every set of sizes asked for and every
\* amount of memory, over any sequence of mm_malloc, mm_free and mm_realloc: the
\* list tiles the memory from sbrk and reads the same both ways, the blocks that
\* are not free are those the client holds, each as large as it asked for, no two
\* free blocks are neighbours, and no call changes another block.
THEOREM HeapIsRight == Client!MmAllocAssumption /\ ClientSpares => (Client!Spec => Client!HeapRight)
<1>. SUFFICES ASSUME Client!MmAllocAssumption, ClientSpares PROVE Client!Spec => Client!HeapRight
  OBVIOUS
<1>1. Client!Init => MmInv
  BY ClientStart
<1>2. MmInv /\ [Client!Next]_(Client!vars) => MmInv'
  BY ClientStep
<1>3. MmInv => Client!HeapExact
  BY MmInvExact
<1>4. MmInv /\ [Client!Next]_(Client!vars) =>
        [(\E size \in Size : Client!Malloc(size)) \/ (\E b \in DOMAIN live : Client!Free(b)) =>
           \A b \in DOMAIN live \cap DOMAIN live' :
             live'[b] = live[b] /\ heap'.hdr[b].size = heap.hdr[b].size]_(Client!vars)
  BY ClientStep
<1>. QED BY <1>1, <1>2, <1>3, <1>4, PTL DEF Client!Spec, Client!HeapRight, Client!HeldUntouched
===============================================================================
