-------------------------------- MODULE Palloc --------------------------------
(***************************************************************************)
(* One pool of threads/palloc.c and the bitmap of lib/kernel/bitmap.c.     *)
(* palloc_get_multiple scans and marks the bitmap under pool->lock, bit by *)
(* bit; palloc_free_multiple clears bits without the lock.  Each bit       *)
(* operation is one instruction and may be preempted before and after.     *)
(* A thread handles one block at a time; more blocks are more threads.     *)
(***************************************************************************)
EXTENDS Integers

CONSTANTS Thread, NoThread, PoolSize
ASSUME PallocAssumption == NoThread \notin Thread /\ PoolSize \in Nat

Page == 0..PoolSize - 1

VARIABLES
  used,   \* pool->used_map: the pages whose bit is set
  lock,   \* the holder of pool->lock
  pc,
  first, cnt,  \* of each thread: the block it scans for, holds or frees
  bit,         \* of each thread: how many bits of the block are done
  poisoned     \* the pages last written by the 0xcc fill of a free

vars == <<used, lock, pc, first, cnt, bit, poisoned>>

Init ==
  /\ used = {} /\ lock = NoThread /\ poisoned = {}
  /\ pc = [t \in Thread |-> "idle"]
  /\ first = [t \in Thread |-> 0] /\ cnt = [t \in Thread |-> 1]
  /\ bit = [t \in Thread |-> 0]

Goto(t, l) == pc' = [pc EXCEPT ![t] = l]
Current(t) == first[t] + bit[t]

\* Mutant: palloc_get_multiple does not take the lock.
LockFree(t, n) ==
  /\ pc[t] = "idle"
  /\ Goto(t, "scan")
  /\ first' = [first EXCEPT ![t] = 0] /\ cnt' = [cnt EXCEPT ![t] = n]
  /\ bit' = [bit EXCEPT ![t] = 0]
  /\ UNCHANGED <<used, lock, poisoned>>

\* palloc_get_multiple(n): lock_acquire.
Lock(t, n) ==
  /\ pc[t] = "idle" /\ lock = NoThread
  /\ lock' = t /\ Goto(t, "scan")
  /\ first' = [first EXCEPT ![t] = 0] /\ cnt' = [cnt EXCEPT ![t] = n]
  /\ bit' = [bit EXCEPT ![t] = 0]
  /\ UNCHANGED <<used, poisoned>>

\* Mutant: a scan that finds no group begins again.
ScanFailsRetry(t) ==
  /\ pc[t] = "scan" /\ first[t] + cnt[t] > PoolSize
  /\ first' = [first EXCEPT ![t] = 0]
  /\ UNCHANGED <<used, lock, pc, cnt, bit, poisoned>>

\* bitmap_scan: no group is left to try, BITMAP_ERROR.
ScanFails(t) ==
  /\ pc[t] = "scan" /\ first[t] + cnt[t] > PoolSize
  /\ Goto(t, "idle") /\ lock' = NoThread
  /\ UNCHANGED <<used, first, cnt, bit, poisoned>>

\* bitmap_contains: a set bit ends the try at this start, ...
ScanSet(t) ==
  /\ pc[t] = "scan" /\ first[t] + cnt[t] <= PoolSize /\ Current(t) \in used
  /\ first' = [first EXCEPT ![t] = @ + 1] /\ bit' = [bit EXCEPT ![t] = 0]
  /\ UNCHANGED <<used, lock, pc, cnt, poisoned>>

\* ... and a group of clear bits is taken.
ScanClear(t) ==
  /\ pc[t] = "scan" /\ first[t] + cnt[t] <= PoolSize /\ Current(t) \notin used
  /\ IF bit[t] + 1 < cnt[t]
     THEN bit' = [bit EXCEPT ![t] = @ + 1] /\ UNCHANGED pc
     ELSE bit' = [bit EXCEPT ![t] = 0] /\ Goto(t, "mark")
  /\ UNCHANGED <<used, lock, first, cnt, poisoned>>

\* bitmap_set_multiple(true), one bitmap_mark at a time.
Mark(t) ==
  /\ pc[t] = "mark"
  /\ used' = used \cup {Current(t)}
  /\ IF bit[t] + 1 < cnt[t]
     THEN bit' = [bit EXCEPT ![t] = @ + 1] /\ UNCHANGED pc
     ELSE bit' = [bit EXCEPT ![t] = 0] /\ Goto(t, "unlock")
  /\ UNCHANGED <<lock, first, cnt, poisoned>>

\* lock_release; the block belongs to the caller, who may write to it.
Unlock(t) ==
  /\ pc[t] = "unlock"
  /\ lock' = NoThread /\ Goto(t, "own")
  /\ UNCHANGED <<used, first, cnt, bit, poisoned>>

\* palloc_free_multiple: memset(pages, 0xcc), ...
Poison(t) ==
  /\ pc[t] = "own"
  /\ poisoned' = first[t]..first[t] + cnt[t] - 1
  /\ Goto(t, "clear")
  /\ UNCHANGED <<used, lock, first, cnt, bit>>

\* Mutant: the last bit of a block is never cleared.
ClearShort(t) ==
  /\ pc[t] = "clear"
  /\ used' = IF bit[t] + 1 < cnt[t] \/ cnt[t] = 1 THEN used \ {Current(t)} ELSE used
  /\ IF bit[t] + 1 < cnt[t]
     THEN bit' = [bit EXCEPT ![t] = @ + 1] /\ UNCHANGED pc
     ELSE bit' = [bit EXCEPT ![t] = 0] /\ Goto(t, "idle")
  /\ UNCHANGED <<lock, first, cnt, poisoned>>

\* Mutant: the block is filled once its bits are clear.
ClearThenFill(t) ==
  /\ pc[t] = "clear"
  /\ used' = used \ {Current(t)}
  /\ IF bit[t] + 1 < cnt[t]
     THEN bit' = [bit EXCEPT ![t] = @ + 1] /\ UNCHANGED <<pc, poisoned>>
     ELSE /\ bit' = [bit EXCEPT ![t] = 0] /\ Goto(t, "idle")
          /\ poisoned' = first[t]..first[t] + cnt[t] - 1
  /\ UNCHANGED <<lock, first, cnt>>

\* ... then bitmap_set_multiple(false), one bitmap_reset at a time.
Clear(t) ==
  /\ pc[t] = "clear"
  /\ used' = used \ {Current(t)}
  /\ IF bit[t] + 1 < cnt[t]
     THEN bit' = [bit EXCEPT ![t] = @ + 1] /\ UNCHANGED pc
     ELSE bit' = [bit EXCEPT ![t] = 0] /\ Goto(t, "idle")
  /\ UNCHANGED <<lock, first, cnt, poisoned>>

Step(t) ==
  \/ ScanFails(t) \/ ScanSet(t) \/ ScanClear(t) \/ Mark(t) \/ Unlock(t)
  \/ Poison(t) \/ Clear(t)

Next == \E t \in Thread : (\E n \in 1..PoolSize + 1 : Lock(t, n)) \/ Step(t)

Spec == Init /\ [][Next]_vars

\* A thread goes on with a call it has begun, and frees what it holds.
FairSpec == Spec /\ \A t \in Thread : WF_vars(Step(t))
-------------------------------------------------------------------------------
TypeOK ==
  /\ used \subseteq Page /\ poisoned \subseteq Page
  /\ lock \in Thread \cup {NoThread}
  /\ pc \in [Thread -> {"idle", "scan", "mark", "unlock", "own", "clear"}]
  /\ first \in [Thread -> Nat] /\ cnt \in [Thread -> Nat \ {0}]
  /\ bit \in [Thread -> Nat]

\* The pages that are t's: marked so far, held, or not yet cleared.
Claim(t) ==
  CASE pc[t] = "mark" -> first[t]..first[t] + bit[t] - 1
    [] pc[t] \in {"unlock", "own"} -> first[t]..first[t] + cnt[t] - 1
    [] pc[t] = "clear" -> first[t] + bit[t]..first[t] + cnt[t] - 1
    [] OTHER -> {}

\* No page belongs to two blocks, although frees clear bits while another thread
\* scans them.
NoPageTwice ==
  \A t, u \in Thread : t # u => Claim(t) \cap Claim(u) = {}

\* The bitmap says exactly what is claimed: no page is lost, none is offered
\* while somebody holds it (the ASSERT of palloc.c:124 follows).
BitmapExact == used = UNION {Claim(t) : t \in Thread}

\* The 0xcc fill of a free writes to no page that another thread holds or is
\* about to hold.
FillStaysHome ==
  [][ poisoned' # poisoned =>
        \A t \in Thread :
          pc[t] \in {"mark", "unlock", "own"} /\ pc'[t] = pc[t]
            => poisoned' \cap Claim(t) = {} ]_vars

\* palloc_get_multiple returns: the scan ends although bits change under it.
GetReturns == \A t \in Thread : pc[t] = "scan" ~> pc[t] \in {"idle", "own"}
=============================================================================
