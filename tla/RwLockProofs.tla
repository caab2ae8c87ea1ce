----------------------------- MODULE RwLockProofs -----------------------------
(* Theorems about RwLock, for any finite set of threads.  Further down, the *)
(* console: what is printed leaves in order, line by line.                  *)
EXTENDS RwLock, FiniteSetTheorems, SequenceTheorems, TLAPS

\* Who holds the guard is at one of the labels reached through it.
GuardInv == \A t \in Thread : pc[t] \in {"deciding", "rechecking", "releasing"} <=> guard = t

\* Each queue holds waiting threads of its role, once each.
QueueInv(q, r) ==
  /\ \A i \in 1..Len(q) : pc[q[i]] = "waiting" /\ role[q[i]] = r
  /\ \A i, j \in 1..Len(q) : q[i] = q[j] => i = j

IInv ==
  /\ TypeOK
  /\ GuardInv
  /\ QueueInv(readQ, "reader") /\ QueueInv(writeQ, "writer")
  /\ CountersExact
  /\ Exclusion
  /\ NoLostWakeup

Role == {"reader", "writer"}

\* Of two naturals one of which is positive, the sum is.
LEMMA SumPositive ==
  ASSUME NEW a \in Nat, NEW b \in Nat, a > 0 \/ b > 0 PROVE a + b > 0
OBVIOUS

LEMMA Finite ==
  \A r \in Role : /\ IsFiniteSet(Inside(r)) /\ Cardinality(Inside(r)) \in Nat
                  /\ IsFiniteSet(Waiting(r)) /\ Cardinality(Waiting(r)) \in Nat
                  /\ IsFiniteSet(Inside(r)') /\ IsFiniteSet(Waiting(r)')
BY ThreadAssumption, FS_Subset, FS_CardinalityType DEF Inside, Waiting

LEMMA InitIInv == Init => IInv
<1>1. SUFFICES ASSUME Init PROVE IInv
  OBVIOUS
<1>2. \A r \in Role : Inside(r) = {} /\ Waiting(r) = {}
  BY <1>1 DEF Init, Inside, Waiting
<1>3. CountersExact
  BY <1>1, <1>2, FS_EmptySet DEF Init, CountersExact, Role
<1>. QED BY <1>1, <1>2, <1>3, ThreadAssumption
     DEF Init, IInv, TypeOK, GuardInv, QueueInv, Exclusion, NoLostWakeup, Role, Label

-----------------------------------------------------------------------------
\* Steps outside the guard, and taking it: nobody enters, waits or leaves.
LEMMA OutsideIInv ==
  ASSUME IInv, NEW t \in Thread,
         (\E r \in {"reader", "writer"} : Arrive(t, r)) \/ Leave(t) \/ LockGuard(t)
  PROVE  IInv'
<1>. USE DEF IInv, TypeOK, Goto, counters, queues
<1>1. /\ TypeOK' /\ UNCHANGED <<AR, WR, AW, WW, readQ, writeQ>>
      /\ \A u \in Thread : u # t => pc'[u] = pc[u] /\ role'[u] = role[u]
      /\ pc[t] # "waiting" /\ pc'[t] # "waiting"
  BY DEF Arrive, Leave, LockGuard, Label, Locked
<1>2. GuardInv'
  BY ThreadAssumption DEF Arrive, Leave, LockGuard, Label, Locked, GuardInv
<1>3. QueueInv(readQ, "reader")' /\ QueueInv(writeQ, "writer")'
  BY <1>1 DEF QueueInv
<1>4. \A r \in Role : Inside(r)' = Inside(r) /\ Waiting(r)' = Waiting(r)
  BY DEF Arrive, Leave, LockGuard, Locked, Inside, Waiting, Role
<1>5. CountersExact' /\ Exclusion'
  BY <1>1, <1>4 DEF CountersExact, Exclusion, Role
<1>6. \A u \in Thread : pc[u] \in {"signaled", "rechecking"} => pc'[u] \in {"signaled", "rechecking"}
  BY DEF Arrive, Leave, LockGuard, Locked
<1>7. NoLostWakeup'
  BY <1>1, <1>4, <1>6 DEF NoLostWakeup, Waiting, Role
<1>. QED BY <1>1, <1>2, <1>3, <1>5, <1>7

\* What a queue is after a thread of its role lines up.
LEMMA AppendQueue ==
  ASSUME NEW q \in Seq(Thread), NEW r \in Role, QueueInv(q, r), NEW t \in Thread,
         NEW a, a = Append(q, t), pc \in [Thread -> Label], UNCHANGED role,
         pc' = [pc EXCEPT ![t] = "waiting"], pc[t] # "waiting", role[t] = r
  PROVE  /\ a \in Seq(Thread) /\ a # <<>>
         /\ \A i \in 1..Len(a) : pc'[a[i]] = "waiting" /\ role'[a[i]] = r
         /\ \A i, j \in 1..Len(a) : a[i] = a[j] => i = j
<1>1. a \in Seq(Thread) /\ Len(a) = Len(q) + 1 /\ a[Len(q) + 1] = t
  OBVIOUS
<1>2. \A i \in 1..Len(q) : a[i] = q[i] /\ q[i] \in Thread /\ q[i] # t
  BY DEF QueueInv
<1>3. \A i \in 1..Len(a) : i \in 1..Len(q) \/ i = Len(q) + 1
  BY <1>1
<1>4. a # <<>>
  OBVIOUS
<1>5. \A i \in 1..Len(a) : pc'[a[i]] = "waiting" /\ role'[a[i]] = r
  BY <1>1, <1>2, <1>3 DEF QueueInv
<1>6. \A i, j \in 1..Len(a) : a[i] = a[j] => i = j
  BY <1>1, <1>2, <1>3 DEF QueueInv
<1>. QED BY <1>1, <1>4, <1>5, <1>6

\* A queue the step does not touch keeps its meaning when no waiting thread moves.
LEMMA SameQueue ==
  ASSUME NEW q \in Seq(Thread), NEW r, QueueInv(q, r), NEW t \in Thread,
         pc \in [Thread -> Label], UNCHANGED role,
         \A u \in Thread : u # t => pc'[u] = pc[u], pc[t] # "waiting"
  PROVE  /\ \A i \in 1..Len(q) : pc'[q[i]] = "waiting" /\ role'[q[i]] = r
         /\ \A i, j \in 1..Len(q) : q[i] = q[j] => i = j
BY DEF QueueInv

LEMMA WaitsIInv ==
  ASSUME IInv, NEW t \in Thread, ReaderWaits(t) \/ WriterWaits(t)
  PROVE  IInv'
<1>. USE DEF IInv, TypeOK, Goto, Testing
<1>0. PICK r \in Role : role[t] = r
  BY DEF Role
<1>1. /\ pc' = [pc EXCEPT ![t] = "waiting"] /\ pc[t] \in {"deciding", "rechecking"}
      /\ guard' = NoThread /\ UNCHANGED <<AR, AW, role>>
  BY DEF ReaderWaits, WriterWaits
<1>2. Inside("reader")' = Inside("reader") /\ Inside("writer")' = Inside("writer")
  BY <1>1 DEF Inside
<1>3. \A x \in Role : Waiting(x)' = IF x = r THEN Waiting(x) \cup {t} ELSE Waiting(x)
  BY <1>0, <1>1 DEF Waiting
<1>4. t \in Waiting(r) <=> pc[t] = "rechecking"
  BY <1>0, <1>1 DEF Waiting
<1>5. Cardinality(Waiting(r)') = Cardinality(Waiting(r)) - Recheck(t) + 1
  <2>1. Cardinality(Waiting(r) \cup {t}) =
          IF t \in Waiting(r) THEN Cardinality(Waiting(r)) ELSE Cardinality(Waiting(r)) + 1
    BY Finite, FS_AddElement
  <2>2. Waiting(r)' = Waiting(r) \cup {t}
    BY <1>3
  <2>3. Cardinality(Waiting(r)) \in Nat
    BY Finite
  <2>4. Recheck(t) = IF t \in Waiting(r) THEN 1 ELSE 0
    BY <1>4 DEF Recheck
  <2>. QED BY <2>1, <2>2, <2>3, <2>4
<1>6. CountersExact'
  BY <1>0, <1>1, <1>2, <1>3, <1>5 DEF CountersExact, ReaderWaits, WriterWaits, Role
<1>7. GuardInv'
  BY <1>1, ThreadAssumption DEF GuardInv
<1>8. WR' \in Nat /\ WW' \in Nat /\ WR' >= 0 /\ (role[t] = "writer" => WW' > 0) /\ (role[t] = "reader" => WW' = WW)
  BY <1>0, <1>1, <1>3, <1>4, <1>6, Finite, FS_EmptySet, FS_CardinalityType
  DEF CountersExact, Role, ReaderWaits, WriterWaits
<1>9. CASE r = "reader"
  <2>1. readQ' = Append(readQ, t) /\ writeQ' = writeQ /\ AW + WW > 0
    BY <1>0, <1>9 DEF ReaderWaits, WriterWaits, ReaderMustWait
  <2>2. /\ readQ' \in Seq(Thread) /\ readQ' # <<>> /\ QueueInv(readQ, "reader")'
    <3>1. /\ readQ \in Seq(Thread) /\ QueueInv(readQ, "reader") /\ "reader" \in Role
          /\ pc[t] # "waiting" /\ role[t] = "reader" /\ pc \in [Thread -> Label]
          /\ readQ' = Append(readQ, t)
      BY <1>0, <1>1, <1>9, <2>1 DEF Role
    <3>. HIDE DEF IInv, TypeOK
    <3>2. /\ readQ' \in Seq(Thread) /\ readQ' # <<>>
          /\ \A i \in 1..Len(readQ') : pc'[readQ'[i]] = "waiting" /\ role'[readQ'[i]] = "reader"
          /\ \A i, j \in 1..Len(readQ') : readQ'[i] = readQ'[j] => i = j
      BY <1>1, <3>1, AppendQueue DEF QueueInv
    <3>. QED BY <3>2 DEF QueueInv
  <2>3. QueueInv(writeQ, "writer")'
    BY <1>1, <2>1, SameQueue DEF QueueInv
  <2>4. TypeOK'
    BY <1>1, <1>8, <2>1, <2>2 DEF Label
  <2>5. NoLostWakeup'
    BY <1>0, <1>1, <1>3, <1>8, <1>9, <2>1 DEF NoLostWakeup, Waiting, Role
  <2>. QED BY <1>1, <1>2, <1>6, <1>7, <2>2, <2>3, <2>4, <2>5 DEF Exclusion
<1>10. CASE r = "writer"
  <2>1. writeQ' = Append(writeQ, t) /\ readQ' = readQ /\ AR + AW > 0
    BY <1>0, <1>10 DEF ReaderWaits, WriterWaits, WriterMustWait
  <2>2. /\ writeQ' \in Seq(Thread) /\ QueueInv(writeQ, "writer")'
    <3>1. /\ writeQ \in Seq(Thread) /\ QueueInv(writeQ, "writer") /\ "writer" \in Role
          /\ pc[t] # "waiting" /\ role[t] = "writer" /\ pc \in [Thread -> Label]
          /\ writeQ' = Append(writeQ, t)
      BY <1>0, <1>1, <1>10, <2>1 DEF Role
    <3>. HIDE DEF IInv, TypeOK
    <3>2. /\ writeQ' \in Seq(Thread) /\ writeQ' # <<>>
          /\ \A i \in 1..Len(writeQ') : pc'[writeQ'[i]] = "waiting" /\ role'[writeQ'[i]] = "writer"
          /\ \A i, j \in 1..Len(writeQ') : writeQ'[i] = writeQ'[j] => i = j
      BY <1>1, <3>1, AppendQueue DEF QueueInv
    <3>. QED BY <3>2 DEF QueueInv
  <2>3. QueueInv(readQ, "reader")'
    BY <1>1, <2>1, SameQueue DEF QueueInv
  <2>4. TypeOK'
    BY <1>1, <1>8, <2>1, <2>2 DEF Label
  <2>5. NoLostWakeup'
    <3>1. WW' > 0 /\ WW' \in Nat /\ AW' = AW /\ AR' = AR /\ AW \in Nat /\ AR \in Nat
      BY <1>0, <1>1, <1>8, <1>10
    <3>2. AW' + WW' > 0
      BY <3>1, SumPositive
    <3>3. AR' + AW' # 0
      BY <2>1, <3>1
    <3>4. (readQ # <<>> => AW + WW > 0)'
      BY <3>2
    <3>5. (writeQ # <<>> /\ AR + AW = 0 =>
             \E u \in Waiting("writer") : pc[u] \in {"signaled", "rechecking"})'
      BY <3>3
    <3>. QED BY <3>4, <3>5 DEF NoLostWakeup
  <2>. QED BY <1>1, <1>2, <1>6, <1>7, <2>2, <2>3, <2>4, <2>5 DEF Exclusion
<1>. QED BY <1>9, <1>10 DEF Role

LEMMA EntersIInv ==
  ASSUME IInv, NEW t \in Thread, ReaderEnters(t) \/ WriterEnters(t)
  PROVE  IInv'
<1>. USE DEF IInv, TypeOK, Goto, Testing, queues
<1>0. PICK r \in Role : role[t] = r
  BY DEF Role
<1>1. /\ pc' = [pc EXCEPT ![t] = "in"] /\ pc[t] \in {"deciding", "rechecking"}
      /\ guard' = NoThread /\ UNCHANGED <<readQ, writeQ, role>>
  BY DEF ReaderEnters, WriterEnters
<1>2. /\ \A x \in Role : Inside(x)' = IF x = r THEN Inside(x) \cup {t} ELSE Inside(x)
      /\ \A x \in Role : Waiting(x)' = IF x = r THEN Waiting(x) \ {t} ELSE Waiting(x)
  BY <1>0, <1>1 DEF Inside, Waiting
<1>3. t \notin Inside(r) /\ (t \in Waiting(r) <=> pc[t] = "rechecking")
  BY <1>0, <1>1 DEF Inside, Waiting
<1>4. Cardinality(Inside(r)') = Cardinality(Inside(r)) + 1
  <2>1. Inside(r)' = Inside(r) \cup {t}
    BY <1>2
  <2>. QED BY <1>3, <2>1, Finite, FS_AddElement
<1>5. Cardinality(Waiting(r)') = Cardinality(Waiting(r)) - Recheck(t)
  <2>1. Waiting(r)' = Waiting(r) \ {t}
    BY <1>2
  <2>2. Recheck(t) = IF t \in Waiting(r) THEN 1 ELSE 0
    BY <1>3 DEF Recheck
  <2>3. Cardinality(Waiting(r) \ {t}) =
          IF t \in Waiting(r) THEN Cardinality(Waiting(r)) - 1 ELSE Cardinality(Waiting(r))
    BY Finite, FS_RemoveElement
  <2>4. Cardinality(Waiting(r)) \in Nat
    BY Finite
  <2>. QED BY <2>1, <2>2, <2>3, <2>4
<1>6. CountersExact'
  BY <1>0, <1>1, <1>2, <1>4, <1>5 DEF CountersExact, ReaderEnters, WriterEnters, Role
<1>7. /\ AR' \in Nat /\ WR' \in Nat /\ AW' \in Nat /\ WW' \in Nat
  BY <1>6, Finite, FS_CardinalityType DEF CountersExact, Role
<1>8. TypeOK' /\ GuardInv'
  BY <1>1, <1>7, ThreadAssumption DEF GuardInv, Label
<1>9. QueueInv(readQ, "reader")' /\ QueueInv(writeQ, "writer")'
  <2>1. pc[t] # "waiting" /\ \A u \in Thread : u # t => pc'[u] = pc[u]
    BY <1>1
  <2>2. QueueInv(readQ, "reader")'
    BY <1>1, <2>1 DEF QueueInv
  <2>3. QueueInv(writeQ, "writer")'
    BY <1>1, <2>1 DEF QueueInv
  <2>. QED BY <2>2, <2>3
<1>10. Exclusion' /\ NoLostWakeup'
  <2>1. CASE r = "reader"
    <3>1. AW = 0 /\ WW = 0 /\ UNCHANGED <<AW, WW>> /\ AR' = AR + 1
      BY <1>0, <2>1 DEF ReaderEnters, WriterEnters, ReaderMustWait
    <3>2. Inside("writer") = {} /\ Inside("writer")' = {}
      BY <1>2, <2>1, <3>1, Finite, FS_EmptySet DEF CountersExact, Role
    <3>3. readQ = <<>> /\ AR' # 0 /\ AW' = 0
      BY <3>1 DEF NoLostWakeup
    <3>4. ~(AR + AW = 0)'
      BY <3>1
    <3>. QED BY <1>1, <3>2, <3>3, <3>4 DEF Exclusion, NoLostWakeup
  <2>2. CASE r = "writer"
    <3>1. AR = 0 /\ AW = 0 /\ AR' = 0 /\ AW' = 1
      BY <1>0, <2>2 DEF ReaderEnters, WriterEnters, WriterMustWait
    <3>2. Inside("writer") = {} /\ Inside("writer")' = {t} /\ Inside("reader")' = {}
      BY <1>2, <2>2, <3>1, Finite, FS_EmptySet DEF CountersExact, Role
    <3>3. (AW + WW > 0)'
      <4>1. AW' + WW' = 1 + WW' /\ WW' \in Nat
        BY <1>7, <3>1
      <4>. QED BY <4>1, SumPositive
    <3>4. ~(AR + AW = 0)'
      BY <3>1
    <3>. QED BY <3>2, <3>3, <3>4 DEF Exclusion, NoLostWakeup
  <2>. QED BY <2>1, <2>2 DEF Role
<1>. QED BY <1>6, <1>8, <1>9, <1>10

\* The end of rw_lock_release, whoever it signals.
LEMMA UnlockKeeps ==
  ASSUME IInv, NEW t \in Thread, pc[t] = "releasing", NEW woken \in SUBSET Thread,
         \A u \in woken : pc[u] = "waiting", UnlockOut(t, woken), UNCHANGED role
  PROVE  /\ pc' \in [Thread -> Label] /\ guard' = NoThread /\ GuardInv'
         /\ \A u \in woken : pc'[u] = "signaled"
         /\ \A u \in Thread : u # t /\ u \notin woken => pc'[u] = pc[u]
         /\ \A x \in Role : Waiting(x)' = Waiting(x)
         /\ \A x \in Role : Inside(x)' = Inside(x) \ {t}
<1>. USE DEF IInv, TypeOK, UnlockOut
<1>1. /\ guard' = NoThread /\ t \notin woken
      /\ pc' = [u \in Thread |-> IF u = t THEN "out" ELSE IF u \in woken THEN "signaled" ELSE pc[u]]
  OBVIOUS
<1>2. pc' \in [Thread -> Label]
  BY <1>1 DEF Label
<1>3. GuardInv'
  BY <1>1, ThreadAssumption DEF GuardInv
<1>4. \A x \in Role : Waiting(x)' = Waiting(x)
  BY <1>1 DEF Waiting
<1>5. \A x \in Role : Inside(x)' = Inside(x) \ {t}
  BY <1>1 DEF Inside
<1>. QED BY <1>1, <1>2, <1>3, <1>4, <1>5

\* cond_signal: the head goes on, the rest of the queue is as it was.
LEMMA SignalQueue ==
  ASSUME NEW q \in Seq(Thread), NEW r \in Role, QueueInv(q, r)
  PROVE  /\ Signaled(q) \subseteq Thread /\ \A u \in Signaled(q) : pc[u] = "waiting" /\ role[u] = r
         /\ Popped(q) \in Seq(Thread)
         /\ \A i \in 1..Len(Popped(q)) : /\ Popped(q)[i] \in Thread /\ Popped(q)[i] \notin Signaled(q)
                                         /\ pc[Popped(q)[i]] = "waiting" /\ role[Popped(q)[i]] = r
         /\ \A i, j \in 1..Len(Popped(q)) : Popped(q)[i] = Popped(q)[j] => i = j
         /\ Popped(q) # <<>> => Signaled(q) # {}
<1>1. CASE q = <<>>
  BY <1>1 DEF Signaled, Popped
<1>2. CASE q # <<>>
  <2>1. Signaled(q) = {q[1]} /\ Popped(q) = Tail(q) /\ 1 \in 1..Len(q) /\ q[1] \in Thread
    BY <1>2 DEF Signaled, Popped
  <2>2. Tail(q) \in Seq(Thread)
    BY <1>2
  <2>3. \A i \in 1..Len(Tail(q)) : i + 1 \in 1..Len(q) /\ Tail(q)[i] = q[i + 1] /\ i + 1 # 1
    BY <1>2
  <2>4. \A i \in 1..Len(Tail(q)) : /\ Tail(q)[i] \in Thread /\ Tail(q)[i] # q[1]
                                   /\ pc[Tail(q)[i]] = "waiting" /\ role[Tail(q)[i]] = r
    BY <2>1, <2>3 DEF QueueInv
  <2>5. \A i, j \in 1..Len(Tail(q)) : Tail(q)[i] = Tail(q)[j] => i = j
    BY <2>3 DEF QueueInv
  <2>. QED BY <2>1, <2>2, <2>4, <2>5 DEF QueueInv
<1>. QED BY <1>1, <1>2

\* No waiting thread, no queue.
LEMMA EmptyQueue ==
  ASSUME IInv, NEW q \in Seq(Thread), NEW r \in Role, QueueInv(q, r), Cardinality(Waiting(r)) = 0
  PROVE  q = <<>>
<1>1. Waiting(r) = {}
  BY Finite, FS_EmptySet
<1>2. q # <<>> => 1 \in 1..Len(q) /\ q[1] \in Waiting(r)
  BY DEF QueueInv, Waiting
<1>. QED BY <1>1, <1>2

LEMMA ReaderLeavesIInv ==
  ASSUME IInv, NEW t \in Thread, ReaderLeaves(t)
  PROVE  IInv'
<1>. USE DEF IInv, TypeOK
<1>. DEFINE woken == IF AR' = 0 /\ WW > 0 THEN Signaled(writeQ) ELSE {}
<1>1. /\ pc[t] = "releasing" /\ role[t] = "reader" /\ UNCHANGED <<WR, AW, WW, readQ, role>>
      /\ AR' = AR - 1 /\ UnlockOut(t, woken)
      /\ writeQ' = IF AR' = 0 /\ WW > 0 THEN Popped(writeQ) ELSE writeQ
  BY DEF ReaderLeaves
<1>2. woken \in SUBSET Thread /\ \A u \in woken : pc[u] = "waiting" /\ role[u] = "writer"
  BY SignalQueue DEF Role
<1>. HIDE DEF woken
<1>3. /\ pc' \in [Thread -> Label] /\ guard' = NoThread /\ GuardInv'
      /\ \A u \in woken : pc'[u] = "signaled"
      /\ \A u \in Thread : u # t /\ u \notin woken => pc'[u] = pc[u]
      /\ \A x \in Role : Waiting(x)' = Waiting(x)
      /\ \A x \in Role : Inside(x)' = Inside(x) \ {t}
  BY <1>1, <1>2, UnlockKeeps
<1>4. t \in Inside("reader") /\ t \notin Inside("writer")
  BY <1>1 DEF Inside
<1>5. Inside("writer")' = Inside("writer") /\ Inside("reader")' = Inside("reader") \ {t}
  BY <1>3, <1>4 DEF Role
<1>6. Cardinality(Inside("reader")') = AR - 1 /\ Cardinality(Inside("reader")') \in Nat
  <2>1. Cardinality(Inside("reader") \ {t}) = Cardinality(Inside("reader")) - 1
    BY <1>4, Finite, FS_RemoveElement DEF Role
  <2>2. IsFiniteSet(Inside("reader")')
    BY Finite DEF Role
  <2>3. Cardinality(Inside("reader")') \in Nat
    BY <2>2, FS_CardinalityType
  <2>. QED BY <1>5, <2>1, <2>3 DEF CountersExact
<1>7. CountersExact' /\ AR' \in Nat
  BY <1>1, <1>3, <1>5, <1>6 DEF CountersExact, Role
<1>8. \A i \in 1..Len(readQ) : readQ[i] \in Thread /\ readQ[i] # t /\ readQ[i] \notin woken
  BY <1>1, <1>2 DEF QueueInv
<1>9. QueueInv(readQ, "reader")'
  BY <1>1, <1>3, <1>8 DEF QueueInv
<1>10. writeQ' \in Seq(Thread) /\ QueueInv(writeQ, "writer")'
  <2>1. CASE AR' = 0 /\ WW > 0
    <3>1. woken = Signaled(writeQ) /\ writeQ' = Popped(writeQ)
      BY <1>1, <2>1 DEF woken
    <3>2. /\ writeQ' \in Seq(Thread)
          /\ \A i \in 1..Len(writeQ') : /\ writeQ'[i] \in Thread /\ writeQ'[i] \notin woken
                                        /\ pc[writeQ'[i]] = "waiting" /\ role[writeQ'[i]] = "writer"
          /\ \A i, j \in 1..Len(writeQ') : writeQ'[i] = writeQ'[j] => i = j
      BY <3>1, SignalQueue DEF Role
    <3>. QED BY <1>1, <1>3, <3>2 DEF QueueInv
  <2>2. CASE ~(AR' = 0 /\ WW > 0)
    <3>1. woken = {} /\ writeQ' = writeQ
      BY <1>1, <2>2 DEF woken
    <3>2. \A i \in 1..Len(writeQ) : writeQ[i] \in Thread /\ writeQ[i] # t
      BY <1>1 DEF QueueInv
    <3>. QED BY <1>1, <1>3, <3>1, <3>2 DEF QueueInv
  <2>. QED BY <2>1, <2>2
<1>11. NoLostWakeup'
  <2>1. (readQ # <<>> => AW + WW > 0)'
    BY <1>1 DEF NoLostWakeup
  <2>2. ASSUME writeQ' # <<>>, AR' + AW' = 0 PROVE \E u \in Waiting("writer")' : pc'[u] = "signaled"
    <3>1. AR' = 0
      BY <1>1, <1>7, <2>2, SumPositive
    <3>2. WW > 0
      <4>1. SUFFICES ASSUME WW = 0 PROVE FALSE
        OBVIOUS
      <4>2. writeQ = <<>>
        BY <4>1, EmptyQueue DEF CountersExact, Role
      <4>. QED BY <1>1, <2>2, <4>1, <4>2
    <3>3. woken = Signaled(writeQ) /\ writeQ' = Popped(writeQ)
      BY <1>1, <3>1, <3>2 DEF woken
    <3>4. PICK u \in woken : TRUE
      BY <2>2, <3>3, SignalQueue DEF Role
    <3>5. u \in Waiting("writer") /\ pc'[u] = "signaled"
      BY <1>2, <1>3, <3>4 DEF Waiting
    <3>. QED BY <1>3, <3>5 DEF Role
  <2>. QED BY <2>1, <2>2 DEF NoLostWakeup
<1>12. Exclusion'
  BY <1>5 DEF Exclusion
<1>13. TypeOK'
  BY <1>1, <1>3, <1>7, <1>10
<1>. QED BY <1>3, <1>7, <1>9, <1>10, <1>11, <1>12, <1>13

LEMMA WriterLeavesIInv ==
  ASSUME IInv, NEW t \in Thread, WriterLeaves(t)
  PROVE  IInv'
<1>. USE DEF IInv, TypeOK, queues
<1>. DEFINE woken == IF WW > 0 THEN Signaled(writeQ)
                     ELSE IF WR > 0 THEN Members(readQ) ELSE {}
<1>1. /\ pc[t] = "releasing" /\ role[t] = "writer" /\ UNCHANGED <<AR, WR, WW, role>>
      /\ AW' = AW - 1 /\ UnlockOut(t, woken)
      /\ writeQ' = IF WW > 0 THEN Popped(writeQ) ELSE writeQ
      /\ readQ' = IF WW > 0 \/ WR = 0 THEN readQ ELSE <<>>
  BY DEF WriterLeaves
<1>2. woken \in SUBSET Thread /\ \A u \in woken : pc[u] = "waiting" /\ u # t
  <2>1. CASE WW > 0
    BY <1>1, <2>1, SignalQueue DEF Role
  <2>2. CASE ~(WW > 0)
    BY <1>1, <2>2 DEF Members, QueueInv
  <2>. QED BY <2>1, <2>2
<1>. HIDE DEF woken
<1>3. /\ pc' \in [Thread -> Label] /\ guard' = NoThread /\ GuardInv'
      /\ \A u \in woken : pc'[u] = "signaled"
      /\ \A u \in Thread : u # t /\ u \notin woken => pc'[u] = pc[u]
      /\ \A x \in Role : Waiting(x)' = Waiting(x)
      /\ \A x \in Role : Inside(x)' = Inside(x) \ {t}
  BY <1>1, <1>2, UnlockKeeps
<1>4. t \in Inside("writer") /\ t \notin Inside("reader")
  BY <1>1 DEF Inside
<1>5. Inside("reader")' = Inside("reader") /\ Inside("writer")' = Inside("writer") \ {t}
  BY <1>3, <1>4 DEF Role
<1>6. Cardinality(Inside("writer")') = AW - 1 /\ Cardinality(Inside("writer")') \in Nat
  <2>1. Cardinality(Inside("writer") \ {t}) = Cardinality(Inside("writer")) - 1
    BY <1>4, Finite, FS_RemoveElement DEF Role
  <2>2. IsFiniteSet(Inside("writer")')
    BY Finite DEF Role
  <2>3. Cardinality(Inside("writer")') \in Nat
    BY <2>2, FS_CardinalityType
  <2>. QED BY <1>5, <2>1, <2>3 DEF CountersExact
<1>7. CountersExact' /\ AW' \in Nat
  BY <1>1, <1>3, <1>5, <1>6 DEF CountersExact, Role
<1>8. readQ' \in Seq(Thread) /\ QueueInv(readQ, "reader")'
  <2>1. CASE WW > 0 \/ WR = 0
    <3>1. readQ' = readQ
      BY <1>1, <2>1
    <3>2. \A i \in 1..Len(readQ) : readQ[i] \in Thread /\ readQ[i] # t /\ readQ[i] \notin woken
      <4>1. CASE WW > 0
        <5>1. \A u \in woken : role[u] = "writer"
          BY <4>1, SignalQueue DEF woken, Role
        <5>. QED BY <1>1, <5>1 DEF QueueInv
      <4>2. CASE ~(WW > 0)
        <5>1. woken = {}
          BY <2>1, <4>2 DEF woken
        <5>. QED BY <1>1, <5>1 DEF QueueInv
      <4>. QED BY <4>1, <4>2
    <3>. QED BY <1>1, <1>3, <3>1, <3>2 DEF QueueInv
  <2>2. CASE ~(WW > 0 \/ WR = 0)
    BY <1>1, <2>2 DEF QueueInv
  <2>. QED BY <2>1, <2>2
<1>9. writeQ' \in Seq(Thread) /\ QueueInv(writeQ, "writer")'
  <2>1. CASE WW > 0
    <3>1. woken = Signaled(writeQ) /\ writeQ' = Popped(writeQ)
      BY <1>1, <2>1 DEF woken
    <3>2. /\ writeQ' \in Seq(Thread)
          /\ \A i \in 1..Len(writeQ') : /\ writeQ'[i] \in Thread /\ writeQ'[i] \notin woken
                                        /\ pc[writeQ'[i]] = "waiting" /\ role[writeQ'[i]] = "writer"
          /\ \A i, j \in 1..Len(writeQ') : writeQ'[i] = writeQ'[j] => i = j
      BY <3>1, SignalQueue DEF Role
    <3>. QED BY <1>1, <1>3, <3>2 DEF QueueInv
  <2>2. CASE ~(WW > 0)
    <3>1. writeQ' = writeQ /\ writeQ = <<>>
      <4>1. WW = 0
        BY <2>2
      <4>. QED BY <1>1, <4>1, EmptyQueue DEF CountersExact, Role
    <3>. QED BY <3>1 DEF QueueInv
  <2>. QED BY <2>1, <2>2
<1>10. NoLostWakeup'
  <2>1. ASSUME readQ' # <<>> PROVE AW' + WW' > 0
    <3>1. CASE WW > 0
      BY <1>1, <1>7, <3>1, SumPositive
    <3>2. CASE ~(WW > 0)
      <4>1. WR = 0 /\ readQ # <<>>
        BY <1>1, <2>1, <3>2
      <4>. QED BY <4>1, EmptyQueue DEF CountersExact, Role
    <3>. QED BY <3>1, <3>2
  <2>2. ASSUME writeQ' # <<>> PROVE \E u \in Waiting("writer")' : pc'[u] = "signaled"
    <3>1. WW > 0
      <4>1. SUFFICES ASSUME WW = 0 PROVE FALSE
        OBVIOUS
      <4>2. writeQ = <<>>
        BY <4>1, EmptyQueue DEF CountersExact, Role
      <4>. QED BY <1>1, <2>2, <4>1, <4>2
    <3>2. woken = Signaled(writeQ) /\ writeQ' = Popped(writeQ)
      BY <1>1, <3>1 DEF woken
    <3>3. PICK u \in woken : TRUE
      BY <2>2, <3>2, SignalQueue DEF Role
    <3>4. u \in Waiting("writer") /\ pc'[u] = "signaled"
      BY <1>3, <3>2, <3>3, SignalQueue DEF Waiting, Role
    <3>. QED BY <1>3, <3>4 DEF Role
  <2>. QED BY <2>1, <2>2 DEF NoLostWakeup
<1>11. Exclusion'
  BY <1>5 DEF Exclusion
<1>12. TypeOK'
  BY <1>1, <1>3, <1>7, <1>8, <1>9
<1>. QED BY <1>3, <1>7, <1>8, <1>9, <1>10, <1>11, <1>12

LEMMA NextIInv == IInv /\ [Next]_vars => IInv'
<1>1. SUFFICES ASSUME IInv, [Next]_vars PROVE IInv'
  OBVIOUS
<1>2. CASE Next
  BY <1>1, <1>2, OutsideIInv, WaitsIInv, EntersIInv, ReaderLeavesIInv, WriterLeavesIInv
  DEF Next, Arrivals, Guarded
<1>3. CASE UNCHANGED vars
  BY <1>1, <1>3
  DEF vars, counters, queues, IInv, TypeOK, GuardInv, QueueInv, CountersExact, Exclusion,
      NoLostWakeup, Inside, Waiting
<1>. QED BY <1>1, <1>2, <1>3

LEMMA Invariant == Spec => []IInv
BY InitIInv, NextIInv, PTL DEF Spec

(* rw_lock_acquire's promise: whatever the number of threads, readers and  *)
(* writers are never inside together, and writers are inside alone.        *)
THEOREM RwLockExcludes == Spec => []Exclusion
<1>1. IInv => Exclusion
  BY DEF IInv
<1>. QED BY <1>1, Invariant, PTL

\* AR, WR, AW and WW count the threads they are meant to count.
THEOREM CountersAreExact == Spec => []CountersExact
<1>1. IInv => CountersExact
  BY DEF IInv
<1>. QED BY <1>1, Invariant, PTL

\* rw_lock_release never leaves a sleeper that nobody will wake.
THEOREM RwWakeupsArrive == Spec => []NoLostWakeup
<1>1. IInv => NoLostWakeup
  BY DEF IInv
<1>. QED BY <1>1, Invariant, PTL

\* rw_lock_acquire and rw_lock_release keep all three.
THEOREM RwLockIsExact == Spec => []RwLockExact
<1>1. IInv => RwLockExact
  BY DEF IInv, RwLockExact
<1>. QED BY <1>1, Invariant, PTL

-----------------------------------------------------------------------------
\* Each step of the lock is one of AbstractRwLock, or changes nothing there.
LEMMA StepRefines ==
  ASSUME IInv, Next
  PROVE  [Abstract!Next]_(Abstract!vars)
<1>. USE DEF IInv, TypeOK, Goto, Testing
<1>. USE DEF Role
<1>1. ASSUME NEW t \in Thread,
             (\E r \in {"reader", "writer"} : Arrive(t, r)) \/ Leave(t) \/ LockGuard(t) \/ ReaderWaits(t)
      PROVE  UNCHANGED <<Inside("reader"), Inside("writer"), Waiting("writer")>>
  BY <1>1 DEF Arrive, Leave, LockGuard, Locked, ReaderWaits, Inside, Waiting
<1>2. ASSUME NEW t \in Thread, WriterWaits(t) PROVE Abstract!WriterWaits(t)
  <2>1. /\ Inside("reader")' = Inside("reader") /\ Inside("writer")' = Inside("writer")
        /\ Waiting("writer")' = Waiting("writer") \cup {t}
    BY <1>2 DEF WriterWaits, Inside, Waiting
  <2>2. Inside("reader") \cup Inside("writer") # {}
    <3>1. AR + AW > 0
      BY <1>2 DEF WriterWaits, WriterMustWait
    <3>2. Inside("reader") = {} /\ Inside("writer") = {} => AR = 0 /\ AW = 0
      BY FS_EmptySet DEF CountersExact
    <3>. QED BY <3>1, <3>2
  <2>. QED BY <2>1, <2>2 DEF Abstract!WriterWaits
<1>3. ASSUME NEW t \in Thread, ReaderEnters(t) PROVE Abstract!ReaderEnters(t)
  <2>1. /\ Inside("reader")' = Inside("reader") \cup {t} /\ Inside("writer")' = Inside("writer")
        /\ Waiting("writer")' = Waiting("writer")
    BY <1>3 DEF ReaderEnters, Inside, Waiting
  <2>2. AW = 0 /\ WW = 0
    BY <1>3 DEF ReaderEnters, ReaderMustWait
  <2>3. Inside("writer") = {} /\ Waiting("writer") = {}
    BY <2>2, Finite, FS_EmptySet DEF CountersExact
  <2>. QED BY <2>1, <2>3 DEF Abstract!ReaderEnters
<1>4. ASSUME NEW t \in Thread, WriterEnters(t) PROVE Abstract!WriterEnters(t)
  <2>1. AR = 0 /\ AW = 0
    BY <1>4 DEF WriterEnters, WriterMustWait
  <2>2. Inside("reader") = {} /\ Inside("writer") = {}
    BY <2>1, Finite, FS_EmptySet DEF CountersExact
  <2>3. /\ Inside("reader")' = Inside("reader") /\ Inside("writer")' = Inside("writer") \cup {t}
        /\ Waiting("writer")' = Waiting("writer") \ {t}
    BY <1>4 DEF WriterEnters, Inside, Waiting
  <2>. QED BY <2>2, <2>3 DEF Abstract!WriterEnters
<1>5. ASSUME NEW t \in Thread, ReaderLeaves(t) \/ WriterLeaves(t) PROVE Abstract!Leaves(t)
  <2>1. PICK woken \in SUBSET Thread :
           (\A u \in woken : pc[u] = "waiting") /\ UnlockOut(t, woken) /\ UNCHANGED role /\ pc[t] = "releasing"
    <3>1. CASE ReaderLeaves(t)
      BY <3>1, SignalQueue DEF ReaderLeaves
    <3>2. CASE WriterLeaves(t)
      <4>1. Members(readQ) \in SUBSET Thread /\ \A u \in Members(readQ) : pc[u] = "waiting"
        BY DEF Members, QueueInv
      <4>. QED BY <3>2, <4>1, SignalQueue DEF WriterLeaves
    <3>. QED BY <1>5, <3>1, <3>2
  <2>2. /\ Waiting("writer")' = Waiting("writer")
        /\ Inside("reader")' = Inside("reader") \ {t} /\ Inside("writer")' = Inside("writer") \ {t}
    BY <2>1, UnlockKeeps
  <2>3. t \in Inside("reader") \cup Inside("writer")
    BY <2>1 DEF Inside
  <2>. QED BY <2>2, <2>3 DEF Abstract!Leaves
<1>. QED BY <1>1, <1>2, <1>3, <1>4, <1>5 DEF Next, Arrivals, Guarded, Abstract!Next, Abstract!vars

(* The monitor of counters, condition variables and a guard implements the *)
(* writer-centric readers-writers lock of AbstractRwLock.                  *)
THEOREM RwLockImplements == Spec => ImplementsRwLock
<1>1. Init => Abstract!Init
  BY DEF Init, Abstract!Init, Inside, Waiting
<1>2. IInv /\ [Next]_vars => [Abstract!Next]_(Abstract!vars)
  <2>1. CASE UNCHANGED vars
    BY <2>1 DEF vars, Abstract!vars, Inside, Waiting
  <2>. QED BY <2>1, StepRefines
<1>. QED BY <1>1, <1>2, Invariant, PTL DEF Spec, ImplementsRwLock, Abstract!Spec

-------------------------------------------------------------------------------
(* The console of console.c and serial.c: any threads, queues of any size,  *)
(* and lines, calls within calls and panics of any number.                  *)
CONSTANTS Caller, Main, Handler, TxSize, RxSize, MaxPut, MaxLine, MaxNest, MaxLevel, None
VARIABLES
  stage, mode, consoleLock, depth, level, off, place, left,
  txq, rxq, ier, thr, rbr, put, wired

Port == INSTANCE Console WITH Thread <- Caller, lock <- consoleLock, pc <- place

Places == {"out", "lock", "print", "full", "poll", "flush", "cut", "down"}
PortTypeOK ==
  /\ stage \in {"off", "on", "queue", "done"} /\ mode \in {"UNINIT", "POLL", "QUEUE"}
  /\ consoleLock \in Caller \cup {None} /\ depth \in Nat /\ level \in Nat
  /\ off \in Port!Printer \cup {None}
  /\ place \in [Port!Printer -> Places] /\ left \in [Port!Printer -> Seq(Nat)]
  /\ txq \in Seq(Nat) /\ rxq \in 0..RxSize /\ ier \subseteq {"xmit", "recv"}
  /\ thr \in Nat \cup {None} /\ put \in Nat /\ wired \in Nat

\* Who polls, flushes or is down has interrupts off, and so does the handler
\* when it prints; a panic never gives the processor back.
OffInv ==
  /\ \A t \in Port!Printer : place[t] \in {"poll", "flush", "down"} => off = t
  /\ place[Handler] \in {"out", "print", "poll", "flush", "down"}
  /\ place[Handler] # "out" => off = Handler
  /\ \A t \in Port!Printer : place[t] = "flush" /\ level = 0 => t # Handler /\ stage = "done"
  /\ level > 0 => off # None /\ place[off] \in {"print", "poll", "flush", "down"}
  /\ stage = "off" => off = Main /\ \A t \in Port!Printer \ {Main} : place[t] = "out"

\* Who is in a call has it on record, and who polls has a character to print;
\* a handler's calls do not nest, nor is the lock taken for a nested one.
CallInv ==
  /\ Len(left[Handler]) <= 1
  /\ \A t \in Port!Printer :
     /\ place[t] \in {"lock", "print", "full", "poll"} => left[t] # <<>>
     /\ place[t] = "lock" => Len(left[t]) = 1
     /\ place[t] = "poll" => Port!Last(left[t]) > 0

\* txq is used only once it is there, and who sleeps for room in it, or is
\* about to make room by polling, finds it full.
RoomInv ==
  /\ mode = "QUEUE" <=> stage \in {"queue", "done"}
  /\ mode # "QUEUE" => txq = <<>>
  /\ \A t \in Port!Printer : place[t] = "full" \/ (place[t] = "poll" /\ mode = "QUEUE") => Port!Full

\* From serial_init_queue to the first panic, the interrupts that are on are
\* those there is work for, also while somebody has interrupts off; only a
\* flush leaves the transmit interrupt on with nothing to send.
IerInv ==
  stage = "done" /\ level = 0 =>
    /\ "recv" \in ier <=> rxq < RxSize
    /\ txq # <<>> => "xmit" \in ier
    /\ "xmit" \in ier => txq # <<>> \/ \E t \in Caller : place[t] \in {"flush", "cut", "down"}

\* Bytes are numbered as they are printed: first the port's, then txq's.
Held == IF thr = None THEN 0 ELSE 1
SentInv ==
  /\ Held + Len(txq) = put - wired
  /\ thr # None => thr = wired + 1
  /\ \A i \in 1..Len(txq) : txq[i] = wired + Held + i

ConsoleInv == PortTypeOK /\ OffInv /\ CallInv /\ RoomInv /\ IerInv /\ SentInv /\ Port!LinesWhole
-------------------------------------------------------------------------------
\* The innermost call, and the calls without it.
LEMMA LastIs ==
  ASSUME NEW s \in Seq(Nat), s # <<>>
  PROVE  /\ Len(s) \in Nat \ {0} /\ Port!Last(s) = s[Len(s)] /\ Port!Last(s) \in Nat
         /\ Port!Front(s) \in Seq(Nat) /\ Len(Port!Front(s)) = Len(s) - 1
<1>1. Len(s) \in Nat \ {0}
  OBVIOUS
<1>2. Len(s) - 1 \in Nat /\ Port!Front(s) = SubSeq(s, 1, Len(s) - 1)
  BY <1>1 DEF Port!Front
<1>3. /\ SubSeq(s, 1, Len(s) - 1) \in Seq(Nat)
      /\ Len(SubSeq(s, 1, Len(s) - 1)) = Len(s) - 1
  <2>1. \A i \in 1..Len(s) - 1 : s[i] \in Nat
    BY <1>1
  <2>2. PICK n \in Int : n = Len(s) - 1
    BY <1>1
  <2>3. /\ SubSeq(s, 1, n) \in Seq(Nat)
        /\ Len(SubSeq(s, 1, n)) = IF 1 <= n THEN n - 1 + 1 ELSE 0
    <3>1. \A i \in 1..n : s[i] \in Nat
      BY <2>1, <2>2
    <3>. HIDE <2>2
    <3>. QED BY <3>1, SubSeqProperties
  <2>. QED BY <1>1, <2>2, <2>3
<1>. QED BY <1>1, <1>2, <1>3 DEF Port!Last

\* One character less in the innermost call.
LEMMA OneLess ==
  ASSUME NEW s \in Seq(Nat), s # <<>>, Port!Last(s) > 0
  PROVE  /\ [s EXCEPT ![Len(s)] = @ - 1] \in Seq(Nat) /\ [s EXCEPT ![Len(s)] = @ - 1] # <<>>
         /\ Len([s EXCEPT ![Len(s)] = @ - 1]) = Len(s)
<1>1. Len(s) \in Nat \ {0} /\ Port!Last(s) = s[Len(s)] /\ Port!Last(s) \in Nat
  BY LastIs
<1>2. PICK r : r = [s EXCEPT ![Len(s)] = @ - 1]
  OBVIOUS
<1>3. r \in [1..Len(s) -> Nat]
  BY <1>1, <1>2
<1>4. r \in Seq(Nat) /\ Len(r) = Len(s)
  BY <1>1, <1>3
<1>. QED BY <1>1, <1>2, <1>4

\* What a queue gains at its end, and loses at its front.
LEMMA Appended ==
  ASSUME NEW q \in Seq(Nat), NEW b \in Nat
  PROVE  /\ Append(q, b) \in Seq(Nat) /\ Len(Append(q, b)) = Len(q) + 1 /\ Append(q, b) # <<>>
         /\ \A i \in 1..Len(q) : Append(q, b)[i] = q[i]
         /\ Append(q, b)[Len(q) + 1] = b
OBVIOUS

LEMMA OneMore ==
  \A s \in Seq(Nat) : /\ Append(s, 1) \in Seq(Nat) /\ Append(s, 1) # <<>>
                      /\ Len(s) \in Nat /\ Len(Append(s, 1)) = Len(s) + 1
OBVIOUS

LEMMA Taken ==
  ASSUME NEW q \in Seq(Nat), q # <<>>
  PROVE  /\ Len(q) \in Nat \ {0} /\ Head(q) = q[1] /\ Head(q) \in Nat
         /\ Tail(q) \in Seq(Nat) /\ Len(Tail(q)) = Len(q) - 1
         /\ \A i \in 1..Len(q) - 1 : Tail(q)[i] = q[i + 1]
OBVIOUS

LEMMA WriteIerType ==
  ASSUME NEW q, NEW n PROVE Port!WriteIer(q, n) \subseteq {"xmit", "recv"}
BY DEF Port!WriteIer

LEMMA InitConsoleInv == ASSUME Port!ConsoleAssumption, Port!Init PROVE ConsoleInv
<1>. USE DEF Port!ConsoleAssumption, Port!Init, Port!Printer
<1>1. PortTypeOK
  <2>1. place \in [Port!Printer -> Places] /\ left \in [Port!Printer -> Seq(Nat)] /\ txq \in Seq(Nat)
    BY DEF Places
  <2>2. ier \subseteq {"xmit", "recv"}
    OBVIOUS
  <2>3. off \in Port!Printer \cup {None} /\ consoleLock \in Caller \cup {None} /\ thr \in Nat \cup {None}
    OBVIOUS
  <2>4. rxq \in 0..RxSize /\ depth \in Nat /\ level \in Nat /\ put \in Nat /\ wired \in Nat
    OBVIOUS
  <2>. QED BY <2>1, <2>2, <2>3, <2>4 DEF PortTypeOK
<1>2. OffInv /\ CallInv /\ RoomInv /\ IerInv
  BY DEF OffInv, CallInv, RoomInv, IerInv
<1>3. SentInv /\ Port!LinesWhole
  BY DEF SentInv, Held, Port!LinesWhole
<1>. QED BY <1>1, <1>2, <1>3 DEF ConsoleInv
-------------------------------------------------------------------------------
(* Bytes on their way.                                                      *)

\* Where the bytes are: in the port, and in txq behind it.
LEMMA SentUnchanged ==
  ASSUME SentInv, UNCHANGED <<thr, txq, put, wired>> PROVE SentInv'
BY DEF SentInv, Held

LEMMA SentAppended ==
  ASSUME PortTypeOK, SentInv, txq' = Append(txq, put + 1), put' = put + 1, UNCHANGED <<thr, wired>>
  PROVE  SentInv'
<1>. USE DEF PortTypeOK
<1>1. /\ Len(txq') = Len(txq) + 1 /\ txq'[Len(txq) + 1] = put + 1
      /\ \A i \in 1..Len(txq) : txq'[i] = txq[i]
  BY Appended
<1>2. Held \in Nat /\ Held' = Held
  BY DEF Held
<1>3. Held' + Len(txq') = put' - wired'
  <2>1. Len(txq) \in Nat /\ Held + Len(txq) = put - wired
    BY DEF SentInv
  <2>2. Held' + (Len(txq) + 1) = (put + 1) - wired
    BY <1>2, <2>1
  <2>. QED BY <1>1, <2>2
<1>5. thr' # None => thr' = wired' + 1
  BY DEF SentInv
<1>4. ASSUME NEW i \in 1..Len(txq') PROVE txq'[i] = wired' + Held' + i
  <2>1. CASE i \in 1..Len(txq)
    BY <1>1, <1>2, <2>1 DEF SentInv
  <2>2. CASE i = Len(txq) + 1
    BY <1>1, <1>2, <2>2 DEF SentInv
  <2>. QED BY <1>1, <2>1, <2>2
<1>. QED BY <1>3, <1>4, <1>5 DEF SentInv

LEMMA SentTaken ==
  ASSUME Port!ConsoleAssumption, PortTypeOK, SentInv, txq # <<>>, thr = None,
         thr' = Head(txq), txq' = Tail(txq), UNCHANGED <<put, wired>>
  PROVE  SentInv'
<1>. USE DEF PortTypeOK
<1>1. /\ Len(txq) \in Nat \ {0} /\ thr' = txq[1] /\ thr' \in Nat /\ Len(txq') = Len(txq) - 1
      /\ \A i \in 1..Len(txq) - 1 : txq'[i] = txq[i + 1]
  BY Taken
<1>2. Held = 0 /\ Held' = 1
  BY <1>1 DEF Held, Port!ConsoleAssumption
<1>3. thr' = wired + 1
  BY <1>1, <1>2 DEF SentInv
<1>4. ASSUME NEW i \in 1..Len(txq') PROVE txq'[i] = wired' + Held' + i
  BY <1>1, <1>2 DEF SentInv
<1>. QED BY <1>1, <1>2, <1>3, <1>4 DEF SentInv

-------------------------------------------------------------------------------
(* main, and the calls.                                                     *)
LEMMA BootConsoleInv ==
  ASSUME Port!ConsoleAssumption, ConsoleInv,
         Port!Start \/ Port!InitQueue \/ Port!EnableInterrupts
  PROVE  ConsoleInv'
<1>. USE DEF ConsoleInv, PortTypeOK, Port!Start, Port!InitQueue, Port!EnableInterrupts,
             Port!ConsoleAssumption, Port!Printer
<1>1. PortTypeOK'
  <2>1. CASE Port!Start \/ Port!InitQueue
    BY <2>1
  <2>2. CASE Port!EnableInterrupts
    BY <2>2, WriteIerType
  <2>. QED BY <2>1, <2>2
<1>2. OffInv'
  BY DEF OffInv
<1>3. CallInv'
  BY DEF CallInv
<1>4. RoomInv'
  BY DEF RoomInv, OffInv, Port!Full
<1>5. IerInv'
  BY DEF IerInv, Port!WriteIer
<1>6. SentInv' /\ Port!LinesWhole'
  BY SentUnchanged DEF Port!LinesWhole
<1>. QED BY <1>1, <1>2, <1>3, <1>4, <1>5, <1>6

LEMMA CallConsoleInv ==
  ASSUME Port!ConsoleAssumption, ConsoleInv, NEW t \in Port!Printer, NEW n \in Nat, Port!Call(t, n)
  PROVE  ConsoleInv'
<1>. USE DEF ConsoleInv, PortTypeOK, Port!Call, Port!MayRun, Port!Goto,
             Port!ConsoleAssumption, Port!Printer
<1>1. PortTypeOK'
  <2>1. <<n>> \in Seq(Nat)
    OBVIOUS
  <2>2. left' \in [Port!Printer -> Seq(Nat)]
    BY <2>1
  <2>3. place' \in [Port!Printer -> Places] /\ off' \in Port!Printer \cup {None}
    BY DEF Places
  <2>. QED BY <2>2, <2>3
<1>2. OffInv'
  BY DEF OffInv, Places
<1>3. CallInv'
  BY DEF CallInv, Places
<1>4. RoomInv'
  BY DEF RoomInv, Port!Full, Places
<1>5. IerInv'
  BY DEF IerInv, Port!WriteIer, OffInv, Places
<1>6. Port!LinesWhole'
  BY DEF Port!LinesWhole, Places
<1>. QED BY <1>1, <1>2, <1>3, <1>4, <1>5, <1>6, SentUnchanged

LEMMA AcquireConsoleInv ==
  ASSUME Port!ConsoleAssumption, ConsoleInv, NEW t \in Port!Printer, Port!Acquire(t)
  PROVE  ConsoleInv'
<1>. USE DEF ConsoleInv, PortTypeOK, Port!Acquire, Port!MayRun, Port!Goto,
             Port!ConsoleAssumption, Port!Printer
<1>0. t \in Caller
  BY DEF OffInv
<1>1. PortTypeOK'
  BY <1>0 DEF Places
<1>2. OffInv'
  BY <1>0 DEF OffInv, Places
<1>3. CallInv'
  BY DEF CallInv, Places
<1>4. RoomInv'
  BY DEF RoomInv, Port!Full, Places
<1>5. IerInv'
  BY DEF IerInv, Port!WriteIer, OffInv, Places
<1>6. Port!LinesWhole'
  BY <1>0 DEF Port!LinesWhole, Places, CallInv
<1>. QED BY <1>1, <1>2, <1>3, <1>4, <1>5, <1>6, SentUnchanged

LEMMA NestConsoleInv ==
  ASSUME Port!ConsoleAssumption, ConsoleInv, NEW t \in Caller, Port!Nest(t) PROVE ConsoleInv'
<1>. USE DEF ConsoleInv, PortTypeOK, Port!Nest, Port!MayRun, Port!ConsoleAssumption, Port!Printer
<1>0. /\ left[t] \in Seq(Nat) /\ Len(left[t]) \in Nat
      /\ Append(left[t], 1) \in Seq(Nat) /\ Append(left[t], 1) # <<>>
      /\ Len(Append(left[t], 1)) = Len(left[t]) + 1
  <2>1. left[t] \in Seq(Nat)
    OBVIOUS
  <2>. QED BY <2>1, OneMore, Zenon
<1>1. PortTypeOK'
  BY <1>0
<1>2. OffInv'
  BY DEF OffInv
<1>3. CallInv'
  BY <1>0 DEF CallInv
<1>4. RoomInv'
  BY DEF RoomInv, Port!Full
<1>5. IerInv'
  BY DEF IerInv, Port!WriteIer
<1>6. Port!LinesWhole'
  BY <1>0 DEF Port!LinesWhole
<1>. QED BY <1>1, <1>2, <1>3, <1>4, <1>5, <1>6, SentUnchanged
-------------------------------------------------------------------------------
(* Characters.                                                              *)
LEMMA PrintedIs ==
  ASSUME left \in [Port!Printer -> Seq(Nat)], NEW t \in Port!Printer, left[t] # <<>>, Port!Last(left[t]) > 0
  PROVE  /\ Port!Printed(t) \in [Port!Printer -> Seq(Nat)] /\ Port!Printed(t)[t] # <<>>
         /\ Len(Port!Printed(t)[t]) = Len(left[t])
         /\ \A u \in Port!Printer \ {t} : Port!Printed(t)[u] = left[u]
<1>. DEFINE s == [left[t] EXCEPT ![Len(left[t])] = @ - 1]
<1>1. left[t] \in Seq(Nat) /\ left \in [Port!Printer -> Seq(Nat)]
  OBVIOUS
<1>2. s \in Seq(Nat) /\ s # <<>> /\ Len(s) = Len(left[t])
  BY <1>1, OneLess
<1>3. Port!Printed(t) = [left EXCEPT ![t] = s]
  BY DEF Port!Printed
<1>. HIDE DEF s
<1>. QED BY <1>1, <1>2, <1>3

\* The calls when one character less is left in the innermost one of t.
MayPrint(t) ==
  left \in [Port!Printer -> Seq(Nat)] /\ CallInv /\ t \in Port!Printer /\ left[t] # <<>> /\ Port!Last(left[t]) > 0
HasPrinted(t) ==
  /\ left' = Port!Printed(t) /\ place'[t] = "print"
  /\ \A u \in Port!Printer \ {t} : place'[u] = place[u] \/ (place[u] = "full" /\ place'[u] = "print")

LEMMA CallsPrinted ==
  ASSUME NEW t, MayPrint(t), HasPrinted(t) PROVE CallInv'
<1>. USE DEF MayPrint, HasPrinted
<1>1. /\ left'[t] # <<>> /\ Len(left'[t]) = Len(left[t])
      /\ \A u \in Port!Printer \ {t} : left'[u] = left[u]
  BY PrintedIs
<1>2. Len(left'[Handler]) <= 1
  BY <1>1 DEF CallInv, Port!Printer
<1>. QED BY <1>1, <1>2 DEF CallInv

LEMMA PutcConsoleInv ==
  ASSUME Port!ConsoleAssumption, ConsoleInv, NEW t \in Port!Printer, Port!Putc(t)
  PROVE  ConsoleInv'
<1>. USE DEF ConsoleInv, PortTypeOK, Port!MayRun, Port!Goto, Port!ConsoleAssumption, Port!Printer
<1>0. /\ left[t] # <<>> /\ Port!Last(left[t]) > 0 /\ place[t] = "print" /\ off \in {None, t}
      /\ UNCHANGED <<stage, consoleLock, depth, level, rxq, thr, rbr, wired>>
  BY DEF Port!Putc, CallInv
<1>1. CASE mode # "QUEUE" /\ mode' = "POLL" /\ off' = t /\ place' = [place EXCEPT ![t] = "poll"]
           /\ UNCHANGED <<left, txq, ier, put>>
  <2>1. PortTypeOK'
    BY <1>0, <1>1 DEF Places
  <2>2. OffInv'
    BY <1>0, <1>1 DEF OffInv, Places
  <2>3. CallInv'
    BY <1>0, <1>1 DEF CallInv, Places
  <2>4. RoomInv'
    BY <1>0, <1>1 DEF RoomInv, Port!Full, Places
  <2>5. IerInv'
    BY <1>0, <1>1 DEF IerInv, RoomInv
  <2>6. Port!LinesWhole'
    BY <1>0, <1>1 DEF Port!LinesWhole, Places
  <2>. QED BY <1>0, <1>1, <2>1, <2>2, <2>3, <2>4, <2>5, <2>6, SentUnchanged
<1>2. CASE mode = "QUEUE" /\ Port!Full /\ place' = [place EXCEPT ![t] = IF Port!IntrOff(t) THEN "poll" ELSE "full"]
           /\ UNCHANGED <<mode, off, left, txq, ier, put>>
  <2>1. PortTypeOK'
    BY <1>0, <1>2 DEF Places
  <2>2. OffInv'
    BY <1>0, <1>2 DEF OffInv, Port!IntrOff, Places, RoomInv
  <2>3. CallInv'
    BY <1>0, <1>2 DEF CallInv, Places
  <2>4. RoomInv'
    BY <1>0, <1>2 DEF RoomInv, Port!Full, Places
  <2>5. IerInv'
    BY <1>0, <1>2 DEF IerInv, Port!WriteIer, Places
  <2>6. Port!LinesWhole'
    BY <1>0, <1>2 DEF Port!LinesWhole, Places
  <2>. QED BY <1>0, <1>2, <2>1, <2>2, <2>3, <2>4, <2>5, <2>6, SentUnchanged
<1>3. CASE mode = "QUEUE" /\ ~Port!Full /\ txq' = Append(txq, put + 1) /\ put' = put + 1
           /\ left' = Port!Printed(t) /\ ier' = Port!WriteIer(txq', rxq) /\ UNCHANGED <<mode, off, place>>
  <2>0. /\ left' \in [Port!Printer -> Seq(Nat)] /\ Len(left'[t]) = Len(left[t])
        /\ \A u \in Port!Printer \ {t} : left'[u] = left[u]
    BY <1>0, <1>3, PrintedIs
  <2>1. PortTypeOK'
    <3>1. txq' \in Seq(Nat) /\ ier' \subseteq {"xmit", "recv"} /\ put' \in Nat
      BY <1>3, Appended, WriteIerType
    <3>. QED BY <1>0, <1>3, <2>0, <3>1
  <2>2. OffInv'
    BY <1>0, <1>3 DEF OffInv
  <2>3. CallInv'
    <3>1. place' = place /\ left' = Port!Printed(t) /\ place[t] = "print"
      BY <1>0, <1>3
    <3>2. HasPrinted(t)
      BY <3>1 DEF HasPrinted
    <3>3. MayPrint(t)
      BY <1>0 DEF MayPrint
    <3>. QED BY <3>2, <3>3, CallsPrinted, Zenon
  <2>4. RoomInv'
    BY <1>0, <1>3 DEF RoomInv, OffInv
  <2>5. IerInv'
    BY <1>0, <1>3 DEF IerInv, Port!WriteIer
  <2>6. Port!LinesWhole'
    BY <1>0, <1>3, <2>0 DEF Port!LinesWhole
  <2>7. SentInv'
    BY <1>0, <1>3, SentAppended
  <2>. QED BY <2>1, <2>2, <2>3, <2>4, <2>5, <2>6, <2>7
<1>. QED BY <1>1, <1>2, <1>3 DEF Port!Putc

\* What the invariant says of the bytes and the port.
TxqInv ==
  /\ txq \in Seq(Nat) /\ ier \subseteq {"xmit", "recv"} /\ thr \in Nat \cup {None}
  /\ RoomInv /\ IerInv /\ SentInv

LEMMA PolledConsoleInv ==
  ASSUME Port!ConsoleAssumption, ConsoleInv, NEW t \in Port!Printer, Port!Polled(t)
  PROVE  ConsoleInv'
<1>. USE DEF ConsoleInv, PortTypeOK, Port!ConsoleAssumption, Port!Printer
<1>0. /\ left[t] # <<>> /\ Port!Last(left[t]) > 0 /\ place[t] = "poll" /\ off = t /\ thr = None
      /\ put' = put + 1 /\ left' = Port!Printed(t) /\ off' = IF Port!IntrOff(t) THEN off ELSE None
      /\ UNCHANGED <<stage, mode, consoleLock, depth, level, rxq, rbr, wired>>
  BY DEF Port!Polled, CallInv, OffInv
<1>1. /\ place' \in [Port!Printer -> Places] /\ place'[t] = "print"
      /\ \A u \in Port!Printer \ {t} :
            \/ place'[u] = place[u] /\ (mode = "QUEUE" => place[u] # "full")
            \/ mode = "QUEUE" /\ place[u] = "full" /\ place'[u] = "print"
  BY <1>0 DEF Port!Polled, Places
<1>2. \A u \in Port!Printer \ {t} : place[u] \notin {"poll", "flush", "down"}
  BY <1>0 DEF OffInv
<1>3. /\ left' \in [Port!Printer -> Seq(Nat)] /\ Len(left'[t]) = Len(left[t])
      /\ \A u \in Port!Printer \ {t} : left'[u] = left[u]
  BY <1>0, PrintedIs
<1>4. ASSUME mode = "QUEUE" PROVE TxqInv'
  <2>1. txq # <<>> /\ Len(txq) = TxSize
    BY <1>0, <1>4 DEF RoomInv, Port!Full
  <2>2. thr' = Head(txq) /\ txq' = Append(Tail(txq), put + 1) /\ ier' = Port!WriteIer(txq', rxq)
    BY <1>4 DEF Port!Polled
  <2>3. Tail(txq) \in Seq(Nat) /\ Len(Tail(txq)) = Len(txq) - 1 /\ Head(txq) \in Nat
    BY <2>1, Taken
  <2>4. /\ txq' \in Seq(Nat) /\ Len(txq') = Len(txq) /\ ier' \subseteq {"xmit", "recv"}
        /\ thr' \in Nat
    BY <2>1, <2>2, <2>3, Appended, WriteIerType
  <2>5. RoomInv'
    BY <1>0, <1>1, <1>2, <1>4, <2>1, <2>4 DEF RoomInv, Port!Full, Places
  <2>6. IerInv'
    BY <1>0, <2>2 DEF IerInv, Port!WriteIer
  <2>7. SentInv'
    <3>1. Held = 0 /\ Held' = 1
      BY <1>0, <2>4 DEF Held
    <3>2. /\ txq[1] = wired + 1 /\ thr' = txq[1] /\ Len(txq) = put - wired
          /\ \A i \in 1..Len(txq) : txq[i] = wired + i
      BY <2>1, <2>2, <3>1, Taken DEF SentInv
    <3>3. \A i \in 1..Len(txq) - 1 : Tail(txq)[i] = txq[i + 1]
      BY <2>1, Taken
    <3>4. txq'[Len(txq)] = put + 1 /\ \A i \in 1..Len(txq) - 1 : txq'[i] = Tail(txq)[i]
      BY <2>1, <2>2, <2>3, Appended
    <3>5. ASSUME NEW i \in 1..Len(txq') PROVE txq'[i] = wired' + Held' + i
      <4>1. CASE i \in 1..Len(txq) - 1
        BY <1>0, <3>1, <3>2, <3>3, <3>4, <4>1
      <4>2. CASE i = Len(txq)
        BY <1>0, <3>1, <3>2, <3>4, <4>2
      <4>. QED BY <2>1, <2>4, <4>1, <4>2
    <3>6. Held' + Len(txq') = put' - wired'
      BY <1>0, <2>1, <2>4, <3>1, <3>2
    <3>. QED BY <1>0, <3>2, <3>5, <3>6 DEF SentInv
  <2>. QED BY <2>4, <2>5, <2>6, <2>7 DEF TxqInv
<1>5. ASSUME mode # "QUEUE" PROVE TxqInv'
  <2>1. thr' = put + 1 /\ UNCHANGED <<txq, ier>> /\ txq = <<>>
    BY <1>5 DEF Port!Polled, RoomInv
  <2>2. Held = 0 /\ Held' = 1 /\ put = wired
    BY <1>0, <2>1 DEF Held, SentInv
  <2>3. SentInv'
    BY <1>0, <2>1, <2>2 DEF SentInv
  <2>4. RoomInv'
    BY <1>0, <1>1, <1>5, <2>1 DEF RoomInv, Port!Full
  <2>5. IerInv'
    BY <1>0, <1>5 DEF IerInv, RoomInv
  <2>. QED BY <1>0, <2>1, <2>3, <2>4, <2>5 DEF TxqInv
<1>6. PortTypeOK'
  BY <1>0, <1>1, <1>3, <1>4, <1>5 DEF TxqInv
<1>7. OffInv'
  BY <1>0, <1>1, <1>2 DEF OffInv, Port!IntrOff, Places
<1>8. CallInv'
  <2>1. MayPrint(t)
    BY <1>0 DEF MayPrint
  <2>2. HasPrinted(t)
    BY <1>0, <1>1 DEF HasPrinted
  <2>. QED BY <2>1, <2>2, CallsPrinted, Zenon
<1>9. Port!LinesWhole'
  BY <1>0, <1>1, <1>3 DEF Port!LinesWhole
<1>. QED BY <1>4, <1>5, <1>6, <1>7, <1>8, <1>9 DEF TxqInv

LEMMA ReturnConsoleInv ==
  ASSUME Port!ConsoleAssumption, ConsoleInv, NEW t \in Port!Printer, Port!Return(t)
  PROVE  ConsoleInv'
<1>. USE DEF ConsoleInv, PortTypeOK, Port!MayRun, Port!Goto, Port!ConsoleAssumption, Port!Printer
<1>0. /\ left[t] # <<>> /\ place[t] = "print" /\ off \in {None, t}
      /\ left' = [left EXCEPT ![t] = Port!Front(@)] /\ Port!Release(t)
      /\ place' = [place EXCEPT ![t] =
                       IF level > 0 THEN "flush" ELSE IF Len(left[t]) > 1 THEN "print" ELSE "out"]
      /\ off' = IF t = Handler /\ level = 0 THEN None ELSE off
      /\ UNCHANGED <<stage, mode, level, txq, rxq, ier, thr, rbr, put, wired>>
  BY DEF Port!Return, CallInv
<1>1. /\ Port!Front(left[t]) \in Seq(Nat) /\ Len(Port!Front(left[t])) = Len(left[t]) - 1
      /\ Len(left[t]) \in Nat \ {0}
  BY <1>0, LastIs
<1>2. /\ left' \in [Port!Printer -> Seq(Nat)] /\ left'[t] = Port!Front(left[t])
      /\ \A u \in Port!Printer \ {t} : left'[u] = left[u]
  BY <1>0, <1>1
<1>3. consoleLock' \in Caller \cup {None} /\ depth' \in Nat
  BY <1>0 DEF Port!Release
<1>4. PortTypeOK'
  BY <1>0, <1>2, <1>3 DEF Places
<1>5. OffInv'
  BY <1>0 DEF OffInv, Places, CallInv
<1>6. CallInv'
  <2>1. place'[t] \in {"lock", "print", "full", "poll"} => Len(left[t]) > 1 /\ place'[t] = "print"
    BY <1>0
  <2>2. place'[t] = "print" => left'[t] # <<>>
    BY <1>1, <1>2, <2>1
  <2>3. Len(left'[Handler]) <= 1
    <3>1. CASE t = Handler
      <4>1. Len(left'[t]) = Len(left[t]) - 1
        BY <1>1, <1>2
      <4>. QED BY <1>1, <3>1, <4>1 DEF CallInv
    <3>2. CASE t # Handler
      BY <1>2, <3>2 DEF CallInv
    <3>. QED BY <3>1, <3>2
  <2>. QED BY <1>0, <1>2, <2>1, <2>2, <2>3 DEF CallInv
<1>7. RoomInv'
  BY <1>0 DEF RoomInv, Port!Full
<1>8. IerInv'
  BY <1>0 DEF IerInv, Port!WriteIer, OffInv
<1>9. Port!LinesWhole'
  <2>1. SUFFICES ASSUME level = 0 PROVE Port!LinesWhole'
    BY <1>0 DEF Port!LinesWhole
  <2>2. CASE t = Handler
    BY <1>0, <1>2, <2>1, <2>2 DEF Port!LinesWhole, Port!Release
  <2>3. CASE t # Handler
    <3>1. consoleLock = t /\ depth = Len(left[t]) - 1
      BY <1>0, <2>1, <2>3 DEF Port!LinesWhole
    <3>2. CASE depth > 0
      <4>1. consoleLock' = t /\ depth' = depth - 1 /\ place'[t] = "print"
        BY <1>0, <1>1, <2>1, <2>3, <3>1, <3>2 DEF Port!Release
      <4>2. depth' = Len(left'[t]) - 1
        BY <1>1, <1>2, <3>1, <4>1
      <4>3. \A u \in Caller \ {t} : place'[u] = place[u] /\ place[u] \notin {"print", "full", "poll"}
        BY <1>0, <2>1, <2>3, <3>1 DEF Port!LinesWhole
      <4>. QED BY <2>3, <4>1, <4>2, <4>3 DEF Port!LinesWhole
    <3>3. CASE ~(depth > 0)
      <4>1. consoleLock' = None /\ depth' = 0 /\ place'[t] = "out"
        BY <1>0, <1>1, <2>1, <2>3, <3>1, <3>3 DEF Port!Release
      <4>2. \A u \in Caller \ {t} : place'[u] = place[u] /\ place[u] \notin {"print", "full", "poll"}
        BY <1>0, <2>1, <2>3, <3>1 DEF Port!LinesWhole
      <4>. QED BY <2>3, <4>1, <4>2 DEF Port!LinesWhole
    <3>. QED BY <3>2, <3>3
  <2>. QED BY <2>2, <2>3
<1>. QED BY <1>0, <1>4, <1>5, <1>6, <1>7, <1>8, <1>9, SentUnchanged

-------------------------------------------------------------------------------
(* Panics, the end, interrupts and the port.                                *)
LEMMA PanicConsoleInv ==
  ASSUME Port!ConsoleAssumption, ConsoleInv, NEW t \in Port!Printer, Port!Panic(t)
  PROVE  ConsoleInv'
<1>. USE DEF ConsoleInv, PortTypeOK, Port!MayRun, Port!Goto, Port!ConsoleAssumption, Port!Printer
<1>0. /\ place[t] \in {"out", "print", "flush"} /\ off \in {None, t} /\ (t = Handler => place[t] # "out")
      /\ (stage = "off" => t = Main) /\ level' = level + 1 /\ off' = t
      /\ place' = [place EXCEPT ![t] = "print"]
      /\ UNCHANGED <<stage, mode, consoleLock, depth, txq, rxq, ier, thr, rbr, put, wired>>
  BY DEF Port!Panic
<1>1. PICK s \in Seq(Nat) : s # <<>> /\ Len(s) = 1 /\ left' = [left EXCEPT ![t] = s]
  <2>1. /\ <<1>> \in Seq(Nat) /\ <<1>> # <<>> /\ Len(<<1>>) = 1
        /\ <<0>> \in Seq(Nat) /\ <<0>> # <<>> /\ Len(<<0>>) = 1
    OBVIOUS
  <2>2. left' = [left EXCEPT ![t] = <<1>>] \/ left' = [left EXCEPT ![t] = <<0>>]
    BY DEF Port!Panic
  <2>. QED BY <2>1, <2>2
<1>2. PortTypeOK'
  BY <1>0, <1>1 DEF Places
<1>3. OffInv'
  BY <1>0 DEF OffInv, Places
<1>4. CallInv'
  <2>1. left'[t] = s /\ \A u \in Port!Printer \ {t} : left'[u] = left[u]
    BY <1>1
  <2>2. Len(left'[Handler]) <= 1
    <3>1. CASE t = Handler
      <4>1. left'[Handler] = s
        BY <2>1, <3>1
      <4>2. Len(left'[Handler]) = 1
        BY <1>1, <4>1, Zenon
      <4>. QED BY <4>2
    <3>2. CASE t # Handler
      BY <2>1, <3>2 DEF CallInv
    <3>. QED BY <3>1, <3>2
  <2>. QED BY <1>0, <1>1, <2>1, <2>2 DEF CallInv
<1>5. RoomInv'
  BY <1>0 DEF RoomInv, Port!Full
<1>6. IerInv' /\ Port!LinesWhole'
  BY <1>0 DEF IerInv, Port!LinesWhole
<1>. QED BY <1>0, <1>2, <1>3, <1>4, <1>5, <1>6, SentUnchanged

LEMMA ShutdownConsoleInv ==
  ASSUME Port!ConsoleAssumption, ConsoleInv, NEW t \in Port!Printer, Port!Shutdown(t)
  PROVE  ConsoleInv'
<1>. USE DEF ConsoleInv, PortTypeOK, Port!Shutdown, Port!MayRun, Port!Goto, Port!printing,
             Port!ConsoleAssumption, Port!Printer
<1>1. PortTypeOK'
  BY DEF Places
<1>2. OffInv'
  BY DEF OffInv, Places
<1>3. CallInv'
  BY DEF CallInv
<1>4. RoomInv'
  BY DEF RoomInv, Port!Full
<1>5. IerInv'
  BY DEF IerInv
<1>6. Port!LinesWhole'
  BY DEF Port!LinesWhole
<1>. QED BY <1>1, <1>2, <1>3, <1>4, <1>5, <1>6, SentUnchanged

LEMMA PowerOffConsoleInv ==
  ASSUME Port!ConsoleAssumption, ConsoleInv, NEW t \in Port!Printer, Port!PowerOff(t)
  PROVE  ConsoleInv'
<1>. USE DEF ConsoleInv, PortTypeOK, Port!PowerOff, Port!MayRun, Port!Goto, Port!printing,
             Port!ConsoleAssumption, Port!Printer
<1>1. PortTypeOK'
  BY DEF Places
<1>2. OffInv'
  BY DEF OffInv, Places
<1>3. CallInv'
  BY DEF CallInv
<1>4. RoomInv'
  BY DEF RoomInv, Port!Full
<1>5. IerInv'
  <2>1. t \in Caller /\ place'[t] = "down"
    BY DEF OffInv
  <2>. QED BY <2>1 DEF IerInv
<1>6. Port!LinesWhole'
  BY DEF Port!LinesWhole
<1>. QED BY <1>1, <1>2, <1>3, <1>4, <1>5, <1>6, SentUnchanged

\* The oldest byte goes to the port, and whoever sleeps for room goes on.
ByteSent == txq # <<>> /\ thr = None /\ thr' = Head(txq) /\ txq' = Tail(txq) /\ Port!Signal

LEMMA ByteSentRight ==
  ASSUME Port!ConsoleAssumption, ConsoleInv, ByteSent, UNCHANGED <<Port!printing, mode, off, put, wired>>
  PROVE  /\ txq' \in Seq(Nat) /\ thr' \in Nat /\ place' \in [Port!Printer -> Places]
         /\ \A t \in Port!Printer : place'[t] = IF place[t] = "full" THEN "print" ELSE place[t]
         /\ OffInv' /\ CallInv' /\ Port!LinesWhole' /\ SentInv'
         /\ (\A t \in Port!Printer : place[t] # "poll") => RoomInv'
<1>. USE DEF ConsoleInv, PortTypeOK, Port!printing, Port!ConsoleAssumption, Port!Printer
<1>0. UNCHANGED <<stage, consoleLock, depth, level, left, put, mode, off, wired>>
  OBVIOUS
<1>1. txq' \in Seq(Nat) /\ thr' \in Nat
  BY Taken DEF ByteSent
<1>2. /\ place' \in [Port!Printer -> Places]
      /\ \A t \in Port!Printer : place'[t] = IF place[t] = "full" THEN "print" ELSE place[t]
  BY DEF ByteSent, Port!Signal, Places
<1>3. OffInv'
  BY <1>0, <1>2 DEF OffInv, Places
<1>4. CallInv'
  BY <1>0, <1>2 DEF CallInv, Places
<1>5. Port!LinesWhole'
  BY <1>0, <1>2 DEF Port!LinesWhole, Places
<1>6. SentInv'
  BY <1>0, SentTaken DEF ByteSent
<1>7. ASSUME \A t \in Port!Printer : place[t] # "poll" PROVE RoomInv'
  BY <1>0, <1>2, <1>7 DEF RoomInv, ByteSent
<1>. QED BY <1>1, <1>2, <1>3, <1>4, <1>5, <1>6, <1>7

LEMMA FlushConsoleInv ==
  ASSUME Port!ConsoleAssumption, ConsoleInv, NEW t \in Port!Printer, Port!Flush(t)
  PROVE  ConsoleInv'
<1>0. /\ place[t] = "flush" /\ UNCHANGED Port!printing
      /\ UNCHANGED <<stage, consoleLock, depth, level, left, put, mode, rxq, ier, rbr, wired>>
  BY DEF Port!Flush, Port!printing
<1>1. CASE Port!Flushed(t) /\ txq = <<>>
  <2>. USE DEF Port!Flushed, Port!Goto, ConsoleInv, PortTypeOK, Port!ConsoleAssumption, Port!Printer
  <2>1. PortTypeOK'
    BY <1>0, <1>1 DEF Places
  <2>2. OffInv'
    <3>1. off = t /\ \A u \in Port!Printer \ {t} : place'[u] = place[u]
      BY <1>0, <1>1 DEF OffInv
    <3>2. CASE level > 0
      <4>1. off' = off /\ place'[t] = "down"
        BY <1>1, <3>2
      <4>. QED BY <1>0, <3>1, <3>2, <4>1 DEF OffInv, Places
    <3>3. CASE ~(level > 0)
      <4>1. off' = None /\ place'[t] = "cut" /\ t # Handler
        BY <1>0, <1>1, <3>3 DEF OffInv
      <4>2. \A u \in Port!Printer \ {t} : place[u] \notin {"poll", "flush", "down"}
        BY <3>1 DEF OffInv
      <4>3. stage # "off" /\ off' \notin Port!Printer
        <5>1. level = 0
          BY <3>3
        <5>2. stage = "done"
          BY <1>0, <5>1 DEF OffInv
        <5>. QED BY <4>1, <5>2
      <4>4. \A u \in Port!Printer : place'[u] \notin {"poll", "flush", "down"}
        BY <3>1, <4>1, <4>2
      <4>5. place'[Handler] = "out" /\ place[Handler] = "out"
        BY <3>1, <4>1 DEF OffInv
      <4>6. level' = 0 /\ stage' = stage
        BY <1>0, <3>3
      <4>. QED BY <4>3, <4>4, <4>5, <4>6 DEF OffInv
    <3>. QED BY <3>2, <3>3
  <2>3. CallInv'
    BY <1>0, <1>1 DEF CallInv
  <2>4. RoomInv'
    BY <1>0, <1>1 DEF RoomInv, Port!Full
  <2>5. IerInv'
    <3>1. level = 0 => t \in Caller /\ place'[t] = "cut"
      BY <1>0, <1>1 DEF OffInv
    <3>. QED BY <1>0, <1>1, <3>1 DEF IerInv
  <2>6. Port!LinesWhole'
    BY <1>0, <1>1 DEF Port!LinesWhole
  <2>. QED BY <1>0, <1>1, <2>1, <2>2, <2>3, <2>4, <2>5, <2>6, SentUnchanged
<1>2. CASE ByteSent /\ off' = off
  <2>1. /\ txq' \in Seq(Nat) /\ thr' \in Nat /\ place' \in [Port!Printer -> Places]
        /\ \A u \in Port!Printer : place'[u] = IF place[u] = "full" THEN "print" ELSE place[u]
        /\ OffInv' /\ CallInv' /\ Port!LinesWhole' /\ SentInv'
        /\ (\A u \in Port!Printer : place[u] # "poll") => RoomInv'
    BY <1>0, <1>2, ByteSentRight DEF Port!printing
  <2>. USE DEF ConsoleInv, PortTypeOK, Port!ConsoleAssumption
  <2>2. \A u \in Port!Printer : place[u] # "poll"
    BY <1>0 DEF OffInv
  <2>3. PortTypeOK'
    BY <1>0, <1>2, <2>1
  <2>4. IerInv'
    <3>1. level = 0 => t \in Caller /\ place'[t] = "flush"
      <4>1. t # Handler => t \in Caller
        BY DEF Port!Printer
      <4>2. level = 0 => t # Handler
        BY <1>0 DEF OffInv
      <4>3. place'[t] = "flush"
        BY <1>0, <2>1
      <4>. QED BY <4>1, <4>2, <4>3
    <3>2. UNCHANGED <<stage, level, ier, rxq>>
      BY <1>0
    <3>3. stage = "done" /\ level = 0 => ("recv" \in ier <=> rxq < RxSize) /\ "xmit" \in ier
      BY <1>2 DEF IerInv, ByteSent
    <3>. QED BY <3>1, <3>2, <3>3 DEF IerInv
  <2>. QED BY <2>1, <2>2, <2>3, <2>4
<1>. QED BY <1>1, <1>2 DEF Port!Flush, ByteSent, Port!Goto

LEMMA SerialConsoleInv == ASSUME Port!ConsoleAssumption, ConsoleInv, Port!SerialInterrupt PROVE ConsoleInv'
<1>0. /\ off = None /\ ier' = Port!WriteIer(txq', rxq') /\ rxq' \in 0..RxSize
      /\ UNCHANGED <<stage, consoleLock, depth, level, left, put, mode, off, wired>>
  <2>1. rxq \in 0..RxSize /\ RxSize \in Nat
    BY DEF ConsoleInv, PortTypeOK, Port!ConsoleAssumption
  <2>. QED BY <2>1 DEF Port!SerialInterrupt, Port!printing
<1>1. ByteSent \/ UNCHANGED <<thr, txq, place>>
  BY DEF Port!SerialInterrupt, ByteSent
<1>2. \A u \in Port!Printer : place[u] \notin {"poll", "flush", "down"}
  BY <1>0 DEF ConsoleInv, OffInv, Port!ConsoleAssumption, Port!Printer
<1>3. /\ txq' \in Seq(Nat) /\ thr' \in Nat \cup {None} /\ place' \in [Port!Printer -> Places]
      /\ OffInv' /\ CallInv' /\ Port!LinesWhole' /\ SentInv' /\ RoomInv'
  <2>1. CASE ByteSent
    BY <1>0, <1>2, <2>1, ByteSentRight DEF Port!printing
  <2>2. CASE UNCHANGED <<thr, txq, place>>
    <3>. USE <1>0, <2>2 DEF ConsoleInv
    <3>1. txq' \in Seq(Nat) /\ thr' \in Nat \cup {None} /\ place' \in [Port!Printer -> Places]
      BY DEF PortTypeOK
    <3>2. OffInv' /\ CallInv'
      BY DEF OffInv, CallInv
    <3>3. Port!LinesWhole' /\ RoomInv'
      BY DEF Port!LinesWhole, RoomInv, Port!Full
    <3>. QED BY <3>1, <3>2, <3>3, SentUnchanged
  <2>. QED BY <1>1, <2>1, <2>2
<1>4. PortTypeOK'
  BY <1>0, <1>3, WriteIerType DEF ConsoleInv, PortTypeOK
<1>5. IerInv'
  BY <1>0 DEF IerInv, Port!WriteIer
<1>. QED BY <1>3, <1>4, <1>5 DEF ConsoleInv

\* A key comes or goes; the port sends its byte, or receives one.
LEMMA PortConsoleInv ==
  ASSUME Port!ConsoleAssumption, ConsoleInv, Port!Key \/ Port!GetKey \/ Port!Transmit \/ Port!Receive
  PROVE  ConsoleInv'
<1>0. UNCHANGED <<stage, consoleLock, depth, level, left, put, mode, off, place, txq>>
  BY DEF Port!Key, Port!GetKey, Port!Transmit, Port!Receive, Port!printing
<1>1. OffInv' /\ CallInv'
  BY <1>0 DEF ConsoleInv, OffInv, CallInv
<1>2. Port!LinesWhole' /\ RoomInv'
  BY <1>0 DEF ConsoleInv, Port!LinesWhole, RoomInv, Port!Full
<1>3. CASE Port!Key \/ Port!GetKey
  <2>. USE <1>0, <1>3 DEF ConsoleInv, Port!Key, Port!GetKey, Port!Notify
  <2>1. rxq' \in 0..RxSize
    BY DEF PortTypeOK, Port!ConsoleAssumption
  <2>2. PortTypeOK'
    BY <2>1, WriteIerType DEF PortTypeOK
  <2>3. IerInv'
    BY DEF IerInv, Port!WriteIer, RoomInv
  <2>. QED BY <1>1, <1>2, <2>2, <2>3, SentUnchanged
<1>4. CASE Port!Transmit
  <2>. USE <1>0, <1>4 DEF ConsoleInv, Port!Transmit
  <2>1. Held = 1 /\ Held' = 0 /\ thr = wired + 1 /\ thr' = None /\ wired' = wired + 1
    BY DEF Held, SentInv
  <2>2. SentInv'
    BY <2>1 DEF SentInv, PortTypeOK
  <2>3. PortTypeOK'
    BY <2>1 DEF PortTypeOK
  <2>4. IerInv'
    BY DEF IerInv, Port!WriteIer
  <2>. QED BY <1>1, <1>2, <2>2, <2>3, <2>4
<1>5. CASE Port!Receive
  <2>. USE <1>0, <1>5 DEF ConsoleInv, Port!Receive
  <2>1. PortTypeOK'
    BY DEF PortTypeOK
  <2>2. IerInv'
    BY DEF IerInv, Port!WriteIer
  <2>. QED BY <1>1, <1>2, <2>1, <2>2, SentUnchanged
<1>. QED BY <1>3, <1>4, <1>5

LEMMA NextConsoleInv == ASSUME Port!ConsoleAssumption, ConsoleInv, [Port!Next]_(Port!vars) PROVE ConsoleInv'
<1>1. CASE UNCHANGED Port!vars
  <2>. USE <1>1 DEF ConsoleInv, Port!vars
  <2>1. PortTypeOK' /\ OffInv' /\ CallInv'
    BY DEF PortTypeOK, OffInv, CallInv
  <2>2. RoomInv' /\ Port!LinesWhole' /\ IerInv'
    BY DEF RoomInv, Port!Full, Port!LinesWhole, IerInv, Port!WriteIer
  <2>. QED BY <2>1, <2>2, SentUnchanged
<1>2. ASSUME NEW t \in Port!Printer, Port!Goes(t) \/ Port!Panic(t) PROVE ConsoleInv'
  BY <1>2, AcquireConsoleInv, PutcConsoleInv, PolledConsoleInv, ReturnConsoleInv, FlushConsoleInv,
     PowerOffConsoleInv, PanicConsoleInv DEF Port!Goes
<1>3. ASSUME NEW t \in Caller, Port!Nest(t) \/ Port!Shutdown(t) \/ \E n \in 1..MaxLine : Port!Call(t, n)
      PROVE ConsoleInv'
  <2>1. t \in Port!Printer /\ \A n \in 1..MaxLine : n \in Nat
    BY DEF Port!Printer
  <2>. QED BY <1>3, <2>1, NestConsoleInv, ShutdownConsoleInv, CallConsoleInv
<1>4. CASE Port!Call(Handler, 1)
  BY <1>4, CallConsoleInv DEF Port!Printer
<1>. QED BY <1>1, <1>2, <1>3, <1>4, BootConsoleInv, SerialConsoleInv, PortConsoleInv DEF Port!Next

-------------------------------------------------------------------------------
\* The bytes in the port and in the queue, as OutputInOrder writes them.
LEMMA InOrder == ASSUME Port!ConsoleAssumption, PortTypeOK, SentInv PROVE Port!OutputInOrder
<1>. USE DEF PortTypeOK
<1>1. PICK h : h = IF thr = None THEN <<>> ELSE <<thr>>
  OBVIOUS
<1>2. h \in Seq(Nat) /\ Len(h) = Held /\ \A i \in 1..Held : h[i] = wired + i
  BY <1>1 DEF Held, SentInv
<1>3. PICK all : all = h \o txq
  OBVIOUS
<1>4. /\ all \in Seq(Nat) /\ Len(all) = Held + Len(txq)
      /\ \A i \in 1..Held + Len(txq) : all[i] = IF i <= Held THEN h[i] ELSE txq[i - Held]
  BY <1>2, <1>3, ConcatProperties
<1>5. Len(txq) \in Nat /\ Held \in Nat /\ Len(all) = put - wired
  BY <1>4 DEF Held, SentInv
<1>6. ASSUME NEW i \in 1..put - wired PROVE all[i] = wired + i
  <2>1. CASE i <= Held
    BY <1>2, <1>4, <1>5, <2>1
  <2>2. CASE ~(i <= Held)
    <3>1. i - Held \in 1..Len(txq)
      BY <1>4, <1>5, <2>2
    <3>2. txq[i - Held] = wired + Held + (i - Held)
      BY <3>1 DEF SentInv
    <3>. QED BY <1>4, <1>5, <2>2, <3>2
  <2>. QED BY <2>1, <2>2
<1>7. all = [i \in 1..put - wired |-> wired + i]
  BY <1>4, <1>5, <1>6
<1>. QED BY <1>1, <1>3, <1>7 DEF Port!OutputInOrder

\* Bytes leave in the order they were printed, none lost and none twice; the
\* interrupts that are on are those there is work for; a line is not broken
\* by another thread's; and nobody sleeps for room there is.
THEOREM ConsoleIsRight == Port!ConsoleAssumption => (Port!Spec => []Port!Safe)
<1>1. SUFFICES ASSUME Port!ConsoleAssumption PROVE Port!Spec => []Port!Safe
  OBVIOUS
<1>2. Port!Init => ConsoleInv
  BY <1>1, InitConsoleInv
<1>3. ConsoleInv /\ [Port!Next]_(Port!vars) => ConsoleInv'
  BY <1>1, NextConsoleInv
<1>4. ConsoleInv => Port!Safe
  <2>1. SUFFICES ASSUME ConsoleInv PROVE Port!Safe
    OBVIOUS
  <2>. USE <1>1, <2>1 DEF ConsoleInv
  <2>2. Port!OutputInOrder
    BY InOrder
  <2>3. ASSUME off = None PROVE level = 0 /\ \A t \in Caller : place[t] \notin {"flush", "down"}
    BY <2>3 DEF OffInv, PortTypeOK, Port!ConsoleAssumption, Port!Printer
  <2>4. Port!IerExact
    BY <2>3 DEF Port!IerExact, IerInv
  <2>5. Port!NoSleepWithRoom
    BY DEF Port!NoSleepWithRoom, RoomInv, Port!Printer
  <2>. QED BY <2>2, <2>4, <2>5 DEF Port!Safe
<1>. QED BY <1>2, <1>3, <1>4, PTL DEF Port!Spec
===============================================================================
