------------------------------ MODULE LockProofs ------------------------------
(* Theorems about Lock, for any set of threads.                             *)
EXTENDS Lock, TLAPS

\* What the properties rest on: sleepers are listed as such, and the lists say
\* nothing false.
WaitersInv == \A i \in 1..Len(waiters) : pc[waiters[i]] = "waiting"

\* Sleeping threads are on the list once, so waking one leaves the others.
WaitersOnce == \A i, j \in 1..Len(waiters) : waiters[i] = waiters[j] => i = j

IInv == TypeOK /\ MutualExclusion /\ HolderAccurate /\ WaitersInv /\ WaitersOnce /\ NoLostWakeup

LEMMA InitIInv == Init => IInv
BY ThreadAssumption
DEF Init, IInv, TypeOK, MutualExclusion, HolderAccurate, WaitersInv, WaitersOnce, NoLostWakeup,
    Owners, Label

LEMMA DownIInv == ASSUME IInv, NEW t \in Thread, Down(t) PROVE IInv'
<1>. USE DEF IInv, TypeOK, Goto, Label
<1>1. CASE value = 0
  <2>1. /\ waiters' = Append(waiters, t) /\ pc' = [pc EXCEPT ![t] = "waiting"]
        /\ UNCHANGED <<value, holder>> /\ pc[t] \in {"out", "woken"}
    BY <1>1 DEF Down
  <2>2. TypeOK'
    BY <2>1
  <2>3. MutualExclusion' /\ Owners' = Owners
    BY <2>1 DEF MutualExclusion, Owners
  <2>4. HolderAccurate'
    BY <2>1 DEF HolderAccurate
  <2>5. /\ Len(waiters') = Len(waiters) + 1 /\ waiters'[Len(waiters) + 1] = t
        /\ \A i \in 1..Len(waiters) : waiters'[i] = waiters[i]
    BY <2>1
  <2>6. WaitersInv'
    BY <2>1, <2>5 DEF WaitersInv
  <2>7. WaitersOnce'
    <3>1. \A i \in 1..Len(waiters) : waiters[i] # t
      BY <2>1 DEF WaitersInv
    <3>. QED BY <2>5, <3>1 DEF WaitersOnce
  <2>8. NoLostWakeup'
    BY <1>1, <2>3 DEF NoLostWakeup, MutualExclusion
  <2>. QED BY <2>2, <2>3, <2>4, <2>6, <2>7, <2>8
<1>2. CASE value # 0
  <2>1. /\ value' = value - 1 /\ pc' = [pc EXCEPT ![t] = "got"]
        /\ UNCHANGED <<waiters, holder>> /\ pc[t] \in {"out", "woken"}
    BY <1>2 DEF Down
  <2>2. value = 1 /\ Owners = {}
    BY <1>2 DEF MutualExclusion
  <2>3. Owners' = {t} /\ value' = 0
    BY <2>1, <2>2 DEF Owners
  <2>. QED BY <2>1, <2>3 DEF MutualExclusion, HolderAccurate, WaitersInv, WaitersOnce, NoLostWakeup
<1>. QED BY <1>1, <1>2

LEMMA TryDownIInv == ASSUME IInv, NEW t \in Thread, TryDown(t) PROVE IInv'
<1>. USE DEF IInv, TypeOK, Goto, Label, TryDown
<1>1. value = 1 /\ Owners = {}
  BY DEF MutualExclusion
<1>2. Owners' = {t} /\ value' = 0
  BY <1>1 DEF Owners
<1>. QED BY <1>2 DEF MutualExclusion, HolderAccurate, WaitersInv, WaitersOnce, NoLostWakeup

LEMMA HolderIInv == ASSUME IInv, NEW t \in Thread, SetHolder(t) \/ ClearHolder(t) PROVE IInv'
<1>. USE DEF IInv, TypeOK, Goto, Label
<1>1. t \in Owners /\ \A u \in Thread : pc[u] = "in" => u = t
  BY DEF SetHolder, ClearHolder, Owners, MutualExclusion
<1>2. Owners' = Owners /\ UNCHANGED <<value, waiters>>
  BY DEF SetHolder, ClearHolder, Owners
<1>3. HolderAccurate'
  BY <1>1, ThreadAssumption DEF SetHolder, ClearHolder, HolderAccurate
<1>4. TypeOK' /\ WaitersInv' /\ \A u \in Thread : pc'[u] = "woken" <=> pc[u] = "woken"
  BY <1>2 DEF SetHolder, ClearHolder, WaitersInv
<1>. QED BY <1>1, <1>2, <1>3, <1>4 DEF MutualExclusion, WaitersOnce, NoLostWakeup

LEMMA UpIInv == ASSUME IInv, NEW t \in Thread, Up(t) PROVE IInv'
<1>. USE DEF IInv, TypeOK, Goto, Label
<1>1. Owners = {t} /\ value = 0 /\ pc[t] = "releasing" /\ value' = 1 /\ holder' = holder
  BY DEF Up, Owners, MutualExclusion
<1>2. CASE waiters = <<>>
  <2>1. pc' = [pc EXCEPT ![t] = "out"] /\ waiters' = waiters
    BY <1>2 DEF Up
  <2>2. Owners' = {}
    BY <1>1, <2>1 DEF Owners
  <2>. QED BY <1>1, <1>2, <2>1, <2>2
       DEF MutualExclusion, HolderAccurate, WaitersInv, WaitersOnce, NoLostWakeup
<1>3. CASE waiters # <<>>
  <2>. DEFINE h == Head(waiters)
  <2>1. /\ h \in Thread /\ h = waiters[1] /\ 1 \in 1..Len(waiters) /\ waiters' = Tail(waiters)
        /\ waiters' \in Seq(Thread)
        /\ pc' = [pc EXCEPT ![t] = "out", ![h] = "woken"]
    BY <1>3 DEF Up
  <2>2. \A i \in 1..Len(waiters') : i + 1 \in 1..Len(waiters) /\ waiters'[i] = waiters[i + 1]
    BY <1>3, <2>1
  <2>3. pc[h] = "waiting" /\ h # t
    BY <1>1, <2>1 DEF WaitersInv
  <2>. HIDE DEF h
  <2>4. Owners' = {} /\ pc'[h] = "woken"
    BY <1>1, <2>1, <2>3 DEF Owners
  <2>5. WaitersInv'
    <3>1. \A i \in 1..Len(waiters') : waiters'[i] \in Thread /\ waiters'[i] # h /\ waiters'[i] # t
      BY <1>1, <2>1, <2>2 DEF WaitersInv, WaitersOnce
    <3>. QED BY <2>1, <2>2, <3>1 DEF WaitersInv
  <2>6. WaitersOnce'
    BY <2>2 DEF WaitersOnce
  <2>7. HolderAccurate'
    BY <1>1, <2>1, <2>3 DEF HolderAccurate
  <2>. QED BY <1>1, <2>1, <2>4, <2>5, <2>6, <2>7 DEF MutualExclusion, NoLostWakeup
<1>. QED BY <1>2, <1>3

LEMMA NextIInv == IInv /\ [Next]_vars => IInv'
<1>1. SUFFICES ASSUME IInv, [Next]_vars PROVE IInv'
  OBVIOUS
<1>2. ASSUME NEW t \in Thread, Step(t) \/ TryDown(t) PROVE IInv'
  BY <1>1, <1>2, DownIInv, TryDownIInv, HolderIInv, UpIInv DEF Step
<1>3. CASE UNCHANGED vars
  BY <1>1, <1>3
  DEF vars, IInv, TypeOK, MutualExclusion, HolderAccurate, WaitersInv, WaitersOnce, NoLostWakeup, Owners
<1>. QED BY <1>1, <1>2, <1>3 DEF Next

LEMMA Invariant == Spec => []IInv
BY InitIInv, NextIInv, PTL DEF Spec

(* A lock is held by at most one thread at any given time (synch.c), and   *)
(* its semaphore's value tells whether it is held.                         *)
THEOREM LockExcludes == Spec => []MutualExclusion
<1>1. IInv => MutualExclusion
  BY DEF IInv
<1>. QED BY <1>1, Invariant, PTL

\* lock_held_by_current_thread is exact for the thread that asks.
THEOREM HolderIsAccurate == Spec => []HolderAccurate
<1>1. IInv => HolderAccurate
  BY DEF IInv
<1>. QED BY <1>1, Invariant, PTL

\* lock_release never leaves sleepers behind a free lock.
THEOREM WakeupsArrive == Spec => []NoLostWakeup
<1>1. IInv => NoLostWakeup
  BY DEF IInv
<1>. QED BY <1>1, Invariant, PTL

\* lock_acquire and lock_release keep all three.
THEOREM LockIsExact == Spec => []LockExact
<1>1. IInv => LockExact
  BY DEF IInv, LockExact
<1>. QED BY <1>1, Invariant, PTL

-----------------------------------------------------------------------------
\* The owner the abstract lock sees is the one thread inside.
LEMMA OwnerIs ==
  ASSUME IInv
  PROVE  /\ Owners = {} => Owner = NoThread
         /\ \A t \in Owners : Owner = t
BY DEF IInv, MutualExclusion, Owner, Owners

LEMMA StepRefines ==
  ASSUME IInv, IInv', NEW t \in Thread, Step(t) \/ TryDown(t)
  PROVE  [Abstract!Next]_<<Owner, Wanting>>
<1>. USE DEF Goto
<1>0. pc \in [Thread -> Label] /\ waiters \in Seq(Thread)
  BY DEF IInv, TypeOK
<1>1. CASE Down(t) /\ value = 0
  <2>1. pc' = [pc EXCEPT ![t] = "waiting"] /\ pc[t] \in {"out", "woken"}
    BY <1>1 DEF Down
  <2>2. Owners' = Owners /\ Wanting' = Wanting \cup {t}
    BY <1>0, <2>1 DEF Owners, Wanting
  <2>3. Owner' = Owner /\ Owner # t
    BY <2>1, <2>2, ThreadAssumption, OwnerIs DEF Owner, Owners
  <2>4. CASE pc[t] = "woken"
    BY <2>2, <2>3, <2>4 DEF Wanting
  <2>5. CASE pc[t] = "out"
    <3>1. t \notin Wanting
      BY <2>5 DEF Wanting
    <3>. QED BY <2>2, <2>3, <3>1 DEF Abstract!Next, Abstract!Ask
  <2>. QED BY <2>1, <2>4, <2>5
<1>2. CASE (Down(t) /\ value # 0) \/ TryDown(t)
  <2>1. pc' = [pc EXCEPT ![t] = "got"] /\ value # 0
    BY <1>2 DEF Down, TryDown, IInv, TypeOK
  <2>2. Owners = {} /\ Owners' = {t} /\ Wanting' = Wanting \ {t}
    BY <1>0, <2>1 DEF IInv, MutualExclusion, Owners, Wanting
  <2>3. Owner = NoThread /\ Owner' = t
    BY <2>2, OwnerIs DEF Owner, Owners
  <2>. QED BY <2>2, <2>3 DEF Abstract!Next, Abstract!Take
<1>3. CASE SetHolder(t) \/ ClearHolder(t)
  <2>1. Owners' = Owners /\ Wanting' = Wanting
    BY <1>0, <1>3 DEF SetHolder, ClearHolder, Owners, Wanting
  <2>. QED BY <2>1 DEF Owner
<1>4. CASE Up(t)
  <2>1. Owners = {t}
    BY <1>4 DEF Up, IInv, MutualExclusion, Owners
  <2>2. Owners' = {}
    BY <1>0, <1>4, <2>1 DEF Up, Owners
  <2>3. Wanting' = Wanting
    <3>1. CASE waiters = <<>>
      BY <1>0, <1>4, <3>1 DEF Up, Wanting
    <3>2. CASE waiters # <<>>
      <4>1. Head(waiters) \in Thread /\ pc[Head(waiters)] = "waiting"
        BY <1>0, <3>2 DEF IInv, WaitersInv
      <4>. QED BY <1>0, <1>4, <3>2, <4>1 DEF Up, Wanting
    <3>. QED BY <3>1, <3>2
  <2>4. Owner = t /\ Owner' = NoThread
    BY <2>1, <2>2, OwnerIs DEF Owner
  <2>. QED BY <2>3, <2>4 DEF Abstract!Next, Abstract!Give
<1>. QED BY <1>1, <1>2, <1>3, <1>4 DEF Step

(* The semaphore-with-holder implements the lock of AbstractLock: every    *)
(* behaviour of lock_acquire, lock_try_acquire and lock_release is one of  *)
(* asking for, taking and giving back an exclusive lock.                   *)
THEOREM LockImplementsAbstractLock == Spec => Abstract!SafeSpec
<1>1. Init => Abstract!Init
  BY DEF Init, Abstract!Init, Owner, Owners, Wanting
<1>2. IInv /\ IInv' /\ [Next]_vars => [Abstract!Next]_<<Owner, Wanting>>
  <2>1. CASE UNCHANGED vars
    BY <2>1 DEF vars, Owner, Owners, Wanting
  <2>. QED BY <2>1, StepRefines DEF Next
<1>. QED BY <1>1, <1>2, Invariant, PTL DEF Spec, Abstract!SafeSpec
=============================================================================
