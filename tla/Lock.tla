--------------------------------- MODULE Lock ---------------------------------
(***************************************************************************)
(* struct lock of threads/synch.c: a semaphore of value 1 and a holder.    *)
(* The semaphore's operations are atomic (interrupts off); lock_acquire    *)
(* and lock_release touch the holder with interrupts on, so any number of  *)
(* other threads may run between the two halves of either.  Threads        *)
(* interleave freely: the timer can preempt wherever interrupts are on.    *)
(***************************************************************************)
EXTENDS Naturals, Sequences, FiniteSets

CONSTANTS Thread, NoThread
ASSUME ThreadAssumption == NoThread \notin Thread

VARIABLES
  value,    \* lock->semaphore.value
  waiters,  \* lock->semaphore.waiters
  holder,   \* lock->holder
  pc

vars == <<value, waiters, holder, pc>>

\* lock_init.
Init ==
  /\ value = 1 /\ waiters = <<>> /\ holder = NoThread
  /\ pc = [t \in Thread |-> "out"]

Goto(t, l) == pc' = [pc EXCEPT ![t] = l]

\* lock_acquire's sema_down: called, or resumed after a wake-up.
Down(t) ==
  /\ pc[t] \in {"out", "woken"}
  /\ IF value = 0
     THEN waiters' = Append(waiters, t) /\ Goto(t, "waiting") /\ UNCHANGED value
     ELSE value' = value - 1 /\ Goto(t, "got") /\ UNCHANGED waiters
  /\ UNCHANGED holder

\* Mutant: sema_try_down that succeeds whatever the value.
TryDownAlways(t) ==
  /\ pc[t] = "out"
  /\ value' = value - 1
  /\ Goto(t, "got")
  /\ UNCHANGED <<waiters, holder>>

\* lock_try_acquire's sema_try_down; a failure changes nothing.
TryDown(t) ==
  /\ pc[t] = "out" /\ value > 0
  /\ value' = value - 1
  /\ Goto(t, "got")
  /\ UNCHANGED <<waiters, holder>>

SetHolder(t) ==
  /\ pc[t] = "got"
  /\ holder' = t
  /\ Goto(t, "in")
  /\ UNCHANGED <<value, waiters>>

\* Mutant: lock_release that leaves the holder as it is.
ClearHolderForgotten(t) ==
  /\ pc[t] = "in"
  /\ Goto(t, "releasing")
  /\ UNCHANGED <<value, waiters, holder>>

\* lock_release: first the holder, then the semaphore.
ClearHolder(t) ==
  /\ pc[t] = "in"
  /\ holder' = NoThread
  /\ Goto(t, "releasing")
  /\ UNCHANGED <<value, waiters>>

\* Mutant: a sema_up that wakes nobody.
UpSilent(t) ==
  /\ pc[t] = "releasing"
  /\ value' = value + 1
  /\ Goto(t, "out")
  /\ UNCHANGED <<waiters, holder>>

Up(t) ==
  /\ pc[t] = "releasing"
  /\ value' = value + 1
  /\ IF waiters = <<>>
     THEN Goto(t, "out") /\ UNCHANGED waiters
     ELSE /\ pc' = [pc EXCEPT ![t] = "out", ![Head(waiters)] = "woken"]
          /\ waiters' = Tail(waiters)
  /\ UNCHANGED holder

Step(t) == Down(t) \/ SetHolder(t) \/ ClearHolder(t) \/ Up(t)
Next == \E t \in Thread : Step(t) \/ TryDown(t)

Spec == Init /\ [][Next]_vars

(* Round robin gives every ready thread the CPU again and again, and code  *)
(* that holds a lock gets to release it; nobody is obliged to acquire.     *)
Fairness ==
  \A t \in Thread : WF_vars(pc[t] # "out" /\ Step(t))
FairSpec == Spec /\ Fairness

-----------------------------------------------------------------------------
Label == {"out", "waiting", "woken", "got", "in", "releasing"}
Owners == {t \in Thread : pc[t] \in {"got", "in", "releasing"}}

TypeOK ==
  /\ value \in Nat /\ waiters \in Seq(Thread)
  /\ holder \in Thread \cup {NoThread}
  /\ pc \in [Thread -> Label]

\* At most one thread is between lock_acquire and lock_release, and the value
\* says whether there is one.
MutualExclusion ==
  /\ \A t, u \in Owners : t = u
  /\ value = IF Owners = {} THEN 1 ELSE 0

(* lock_held_by_current_thread answers a thread about itself without any   *)
(* lock: true from the return of lock_acquire to the call of lock_release, *)
(* false everywhere else, though the holder is written after the down and  *)
(* cleared before the up.                                                  *)
HolderAccurate == \A t \in Thread : holder = t <=> pc[t] = "in"

\* A free lock with sleepers has a woken thread on its way to it.
NoLostWakeup ==
  waiters # <<>> => Owners # {} \/ \E t \in Thread : pc[t] = "woken"

\* Exclusion, the holder and the sleepers are right at every instant.
LockExact == MutualExclusion /\ HolderAccurate /\ NoLostWakeup

\* The lock does what a lock promises, progress included.
Owner == IF Owners = {} THEN NoThread ELSE CHOOSE t \in Thread : t \in Owners
Wanting == {t \in Thread : pc[t] \in {"waiting", "woken"}}

Abstract == INSTANCE AbstractLock WITH owner <- Owner, wanting <- Wanting
ImplementsLock == Abstract!Spec
=============================================================================
