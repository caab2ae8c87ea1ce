-------------------------------- MODULE RwLock --------------------------------
(***************************************************************************)
(* rw_lock_acquire and rw_lock_release of threads/synch.c, with the        *)
(* condition variables they wait on.  The guard is a lock as AbstractLock  *)
(* describes it (module Lock shows that synch.c's locks are); every        *)
(* counter and queue is touched with the guard held, so what a holder does *)
(* between two lock operations is one step.                                *)
(***************************************************************************)
EXTENDS Integers, Sequences, FiniteSets

CONSTANTS Thread, NoThread
ASSUME ThreadAssumption == NoThread \notin Thread /\ IsFiniteSet(Thread)

VARIABLES
  guard,           \* rw_lock->lock: the thread that holds it
  AR, WR, AW, WW,  \* active and waiting readers, active and waiting writers
  readQ, writeQ,   \* rw_lock->read.waiters and rw_lock->write.waiters
  role,            \* the argument `reader'
  pc

counters == <<AR, WR, AW, WW>>
queues == <<readQ, writeQ>>
vars == <<guard, counters, queues, role, pc>>

\* rw_lock_init.
Init ==
  /\ guard = NoThread
  /\ AR = 0 /\ WR = 0 /\ AW = 0 /\ WW = 0
  /\ readQ = <<>> /\ writeQ = <<>>
  /\ role = [t \in Thread |-> "reader"]
  /\ pc = [t \in Thread |-> "out"]

Goto(t, l) == pc' = [pc EXCEPT ![t] = l]

\* A thread calls rw_lock_acquire, or rw_lock_release.
Arrive(t, r) ==
  /\ pc[t] = "out"
  /\ role' = [role EXCEPT ![t] = r]
  /\ Goto(t, "entering")
  /\ UNCHANGED <<guard, counters, queues>>

Leave(t) ==
  /\ pc[t] = "in"
  /\ Goto(t, "leaving")
  /\ UNCHANGED <<guard, counters, queues, role>>

\* lock_acquire of the guard: on entry, in cond_wait after a signal, on exit.
Locked(l) == CASE l = "entering" -> "deciding"
               [] l = "signaled" -> "rechecking"
               [] l = "leaving"  -> "releasing"

LockGuard(t) ==
  /\ pc[t] \in {"entering", "signaled", "leaving"}
  /\ guard = NoThread
  /\ guard' = t
  /\ Goto(t, Locked(pc[t]))
  /\ UNCHANGED <<counters, queues, role>>

\* One turn of the waiting loop is about to test its condition.
Testing(t, r) == pc[t] \in {"deciding", "rechecking"} /\ role[t] = r

\* Mutant: the decrement after cond_wait forgotten.
RecheckNever(t) == 0

\* WR-- or WW-- after cond_wait, and ++ again before the next one.
Recheck(t) == IF pc[t] = "rechecking" THEN 1 ELSE 0

\* Mutants: readers that pass waiting writers, writers that join active readers.
ReaderMustWaitActive == AW > 0
WriterMustWaitWriters == AW > 0

ReaderMustWait == AW + WW > 0
WriterMustWait == AR + AW > 0

(* cond_wait: the thread is on the condition's queue from before it lets   *)
(* go of the guard until a signal takes it off; whether it already sleeps  *)
(* on its own semaphore when the signal comes makes no difference.         *)
ReaderWaits(t) ==
  /\ Testing(t, "reader") /\ ReaderMustWait
  /\ WR' = WR - Recheck(t) + 1
  /\ readQ' = Append(readQ, t)
  /\ guard' = NoThread
  /\ Goto(t, "waiting")
  /\ UNCHANGED <<AR, AW, WW, writeQ, role>>

ReaderEnters(t) ==
  /\ Testing(t, "reader") /\ ~ReaderMustWait
  /\ WR' = WR - Recheck(t)
  /\ AR' = AR + 1
  /\ guard' = NoThread
  /\ Goto(t, "in")
  /\ UNCHANGED <<AW, WW, queues, role>>

WriterWaits(t) ==
  /\ Testing(t, "writer") /\ WriterMustWait
  /\ WW' = WW - Recheck(t) + 1
  /\ writeQ' = Append(writeQ, t)
  /\ guard' = NoThread
  /\ Goto(t, "waiting")
  /\ UNCHANGED <<AR, AW, WR, readQ, role>>

WriterEnters(t) ==
  /\ Testing(t, "writer") /\ ~WriterMustWait
  /\ WW' = WW - Recheck(t)
  /\ AW' = AW + 1
  /\ guard' = NoThread
  /\ Goto(t, "in")
  /\ UNCHANGED <<AR, WR, queues, role>>

\* cond_signal on a queue: its first thread, if any, may go on; cond_broadcast: all.
Signaled(q) == IF q = <<>> THEN {} ELSE {Head(q)}
Popped(q) == IF q = <<>> THEN q ELSE Tail(q)
Members(q) == {q[i] : i \in 1..Len(q)}

\* lock_release of the guard by t, with the threads in woken signaled.
UnlockOut(t, woken) ==
  /\ guard' = NoThread
  /\ pc' = [u \in Thread |-> IF u = t THEN "out"
                             ELSE IF u \in woken THEN "signaled" ELSE pc[u]]

\* Mutant: looks for the last reader before counting itself out.
ReaderLeavesTooEarly(t) ==
  /\ pc[t] = "releasing" /\ role[t] = "reader"
  /\ AR' = AR - 1
  /\ IF AR = 0 /\ WW > 0
     THEN UnlockOut(t, Signaled(writeQ)) /\ writeQ' = Popped(writeQ)
     ELSE UnlockOut(t, {}) /\ UNCHANGED writeQ
  /\ UNCHANGED <<WR, AW, WW, readQ, role>>

ReaderLeaves(t) ==
  /\ pc[t] = "releasing" /\ role[t] = "reader"
  /\ AR' = AR - 1
  /\ IF AR' = 0 /\ WW > 0
     THEN UnlockOut(t, Signaled(writeQ)) /\ writeQ' = Popped(writeQ)
     ELSE UnlockOut(t, {}) /\ UNCHANGED writeQ
  /\ UNCHANGED <<WR, AW, WW, readQ, role>>

\* Mutant: cond_signal instead of cond_broadcast for the readers.
WriterLeavesSignaling(t) ==
  /\ pc[t] = "releasing" /\ role[t] = "writer"
  /\ AW' = AW - 1
  /\ IF WW > 0
     THEN UnlockOut(t, Signaled(writeQ)) /\ writeQ' = Popped(writeQ) /\ UNCHANGED readQ
     ELSE UnlockOut(t, Signaled(readQ)) /\ readQ' = Popped(readQ) /\ UNCHANGED writeQ
  /\ UNCHANGED <<AR, WR, WW, role>>

WriterLeaves(t) ==
  /\ pc[t] = "releasing" /\ role[t] = "writer"
  /\ AW' = AW - 1
  /\ \/ /\ WW > 0
        /\ UnlockOut(t, Signaled(writeQ)) /\ writeQ' = Popped(writeQ)
        /\ UNCHANGED readQ
     \/ /\ WW = 0 /\ WR > 0
        /\ UnlockOut(t, Members(readQ)) /\ readQ' = <<>>
        /\ UNCHANGED writeQ
     \/ /\ WW = 0 /\ WR = 0
        /\ UnlockOut(t, {})
        /\ UNCHANGED queues
  /\ UNCHANGED <<AR, WR, WW, role>>

Guarded(t) ==
  \/ ReaderWaits(t) \/ ReaderEnters(t) \/ ReaderLeaves(t)
  \/ WriterWaits(t) \/ WriterEnters(t) \/ WriterLeaves(t)

Arrivals == \E t \in Thread : \E r \in {"reader", "writer"} : Arrive(t, r)
Next == Arrivals \/ \E t \in Thread : Leave(t) \/ LockGuard(t) \/ Guarded(t)

Spec == Init /\ [][Next]_vars

(* A lock that is free is given to somebody who asks, its holder gets the  *)
(* CPU, and a thread that got in leaves again.  Nobody has to come, and no *)
(* particular thread is ever preferred.                                    *)
FairSpec ==
  /\ Spec
  /\ WF_vars(\E t \in Thread : LockGuard(t))
  /\ WF_vars(\E t \in Thread : Guarded(t))
  /\ \A t \in Thread : WF_vars(Leave(t))

-----------------------------------------------------------------------------
Label == {"out", "entering", "deciding", "waiting", "signaled", "rechecking",
          "in", "leaving", "releasing"}

TypeOK ==
  /\ guard \in Thread \cup {NoThread}
  /\ AR \in Nat /\ WR \in Nat /\ AW \in Nat /\ WW \in Nat
  /\ readQ \in Seq(Thread) /\ writeQ \in Seq(Thread)
  /\ role \in [Thread -> {"reader", "writer"}]
  /\ pc \in [Thread -> Label]

Inside(r) == {t \in Thread : role[t] = r /\ pc[t] \in {"in", "leaving", "releasing"}}
Waiting(r) == {t \in Thread : role[t] = r /\ pc[t] \in {"waiting", "signaled", "rechecking"}}

\* Readers exclude writers, and writers each other, from the return of
\* rw_lock_acquire to the counters' update in rw_lock_release.
Exclusion ==
  /\ Inside("writer") # {} => Inside("reader") = {}
  /\ \A t, u \in Inside("writer") : t = u

(* The four counters say exactly who is inside and who waits; a woken      *)
(* waiter goes on counting as waiting until it has the guard again.        *)
CountersExact ==
  /\ AR = Cardinality(Inside("reader")) /\ AW = Cardinality(Inside("writer"))
  /\ WR = Cardinality(Waiting("reader")) /\ WW = Cardinality(Waiting("writer"))

(* No wake-up is lost although rw_lock_release signals at most one queue   *)
(* and a signal may find the queue empty because its only waiter was       *)
(* signaled before: a reader sleeps only while a writer is inside or       *)
(* waits, and a writer sleeps beside an empty room only while another      *)
(* writer is already on its way in.                                        *)
NoLostWakeup ==
  /\ readQ # <<>> => AW + WW > 0
  /\ writeQ # <<>> /\ AR + AW = 0 =>
       \E t \in Waiting("writer") : pc[t] \in {"signaled", "rechecking"}

\* Exclusion, the counters and the sleepers are right at every instant.
RwLockExact == Exclusion /\ CountersExact /\ NoLostWakeup

\* Once nobody new arrives, everyone who waits gets in.
NobodyStuck ==
  <>[][~Arrivals]_vars => \A t \in Thread : pc[t] = "entering" ~> pc[t] = "in"

Abstract == INSTANCE AbstractRwLock WITH
  readers <- Inside("reader"), writers <- Inside("writer"),
  waitingWriters <- Waiting("writer")
ImplementsRwLock == Abstract!Spec
=============================================================================
