--------------------------------- MODULE Intq ---------------------------------
(***************************************************************************)
(* devices/intq.c: a circular buffer shared by kernel threads and external *)
(* interrupt handlers.  A caller has interrupts off, so a call is one      *)
(* atomic step from its start, or from the point it was woken at, to the   *)
(* point where it sleeps or returns; other threads and the handlers run    *)
(* only between these steps.  A failed ASSERT panics the kernel: the       *)
(* thread is "panicked" and nothing else happens.                          *)
(***************************************************************************)
EXTENDS Naturals, Sequences, FiniteSets

CONSTANTS
  Reader, Writer,  \* threads that call intq_getc, intq_putc: no thread calls both
  Handler,         \* what handlers call: a subset of {"putc", "getc"}
  NoThread, Byte,
  BufSize          \* INTQ_BUFSIZE, 2 at least

User == Reader \cup Writer

\* What every instance must satisfy.
IntqAssumption ==
  /\ Reader \cap Writer = {} /\ NoThread \notin User
  /\ BufSize \in Nat /\ BufSize >= 2

VARIABLES
  buf, head, tail,
  waiter,  \* q->not_empty and q->not_full
  owner,   \* the holder of q->lock
  queue,   \* the threads blocked on q->lock
  pc,
  got      \* the last byte intq_getc returned

vars == <<buf, head, tail, waiter, owner, queue, pc, got>>
lockVars == <<owner, queue>>
bufVars == <<buf, head, tail, got>>

Init ==
  /\ \E b \in Byte : buf = [i \in 0..BufSize - 1 |-> b] /\ got = b
  /\ head = 0 /\ tail = 0
  /\ waiter = [not_empty |-> NoThread, not_full |-> NoThread]
  /\ owner = NoThread /\ queue = <<>>
  /\ pc = [t \in User |-> "out"]

\* Mutant: the position is not wrapped.
PosAfterUnwrapped(pos) == pos + 1

\* next.
PosAfter(pos) == (pos + 1) % BufSize

Empty == head = tail

\* Mutant: the position after head is not wrapped.
FullUnwrapped == head + 1 = tail

Full == PosAfter(head) = tail

Running == \A t \in User : pc[t] # "panicked"
Condition(t) == IF t \in Reader THEN "not_empty" ELSE "not_full"
MustWait(t) == IF t \in Reader THEN Empty ELSE Full

\* Mutant: signal forgets the waiter without waking it.
SignaledNobody(c) == {}

\* signal: whom it wakes; the caller resets the waiter.
Signaled(c) == {waiter[c]} \ {NoThread}

\* The body of intq_getc and of intq_putc after the loop.
Remove ==
  /\ got' = buf[tail] /\ tail' = PosAfter(tail)
  /\ waiter' = [waiter EXCEPT !.not_full = NoThread]
  /\ UNCHANGED <<buf, head>>
Insert ==
  /\ \E b \in Byte : buf' = [buf EXCEPT ![head] = b]
  /\ head' = PosAfter(head)
  /\ waiter' = [waiter EXCEPT !.not_empty = NoThread]
  /\ UNCHANGED <<tail, got>>

\* lock_release after wait: a call that comes back from its sleep wakes the
\* first thread queued on the lock.
LockWoken(t) ==
  IF pc[t] = "resumed" /\ queue # <<>> THEN {Head(queue)} ELSE {}
QueueAfter(t) == IF LockWoken(t) = {} THEN queue ELSE Tail(queue)

SetPc(t, l, lockWoken, signaled) ==
  pc' = [u \in User |-> CASE u = t -> l
                            [] u \in lockWoken -> "lock_woken"
                            [] u \in signaled -> "resumed"
                            [] OTHER -> pc[u]]

\* The loop ends: the byte is moved and the other side signalled.
Finish(t) ==
  /\ pc[t] \in {"out", "resumed"} /\ ~MustWait(t)
  /\ IF t \in Reader
     THEN Remove /\ SetPc(t, "out", LockWoken(t), Signaled("not_full"))
     ELSE Insert /\ SetPc(t, "out", LockWoken(t), Signaled("not_empty"))
  /\ owner' = IF pc[t] = "resumed" THEN NoThread ELSE owner
  /\ queue' = QueueAfter(t)

\* Mutant: wait is entered without q->lock.
StartWaitUnlocked(t) ==
  /\ pc[t] \in {"out", "resumed"} /\ MustWait(t)
  /\ owner' = t /\ queue' = QueueAfter(t)
  /\ waiter' = [waiter EXCEPT ![Condition(t)] = t]
  /\ SetPc(t, "waiting", LockWoken(t), {})
  /\ UNCHANGED bufVars

\* lock_acquire finds the lock free (a resumed call has just released it)
\* and wait sleeps.
StartWait(t) ==
  /\ pc[t] \in {"out", "resumed"} /\ MustWait(t)
  /\ owner = NoThread \/ pc[t] = "resumed"
  /\ owner' = t /\ queue' = QueueAfter(t)
  /\ waiter' = [waiter EXCEPT ![Condition(t)] = t]
  /\ SetPc(t, "waiting", LockWoken(t), {})
  /\ UNCHANGED bufVars

\* lock_acquire finds the lock taken, at the call or again after a wake-up.
QueueOnLock(t) ==
  /\ (pc[t] = "out" /\ MustWait(t)) \/ pc[t] = "lock_woken"
  /\ owner # NoThread
  /\ queue' = Append(queue, t)
  /\ SetPc(t, "queued", {}, {})
  /\ UNCHANGED <<bufVars, waiter, owner>>

\* lock_acquire got the lock after a sleep; wait asserts that the condition
\* still fails, which nobody has tested since.
WaitAfterLock(t) ==
  /\ pc[t] = "lock_woken" /\ owner = NoThread
  /\ IF MustWait(t)
     THEN /\ owner' = t
          /\ waiter' = [waiter EXCEPT ![Condition(t)] = t]
          /\ SetPc(t, "waiting", {}, {})
     ELSE SetPc(t, "panicked", {}, {}) /\ UNCHANGED <<owner, waiter>>
  /\ UNCHANGED <<bufVars, queue>>

\* A handler calls intq_putc on a queue that is not full, intq_getc on one
\* that is not empty (serial_interrupt, keyboard_interrupt test it first).
HandlerPut ==
  /\ "putc" \in Handler /\ ~Full /\ Insert
  /\ SetPc(NoThread, "out", {}, Signaled("not_empty"))
  /\ UNCHANGED lockVars
HandlerGet ==
  /\ "getc" \in Handler /\ ~Empty /\ Remove
  /\ SetPc(NoThread, "out", {}, Signaled("not_full"))
  /\ UNCHANGED lockVars

Step(t) ==
  Finish(t) \/ StartWait(t) \/ QueueOnLock(t) \/ WaitAfterLock(t)

Next ==
  /\ Running
  /\ (\E t \in User : Step(t)) \/ HandlerPut \/ HandlerGet

Spec == Init /\ [][Next]_vars
-------------------------------------------------------------------------------
TypeOK ==
  /\ buf \in [0..BufSize - 1 -> Byte]
  /\ head \in 0..BufSize - 1 /\ tail \in 0..BufSize - 1
  /\ waiter \in [not_empty : Reader \cup {NoThread},
                 not_full : Writer \cup {NoThread}]
  /\ owner \in User \cup {NoThread} /\ queue \in Seq(User)
  /\ pc \in [User -> {"out", "queued", "lock_woken", "waiting", "resumed",
                        "panicked"}]
  /\ got \in Byte

\* The bytes in the queue, oldest first.
Length == (head + BufSize - tail) % BufSize
Contents == [i \in 1..Length |-> buf[(tail + i - 1) % BufSize]]

\* "Only one thread may wait at once" (intq.h:26): between entering wait and
\* lock_release a thread owns the lock, on either condition.
OneWaiter ==
  \A t \in User : pc[t] \in {"waiting", "resumed"} <=> owner = t

\* Nobody sleeps while there is something to do: the condition of a thread
\* in wait still fails and signal will find the thread; a thread queued on the
\* lock has an owner to wake it, or one already woken will pass it on.
NoSleepWithWork ==
  /\ \A t \in User : pc[t] = "waiting" =>
       MustWait(t) /\ waiter[Condition(t)] = t
  /\ (\E t \in User : pc[t] = "queued") =>
       \/ owner # NoThread
       \/ \E t \in User : pc[t] \in {"lock_woken", "panicked"}

\* Bytes leave in the order they came, through threads and handlers alike, and
\* the buffer never holds more than BufSize - 1 of them.
Abstract == INSTANCE AbstractFifo
              WITH queue <- Contents, Capacity <- BufSize - 1
ImplementsFifo == Abstract!Spec

\* The ASSERT of wait (intq.c:73): its condition still fails when the lock is
\* acquired.
WaitAssertion == Running
=============================================================================
