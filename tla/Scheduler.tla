------------------------------ MODULE Scheduler ------------------------------
(***************************************************************************)
(* The Pintos kernel scheduler and the semaphores every other primitive is *)
(* built from: threads/thread.c, the sema_ functions of threads/synch.c    *)
(* and the timer tick that preempts (devices/timer.c, intr_handler).       *)
(*                                                                         *)
(* A thread IS its page: struct thread sits at the bottom of the page that *)
(* palloc_get_page returned, the page is given back when the thread dies   *)
(* and may hold another thread later.  One CPU; a step is the code between *)
(* two points where an interrupt can be taken, so everything the kernel    *)
(* does with interrupts off, the switch to the next thread included, is    *)
(* one action.                                                             *)
(***************************************************************************)
EXTENDS Naturals, Sequences, FiniteSets

CONSTANTS
  Page,         \* pages palloc can hand out for a struct thread
  Idle,         \* the page the idle thread got from thread_start
  Main,         \* initial_thread: the loader's page, never palloc'd
  NoThread,     \* NULL
  ClientSema,   \* semaphores of the rest of the kernel
  IdleStarted,  \* the semaphore on thread_start's stack
  TidSema,      \* the semaphore inside tid_lock
  TimeSlice,    \* TIME_SLICE
  MaxTid,       \* bound: threads are created while next_tid <= MaxTid
  MaxValue      \* bound: client semaphores are upped while below MaxValue

ASSUME PageAssumption ==
  Idle \in Page /\ Main \notin Page /\ NoThread \notin Page \cup {Main}
ASSUME SemaAssumption ==
  IdleStarted \notin ClientSema /\ TidSema \notin ClientSema /\ IdleStarted # TidSema
ASSUME BoundAssumption == TimeSlice \in Nat \ {0} /\ MaxTid \in Nat /\ MaxValue \in Nat

Thread == Page \cup {Main}
Sema == ClientSema \cup {IdleStarted, TidSema}

VARIABLES
  status,      \* enum thread_status of the thread in each page
  ready,       \* fifo_ready_list
  running,     \* the thread whose stack the CPU is on
  idleThread,  \* idle_thread, NULL until the idle thread first runs
  allList,     \* all_list
  tid,         \* tid of each thread, 0 until allocate_tid returned
  nextTid,     \* next_tid
  ticks,       \* thread_ticks
  value,       \* sema->value
  waiters,     \* sema->waiters
  pc,          \* where each thread is in the code
  want,        \* the semaphore a thread in sema_down waits for
  child,       \* thread_create's local t
  seen         \* allocate_tid's local tid

vars == <<status, ready, running, idleThread, allList, tid, nextTid, ticks,
          value, waiters, pc, want, child, seen>>

locals == <<pc, want, child, seen>>

(***************************************************************************)
(* thread_start has created the idle thread and enabled interrupts; main   *)
(* is about to wait for it.                                                *)
(***************************************************************************)
Init ==
  /\ status = [t \in Thread |-> IF t = Main THEN "RUNNING"
                                ELSE IF t = Idle THEN "READY" ELSE "FREE"]
  /\ ready = <<Idle>>
  /\ running = Main
  /\ idleThread = NoThread
  /\ allList = {Main, Idle}
  /\ tid = [t \in Thread |-> IF t = Main THEN 1 ELSE IF t = Idle THEN 2 ELSE 0]
  /\ nextTid = 3
  /\ ticks = 0
  /\ value = [s \in Sema |-> IF s = TidSema THEN 1 ELSE 0]
  /\ waiters = [s \in Sema |-> <<>>]
  /\ pc = [t \in Thread |-> IF t = Main THEN "boot"
                            ELSE IF t = Idle THEN "idleSet" ELSE "run"]
  /\ want = [t \in Thread |-> IdleStarted]
  /\ child = [t \in Thread |-> NoThread]
  /\ seen = [t \in Thread |-> 0]

-----------------------------------------------------------------------------
(* The scheduler proper.  None of these operators is an action by itself:  *)
(* they run inside a caller that has interrupts off.                       *)

\* Mutant: a policy that ignores the ready list.
NextThreadIgnoringList(q) == idleThread

\* next_thread_to_run with the FIFO policy, on ready list q.
NextThread(q) == IF q = <<>> THEN idleThread ELSE Head(q)

(* schedule() and thread_switch_tail(): the caller left the CPU's thread   *)
(* with the statuses st and the ready list q; the next thread becomes      *)
(* RUNNING with a fresh slice, and a dying predecessor's page is freed.    *)
Schedule(st, q) ==
  LET next == NextThread(q) IN
  /\ running' = next
  /\ ready' = IF q = <<>> THEN q ELSE Tail(q)
  /\ ticks' = 0
  /\ status' = [t \in Thread |->
                  IF t = next THEN "RUNNING"
                  ELSE IF t = running /\ st[t] = "DYING" /\ t # Main THEN "FREE"
                  ELSE st[t]]

\* thread_block: the caller's thread leaves the CPU until thread_unblock.
Block == Schedule([status EXCEPT ![running] = "BLOCKED"], ready)

\* Mutant: makes t the next to run.
UnblockInFront(t) ==
  /\ ready' = <<t>> \o ready
  /\ status' = [status EXCEPT ![t] = "READY"]

\* thread_unblock(t).
Unblock(t) ==
  /\ ready' = Append(ready, t)
  /\ status' = [status EXCEPT ![t] = "READY"]

\* Mutants: the idle thread recognised by its page instead of by idle_thread, a
\* yield without that test, and one that stays first in line.
YieldCPUByPage ==
  Schedule([status EXCEPT ![running] = "READY"],
           IF running # Idle THEN Append(ready, running) ELSE ready)
YieldCPUAlwaysEnqueue == Schedule([status EXCEPT ![running] = "READY"], Append(ready, running))
YieldCPUInFront ==
  Schedule([status EXCEPT ![running] = "READY"],
           IF running # idleThread THEN <<running>> \o ready ELSE ready)

\* thread_yield: the idle thread turns READY without entering the list.
YieldCPU ==
  Schedule([status EXCEPT ![running] = "READY"],
           IF running # idleThread THEN Append(ready, running) ELSE ready)

\* Mutant: wakes a waiter only when the value leaves 0.
UpOnlyFromZero(s) ==
  /\ value' = [value EXCEPT ![s] = @ + 1]
  /\ IF waiters[s] = <<>> \/ value[s] > 0
     THEN UNCHANGED <<waiters, ready, status>>
     ELSE /\ waiters' = [waiters EXCEPT ![s] = Tail(@)]
          /\ Unblock(Head(waiters[s]))

\* Mutant: wakes the waiter that came last.
UpWakesLast(s) ==
  /\ value' = [value EXCEPT ![s] = @ + 1]
  /\ IF waiters[s] = <<>>
     THEN UNCHANGED <<waiters, ready, status>>
     ELSE /\ waiters' = [waiters EXCEPT ![s] = SubSeq(@, 1, Len(@) - 1)]
          /\ Unblock(waiters[s][Len(waiters[s])])

\* sema_up(s): the longest waiter becomes ready and must test the value again.
Up(s) ==
  /\ value' = [value EXCEPT ![s] = @ + 1]
  /\ IF waiters[s] = <<>>
     THEN UNCHANGED <<waiters, ready, status>>
     ELSE /\ waiters' = [waiters EXCEPT ![s] = Tail(@)]
          /\ Unblock(Head(waiters[s]))

\* Mutant: a waiter that was woken in vain keeps the first place.
WaitAtWoken(t, s) ==
  waiters' = [waiters EXCEPT ![s] = IF pc[t] = "down" THEN <<t>> \o @ ELSE Append(@, t)]

\* list_push_back (&sema->waiters, ...) of sema_down.
WaitAt(t, s) == waiters' = [waiters EXCEPT ![s] = Append(@, t)]

\* Code of thread t at label l is what the CPU executes next.
At(t, l) == running = t /\ pc[t] = l
Goto(t, l) == pc' = [pc EXCEPT ![t] = l]

\* Interrupts are off between a waiter's dispatch and its test of the value.
InterruptsOn == pc[running] # "down"

-----------------------------------------------------------------------------
(* Semaphores.                                                             *)

\* What follows sema_down: allocate_tid's critical section or other code.
AfterDown(s) == IF s = TidSema THEN "load" ELSE "run"

CallsDown(t, s) ==
  \/ pc[t] = "run" /\ s \in ClientSema
  \/ pc[t] = "boot" /\ s = IdleStarted
  \/ pc[t] = "tidLock" /\ s = TidSema

(* One turn of sema_down's loop, on the call or after a wake-up: a waiter  *)
(* that was woken finds 0 again when another thread got there first, and   *)
(* queues at the back.                                                     *)
SemaDown(t, s) ==
  /\ running = t
  /\ CallsDown(t, s) \/ (pc[t] = "down" /\ want[t] = s)
  /\ IF value[s] = 0
     THEN /\ WaitAt(t, s)
          /\ Block
          /\ Goto(t, "down")
          /\ want' = [want EXCEPT ![t] = s]
          /\ UNCHANGED value
     ELSE /\ value' = [value EXCEPT ![s] = @ - 1]
          /\ Goto(t, AfterDown(s))
          /\ UNCHANGED <<waiters, status, ready, running, ticks, want>>
  /\ UNCHANGED <<idleThread, allList, tid, nextTid, child, seen>>

SemaTryDown(t, s) ==
  /\ At(t, "run") /\ s \in ClientSema
  /\ value[s] > 0
  /\ value' = [value EXCEPT ![s] = @ - 1]
  /\ UNCHANGED <<status, ready, running, idleThread, allList, tid, nextTid,
                 ticks, waiters, locals>>

SemaUp(t, s) ==
  /\ At(t, "run") /\ s \in ClientSema
  /\ value[s] < MaxValue
  /\ Up(s)
  /\ UNCHANGED <<running, idleThread, allList, tid, nextTid, ticks, locals>>

-----------------------------------------------------------------------------
(* thread_create, step by step: it may be preempted, or sleep on tid_lock, *)
(* between any two of them.                                                *)

PallocThread(t, p) ==
  /\ At(t, "run") /\ nextTid <= MaxTid
  /\ p \in Page /\ status[p] = "FREE"
  /\ status' = [status EXCEPT ![p] = "RAW"]
  /\ child' = [child EXCEPT ![t] = p]
  /\ Goto(t, "init")
  /\ UNCHANGED <<ready, running, idleThread, allList, tid, nextTid, ticks,
                 value, waiters, want, seen>>

\* Mutant: allocate_tid without tid_lock.
InitThreadUnlocked(t) ==
  /\ At(t, "init")
  /\ status' = [status EXCEPT ![child[t]] = "BLOCKED"]
  /\ tid' = [tid EXCEPT ![child[t]] = 0]
  /\ allList' = allList \cup {child[t]}
  /\ pc' = [pc EXCEPT ![t] = "load", ![child[t]] = "run"]
  /\ UNCHANGED <<ready, running, idleThread, nextTid, ticks, value, waiters,
                 want, child, seen>>

InitThread(t) ==
  /\ At(t, "init")
  /\ status' = [status EXCEPT ![child[t]] = "BLOCKED"]
  /\ tid' = [tid EXCEPT ![child[t]] = 0]
  /\ allList' = allList \cup {child[t]}
  /\ pc' = [pc EXCEPT ![t] = "tidLock", ![child[t]] = "run"]
  /\ UNCHANGED <<ready, running, idleThread, nextTid, ticks, value, waiters,
                 want, child, seen>>

\* allocate_tid holds tid_lock between the load and the store of next_tid.
LoadTid(t) ==
  /\ At(t, "load")
  /\ seen' = [seen EXCEPT ![t] = nextTid]
  /\ Goto(t, "store")
  /\ UNCHANGED <<status, ready, running, idleThread, allList, tid, nextTid,
                 ticks, value, waiters, want, child>>

StoreTid(t) ==
  /\ At(t, "store")
  /\ nextTid' = seen[t] + 1
  /\ Up(TidSema)
  /\ Goto(t, "start")
  /\ UNCHANGED <<running, idleThread, allList, tid, ticks, want, child, seen>>

StartChild(t) ==
  /\ At(t, "start")
  /\ tid' = [tid EXCEPT ![child[t]] = seen[t]]
  /\ Unblock(child[t])
  /\ child' = [child EXCEPT ![t] = NoThread]
  /\ Goto(t, "run")
  /\ UNCHANGED <<running, idleThread, allList, nextTid, ticks, value, waiters,
                 want, seen>>

Yield(t) ==
  /\ At(t, "run")
  /\ YieldCPU
  /\ UNCHANGED <<idleThread, allList, tid, nextTid, value, waiters, locals>>

\* Mutant: dies without leaving all_list.
ExitListed(t) ==
  /\ At(t, "run")
  /\ Schedule([status EXCEPT ![t] = "DYING"], ready)
  /\ UNCHANGED <<allList, idleThread, tid, nextTid, value, waiters, locals>>

Exit(t) ==
  /\ At(t, "run")
  /\ allList' = allList \ {t}
  /\ Schedule([status EXCEPT ![t] = "DYING"], ready)
  /\ UNCHANGED <<idleThread, tid, nextTid, value, waiters, locals>>

-----------------------------------------------------------------------------
(* The idle thread, and the interrupts.                                    *)

IdleSet(t) ==
  /\ At(t, "idleSet")
  /\ idleThread' = t
  /\ Goto(t, "idleUp")
  /\ UNCHANGED <<status, ready, running, allList, tid, nextTid, ticks, value,
                 waiters, want, child, seen>>

IdleUp(t) ==
  /\ At(t, "idleUp")
  /\ Up(IdleStarted)
  /\ Goto(t, "idleBlock")
  /\ UNCHANGED <<running, idleThread, allList, tid, nextTid, ticks, want, child,
                 seen>>

IdleBlock(t) ==
  /\ At(t, "idleBlock")
  /\ Block
  /\ Goto(t, "hlt")
  /\ UNCHANGED <<idleThread, allList, tid, nextTid, value, waiters, want, child,
                 seen>>

\* Any interrupt ends the hlt of the idle loop.
WakeHlt == pc' = IF pc[running] = "hlt" THEN [pc EXCEPT ![running] = "idleBlock"] ELSE pc

\* timer_interrupt: thread_tick, then intr_handler yields if the slice is over.
Tick ==
  /\ InterruptsOn
  /\ IF ticks + 1 >= TimeSlice
     THEN YieldCPU
     ELSE ticks' = ticks + 1 /\ UNCHANGED <<status, ready, running>>
  /\ WakeHlt
  /\ UNCHANGED <<idleThread, allList, tid, nextTid, value, waiters, want, child,
                 seen>>

\* A device's interrupt handler ups the semaphore its driver sleeps on.
DeviceInterrupt(s) ==
  /\ InterruptsOn
  /\ s \in ClientSema /\ value[s] < MaxValue
  /\ Up(s)
  /\ WakeHlt
  /\ UNCHANGED <<running, idleThread, allList, tid, nextTid, ticks, want, child,
                 seen>>

-----------------------------------------------------------------------------
Next ==
  \/ Tick
  \/ \E s \in Sema : DeviceInterrupt(s)
  \/ \E t \in Thread :
       \/ \E s \in Sema : SemaDown(t, s) \/ SemaTryDown(t, s) \/ SemaUp(t, s)
       \/ \E p \in Page : PallocThread(t, p)
       \/ InitThread(t) \/ LoadTid(t) \/ StoreTid(t) \/ StartChild(t)
       \/ Yield(t) \/ Exit(t)
       \/ IdleSet(t) \/ IdleUp(t) \/ IdleBlock(t)

Spec == Init /\ [][Next]_vars
-----------------------------------------------------------------------------
Status == {"FREE", "RAW", "READY", "RUNNING", "BLOCKED", "DYING"}
Label == {"boot", "run", "down", "init", "tidLock", "load", "store", "start",
          "idleSet", "idleUp", "idleBlock", "hlt"}

\* The type of every variable, across all actions.
TypeOK ==
  /\ status \in [Thread -> Status]
  /\ ready \in Seq(Thread)
  /\ running \in Thread
  /\ idleThread \in {NoThread, Idle}
  /\ allList \subseteq Thread
  /\ tid \in [Thread -> Nat] /\ nextTid \in Nat /\ ticks \in Nat
  /\ value \in [Sema -> Nat]
  /\ waiters \in [Sema -> Seq(Thread)]
  /\ pc \in [Thread -> Label]
  /\ want \in [Thread -> Sema]
  /\ child \in [Thread -> Page \cup {NoThread}]
  /\ seen \in [Thread -> Nat]

(***************************************************************************)
(* thread.h: a thread has one `elem' for the ready list and for every wait *)
(* list, which works because a thread is never on two of them: the ready   *)
(* list holds exactly the READY threads but the idle thread, once each,    *)
(* and a wait list holds BLOCKED threads sleeping in sema_down on it.      *)
(***************************************************************************)
ReadyListExact ==
  /\ \A i \in 1..Len(ready) : status[ready[i]] = "READY" /\ ready[i] # idleThread
  /\ \A i, j \in 1..Len(ready) : ready[i] = ready[j] => i = j
  /\ \A t \in Thread :
       status[t] = "READY" /\ t # idleThread => \E i \in 1..Len(ready) : ready[i] = t

WaitListsExact ==
  /\ \A s \in Sema : \A i \in 1..Len(waiters[s]) :
       LET t == waiters[s][i] IN status[t] = "BLOCKED" /\ pc[t] = "down" /\ want[t] = s
  /\ \A s \in Sema : \A i, j \in 1..Len(waiters[s]) :
       waiters[s][i] = waiters[s][j] => i = j
  /\ \A t \in Thread : status[t] = "BLOCKED" /\ pc[t] = "down" =>
       \E i \in 1..Len(waiters[want[t]]) : waiters[want[t]][i] = t

(***************************************************************************)
(* Exactly one thread is RUNNING, the one whose stack the CPU is on, and   *)
(* next_thread_to_run has one to return whenever that thread leaves the    *)
(* CPU: before idle_thread is set the idle thread is itself ready.         *)
(***************************************************************************)
CanDispatch ==
  /\ \A t \in Thread : status[t] = "RUNNING" <=> t = running
  /\ running # Idle /\ ready = <<>> => idleThread # NoThread

\* Every thread is where its status says, on one list or on the CPU, and there
\* is always one to dispatch.
OneList == ReadyListExact /\ WaitListsExact /\ CanDispatch

\* The threads on a list.
Elems(q) == {q[i] : i \in 1..Len(q)}

(***************************************************************************)
(* A dead thread's page goes back to palloc in its successor's switch      *)
(* tail: nothing in the kernel still refers to it then (thread.c's "pull   *)
(* out the rug"), neither a list nor idle_thread nor a creator, and        *)
(* thread_foreach visits exactly the living threads.                       *)
(***************************************************************************)
NoDanglingThread ==
  /\ allList = {t \in Thread : status[t] \in {"READY", "RUNNING", "BLOCKED"}}
  /\ running \in allList /\ Elems(ready) \subseteq allList
  /\ \A s \in Sema : Elems(waiters[s]) \subseteq allList
  /\ idleThread \in allList \cup {NoThread}
  /\ \A t \in Thread : child[t] # NoThread =>
       /\ t \in allList
       /\ status[child[t]] = IF pc[t] = "init" THEN "RAW" ELSE "BLOCKED"
  /\ \A t, u \in Thread : child[t] = child[u] /\ child[t] # NoThread => t = u
  /\ \A t \in Thread : status[t] = "DYING" => t = Main

\* tid_lock: two living threads that were given a tid have different ones,
\* whatever the interleaving of their creators.
UniqueTid ==
  \A t, u \in allList : tid[t] = tid[u] /\ tid[t] # 0 => t = u

(***************************************************************************)
(* No wake-up is lost: while threads sleep on a semaphore, every unit of   *)
(* its value is matched by a thread already woken for it and about to test *)
(* it.                                                                     *)
(***************************************************************************)
Woken(s) == {t \in Thread : pc[t] = "down" /\ want[t] = s /\ status[t] \in {"READY", "RUNNING"}}

NoLostWakeup == \A s \in Sema : waiters[s] # <<>> => value[s] <= Cardinality(Woken(s))

(***************************************************************************)
(* Round robin: the CPU, and every new time slice, goes to the thread that *)
(* has been ready for longest.  A step that turns the ready list or the    *)
(* wait list of a semaphore from q into r lets nobody get in front of a    *)
(* thread that stays on the list, and takes nobody off it past a thread    *)
(* that had waited longer.                                                 *)
(***************************************************************************)
Ahead(q, t, u) == \E i, j \in 1..Len(q) : i < j /\ q[i] = t /\ q[j] = u

NoOvertaking(q, r) ==
  /\ \A t \in Elems(q) \cap Elems(r), u \in Elems(r) :
       u # t /\ ~Ahead(q, u, t) => Ahead(r, t, u)
  /\ \A t, u \in Elems(q) : Ahead(q, t, u) /\ u \notin Elems(r) => t \notin Elems(r)

RoundRobin ==
  [][ /\ (running' # running \/ ticks' < ticks) /\ ready # <<>> => running' = Head(ready)
      /\ NoOvertaking(ready, ready')
      /\ \A s \in Sema : NoOvertaking(waiters[s], waiters'[s]) ]_vars
=============================================================================
