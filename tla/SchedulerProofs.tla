--------------------------- MODULE SchedulerProofs ---------------------------
(* Theorems about Scheduler, for any pages, semaphores, slice and bounds.   *)
EXTENDS Scheduler, FiniteSetTheorems, SequenceTheorems, TLAPS

IdleLabel == {"idleSet", "idleUp", "idleBlock", "hlt"}

\* Labels of a thread that is between palloc_get_page and thread_unblock.
Creating(t) ==
  \/ pc[t] \in {"init", "tidLock", "load", "store", "start"}
  \/ pc[t] = "down" /\ want[t] = TidSema

(* Who runs the idle loop, and that its thread is never given back.        *)
IdleInv ==
  /\ \A t \in Thread : pc[t] \in IdleLabel <=> t = Idle
  /\ status[Idle] \notin {"FREE", "DYING"}
  /\ \A t \in Thread : child[t] # Idle
  /\ idleThread = IF pc[Idle] = "idleSet" THEN NoThread ELSE Idle
  /\ pc[Idle] = "idleSet" => running = Idle \/ \E i \in 1..Len(ready) : ready[i] = Idle

ChildInv == \A t \in Thread : Creating(t) => child[t] \in Page

\* What type correctness rests on.
TInv == TypeOK /\ IdleInv /\ ChildInv

USE DEF locals

LEMMA InitTInv == Init => TInv
  BY PageAssumption, SemaAssumption DEF Init, TInv, TypeOK, IdleInv, ChildInv, Creating, IdleLabel,
     Thread, Sema, Status, Label

\* Whatever thread leaves the CPU, a thread takes it.
LEMMA NextIsThread ==
  ASSUME TInv, NEW q \in Seq(Thread), q = <<>> => idleThread = Idle
  PROVE  NextThread(q) \in Thread
<1>1. CASE q = <<>>
  BY <1>1, PageAssumption DEF NextThread, Thread
<1>2. CASE q # <<>>
  BY <1>2 DEF NextThread
<1>. QED BY <1>1, <1>2

LEMMA ScheduleTypes ==
  ASSUME TInv, NEW st \in [Thread -> Status], NEW q \in Seq(Thread),
         q = <<>> => idleThread = Idle, Schedule(st, q)
  PROVE  /\ running' \in Thread
         /\ ready' \in Seq(Thread)
         /\ ticks' \in Nat
         /\ status' \in [Thread -> Status]
<1>1. NextThread(q) \in Thread
  BY NextIsThread
<1>2. ready' \in Seq(Thread)
  BY DEF Schedule
<1>. QED BY <1>1, <1>2 DEF Schedule, Status

\* The list an idle thread is found in, before it first runs.
LEMMA IdleListed ==
  ASSUME TInv, pc[Idle] = "idleSet", running # Idle
  PROVE  ready # <<>>
BY DEF TInv, IdleInv, TypeOK

LEMMA UpTypes ==
  ASSUME TInv, NEW s \in Sema, Up(s)
  PROVE  /\ value' \in [Sema -> Nat]
         /\ waiters' \in [Sema -> Seq(Thread)]
         /\ ready' \in Seq(Thread)
         /\ status' \in [Thread -> Status]
         /\ \A i \in 1..Len(ready) : i \in 1..Len(ready') /\ ready'[i] = ready[i]
         /\ \A t \in Thread : status'[t] = status[t] \/ status'[t] = "READY"
<1>. USE DEF TInv, TypeOK
<1>1. CASE waiters[s] = <<>>
  BY <1>1 DEF Up
<1>2. CASE waiters[s] # <<>>
  <2>1. Head(waiters[s]) \in Thread /\ Tail(waiters[s]) \in Seq(Thread)
    BY <1>2
  <2>2. ready' = Append(ready, Head(waiters[s])) /\ status' = [status EXCEPT ![Head(waiters[s])] = "READY"]
    BY <1>2 DEF Up, Unblock
  <2>3. ready' \in Seq(Thread) /\ \A i \in 1..Len(ready) : i \in 1..Len(ready') /\ ready'[i] = ready[i]
    BY <2>1, <2>2
  <2>4. status' \in [Thread -> Status] /\ \A t \in Thread : status'[t] = status[t] \/ status'[t] = "READY"
    BY <2>1, <2>2 DEF Status
  <2>5. value' \in [Sema -> Nat]
    BY DEF Up
  <2>6. waiters' \in [Sema -> Seq(Thread)]
    BY <1>2, <2>1 DEF Up
  <2>. QED BY <2>3, <2>4, <2>5, <2>6
<1>. QED BY <1>1, <1>2

LEMMA ScheduleIdle ==
  ASSUME TInv, NEW st, NEW q \in Seq(Thread), NEW i \in 1..Len(q), q[i] = Idle,
         Schedule(st, q)
  PROVE  running' = Idle \/ \E j \in 1..Len(ready') : ready'[j] = Idle
<1>1. q # <<>> /\ ready' = Tail(q) /\ running' = Head(q)
  BY DEF Schedule, NextThread
<1>2. CASE i = 1
  BY <1>1, <1>2
<1>3. CASE i # 1
  <2>1. i - 1 \in 1..Len(ready') /\ ready'[i - 1] = Idle
    BY <1>1, <1>3
  <2>. QED BY <2>1
<1>. QED BY <1>2, <1>3

\* A thread that is not the idle one leaves the CPU with the ready list q.
LEMMA ScheduleStatus ==
  ASSUME TInv, NEW st \in [Thread -> Status], NEW q, Schedule(st, q),
         st[Idle] \notin {"FREE", "DYING"}
  PROVE  status'[Idle] \notin {"FREE", "DYING"}
BY PageAssumption DEF Schedule, Thread

LEMMA BlockTInv ==
  ASSUME TInv, Block, running = Idle => pc[Idle] = "idleBlock"
  PROVE  /\ running' \in Thread /\ ready' \in Seq(Thread) /\ ticks' \in Nat
         /\ status' \in [Thread -> Status]
         /\ status'[Idle] \notin {"FREE", "DYING"}
         /\ pc[Idle] = "idleSet" => running' = Idle \/ \E i \in 1..Len(ready') : ready'[i] = Idle
<1>. DEFINE st == [status EXCEPT ![running] = "BLOCKED"]
<1>1. st \in [Thread -> Status] /\ st[Idle] \notin {"FREE", "DYING"}
  BY PageAssumption DEF TInv, TypeOK, IdleInv, Status, Thread
<1>2. ready \in Seq(Thread) /\ (ready = <<>> => idleThread = Idle)
  BY IdleListed DEF TInv, TypeOK, IdleInv
<1>3. Schedule(st, ready)
  BY DEF Block
<1>4. pc[Idle] = "idleSet" => \E i \in 1..Len(ready) : ready[i] = Idle
  BY DEF TInv, IdleInv
<1>. HIDE DEF st
<1>5. pc[Idle] = "idleSet" => running' = Idle \/ \E i \in 1..Len(ready') : ready'[i] = Idle
  BY <1>2, <1>3, <1>4, ScheduleIdle
<1>. QED BY <1>1, <1>2, <1>3, <1>5, ScheduleTypes, ScheduleStatus

LEMMA YieldTInv ==
  ASSUME TInv, YieldCPU
  PROVE  /\ running' \in Thread /\ ready' \in Seq(Thread) /\ ticks' \in Nat
         /\ status' \in [Thread -> Status]
         /\ status'[Idle] \notin {"FREE", "DYING"}
         /\ pc[Idle] = "idleSet" => running' = Idle \/ \E i \in 1..Len(ready') : ready'[i] = Idle
<1>. DEFINE st == [status EXCEPT ![running] = "READY"]
            q == IF running # idleThread THEN Append(ready, running) ELSE ready
<1>1. st \in [Thread -> Status] /\ st[Idle] \notin {"FREE", "DYING"}
  BY PageAssumption DEF TInv, TypeOK, IdleInv, Status, Thread
<1>2. q \in Seq(Thread) /\ (q = <<>> => idleThread = Idle)
  <2>1. CASE running # idleThread
    <3>1. q = Append(ready, running) /\ running \in Thread /\ ready \in Seq(Thread)
      BY <2>1 DEF TInv, TypeOK
    <3>. QED BY <3>1
  <2>2. CASE running = idleThread
    BY <2>2, PageAssumption DEF TInv, TypeOK, IdleInv, Thread
  <2>. QED BY <2>1, <2>2
<1>3. Schedule(st, q)
  BY DEF YieldCPU
<1>4. pc[Idle] = "idleSet" => \E i \in 1..Len(q) : q[i] = Idle
  <2>1. SUFFICES ASSUME pc[Idle] = "idleSet" PROVE \E i \in 1..Len(q) : q[i] = Idle
    OBVIOUS
  <2>2. q = Append(ready, running) /\ running \in Thread /\ ready \in Seq(Thread)
    BY <2>1, PageAssumption DEF TInv, TypeOK, IdleInv, Thread
  <2>3. running = Idle \/ \E i \in 1..Len(ready) : ready[i] = Idle
    BY <2>1 DEF TInv, IdleInv
  <2>4. CASE running = Idle
    <3>1. q[Len(ready) + 1] = Idle /\ Len(ready) + 1 \in 1..Len(q)
      BY <2>2, <2>4
    <3>. QED BY <3>1
  <2>5. CASE running # Idle
    <3>1. PICK i \in 1..Len(ready) : ready[i] = Idle
      BY <2>3, <2>5
    <3>2. i \in 1..Len(q) /\ q[i] = Idle
      BY <2>2, <3>1
    <3>. QED BY <3>2
  <2>. QED BY <2>4, <2>5
<1>. HIDE DEF st, q
<1>5. pc[Idle] = "idleSet" => running' = Idle \/ \E i \in 1..Len(ready') : ready'[i] = Idle
  BY <1>2, <1>3, <1>4, ScheduleIdle
<1>. QED BY <1>1, <1>2, <1>3, <1>5, ScheduleTypes, ScheduleStatus

\* The ready list only grows in Up, so the idle thread stays findable.
LEMMA UpIdle ==
  ASSUME TInv, NEW s \in Sema, Up(s)
  PROVE  /\ status'[Idle] \notin {"FREE", "DYING"}
         /\ pc[Idle] = "idleSet" => running = Idle \/ \E i \in 1..Len(ready') : ready'[i] = Idle
<1>1. status'[Idle] = status[Idle] \/ status'[Idle] = "READY"
  BY UpTypes, PageAssumption DEF Thread
<1>2. \A i \in 1..Len(ready) : i \in 1..Len(ready') /\ ready'[i] = ready[i]
  BY UpTypes
<1>. QED BY <1>1, <1>2 DEF TInv, IdleInv

\* A step of another thread that only moves its pc leaves the idle thread alone.
LEMMA GotoIdleInv ==
  ASSUME TInv, NEW t \in Thread, t # Idle, NEW l \in Label, l \notin IdleLabel, Goto(t, l),
         idleThread' = idleThread, child' = child,
         status'[Idle] \notin {"FREE", "DYING"},
         pc[Idle] = "idleSet" => running' = Idle \/ \E i \in 1..Len(ready') : ready'[i] = Idle
  PROVE  IdleInv'
<1>1. Idle \in Thread
  BY PageAssumption DEF Thread
<1>2. pc'[Idle] = pc[Idle] /\ \A u \in Thread : pc'[u] \in IdleLabel <=> u = Idle
  BY <1>1 DEF TInv, TypeOK, IdleInv, Goto
<1>3. \A u \in Thread : child'[u] # Idle
  BY DEF TInv, IdleInv
<1>. QED BY <1>2, <1>3 DEF TInv, IdleInv

LEMMA SemaDownTInv ==
  ASSUME TInv, NEW t \in Thread, NEW s \in Sema, SemaDown(t, s)
  PROVE  TInv'
<1>. USE DEF TInv, TypeOK
<1>1. t # Idle /\ running = t
  BY DEF SemaDown, CallsDown, IdleInv, IdleLabel
<1>2. CASE value[s] = 0
  <2>1. Block /\ waiters' = [waiters EXCEPT ![s] = Append(@, t)]
    BY <1>2 DEF SemaDown, WaitAt
  <2>2. /\ running' \in Thread /\ ready' \in Seq(Thread) /\ ticks' \in Nat
        /\ status' \in [Thread -> Status] /\ status'[Idle] \notin {"FREE", "DYING"}
        /\ pc[Idle] = "idleSet" => running' = Idle \/ \E i \in 1..Len(ready') : ready'[i] = Idle
    BY <1>1, <2>1, BlockTInv
  <2>3. waiters' \in [Sema -> Seq(Thread)]
    BY <2>1
  <2>4. TypeOK'
    BY <1>2, <2>2, <2>3 DEF SemaDown, Goto, Label
  <2>5. IdleInv'
    <3>1. Goto(t, "down") /\ idleThread' = idleThread /\ child' = child
      BY <1>2 DEF SemaDown
    <3>. QED BY <1>1, <2>2, <3>1, GotoIdleInv DEF Label, IdleLabel
  <2>6. ChildInv'
    <3>1. \A u \in Thread : Creating(u)' => Creating(u)
      BY <1>2, SemaAssumption DEF SemaDown, Goto, Creating, CallsDown
    <3>. QED BY <1>2, <3>1 DEF SemaDown, ChildInv
  <2>. QED BY <2>4, <2>5, <2>6
<1>3. CASE value[s] # 0
  <2>0. /\ value' = [value EXCEPT ![s] = @ - 1]
        /\ Goto(t, AfterDown(s))
        /\ UNCHANGED <<waiters, status, ready, running, ticks, want, idleThread, allList, tid,
                       nextTid, child, seen>>
    BY <1>3 DEF SemaDown
  <2>1. TypeOK'
    <3>1. value' \in [Sema -> Nat]
      BY <1>3, <2>0
    <3>2. pc' \in [Thread -> Label]
      BY <2>0 DEF Goto, Label, AfterDown
    <3>. QED BY <2>0, <3>1, <3>2
  <2>2. IdleInv'
    <3>1. AfterDown(s) \in Label /\ AfterDown(s) \notin IdleLabel
      BY DEF AfterDown, Label, IdleLabel
    <3>2. status'[Idle] \notin {"FREE", "DYING"}
      BY <2>0 DEF IdleInv
    <3>3. pc[Idle] = "idleSet" => running' = Idle \/ \E i \in 1..Len(ready') : ready'[i] = Idle
      BY <2>0 DEF IdleInv
    <3>. QED BY <1>1, <2>0, <3>1, <3>2, <3>3, GotoIdleInv
  <2>3. ChildInv'
    <3>1. \A u \in Thread : Creating(u)' => Creating(u)
      BY <2>0, SemaAssumption DEF SemaDown, Goto, Creating, CallsDown, AfterDown
    <3>. QED BY <2>0, <3>1 DEF ChildInv
  <2>. QED BY <2>1, <2>2, <2>3
<1>. QED BY <1>2, <1>3

LEMMA CreateTInv ==
  ASSUME TInv, NEW t \in Thread
  PROVE  /\ \A p \in Page : PallocThread(t, p) => TInv'
         /\ InitThread(t) \/ LoadTid(t) \/ StoreTid(t) \/ StartChild(t) => TInv'
<1>. USE DEF TInv, TypeOK, At, Goto
<1>1. ASSUME NEW p \in Page, PallocThread(t, p) PROVE TInv'
  <2>1. t # Idle /\ p # Idle
    BY <1>1 DEF PallocThread, IdleInv, IdleLabel
  <2>2. TypeOK'
    BY <1>1 DEF PallocThread, Label, Status
  <2>3. IdleInv'
    BY <1>1, <2>1, PageAssumption DEF PallocThread, IdleInv, IdleLabel, Thread
  <2>4. ChildInv'
    BY <1>1 DEF PallocThread, ChildInv, Creating
  <2>. QED BY <2>2, <2>3, <2>4
<1>2. ASSUME InitThread(t) PROVE TInv'
  <2>1. t # Idle /\ child[t] # Idle /\ child[t] \in Page
    BY <1>2 DEF InitThread, IdleInv, IdleLabel, ChildInv, Creating
  <2>2. TypeOK'
    BY <1>2, <2>1 DEF InitThread, Label, Status, Thread
  <2>3. IdleInv'
    BY <1>2, <2>1, PageAssumption DEF InitThread, IdleInv, IdleLabel, Thread
  <2>4. ChildInv'
    BY <1>2, <2>1 DEF InitThread, ChildInv, Creating
  <2>. QED BY <2>2, <2>3, <2>4
<1>3. ASSUME LoadTid(t) PROVE TInv'
  <2>1. TypeOK'
    BY <1>3 DEF LoadTid, Label
  <2>2. IdleInv'
    BY <1>3, PageAssumption DEF LoadTid, IdleInv, IdleLabel, Thread
  <2>3. ChildInv'
    BY <1>3 DEF LoadTid, ChildInv, Creating
  <2>. QED BY <2>1, <2>2, <2>3
<1>4. ASSUME StoreTid(t) PROVE TInv'
  <2>1. Up(TidSema) /\ TidSema \in Sema /\ t # Idle
    BY <1>4 DEF StoreTid, Sema, IdleInv, IdleLabel
  <2>2. TypeOK'
    <3>1. /\ status' \in [Thread -> Status] /\ ready' \in Seq(Thread)
          /\ value' \in [Sema -> Nat] /\ waiters' \in [Sema -> Seq(Thread)]
      BY <2>1, UpTypes
    <3>2. nextTid' \in Nat /\ pc' \in [Thread -> Label]
      BY <1>4 DEF StoreTid, Goto, Label
    <3>3. UNCHANGED <<running, idleThread, allList, tid, ticks, want, child, seen>>
      BY <1>4 DEF StoreTid
    <3>. QED BY <3>1, <3>2, <3>3
  <2>3. IdleInv'
    <3>1. Goto(t, "start") /\ idleThread' = idleThread /\ child' = child /\ running' = running
      BY <1>4 DEF StoreTid
    <3>. QED BY <2>1, <3>1, UpIdle, GotoIdleInv DEF Label, IdleLabel
  <2>4. ChildInv'
    BY <1>4 DEF StoreTid, ChildInv, Creating
  <2>. QED BY <2>2, <2>3, <2>4
<1>5. ASSUME StartChild(t) PROVE TInv'
  <2>1. t # Idle /\ child[t] # Idle /\ child[t] \in Thread
    BY <1>5 DEF StartChild, IdleInv, IdleLabel, ChildInv, Creating, Thread
  <2>2. /\ ready' = Append(ready, child[t]) /\ ready' \in Seq(Thread)
        /\ \A i \in 1..Len(ready) : i \in 1..Len(ready') /\ ready'[i] = ready[i]
    BY <1>5, <2>1 DEF StartChild, Unblock
  <2>3. TypeOK'
    BY <1>5, <2>1, <2>2 DEF StartChild, Unblock, Label, Status
  <2>4. IdleInv'
    BY <1>5, <2>1, <2>2, PageAssumption DEF StartChild, Unblock, IdleInv, IdleLabel, Thread
  <2>5. ChildInv'
    BY <1>5 DEF StartChild, ChildInv, Creating
  <2>. QED BY <2>3, <2>4, <2>5
<1>. QED BY <1>1, <1>2, <1>3, <1>4, <1>5

LEMMA ClientTInv ==
  ASSUME TInv, NEW t \in Thread
  PROVE  /\ \A s \in Sema : SemaTryDown(t, s) \/ SemaUp(t, s) => TInv'
         /\ Yield(t) \/ Exit(t) => TInv'
<1>. USE DEF TInv, TypeOK
<1>1. ASSUME NEW s \in Sema, SemaTryDown(t, s) PROVE TInv'
  <2>1. value' \in [Sema -> Nat]
    BY <1>1 DEF SemaTryDown
  <2>. QED BY <1>1, <2>1 DEF SemaTryDown, IdleInv, ChildInv, Creating
<1>2. ASSUME NEW s \in Sema, SemaUp(t, s) PROVE TInv'
  <2>1. Up(s) /\ UNCHANGED <<running, idleThread, allList, tid, nextTid, ticks, locals>>
    BY <1>2 DEF SemaUp
  <2>2. TypeOK'
    BY <2>1, UpTypes
  <2>3. IdleInv'
    BY <2>1, UpIdle DEF IdleInv
  <2>. QED BY <2>1, <2>2, <2>3 DEF ChildInv, Creating
<1>3. ASSUME Yield(t) PROVE TInv'
  <2>1. YieldCPU /\ UNCHANGED <<idleThread, allList, tid, nextTid, value, waiters, locals>>
    BY <1>3 DEF Yield
  <2>. QED BY <2>1, YieldTInv DEF IdleInv, ChildInv, Creating
<1>4. ASSUME Exit(t) PROVE TInv'
  <2>. DEFINE st == [status EXCEPT ![t] = "DYING"]
  <2>1. /\ Schedule(st, ready) /\ running = t /\ t # Idle
        /\ UNCHANGED <<idleThread, tid, nextTid, value, waiters, locals>>
        /\ allList' \subseteq Thread
    BY <1>4 DEF Exit, At, IdleInv, IdleLabel
  <2>2. st \in [Thread -> Status] /\ st[Idle] \notin {"FREE", "DYING"}
    BY <2>1, PageAssumption DEF Status, IdleInv, Thread
  <2>3. ready = <<>> => idleThread = Idle
    BY <2>1, IdleListed DEF IdleInv
  <2>4. pc[Idle] = "idleSet" => \E i \in 1..Len(ready) : ready[i] = Idle
    BY <2>1 DEF IdleInv
  <2>. HIDE DEF st
  <2>5. pc[Idle] = "idleSet" => running' = Idle \/ \E i \in 1..Len(ready') : ready'[i] = Idle
    BY <2>1, <2>4, ScheduleIdle
  <2>6. status'[Idle] \notin {"FREE", "DYING"}
    BY <2>1, <2>2, ScheduleStatus
  <2>7. TypeOK'
    BY <2>1, <2>2, <2>3, ScheduleTypes
  <2>. QED BY <2>1, <2>5, <2>6, <2>7 DEF IdleInv, ChildInv, Creating
<1>. QED BY <1>1, <1>2, <1>3, <1>4

LEMMA IdleTInv ==
  ASSUME TInv, NEW t \in Thread
  PROVE  IdleSet(t) \/ IdleUp(t) \/ IdleBlock(t) => TInv'
<1>. USE DEF TInv, TypeOK, At, Goto
<1>0. Idle \in Thread
  BY PageAssumption DEF Thread
<1>1. ASSUME IdleSet(t) PROVE TInv'
  <2>1. t = Idle
    BY <1>1 DEF IdleSet, IdleInv, IdleLabel
  <2>2. TypeOK'
    BY <1>1, <2>1 DEF IdleSet, Label
  <2>3. IdleInv'
    BY <1>0, <1>1, <2>1 DEF IdleSet, IdleInv, IdleLabel
  <2>. QED BY <1>1, <2>2, <2>3 DEF IdleSet, ChildInv, Creating
<1>2. ASSUME IdleUp(t) PROVE TInv'
  <2>1. t = Idle /\ IdleStarted \in Sema /\ Up(IdleStarted)
    BY <1>2 DEF IdleUp, IdleInv, IdleLabel, Sema
  <2>2. TypeOK'
    BY <1>2, <2>1, UpTypes DEF IdleUp, Label
  <2>3. IdleInv'
    <3>1. pc' = [pc EXCEPT ![Idle] = "idleBlock"] /\ pc[Idle] = "idleUp" /\ UNCHANGED <<idleThread, child>>
      BY <1>2, <2>1 DEF IdleUp
    <3>2. status'[Idle] \notin {"FREE", "DYING"}
      BY <2>1, UpIdle
    <3>. QED BY <1>0, <3>1, <3>2 DEF IdleInv, IdleLabel
  <2>. QED BY <1>2, <2>2, <2>3 DEF IdleUp, ChildInv, Creating
<1>3. ASSUME IdleBlock(t) PROVE TInv'
  <2>1. /\ t = Idle /\ running = Idle /\ pc[Idle] = "idleBlock" /\ Block
        /\ pc' = [pc EXCEPT ![Idle] = "hlt"]
        /\ UNCHANGED <<idleThread, allList, tid, nextTid, value, waiters, want, child, seen>>
    BY <1>3 DEF IdleBlock, IdleInv, IdleLabel
  <2>2. TypeOK'
    BY <2>1, BlockTInv DEF Label
  <2>3. IdleInv'
    <3>1. status'[Idle] \notin {"FREE", "DYING"}
      BY <2>1, BlockTInv
    <3>. QED BY <1>0, <2>1, <3>1 DEF IdleInv, IdleLabel
  <2>. QED BY <2>1, <2>2, <2>3 DEF ChildInv, Creating
<1>. QED BY <1>1, <1>2, <1>3

LEMMA InterruptTInv ==
  ASSUME TInv
  PROVE  /\ Tick => TInv'
         /\ \A s \in Sema : DeviceInterrupt(s) => TInv'
<1>. USE DEF TInv, TypeOK
<1>0. Idle \in Thread
  BY PageAssumption DEF Thread
<1>1. ASSUME WakeHlt
      PROVE  /\ pc' \in [Thread -> Label]
             /\ \A u \in Thread : pc'[u] \in IdleLabel <=> u = Idle
             /\ pc'[Idle] = "idleSet" <=> pc[Idle] = "idleSet"
             /\ \A u \in Thread : pc'[u] = pc[u] \/ pc'[u] = "idleBlock"
  BY <1>0, <1>1 DEF WakeHlt, IdleInv, IdleLabel, Label
<1>2. ASSUME Tick PROVE TInv'
  <2>1. WakeHlt /\ UNCHANGED <<idleThread, allList, tid, nextTid, value, waiters, want, child, seen>>
    BY <1>2 DEF Tick
  <2>2. /\ running' \in Thread /\ ready' \in Seq(Thread) /\ ticks' \in Nat
        /\ status' \in [Thread -> Status] /\ status'[Idle] \notin {"FREE", "DYING"}
        /\ pc[Idle] = "idleSet" => running' = Idle \/ \E i \in 1..Len(ready') : ready'[i] = Idle
    <3>1. CASE YieldCPU
      BY <3>1, YieldTInv
    <3>2. CASE ticks' = ticks + 1 /\ UNCHANGED <<status, ready, running>>
      BY <3>2 DEF IdleInv
    <3>. QED BY <1>2, <3>1, <3>2 DEF Tick
  <2>. QED BY <1>1, <2>1, <2>2 DEF IdleInv, ChildInv, Creating
<1>3. ASSUME NEW s \in Sema, DeviceInterrupt(s) PROVE TInv'
  <2>1. /\ Up(s) /\ WakeHlt
        /\ UNCHANGED <<running, idleThread, allList, tid, nextTid, ticks, want, child, seen>>
    BY <1>3 DEF DeviceInterrupt
  <2>2. TypeOK'
    BY <1>1, <2>1, UpTypes
  <2>3. IdleInv'
    BY <1>1, <2>1, UpIdle DEF IdleInv
  <2>. QED BY <1>1, <2>1, <2>2, <2>3 DEF ChildInv, Creating
<1>. QED BY <1>2, <1>3

LEMMA NextTInv == TInv /\ [Next]_vars => TInv'
<1>1. SUFFICES ASSUME TInv, [Next]_vars PROVE TInv'
  OBVIOUS
<1>2. CASE Tick
  BY <1>1, <1>2, InterruptTInv
<1>3. CASE \E s \in Sema : DeviceInterrupt(s)
  BY <1>1, <1>3, InterruptTInv
<1>4. ASSUME NEW t \in Thread, NEW s \in Sema, SemaDown(t, s) \/ SemaTryDown(t, s) \/ SemaUp(t, s)
      PROVE  TInv'
  BY <1>1, <1>4, SemaDownTInv, ClientTInv
<1>5. ASSUME NEW t \in Thread, NEW p \in Page, PallocThread(t, p) PROVE TInv'
  BY <1>1, <1>5, CreateTInv
<1>6. ASSUME NEW t \in Thread, InitThread(t) \/ LoadTid(t) \/ StoreTid(t) \/ StartChild(t) PROVE TInv'
  BY <1>1, <1>6, CreateTInv
<1>7. ASSUME NEW t \in Thread, Yield(t) \/ Exit(t) PROVE TInv'
  BY <1>1, <1>7, ClientTInv
<1>8. ASSUME NEW t \in Thread, IdleSet(t) \/ IdleUp(t) \/ IdleBlock(t) PROVE TInv'
  BY <1>1, <1>8, IdleTInv
<1>9. CASE UNCHANGED vars
  BY <1>1, <1>9 DEF vars, TInv, TypeOK, IdleInv, ChildInv, Creating
<1>. QED BY <1>1, <1>2, <1>3, <1>4, <1>5, <1>6, <1>7, <1>8, <1>9 DEF Next

(* Every variable keeps its type: in particular schedule() always finds a  *)
(* thread to switch to (running \in Thread), so thread.c's                 *)
(* ASSERT(is_thread(next)) cannot fail.                                    *)
THEOREM TypeCorrect == Spec => []TypeOK
<1>1. TInv => TypeOK
  BY DEF TInv
<1>. QED BY <1>1, InitTInv, NextTInv, PTL DEF Spec
-----------------------------------------------------------------------------
Distinct(q) == \A i, j \in 1..Len(q) : q[i] = q[j] => i = j

\* What Append and Tail do to the elements of a list without repetitions.
LEMMA EmptyElems ==
  ASSUME NEW S, NEW q \in Seq(S)
  PROVE  /\ q = <<>> <=> Elems(q) = {}
         /\ Elems(q) \subseteq S
         /\ q # <<>> => Head(q) \in Elems(q)
<1>1. q = <<>> => Elems(q) = {}
  BY DEF Elems
<1>2. q # <<>> => Head(q) \in Elems(q)
  <2>1. ASSUME q # <<>> PROVE 1 \in 1..Len(q) /\ Head(q) = q[1]
    BY <2>1
  <2>. QED BY <2>1 DEF Elems
<1>3. Elems(q) \subseteq S
  BY DEF Elems
<1>. QED BY <1>1, <1>2, <1>3

LEMMA AppendElems ==
  ASSUME NEW S, NEW q \in Seq(S), NEW x \in S
  PROVE  /\ Append(q, x) \in Seq(S)
         /\ Elems(Append(q, x)) = Elems(q) \cup {x}
         /\ Distinct(q) /\ x \notin Elems(q) => Distinct(Append(q, x))
<1>. DEFINE r == Append(q, x)
<1>1. r \in Seq(S) /\ Len(r) = Len(q) + 1 /\ Len(q) \in Nat
  OBVIOUS
<1>2. \A i \in 1..Len(q) : r[i] = q[i]
  OBVIOUS
<1>3. r[Len(q) + 1] = x
  OBVIOUS
<1>. HIDE DEF r
<1>4. 1..Len(r) = 1..Len(q) \cup {Len(q) + 1}
  BY <1>1
<1>5. Elems(r) = Elems(q) \cup {x}
  BY <1>2, <1>3, <1>4 DEF Elems
<1>6. ASSUME Distinct(q), x \notin Elems(q) PROVE Distinct(r)
  <2>1. \A i \in 1..Len(q) : r[i] # x
    BY <1>2, <1>6 DEF Elems
  <2>. QED BY <1>1, <1>2, <1>3, <1>4, <1>6, <2>1 DEF Distinct
<1>. QED BY <1>1, <1>5, <1>6 DEF r

LEMMA TailElems ==
  ASSUME NEW S, NEW q \in Seq(S), q # <<>>, Distinct(q)
  PROVE  /\ Tail(q) \in Seq(S) /\ Head(q) \in S /\ Head(q) \in Elems(q)
         /\ Elems(Tail(q)) = Elems(q) \ {Head(q)}
         /\ Distinct(Tail(q))
<1>. DEFINE r == Tail(q)
<1>1. r \in Seq(S) /\ Len(r) = Len(q) - 1 /\ Len(q) \in Nat \ {0} /\ Head(q) = q[1] /\ Head(q) \in S
  OBVIOUS
<1>2. \A i \in 1..Len(r) : r[i] = q[i + 1] /\ i + 1 \in 1..Len(q) /\ i + 1 # 1
  OBVIOUS
<1>. HIDE DEF r
<1>3. \A i \in 1..Len(q) : i # 1 => i - 1 \in 1..Len(r) /\ r[i - 1] = q[i]
  BY <1>1, <1>2
<1>4. Head(q) \in Elems(q)
  BY <1>1 DEF Elems
<1>5. Elems(r) \subseteq Elems(q) \ {Head(q)}
  <2>1. \A i \in 1..Len(r) : q[i + 1] # q[1]
    BY <1>1, <1>2 DEF Distinct
  <2>. QED BY <1>1, <1>2, <2>1 DEF Elems
<1>6. Elems(q) \ {Head(q)} \subseteq Elems(r)
  BY <1>1, <1>3 DEF Elems
<1>7. Distinct(r)
  <2>1. SUFFICES ASSUME NEW i \in 1..Len(r), NEW j \in 1..Len(r), r[i] = r[j] PROVE i = j
    BY DEF Distinct
  <2>2. i + 1 = j + 1
    BY <1>2, <2>1 DEF Distinct
  <2>. QED BY <2>2, <1>1
<1>. QED BY <1>1, <1>4, <1>5, <1>6, <1>7 DEF r

Living == {"READY", "RUNNING", "BLOCKED"}

(* Which statuses a thread can have, and where a dead one stopped.         *)
StatusInv ==
  /\ \A t \in Thread : status[t] = "RUNNING" <=> t = running
  /\ allList = {t \in Thread : status[t] \in Living}
  /\ \A t \in Thread : status[t] = "DYING" => t = Main
  /\ status[Main] \notin {"FREE", "RAW"} /\ status[Idle] # "RAW"
  /\ \A t \in Thread : status[t] \notin Living => pc[t] = "run"

(* A thread that is being created belongs to one creator and has not run.  *)
FamilyInv ==
  /\ \A t \in Thread : child[t] # NoThread =>
       /\ Creating(t) /\ status[t] \in Living
       /\ pc[child[t]] = "run"
       /\ status[child[t]] = IF pc[t] = "init" THEN "RAW" ELSE "BLOCKED"
  /\ \A t, u \in Thread : child[t] = child[u] /\ child[t] # NoThread => t = u

ReadySet == {t \in Thread : status[t] = "READY" /\ t # idleThread}
Sleepers(s) == {t \in Thread : status[t] = "BLOCKED" /\ pc[t] = "down" /\ want[t] = s}

(* OneList in terms of the sets of threads on the lists.                   *)
ListInv ==
  /\ Distinct(ready) /\ Elems(ready) = ReadySet
  /\ \A s \in Sema : Distinct(waiters[s]) /\ Elems(waiters[s]) = Sleepers(s)

SInv == TInv /\ StatusInv /\ FamilyInv /\ ListInv

LEMMA SInvImplies == SInv => OneList /\ NoDanglingThread
<1>. SUFFICES ASSUME SInv PROVE OneList /\ NoDanglingThread
  OBVIOUS
<1>. USE DEF SInv, TInv
<1>1. ReadyListExact
  <2>1. Distinct(ready) /\ Elems(ready) = ReadySet
    BY DEF ListInv
  <2>2. \A t : t \in ReadySet => \E i \in 1..Len(ready) : ready[i] = t
    BY <2>1 DEF Elems
  <2>3. \A i \in 1..Len(ready) : ready[i] \in ReadySet
    BY <2>1 DEF Elems
  <2>. QED BY <2>1, <2>2, <2>3 DEF ReadyListExact, ReadySet, Distinct
<1>2. WaitListsExact
  <2>1. \A s \in Sema : Distinct(waiters[s]) /\ Elems(waiters[s]) = Sleepers(s)
    BY DEF ListInv
  <2>2. ASSUME NEW s \in Sema
        PROVE  /\ \A i \in 1..Len(waiters[s]) : waiters[s][i] \in Sleepers(s)
               /\ \A t \in Sleepers(s) : \E i \in 1..Len(waiters[s]) : waiters[s][i] = t
    BY <2>1 DEF Elems
  <2>3. \A s \in Sema : \A i, j \in 1..Len(waiters[s]) : waiters[s][i] = waiters[s][j] => i = j
    BY <2>1 DEF Distinct
  <2>4. \A t \in Thread : want[t] \in Sema
    BY DEF TypeOK
  <2>5. \A s \in Sema : \A i \in 1..Len(waiters[s]) :
          LET t == waiters[s][i] IN status[t] = "BLOCKED" /\ pc[t] = "down" /\ want[t] = s
    BY <2>2 DEF Sleepers
  <2>6. \A t \in Thread : status[t] = "BLOCKED" /\ pc[t] = "down" =>
          \E i \in 1..Len(waiters[want[t]]) : waiters[want[t]][i] = t
    BY <2>2, <2>4 DEF Sleepers
  <2>. QED BY <2>3, <2>5, <2>6 DEF WaitListsExact
<1>3. CanDispatch
  <2>1. running # Idle /\ ready = <<>> => idleThread # NoThread
    BY IdleListed, PageAssumption DEF IdleInv
  <2>. QED BY <2>1 DEF CanDispatch, StatusInv
<1>4. NoDanglingThread
  <2>1. \A t \in Thread : child[t] # NoThread =>
          t \in allList /\ status[child[t]] = IF pc[t] = "init" THEN "RAW" ELSE "BLOCKED"
    BY DEF StatusInv, FamilyInv
  <2>2. allList = {t \in Thread : status[t] \in Living}
    BY DEF StatusInv
  <2>3. running \in allList /\ Elems(ready) \subseteq allList
    BY <2>2 DEF StatusInv, TypeOK, ListInv, ReadySet, Living
  <2>4. \A s \in Sema : Elems(waiters[s]) \subseteq allList
    BY <2>2 DEF ListInv, Sleepers, Living
  <2>5. idleThread \in allList \cup {NoThread}
    <3>1. Idle \in Thread /\ status[Idle] \in Status /\ status[Idle] \notin {"FREE", "DYING", "RAW"}
      BY PageAssumption DEF StatusInv, IdleInv, TypeOK, Thread
    <3>2. Idle \in allList
      BY <2>2, <3>1 DEF Status, Living
    <3>. QED BY <3>2 DEF IdleInv
  <2>. QED BY <2>1, <2>2, <2>3, <2>4, <2>5 DEF NoDanglingThread, StatusInv, FamilyInv, Living
<1>. QED BY <1>1, <1>2, <1>3, <1>4 DEF OneList

LEMMA InitSInv == Init => SInv
<1>. SUFFICES ASSUME Init PROVE SInv
  OBVIOUS
<1>. USE PageAssumption, SemaAssumption DEF Init
<1>1. TInv
  BY InitTInv
<1>2. StatusInv
  BY DEF StatusInv, Living, Thread
<1>3. FamilyInv
  BY DEF FamilyInv, Thread
<1>4. ListInv
  <2>1. Distinct(ready) /\ Elems(ready) = {Idle}
    BY DEF Distinct, Elems
  <2>2. ReadySet = {Idle}
    BY DEF ReadySet, Thread
  <2>3. ASSUME NEW s \in Sema PROVE Distinct(waiters[s]) /\ Elems(waiters[s]) = Sleepers(s)
    <3>1. waiters[s] = <<>>
      OBVIOUS
    <3>2. Sleepers(s) = {}
      BY DEF Sleepers, Thread
    <3>. QED BY <3>1, <3>2 DEF Elems, Distinct
  <2>. QED BY <2>1, <2>2, <2>3 DEF ListInv
<1>. QED BY <1>1, <1>2, <1>3, <1>4 DEF SInv

(* What a switch does, told by the sets of threads: st gives the statuses  *)
(* the caller leaves behind, q the ready list.                             *)
LEMMA ScheduleLists ==
  ASSUME SInv, NEW st \in [Thread -> Status], NEW q \in Seq(Thread), Schedule(st, q),
         q = <<>> => idleThread = Idle,
         Distinct(q), Elems(q) = {t \in Thread : st[t] = "READY" /\ t # idleThread},
         \A t \in Thread : st[t] # "RUNNING",
         \A t \in Thread : st[t] = "DYING" => t = running \/ t = Main
  PROVE  /\ Distinct(ready')
         /\ Elems(ready') = {t \in Thread : status'[t] = "READY" /\ t # idleThread}
         /\ running' \in Thread
         /\ \A t \in Thread : status'[t] = "RUNNING" <=> t = running'
         /\ st[running'] = "READY" \/ running' = Idle
         /\ \A t \in Thread : t # running' =>
              status'[t] = IF st[t] = "DYING" /\ t # Main THEN "FREE" ELSE st[t]
<1>. USE DEF SInv, TInv, TypeOK
<1>1. running' = NextThread(q) /\ running' \in Thread
  BY NextIsThread DEF Schedule
<1>2. \A t \in Thread : status'[t] = IF t = running' THEN "RUNNING"
                                     ELSE IF t = running /\ st[t] = "DYING" /\ t # Main THEN "FREE"
                                     ELSE st[t]
  BY <1>1 DEF Schedule
<1>3. CASE q = <<>>
  <2>1. running' = Idle /\ idleThread = Idle /\ ready' = q
    BY <1>1, <1>3 DEF NextThread, Schedule
  <2>2. Elems(ready') = {t \in Thread : status'[t] = "READY" /\ t # idleThread}
    BY <1>2, <2>1
  <2>. QED BY <1>1, <1>2, <2>1, <2>2
<1>4. CASE q # <<>>
  <2>1. running' = Head(q) /\ ready' = Tail(q)
    BY <1>1, <1>4 DEF NextThread, Schedule
  <2>2. Head(q) \in Elems(q) /\ Elems(ready') = Elems(q) \ {Head(q)} /\ Distinct(ready')
    BY <1>4, <2>1, TailElems
  <2>3. st[running'] = "READY"
    BY <2>1, <2>2
  <2>4. Elems(ready') = {t \in Thread : status'[t] = "READY" /\ t # idleThread}
    BY <1>2, <2>1, <2>2
  <2>. QED BY <1>1, <1>2, <2>2, <2>3, <2>4
<1>. QED BY <1>3, <1>4

(* The thread that takes the CPU was READY, or is the idle thread; only    *)
(* its status and the one of the thread that leaves change.                *)
Switched(left) ==
  /\ Distinct(ready')
  /\ Elems(ready') = {t \in Thread : status'[t] = "READY" /\ t # idleThread}
  /\ running' \in Thread
  /\ \A t \in Thread : status'[t] = "RUNNING" <=> t = running'
  /\ status[running'] = "READY" \/ running' \in {Idle, running}
  /\ status'[running] = left \/ running' = running
  /\ \A t \in Thread \ {running, running'} : status'[t] = status[t]

LEMMA BlockSwitched ==
  ASSUME SInv, Block, running = Idle => pc[Idle] = "idleBlock"
  PROVE  Switched("BLOCKED") /\ (running' = running => running = Idle)
<1>. USE DEF SInv, TInv, TypeOK
<1>. DEFINE st == [status EXCEPT ![running] = "BLOCKED"]
<1>1. st \in [Thread -> Status] /\ Schedule(st, ready)
  BY DEF Block, Status
<1>2. ready = <<>> => idleThread = Idle
  BY IdleListed DEF IdleInv
<1>3. \A t \in Thread : st[t] = IF t = running THEN "BLOCKED" ELSE status[t]
  OBVIOUS
<1>4. \A t \in Thread : st[t] # "RUNNING" /\ (st[t] = "DYING" => t = running \/ t = Main)
  BY <1>3 DEF StatusInv
<1>5. Elems(ready) = {t \in Thread : st[t] = "READY" /\ t # idleThread}
  BY <1>3 DEF ListInv, ReadySet, StatusInv
<1>6. Distinct(ready)
  BY DEF ListInv
<1>. HIDE DEF st
<1>7. /\ Distinct(ready')
      /\ Elems(ready') = {t \in Thread : status'[t] = "READY" /\ t # idleThread}
      /\ running' \in Thread
      /\ \A t \in Thread : status'[t] = "RUNNING" <=> t = running'
      /\ st[running'] = "READY" \/ running' = Idle
      /\ \A t \in Thread : t # running' =>
           status'[t] = IF st[t] = "DYING" /\ t # Main THEN "FREE" ELSE st[t]
  BY <1>1, <1>2, <1>4, <1>5, <1>6, ScheduleLists
<1>8. \A t \in Thread : t # running' => status'[t] = st[t]
  BY <1>3, <1>7 DEF StatusInv
<1>. QED BY <1>3, <1>7, <1>8 DEF Switched

LEMMA YieldSwitched ==
  ASSUME SInv, YieldCPU
  PROVE  Switched("READY")
<1>. USE DEF SInv, TInv, TypeOK
<1>. DEFINE st == [status EXCEPT ![running] = "READY"]
            q == IF running # idleThread THEN Append(ready, running) ELSE ready
<1>1. st \in [Thread -> Status] /\ Schedule(st, q)
  BY DEF YieldCPU, Status
<1>2. \A t \in Thread : st[t] = IF t = running THEN "READY" ELSE status[t]
  OBVIOUS
<1>3. \A t \in Thread : st[t] # "RUNNING" /\ (st[t] = "DYING" => t = running \/ t = Main)
  BY <1>2 DEF StatusInv
<1>4. Distinct(ready) /\ Elems(ready) = ReadySet /\ running \notin ReadySet
  BY DEF ListInv, ReadySet, StatusInv
<1>5. /\ q \in Seq(Thread) /\ Distinct(q)
      /\ Elems(q) = IF running # idleThread THEN ReadySet \cup {running} ELSE ReadySet
  BY <1>4, AppendElems
<1>6. Elems(q) = {t \in Thread : st[t] = "READY" /\ t # idleThread}
  BY <1>2, <1>5 DEF ReadySet
<1>. HIDE DEF st, q
<1>7. q = <<>> => idleThread = Idle
  <2>1. q = <<>> => Elems(q) = {}
    BY <1>5, EmptyElems
  <2>2. q = <<>> => running = idleThread
    BY <1>5, <2>1
  <2>. QED BY <2>2, PageAssumption DEF IdleInv, Thread
<1>8. /\ Distinct(ready')
      /\ Elems(ready') = {t \in Thread : status'[t] = "READY" /\ t # idleThread}
      /\ running' \in Thread
      /\ \A t \in Thread : status'[t] = "RUNNING" <=> t = running'
      /\ st[running'] = "READY" \/ running' = Idle
      /\ \A t \in Thread : t # running' =>
           status'[t] = IF st[t] = "DYING" /\ t # Main THEN "FREE" ELSE st[t]
  BY <1>1, <1>3, <1>5, <1>6, <1>7, ScheduleLists
<1>9. \A t \in Thread : t # running' => status'[t] = st[t]
  BY <1>2, <1>8 DEF StatusInv
<1>. QED BY <1>2, <1>8, <1>9 DEF Switched

LEMMA ExitSwitched ==
  ASSUME SInv, running # Idle, Schedule([status EXCEPT ![running] = "DYING"], ready)
  PROVE  Switched(IF running = Main THEN "DYING" ELSE "FREE") /\ running' # running
<1>. USE DEF SInv, TInv, TypeOK
<1>. DEFINE st == [status EXCEPT ![running] = "DYING"]
<1>1. st \in [Thread -> Status] /\ Schedule(st, ready)
  BY DEF Status
<1>2. ready = <<>> => idleThread = Idle
  BY IdleListed DEF IdleInv
<1>3. \A t \in Thread : st[t] = IF t = running THEN "DYING" ELSE status[t]
  OBVIOUS
<1>4. \A t \in Thread : st[t] # "RUNNING" /\ (st[t] = "DYING" => t = running \/ t = Main)
  BY <1>3 DEF StatusInv
<1>5. Elems(ready) = {t \in Thread : st[t] = "READY" /\ t # idleThread}
  BY <1>3 DEF ListInv, ReadySet, StatusInv
<1>6. Distinct(ready)
  BY DEF ListInv
<1>. HIDE DEF st
<1>7. /\ Distinct(ready')
      /\ Elems(ready') = {t \in Thread : status'[t] = "READY" /\ t # idleThread}
      /\ running' \in Thread
      /\ \A t \in Thread : status'[t] = "RUNNING" <=> t = running'
      /\ st[running'] = "READY" \/ running' = Idle
      /\ \A t \in Thread : t # running' =>
           status'[t] = IF st[t] = "DYING" /\ t # Main THEN "FREE" ELSE st[t]
  BY <1>1, <1>2, <1>4, <1>5, <1>6, ScheduleLists
<1>8. running' # running
  BY <1>3, <1>7
<1>9. \A t \in Thread \ {running, running'} : status'[t] = status[t]
  BY <1>3, <1>7 DEF StatusInv
<1>. QED BY <1>3, <1>7, <1>8, <1>9 DEF Switched

(* sema_up: the head of the wait list moves to the end of the ready list.  *)
LEMMA UpMoves ==
  ASSUME SInv, NEW s \in Sema, Up(s), waiters[s] # <<>>
  PROVE  LET w == Head(waiters[s]) IN
         /\ w \in Sleepers(s) /\ w # idleThread
         /\ status' = [status EXCEPT ![w] = "READY"]
         /\ ready' = Append(ready, w) /\ Distinct(ready') /\ Elems(ready') = ReadySet \cup {w}
         /\ waiters' = [waiters EXCEPT ![s] = Tail(@)]
         /\ Distinct(Tail(waiters[s])) /\ Elems(Tail(waiters[s])) = Sleepers(s) \ {w}
<1>. USE DEF SInv, TInv, TypeOK
<1>. DEFINE q == waiters[s]
            w == Head(q)
<1>1. Distinct(q) /\ Elems(q) = Sleepers(s) /\ q \in Seq(Thread) /\ q # <<>>
  BY DEF ListInv
<1>. HIDE DEF q
<1>2. w \in Sleepers(s) /\ Distinct(Tail(q)) /\ Elems(Tail(q)) = Sleepers(s) \ {w}
  BY ONLY <1>1, TailElems
<1>3. w # idleThread
  BY <1>2, PageAssumption DEF Sleepers, IdleInv, IdleLabel, Thread
<1>4. ready' = Append(ready, w) /\ status' = [status EXCEPT ![w] = "READY"] /\ waiters' = [waiters EXCEPT ![s] = Tail(@)]
  BY <1>1 DEF Up, Unblock, q
<1>5. w \in Thread /\ w \notin Elems(ready) /\ Distinct(ready) /\ Elems(ready) = ReadySet
  BY <1>2 DEF ListInv, ReadySet, Sleepers
<1>6. Distinct(ready') /\ Elems(ready') = ReadySet \cup {w}
  <2>1. ready \in Seq(Thread)
    OBVIOUS
  <2>. QED BY ONLY <1>4, <1>5, <2>1, AppendElems
<1>. QED BY <1>2, <1>3, <1>4, <1>6 DEF q

LEMMA SwitchEffect ==
  ASSUME SInv, NEW left, Switched(left), left \in Living \/ running # Idle
  PROVE  /\ \A t \in Thread \ {running} :
              /\ status'[t] \in Living <=> status[t] \in Living
              /\ t # Idle => (status'[t] = "BLOCKED" <=> status[t] = "BLOCKED")
              /\ t # Idle => (status'[t] \in {"READY", "RUNNING"} <=> status[t] \in {"READY", "RUNNING"})
              /\ status'[t] \notin Living => status'[t] = status[t]
         /\ running' # running => status'[running] = left
         /\ running' = running => status'[running] = "RUNNING"
         /\ running' # running /\ running' # Idle => status[running'] = "READY"
<1>1. status[running] = "RUNNING" /\ status[Idle] \in Living /\ Idle \in Thread /\ status \in [Thread -> Status]
  BY PageAssumption DEF SInv, TInv, TypeOK, IdleInv, StatusInv, Living, Status, Thread
<1>. QED BY <1>1 DEF Switched, Living, SInv, StatusInv

LEMMA SemaDownSInv ==
  ASSUME SInv, TInv', NEW t \in Thread, NEW s \in Sema, SemaDown(t, s)
  PROVE  SInv'
<1>. USE DEF SInv, TInv, TypeOK
<1>1. /\ running = t /\ t # Idle /\ status[t] = "RUNNING"
      /\ UNCHANGED <<idleThread, allList, tid, nextTid, child, seen>>
      /\ CallsDown(t, s) \/ (pc[t] = "down" /\ want[t] = s)
  BY DEF SemaDown, CallsDown, IdleInv, IdleLabel, StatusInv
<1>2. CASE value[s] = 0
  <2>1. /\ Block /\ waiters' = [waiters EXCEPT ![s] = Append(@, t)]
        /\ pc' = [pc EXCEPT ![t] = "down"] /\ want' = [want EXCEPT ![t] = s]
    BY <1>2 DEF SemaDown, WaitAt, Goto
  <2>2. Switched("BLOCKED") /\ running' # running
    BY <1>1, <2>1, BlockSwitched
  <2>3. /\ \A u \in Thread \ {running} :
              /\ status'[u] \in Living <=> status[u] \in Living
              /\ u # Idle => (status'[u] = "BLOCKED" <=> status[u] = "BLOCKED")
              /\ status'[u] \notin Living => status'[u] = status[u]
        /\ status'[running] = "BLOCKED"
    BY <1>1, <2>2, SwitchEffect
  <2>4. StatusInv'
    <3>1. \A u \in Thread : status'[u] \in Living <=> status[u] \in Living
      BY <1>1, <2>3 DEF Living
    <3>2. \A u \in Thread : status'[u] = "RUNNING" <=> u = running'
      BY <2>2 DEF Switched
    <3>3. \A u \in Thread : status'[u] = "DYING" => u = Main
      BY <2>3 DEF StatusInv, Living
    <3>4. status'[Main] \notin {"FREE", "RAW"} /\ status'[Idle] # "RAW"
      BY <2>3, PageAssumption DEF StatusInv, Living, Thread
    <3>5. \A u \in Thread : status'[u] \notin Living => pc'[u] = "run"
      BY <1>1, <2>1, <3>1 DEF StatusInv, Living
    <3>. QED BY <1>1, <3>1, <3>2, <3>3, <3>4, <3>5 DEF StatusInv
  <2>5. FamilyInv'
    <3>1. SUFFICES ASSUME NEW u \in Thread, child[u] # NoThread
          PROVE  /\ Creating(u)' /\ status'[u] \in Living /\ pc'[child[u]] = "run"
                 /\ status'[child[u]] = IF pc'[u] = "init" THEN "RAW" ELSE "BLOCKED"
      BY <1>1 DEF FamilyInv
    <3>2. /\ Creating(u) /\ status[u] \in Living /\ pc[child[u]] = "run"
          /\ status[child[u]] = IF pc[u] = "init" THEN "RAW" ELSE "BLOCKED"
          /\ child[u] \in Thread /\ child[u] # Idle
      BY <3>1 DEF FamilyInv, IdleInv, Thread
    <3>3. child[u] # t
      BY <1>1, <3>2
    <3>4. status'[child[u]] = status[child[u]]
      BY <1>1, <2>3, <3>2, <3>3 DEF Living
    <3>5. Creating(u)' /\ pc'[child[u]] = "run" /\ (pc'[u] = "init" <=> pc[u] = "init")
      BY <1>1, <2>1, <3>2, <3>3, SemaAssumption DEF Creating, CallsDown, Sema
    <3>. QED BY <1>1, <2>3, <3>2, <3>4, <3>5 DEF Living
  <2>6. ListInv'
    <3>1. Distinct(ready') /\ Elems(ready') = ReadySet'
      BY <1>1, <2>2 DEF Switched, ReadySet
    <3>2. \A r \in Sema : Sleepers(r)' = IF r = s THEN Sleepers(s) \cup {t} ELSE Sleepers(r)
      <4>1. \A r \in Sema, u \in Thread \ {t} : u \in Sleepers(r)' <=> u \in Sleepers(r)
        <5>1. pc[Idle] # "down" /\ pc'[Idle] # "down" /\ Idle \in Thread
          BY PageAssumption DEF IdleInv, IdleLabel, Thread
        <5>2. \A u \in Thread \ {t} : pc'[u] = pc[u] /\ want'[u] = want[u]
          BY <2>1
        <5>. QED BY <1>1, <2>3, <5>1, <5>2 DEF Sleepers
      <4>2. \A r \in Sema : t \in Sleepers(r)' <=> r = s
        BY <1>1, <2>1, <2>3 DEF Sleepers
      <4>3. \A r \in Sema : t \notin Sleepers(r)
        BY <1>1 DEF Sleepers
      <4>4. \A r \in Sema : Sleepers(r) \subseteq Thread /\ Sleepers(r)' \subseteq Thread
        BY DEF Sleepers
      <4>5. ASSUME NEW r \in Sema, r = s PROVE Sleepers(r)' = Sleepers(s) \cup {t}
        BY <1>1, <4>1, <4>2, <4>4, <4>5
      <4>6. ASSUME NEW r \in Sema, r # s PROVE Sleepers(r)' = Sleepers(r)
        <5>1. \A u \in Thread : u \in Sleepers(r)' <=> u \in Sleepers(r)
          BY <4>1, <4>2, <4>3, <4>6
        <5>. QED BY <4>4, <5>1
      <4>. QED BY <4>5, <4>6
    <3>3. t \notin Elems(waiters[s]) /\ Distinct(waiters[s]) /\ Elems(waiters[s]) = Sleepers(s)
      BY <1>1 DEF ListInv, Sleepers
    <3>4. Distinct(waiters'[s]) /\ Elems(waiters'[s]) = Sleepers(s) \cup {t}
      <4>1. waiters'[s] = Append(waiters[s], t) /\ waiters[s] \in Seq(Thread)
        BY <2>1
      <4>. DEFINE q == waiters[s]
      <4>2. q \in Seq(Thread) /\ t \notin Elems(q) /\ Distinct(q)
        BY <3>3, <4>1
      <4>. HIDE DEF q
      <4>3. Elems(Append(q, t)) = Elems(q) \cup {t} /\ Distinct(Append(q, t))
        BY ONLY <4>2, t \in Thread, AppendElems
      <4>4. waiters'[s] = Append(q, t) /\ Elems(q) = Sleepers(s)
        BY <3>3, <4>1 DEF q
      <4>. QED BY <4>3, <4>4
    <3>5. \A r \in Sema : r # s => waiters'[r] = waiters[r]
      BY <2>1
    <3>. QED BY <3>1, <3>2, <3>4, <3>5 DEF ListInv
  <2>. QED BY <2>4, <2>5, <2>6
<1>3. CASE value[s] # 0
  <2>1. /\ pc' = [pc EXCEPT ![t] = AfterDown(s)]
        /\ UNCHANGED <<waiters, status, ready, running, want>>
    BY <1>3 DEF SemaDown, Goto
  <2>2. StatusInv'
    BY <1>1, <2>1 DEF StatusInv, Living
  <2>3. FamilyInv'
    <3>1. \A u \in Thread : child[u] # NoThread => child[u] \in Thread /\ child[u] # t
      BY <1>1 DEF Thread, FamilyInv
    <3>2. ASSUME NEW u \in Thread, Creating(u)
          PROVE  Creating(u)' /\ (pc'[u] = "init" <=> pc[u] = "init")
      BY <1>1, <2>1, <3>2, SemaAssumption DEF Creating, CallsDown, AfterDown, Sema
    <3>3. ASSUME NEW u \in Thread, child[u] # NoThread
          PROVE  /\ Creating(u)' /\ status'[u] \in Living /\ pc'[child[u]] = "run"
                 /\ status'[child[u]] = IF pc'[u] = "init" THEN "RAW" ELSE "BLOCKED"
      <4>1. /\ Creating(u) /\ status[u] \in Living /\ pc[child[u]] = "run"
            /\ status[child[u]] = IF pc[u] = "init" THEN "RAW" ELSE "BLOCKED"
        BY <3>3 DEF FamilyInv
      <4>2. pc'[child[u]] = pc[child[u]]
        BY <2>1, <3>1, <3>3
      <4>. QED BY <2>1, <3>2, <4>1, <4>2
    <3>. QED BY <1>1, <3>3 DEF FamilyInv
  <2>4. ListInv'
    <3>1. \A r \in Sema : Sleepers(r)' = Sleepers(r)
      BY <1>1, <2>1 DEF Sleepers
    <3>. QED BY <1>1, <2>1, <3>1 DEF ListInv, ReadySet
  <2>. QED BY <2>2, <2>3, <2>4
<1>. QED BY <1>2, <1>3

\* What a step may do to the code position of the thread that takes it.
KeepsPlace ==
  /\ \A u \in Thread \ {running} : pc'[u] = pc[u]
  /\ pc'[running] # "down" /\ pc[running] # "down"
  /\ \A u \in Thread : Creating(u) => Creating(u)' /\ (pc'[u] = "init" <=> pc[u] = "init")
  /\ want' = want /\ child' = child

LEMMA KeepsPlaceFamily ==
  ASSUME SInv, KeepsPlace,
         \A u \in Thread : child[u] # NoThread => status'[u] \in Living /\ status'[child[u]] = status[child[u]]
  PROVE  FamilyInv'
<1>. USE DEF SInv, TInv, TypeOK
<1>1. SUFFICES ASSUME NEW u \in Thread, child[u] # NoThread
      PROVE  /\ Creating(u)' /\ status'[u] \in Living /\ pc'[child[u]] = "run"
             /\ status'[child[u]] = IF pc'[u] = "init" THEN "RAW" ELSE "BLOCKED"
  BY DEF FamilyInv, KeepsPlace
<1>2. /\ Creating(u) /\ status[u] \in Living /\ pc[child[u]] = "run"
      /\ status[child[u]] = IF pc[u] = "init" THEN "RAW" ELSE "BLOCKED"
      /\ child[u] \in Thread
  BY <1>1 DEF FamilyInv, Thread
<1>3. child[u] # running
  BY <1>2 DEF StatusInv
<1>4. Creating(u)' /\ (pc'[u] = "init" <=> pc[u] = "init")
  BY <1>2 DEF KeepsPlace
<1>. QED BY <1>1, <1>2, <1>3, <1>4 DEF KeepsPlace

LEMMA UpSInv ==
  ASSUME SInv, TInv', NEW s \in Sema, Up(s), KeepsPlace, UNCHANGED <<running, idleThread, allList>>
  PROVE  SInv'
<1>. USE DEF SInv, TInv, TypeOK
<1>1. CASE waiters[s] = <<>>
  <2>1. UNCHANGED <<waiters, ready, status>>
    BY <1>1 DEF Up
  <2>2. StatusInv'
    BY <2>1 DEF StatusInv, KeepsPlace, Living
  <2>3. FamilyInv'
    BY <2>1, KeepsPlaceFamily DEF FamilyInv
  <2>4. ListInv'
    <3>1. \A r \in Sema : Sleepers(r)' = Sleepers(r)
      BY <2>1 DEF Sleepers, KeepsPlace
    <3>. QED BY <2>1, <3>1 DEF ListInv, ReadySet
  <2>. QED BY <2>2, <2>3, <2>4
<1>2. CASE waiters[s] # <<>>
  <2>. DEFINE w == Head(waiters[s])
  <2>1. /\ w \in Sleepers(s) /\ w # idleThread
        /\ status' = [status EXCEPT ![w] = "READY"]
        /\ ready' = Append(ready, w) /\ Distinct(ready') /\ Elems(ready') = ReadySet \cup {w}
        /\ waiters' = [waiters EXCEPT ![s] = Tail(@)]
        /\ Distinct(Tail(waiters[s])) /\ Elems(Tail(waiters[s])) = Sleepers(s) \ {w}
    BY <1>2, UpMoves
  <2>. HIDE DEF w
  <2>2. w \in Thread /\ status[w] = "BLOCKED" /\ pc[w] = "down" /\ want[w] = s
    BY <2>1 DEF Sleepers
  <2>3. \A u \in Thread : status'[u] = IF u = w THEN "READY" ELSE status[u]
    BY <2>1, <2>2
  <2>4. StatusInv'
    <3>1. \A u \in Thread : status'[u] = "RUNNING" <=> u = running
      BY <2>2, <2>3 DEF StatusInv
    <3>2. \A u \in Thread : status'[u] \in Living <=> status[u] \in Living
      BY <2>2, <2>3 DEF Living
    <3>3. \A u \in Thread : status'[u] \notin Living => status'[u] = status[u] /\ pc'[u] = pc[u]
      BY <2>3 DEF Living, KeepsPlace, StatusInv
    <3>4. allList' = {u \in Thread : status'[u] \in Living}
      BY <3>2 DEF StatusInv
    <3>5. \A u \in Thread : status'[u] = "DYING" => u = Main
      BY <3>3 DEF StatusInv, Living
    <3>6. status'[Main] \notin {"FREE", "RAW"} /\ status'[Idle] # "RAW"
      BY <2>3, PageAssumption DEF StatusInv, Thread
    <3>7. \A u \in Thread : status'[u] \notin Living => pc'[u] = "run"
      BY <3>3 DEF StatusInv
    <3>. QED BY <3>1, <3>4, <3>5, <3>6, <3>7 DEF StatusInv
  <2>5. FamilyInv'
    <3>1. ASSUME NEW u \in Thread, child[u] # NoThread
          PROVE  status'[u] \in Living /\ status'[child[u]] = status[child[u]]
      <4>1. child[u] # w /\ child[u] \in Thread
        BY <2>2, <3>1 DEF FamilyInv, Thread
      <4>. QED BY <2>1, <2>2, <3>1, <4>1 DEF FamilyInv, Living
    <3>. QED BY <3>1, KeepsPlaceFamily
  <2>6. ListInv'
    <3>1. ReadySet' = ReadySet \cup {w}
      <4>1. ReadySet \subseteq Thread /\ ReadySet' \subseteq Thread
        BY DEF ReadySet
      <4>2. \A u \in Thread : u \in ReadySet' <=> u \in ReadySet \/ u = w
        BY <2>1, <2>2 DEF ReadySet
      <4>. QED BY <2>2, <4>1, <4>2
    <3>2. \A r \in Sema : Sleepers(r) \subseteq Thread /\ Sleepers(r)' \subseteq Thread
      BY DEF Sleepers
    <3>3. \A r \in Sema : \A u \in Thread : u \in Sleepers(r)' <=> u \in Sleepers(r) /\ u # w
      BY <2>1, <2>2 DEF Sleepers, KeepsPlace
    <3>4. ASSUME NEW r \in Sema PROVE Sleepers(r)' = Sleepers(r) \ {w}
      BY <3>2, <3>3
    <3>5. ASSUME NEW r \in Sema, r # s PROVE w \notin Sleepers(r)
      BY <2>2, <3>5 DEF Sleepers
    <3>6. ASSUME NEW r \in Sema PROVE Distinct(waiters'[r]) /\ Elems(waiters'[r]) = Sleepers(r)'
      <4>1. CASE r = s
        BY <2>1, <3>4, <4>1
      <4>2. CASE r # s
        <5>1. waiters'[r] = waiters[r]
          BY <2>1, <4>2
        <5>2. \A u \in Thread : u \in Sleepers(r)' <=> u \in Sleepers(r)
          BY <3>3, <3>5, <4>2
        <5>3. Sleepers(r)' = Sleepers(r)
          BY <3>2, <5>2
        <5>. QED BY <5>1, <5>3 DEF ListInv
      <4>. QED BY <4>1, <4>2
    <3>. QED BY <2>1, <3>1, <3>6 DEF ListInv
  <2>. QED BY <2>4, <2>5, <2>6
<1>. QED BY <1>1, <1>2

LEMMA SwitchSInv ==
  ASSUME SInv, TInv', NEW left, Switched(left), KeepsPlace, UNCHANGED <<idleThread, waiters>>,
         \/ left = "READY" /\ allList' = allList
         \/ left = "BLOCKED" /\ running = Idle /\ allList' = allList
         \/ /\ left = (IF running = Main THEN "DYING" ELSE "FREE")
            /\ allList' = allList \ {running} /\ running # Idle /\ running' # running
            /\ pc[running] = "run" /\ pc' = pc
  PROVE  SInv'
<1>. USE DEF SInv, TInv, TypeOK
<1>0. status[running] = "RUNNING" /\ Idle \in Thread
  BY PageAssumption DEF StatusInv, Thread
<1>1. /\ \A u \in Thread \ {running} :
              /\ status'[u] \in Living <=> status[u] \in Living
              /\ u # Idle => (status'[u] = "BLOCKED" <=> status[u] = "BLOCKED")
              /\ status'[u] \notin Living => status'[u] = status[u]
      /\ running' # running => status'[running] = left
      /\ running' = running => status'[running] = "RUNNING"
  BY SwitchEffect DEF Living
<1>2. StatusInv'
  <2>1. \A u \in Thread : status'[u] = "RUNNING" <=> u = running'
    BY DEF Switched
  <2>2. allList' = {u \in Thread : status'[u] \in Living}
    BY <1>0, <1>1 DEF StatusInv, Living
  <2>3. \A u \in Thread : status'[u] = "DYING" => u = Main
    BY <1>1 DEF StatusInv, Living
  <2>4. status'[Main] \notin {"FREE", "RAW"} /\ status'[Idle] # "RAW"
    BY <1>0, <1>1, PageAssumption DEF StatusInv, Living, Thread
  <2>5. ASSUME NEW u \in Thread, status'[u] \notin Living PROVE pc'[u] = "run"
    <3>1. CASE u = running
      BY <1>1, <2>5, <3>1 DEF Living
    <3>2. CASE u # running
      <4>1. pc'[u] = pc[u] /\ status'[u] = status[u]
        BY <1>1, <2>5, <3>2 DEF KeepsPlace
      <4>. QED BY <2>5, <4>1 DEF StatusInv
    <3>. QED BY <3>1, <3>2
  <2>. QED BY <2>1, <2>2, <2>3, <2>4, <2>5 DEF StatusInv
<1>3. FamilyInv'
  <2>1. ASSUME NEW u \in Thread, child[u] # NoThread
        PROVE  status'[u] \in Living /\ status'[child[u]] = status[child[u]]
    <3>0. Creating(u) /\ status[u] \in Living /\ status[child[u]] \in {"RAW", "BLOCKED"}
      BY <2>1 DEF FamilyInv
    <3>1. child[u] \in Thread /\ child[u] # Idle /\ child[u] # running
      BY <1>0, <2>1, <3>0 DEF IdleInv, Thread
    <3>2. u = running => left \in Living
      BY <3>0 DEF Creating, Living
    <3>. QED BY <1>1, <3>0, <3>1, <3>2 DEF Living
  <2>. QED BY <2>1, KeepsPlaceFamily
<1>4. ListInv'
  <2>1. \A r \in Sema : Sleepers(r) \subseteq Thread /\ Sleepers(r)' \subseteq Thread
    BY DEF Sleepers
  <2>2. pc[Idle] # "down" /\ pc'[Idle] # "down"
    BY <1>0 DEF IdleInv, IdleLabel
  <2>3. \A r \in Sema : \A u \in Thread : u \in Sleepers(r)' <=> u \in Sleepers(r)
    BY <1>0, <1>1, <2>2 DEF Sleepers, KeepsPlace
  <2>4. \A r \in Sema : Sleepers(r)' = Sleepers(r)
    BY <2>1, <2>3
  <2>. QED BY <2>4 DEF ListInv, Switched, ReadySet
<1>. QED BY <1>2, <1>3, <1>4

\* A step that leaves every list and every status alone.
LEMMA StillSInv ==
  ASSUME SInv, TInv', KeepsPlace, UNCHANGED <<status, ready, running, idleThread, allList, waiters>>
  PROVE  SInv'
<1>. USE DEF SInv, TInv, TypeOK
<1>1. StatusInv'
  BY DEF StatusInv, KeepsPlace, Living
<1>2. FamilyInv'
  BY KeepsPlaceFamily DEF FamilyInv
<1>3. ListInv'
  <2>1. \A r \in Sema : Sleepers(r)' = Sleepers(r)
    BY DEF Sleepers, KeepsPlace
  <2>. QED BY <2>1 DEF ListInv, ReadySet
<1>. QED BY <1>1, <1>2, <1>3

LEMMA ClientSInv ==
  ASSUME SInv, TInv', NEW t \in Thread
  PROVE  /\ \A s \in Sema : SemaTryDown(t, s) \/ SemaUp(t, s) => SInv'
         /\ Yield(t) \/ Exit(t) => SInv'
<1>. USE DEF At
<1>1. ASSUME UNCHANGED locals, pc[running] # "down" PROVE KeepsPlace
  BY <1>1 DEF KeepsPlace, Creating, locals
<1>2. ASSUME NEW s \in Sema, SemaTryDown(t, s) PROVE SInv'
  BY <1>1, <1>2, StillSInv DEF SemaTryDown
<1>3. ASSUME NEW s \in Sema, SemaUp(t, s) PROVE SInv'
  BY <1>1, <1>3, UpSInv DEF SemaUp
<1>4. ASSUME Yield(t) PROVE SInv'
  <2>1. Switched("READY") /\ KeepsPlace
    BY <1>1, <1>4, YieldSwitched DEF Yield
  <2>. QED BY <1>4, <2>1, SwitchSInv DEF Yield
<1>5. ASSUME Exit(t) PROVE SInv'
  <2>1. KeepsPlace /\ running = t /\ running # Idle /\ pc[running] = "run" /\ pc' = pc
    BY <1>1, <1>5 DEF Exit, SInv, TInv, IdleInv, IdleLabel, locals
  <2>2. Schedule([status EXCEPT ![running] = "DYING"], ready)
    BY <1>5, <2>1 DEF Exit
  <2>3. Switched(IF running = Main THEN "DYING" ELSE "FREE") /\ running' # running
    BY <2>1, <2>2, ExitSwitched
  <2>4. allList' = allList \ {running} /\ UNCHANGED <<idleThread, waiters>>
    BY <1>5, <2>1 DEF Exit
  <2>. QED BY <2>1, <2>3, <2>4, SwitchSInv
<1>. QED BY <1>2, <1>3, <1>4, <1>5

LEMMA InterruptSInv ==
  ASSUME SInv, TInv'
  PROVE  /\ Tick => SInv'
         /\ \A s \in Sema : DeviceInterrupt(s) => SInv'
<1>. USE DEF SInv, TInv, TypeOK
<1>1. ASSUME WakeHlt, UNCHANGED <<want, child>>, InterruptsOn PROVE KeepsPlace
  <2>1. pc' = pc \/ (pc[running] = "hlt" /\ pc' = [pc EXCEPT ![running] = "idleBlock"])
    BY <1>1 DEF WakeHlt
  <2>2. pc[running] # "down" /\ pc'[running] # "down"
    BY <1>1, <2>1 DEF InterruptsOn
  <2>3. \A u \in Thread : Creating(u) => Creating(u)' /\ (pc'[u] = "init" <=> pc[u] = "init")
    BY <1>1, <2>1 DEF Creating
  <2>4. \A u \in Thread \ {running} : pc'[u] = pc[u]
    BY <2>1
  <2>. QED BY <1>1, <2>2, <2>3, <2>4 DEF KeepsPlace
<1>2. ASSUME Tick PROVE SInv'
  <2>1. KeepsPlace
    BY <1>1, <1>2 DEF Tick
  <2>2. CASE YieldCPU
    BY <1>2, <2>1, <2>2, YieldSwitched, SwitchSInv DEF Tick
  <2>3. CASE UNCHANGED <<status, ready, running>>
    BY <1>2, <2>1, <2>3, StillSInv DEF Tick
  <2>. QED BY <1>2, <2>2, <2>3 DEF Tick
<1>3. ASSUME NEW s \in Sema, DeviceInterrupt(s) PROVE SInv'
  <2>1. KeepsPlace
    BY <1>1, <1>3 DEF DeviceInterrupt
  <2>. QED BY <1>3, <2>1, UpSInv DEF DeviceInterrupt
<1>. QED BY <1>2, <1>3

LEMMA IdleSInv ==
  ASSUME SInv, TInv', NEW t \in Thread
  PROVE  IdleSet(t) \/ IdleUp(t) \/ IdleBlock(t) => SInv'
<1>. USE DEF SInv, TInv, TypeOK, At, Goto
<1>1. ASSUME NEW l, l \in IdleLabel, running = Idle, pc[Idle] \in IdleLabel, Goto(Idle, l), UNCHANGED <<want, child>>
      PROVE  KeepsPlace
  BY <1>1, PageAssumption DEF KeepsPlace, Creating, IdleLabel, Thread
<1>2. ASSUME IdleSet(t) PROVE SInv'
  <2>1. t = Idle /\ running = Idle /\ idleThread' = Idle /\ Goto(Idle, "idleUp") /\ pc[Idle] = "idleSet"
    BY <1>2 DEF IdleSet, IdleInv, IdleLabel
  <2>2. KeepsPlace
    BY <1>1, <1>2, <2>1 DEF IdleSet, IdleLabel
  <2>3. StatusInv'
    BY <1>2, <2>2 DEF IdleSet, StatusInv, KeepsPlace, Living
  <2>4. FamilyInv'
    BY <1>2, <2>2, KeepsPlaceFamily DEF IdleSet, FamilyInv
  <2>5. ListInv'
    <3>1. idleThread = NoThread
      BY <2>1 DEF IdleInv
    <3>2. ReadySet' = ReadySet
      BY <1>2, <2>1, <3>1, PageAssumption DEF IdleSet, ReadySet, StatusInv, Thread
    <3>3. \A r \in Sema : Sleepers(r)' = Sleepers(r)
      BY <1>2, <2>2 DEF IdleSet, Sleepers, KeepsPlace
    <3>. QED BY <1>2, <3>2, <3>3 DEF ListInv, IdleSet
  <2>. QED BY <2>3, <2>4, <2>5
<1>3. ASSUME IdleUp(t) PROVE SInv'
  <2>1. t = Idle /\ running = Idle /\ Goto(Idle, "idleBlock") /\ pc[Idle] = "idleUp" /\ IdleStarted \in Sema
    BY <1>3 DEF IdleUp, IdleInv, IdleLabel, Sema
  <2>2. KeepsPlace
    BY <1>1, <1>3, <2>1 DEF IdleUp, IdleLabel
  <2>. QED BY <1>3, <2>1, <2>2, UpSInv DEF IdleUp
<1>4. ASSUME IdleBlock(t) PROVE SInv'
  <2>1. t = Idle /\ running = Idle /\ Goto(Idle, "hlt") /\ pc[Idle] = "idleBlock" /\ Block
    BY <1>4 DEF IdleBlock, IdleInv, IdleLabel
  <2>2. KeepsPlace
    BY <1>1, <1>4, <2>1 DEF IdleBlock, IdleLabel
  <2>3. Switched("BLOCKED")
    BY <2>1, BlockSwitched
  <2>. QED BY <1>4, <2>1, <2>2, <2>3, SwitchSInv DEF IdleBlock
<1>. QED BY <1>2, <1>3, <1>4

LEMMA TidLockSInv ==
  ASSUME SInv, TInv', NEW t \in Thread
  PROVE  LoadTid(t) \/ StoreTid(t) => SInv'
<1>. USE DEF SInv, TInv, TypeOK, At, Goto
<1>1. ASSUME LoadTid(t) PROVE SInv'
  <2>1. KeepsPlace
    BY <1>1 DEF LoadTid, KeepsPlace, Creating
  <2>. QED BY <1>1, <2>1, StillSInv DEF LoadTid
<1>2. ASSUME StoreTid(t) PROVE SInv'
  <2>1. KeepsPlace
    BY <1>2 DEF StoreTid, KeepsPlace, Creating
  <2>. QED BY <1>2, <2>1, UpSInv DEF StoreTid, Sema
<1>. QED BY <1>1, <1>2

LEMMA PallocSInv ==
  ASSUME SInv, TInv', NEW t \in Thread, NEW p \in Page, PallocThread(t, p)
  PROVE  SInv'
<1>. USE DEF SInv, TInv, TypeOK
<1>1. /\ running = t /\ pc[t] = "run" /\ status[p] = "FREE" /\ p \in Thread /\ p # t /\ p # Main /\ p # Idle
      /\ status[t] = "RUNNING"
      /\ status' = [status EXCEPT ![p] = "RAW"] /\ child' = [child EXCEPT ![t] = p]
      /\ pc' = [pc EXCEPT ![t] = "init"]
      /\ UNCHANGED <<ready, running, idleThread, allList, waiters, want>>
  BY PageAssumption DEF PallocThread, At, Goto, StatusInv, Thread, IdleInv
<1>2. child[t] = NoThread
  BY <1>1 DEF FamilyInv, Creating
<1>3. \A u \in Thread : status'[u] = IF u = p THEN "RAW" ELSE status[u]
  BY <1>1
<1>4. \A u \in Thread : pc'[u] = IF u = t THEN "init" ELSE pc[u]
  BY <1>1
<1>5. \A u \in Thread : child'[u] = IF u = t THEN p ELSE child[u]
  BY <1>1
<1>6. pc[p] = "run"
  BY <1>1 DEF StatusInv, Living
<1>7. StatusInv'
  <2>1. \A u \in Thread : status'[u] = "RUNNING" <=> u = running
    BY <1>1, <1>3 DEF StatusInv
  <2>2. allList' = {u \in Thread : status'[u] \in Living}
    BY <1>1, <1>3 DEF StatusInv, Living
  <2>3. \A u \in Thread : status'[u] = "DYING" => u = Main
    BY <1>3 DEF StatusInv
  <2>4. status'[Main] \notin {"FREE", "RAW"} /\ status'[Idle] # "RAW"
    BY <1>1, <1>3, PageAssumption DEF StatusInv, Thread
  <2>5. \A u \in Thread : status'[u] \notin Living => pc'[u] = "run"
    BY <1>1, <1>3, <1>4, <1>6 DEF StatusInv, Living
  <2>. QED BY <1>1, <2>1, <2>2, <2>3, <2>4, <2>5 DEF StatusInv
<1>8. FamilyInv'
  <2>1. ASSUME NEW u \in Thread, child'[u] # NoThread
        PROVE  /\ Creating(u)' /\ status'[u] \in Living /\ pc'[child'[u]] = "run"
               /\ status'[child'[u]] = IF pc'[u] = "init" THEN "RAW" ELSE "BLOCKED"
    <3>1. CASE u = t
      BY <1>1, <1>3, <1>4, <1>5, <1>6, <3>1 DEF Creating, Living
    <3>2. CASE u # t
      <4>1. child'[u] = child[u] /\ pc'[u] = pc[u] /\ want'[u] = want[u]
        BY <1>1, <1>4, <1>5, <3>2
      <4>2. /\ Creating(u) /\ status[u] \in Living /\ pc[child[u]] = "run" /\ child[u] \in Thread
            /\ status[child[u]] = IF pc[u] = "init" THEN "RAW" ELSE "BLOCKED"
        BY <2>1, <4>1 DEF FamilyInv, Thread
      <4>3. child[u] # p /\ child[u] # t /\ u # p
        BY <1>1, <4>2 DEF Living
      <4>. QED BY <1>3, <1>4, <4>1, <4>2, <4>3 DEF Creating
    <3>. QED BY <3>1, <3>2
  <2>2. \A u \in Thread : child[u] # p
    BY <1>1, PageAssumption DEF FamilyInv, Thread
  <2>3. \A u, v \in Thread : child'[u] = child'[v] /\ child'[u] # NoThread => u = v
    BY <1>5, <2>2 DEF FamilyInv
  <2>. QED BY <2>1, <2>3 DEF FamilyInv
<1>9. ListInv'
  <2>1. ReadySet' = ReadySet
    BY <1>1, <1>3 DEF ReadySet
  <2>2. \A r \in Sema : \A u \in Thread : u \in Sleepers(r)' <=> u \in Sleepers(r)
    BY <1>1, <1>3, <1>4, <1>6 DEF Sleepers
  <2>3. \A r \in Sema : Sleepers(r)' = Sleepers(r)
    BY <2>2 DEF Sleepers
  <2>. QED BY <1>1, <2>1, <2>3 DEF ListInv
<1>. QED BY <1>7, <1>8, <1>9

LEMMA InitThreadSInv ==
  ASSUME SInv, TInv', NEW t \in Thread, InitThread(t)
  PROVE  SInv'
<1>. USE DEF SInv, TInv, TypeOK
<1>. DEFINE c == child[t]
<1>1. /\ running = t /\ pc[t] = "init" /\ c \in Page /\ c # Idle /\ c # NoThread
      /\ status[t] = "RUNNING"
      /\ status' = [status EXCEPT ![c] = "BLOCKED"] /\ allList' = allList \cup {c}
      /\ pc' = [pc EXCEPT ![t] = "tidLock", ![c] = "run"]
      /\ UNCHANGED <<ready, running, idleThread, waiters, want, child>>
  <2>1. running = t /\ pc[t] = "init" /\ status[t] = "RUNNING"
    BY DEF InitThread, At, StatusInv
  <2>2. c \in Page /\ c # Idle /\ c # NoThread
    BY <2>1, PageAssumption DEF IdleInv, ChildInv, Creating
  <2>. QED BY <2>1, <2>2 DEF InitThread
<1>2. c \in Thread /\ c # t /\ c # Main /\ status[c] = "RAW" /\ pc[c] = "run"
  BY <1>1, PageAssumption DEF FamilyInv, Thread
<1>. HIDE DEF c
<1>3. \A u \in Thread : status'[u] = IF u = c THEN "BLOCKED" ELSE status[u]
  BY <1>1, <1>2
<1>4. \A u \in Thread : pc'[u] = IF u = t THEN "tidLock" ELSE pc[u]
  BY <1>1, <1>2
<1>5. StatusInv'
  <2>1. \A u \in Thread : status'[u] = "RUNNING" <=> u = running
    BY <1>1, <1>2, <1>3 DEF StatusInv
  <2>2. allList' = {u \in Thread : status'[u] \in Living}
    BY <1>1, <1>2, <1>3 DEF StatusInv, Living
  <2>3. \A u \in Thread : status'[u] = "DYING" => u = Main
    BY <1>3 DEF StatusInv
  <2>4. status'[Main] \notin {"FREE", "RAW"} /\ status'[Idle] # "RAW"
    BY <1>2, <1>3, PageAssumption DEF StatusInv, Thread
  <2>5. \A u \in Thread : status'[u] \notin Living => pc'[u] = "run"
    BY <1>1, <1>3, <1>4 DEF StatusInv, Living
  <2>. QED BY <1>1, <2>1, <2>2, <2>3, <2>4, <2>5 DEF StatusInv
<1>6. FamilyInv'
  <2>1. ASSUME NEW u \in Thread, child[u] # NoThread
        PROVE  /\ Creating(u)' /\ status'[u] \in Living /\ pc'[child[u]] = "run"
               /\ status'[child[u]] = IF pc'[u] = "init" THEN "RAW" ELSE "BLOCKED"
    <3>1. /\ Creating(u) /\ status[u] \in Living /\ pc[child[u]] = "run" /\ child[u] \in Thread
          /\ status[child[u]] = IF pc[u] = "init" THEN "RAW" ELSE "BLOCKED"
      BY <2>1 DEF FamilyInv, Thread
    <3>2. u # c
      BY <1>2, <3>1 DEF Living
    <3>3. child[u] # t
      BY <1>1, <3>1
    <3>4. CASE u = t
      BY <1>2, <1>3, <1>4, <3>1, <3>2, <3>3, <3>4 DEF Creating, c
    <3>5. CASE u # t
      <4>1. child[u] # c
        BY <1>1, <2>1, <3>5 DEF FamilyInv, c
      <4>. QED BY <1>1, <1>3, <1>4, <3>1, <3>2, <3>3, <3>5, <4>1 DEF Creating
    <3>. QED BY <3>4, <3>5
  <2>2. child' = child /\ \A u, v \in Thread : child[u] = child[v] /\ child[u] # NoThread => u = v
    BY <1>1 DEF FamilyInv
  <2>. QED BY <2>1, <2>2 DEF FamilyInv
<1>7. ListInv'
  <2>1. ReadySet' = ReadySet
    BY <1>1, <1>2, <1>3 DEF ReadySet
  <2>2. \A r \in Sema : \A u \in Thread : u \in Sleepers(r)' <=> u \in Sleepers(r)
    BY <1>1, <1>2, <1>3, <1>4 DEF Sleepers
  <2>3. \A r \in Sema : Sleepers(r)' = Sleepers(r)
    BY <2>2 DEF Sleepers
  <2>. QED BY <1>1, <2>1, <2>3 DEF ListInv
<1>. QED BY <1>5, <1>6, <1>7

LEMMA StartChildSInv ==
  ASSUME SInv, TInv', NEW t \in Thread, StartChild(t)
  PROVE  SInv'
<1>. USE DEF SInv, TInv, TypeOK
<1>. DEFINE c == child[t]
<1>1. /\ running = t /\ pc[t] = "start" /\ c \in Page /\ c # Idle /\ c # NoThread
      /\ status[t] = "RUNNING"
      /\ status' = [status EXCEPT ![c] = "READY"] /\ ready' = Append(ready, c)
      /\ pc' = [pc EXCEPT ![t] = "run"] /\ child' = [child EXCEPT ![t] = NoThread]
      /\ UNCHANGED <<running, idleThread, allList, waiters, want>>
  <2>1. running = t /\ pc[t] = "start" /\ status[t] = "RUNNING"
    BY DEF StartChild, At, StatusInv
  <2>2. c \in Page /\ c # Idle /\ c # NoThread
    BY <2>1, PageAssumption DEF IdleInv, ChildInv, Creating
  <2>. QED BY <2>1, <2>2 DEF StartChild, Unblock, Goto
<1>2. c \in Thread /\ c # t /\ c # Main /\ status[c] = "BLOCKED" /\ pc[c] = "run"
  BY <1>1, PageAssumption DEF FamilyInv, Thread
<1>. HIDE DEF c
<1>3. \A u \in Thread : status'[u] = IF u = c THEN "READY" ELSE status[u]
  BY <1>1, <1>2
<1>4. \A u \in Thread : pc'[u] = IF u = t THEN "run" ELSE pc[u]
  BY <1>1
<1>5. StatusInv'
  <2>1. \A u \in Thread : status'[u] = "RUNNING" <=> u = running
    BY <1>1, <1>2, <1>3 DEF StatusInv
  <2>2. allList' = {u \in Thread : status'[u] \in Living}
    BY <1>1, <1>2, <1>3 DEF StatusInv, Living
  <2>3. \A u \in Thread : status'[u] = "DYING" => u = Main
    BY <1>3 DEF StatusInv
  <2>4. status'[Main] \notin {"FREE", "RAW"} /\ status'[Idle] # "RAW"
    BY <1>2, <1>3, PageAssumption DEF StatusInv, Thread
  <2>5. \A u \in Thread : status'[u] \notin Living => pc'[u] = "run"
    BY <1>1, <1>3, <1>4 DEF StatusInv, Living
  <2>. QED BY <1>1, <2>1, <2>2, <2>3, <2>4, <2>5 DEF StatusInv
<1>6. FamilyInv'
  <2>1. ASSUME NEW u \in Thread, child'[u] # NoThread
        PROVE  /\ Creating(u)' /\ status'[u] \in Living /\ pc'[child'[u]] = "run"
               /\ status'[child'[u]] = IF pc'[u] = "init" THEN "RAW" ELSE "BLOCKED"
    <3>0. u # t /\ child'[u] = child[u]
      BY <1>1, <2>1
    <3>1. /\ Creating(u) /\ status[u] \in Living /\ pc[child[u]] = "run" /\ child[u] \in Thread
          /\ status[child[u]] = IF pc[u] = "init" THEN "RAW" ELSE "BLOCKED"
      BY <2>1, <3>0 DEF FamilyInv, Thread
    <3>2. u # c
      BY <1>2, <3>1 DEF Creating
    <3>3. child[u] # t /\ child[u] # c
      BY <1>1, <2>1, <3>0, <3>1 DEF FamilyInv, c
    <3>. QED BY <1>1, <1>3, <1>4, <3>0, <3>1, <3>2, <3>3 DEF Creating
  <2>2. \A u \in Thread : child'[u] = IF u = t THEN NoThread ELSE child[u]
    BY <1>1
  <2>3. \A u, v \in Thread : child'[u] = child'[v] /\ child'[u] # NoThread => u = v
    BY <2>2 DEF FamilyInv
  <2>. QED BY <2>1, <2>3 DEF FamilyInv
<1>7. ListInv'
  <2>1. ReadySet' = ReadySet \cup {c}
    <3>0. c # idleThread /\ idleThread' = idleThread
      BY <1>1
    <3>1. \A u \in Thread : u \in ReadySet' <=> u \in ReadySet \/ u = c
      BY <1>2, <1>3, <3>0 DEF ReadySet
    <3>. QED BY <1>2, <3>1 DEF ReadySet
  <2>2. c \notin Elems(ready) /\ Distinct(ready) /\ Elems(ready) = ReadySet
    BY <1>2 DEF ListInv, ReadySet
  <2>. DEFINE q == ready
  <2>. HIDE DEF q
  <2>3. q \in Seq(Thread) /\ c \notin Elems(q) /\ Distinct(q) /\ Elems(q) = ReadySet /\ ready' = Append(q, c)
    BY <1>1, <2>2 DEF q
  <2>6. Distinct(Append(q, c)) /\ Elems(Append(q, c)) = Elems(q) \cup {c}
    BY ONLY <1>2, <2>3, AppendElems
  <2>4. \A r \in Sema : \A u \in Thread : u \in Sleepers(r)' <=> u \in Sleepers(r)
    BY <1>1, <1>2, <1>3, <1>4 DEF Sleepers
  <2>5. \A r \in Sema : Sleepers(r)' = Sleepers(r)
    BY <2>4 DEF Sleepers
  <2>. QED BY <1>1, <2>1, <2>3, <2>5, <2>6 DEF ListInv
<1>. QED BY <1>5, <1>6, <1>7

LEMMA NextSInv == SInv /\ [Next]_vars => SInv'
<1>1. SUFFICES ASSUME SInv, [Next]_vars PROVE SInv'
  OBVIOUS
<1>2. TInv'
  BY <1>1, NextTInv DEF SInv
<1>3. CASE Tick
  BY <1>1, <1>2, <1>3, InterruptSInv
<1>4. CASE \E s \in Sema : DeviceInterrupt(s)
  BY <1>1, <1>2, <1>4, InterruptSInv
<1>5. ASSUME NEW t \in Thread, NEW s \in Sema, SemaDown(t, s) \/ SemaTryDown(t, s) \/ SemaUp(t, s)
      PROVE  SInv'
  BY <1>1, <1>2, <1>5, SemaDownSInv, ClientSInv
<1>6. ASSUME NEW t \in Thread, NEW p \in Page, PallocThread(t, p) PROVE SInv'
  BY <1>1, <1>2, <1>6, PallocSInv
<1>7. ASSUME NEW t \in Thread, InitThread(t) \/ LoadTid(t) \/ StoreTid(t) \/ StartChild(t) PROVE SInv'
  BY <1>1, <1>2, <1>7, InitThreadSInv, TidLockSInv, StartChildSInv
<1>8. ASSUME NEW t \in Thread, Yield(t) \/ Exit(t) PROVE SInv'
  BY <1>1, <1>2, <1>8, ClientSInv
<1>9. ASSUME NEW t \in Thread, IdleSet(t) \/ IdleUp(t) \/ IdleBlock(t) PROVE SInv'
  BY <1>1, <1>2, <1>9, IdleSInv
<1>10. CASE UNCHANGED vars
  BY <1>1, <1>2, <1>10
     DEF vars, locals, SInv, StatusInv, FamilyInv, ListInv, ReadySet, Sleepers, Creating, Distinct, Elems
<1>. QED BY <1>1, <1>3, <1>4, <1>5, <1>6, <1>7, <1>8, <1>9, <1>10 DEF Next

(* The ready list holds exactly the READY threads and a wait list exactly  *)
(* the threads asleep on it, once each, so the one list element a struct   *)
(* thread has is never asked to be on two lists, and schedule() always     *)
(* finds a thread that can take the CPU.                                   *)
THEOREM EveryThreadOnOneList == Spec => []OneList
<1>. QED BY InitSInv, NextSInv, SInvImplies, PTL DEF Spec

(* When thread_switch_tail frees the page of a dying thread, no list, no   *)
(* creator and no all_list entry still names it.                           *)
THEOREM NoThreadDangles == Spec => []NoDanglingThread
<1>. QED BY InitSInv, NextSInv, SInvImplies, PTL DEF Spec

(* Who holds tid_lock, which tids are in use, and which have been drawn    *)
(* but not yet stored in the new thread.                                   *)
TidInv ==
  /\ value[TidSema] \in {0, 1}
  /\ \A t \in Thread : pc[t] \in {"load", "store"} => value[TidSema] = 0
  /\ \A t, u \in Thread : pc[t] \in {"load", "store"} /\ pc[u] \in {"load", "store"} => t = u
  /\ \A t \in Thread : pc[t] = "store" => seen[t] = nextTid
  /\ \A t \in Thread : tid[t] < nextTid
  /\ \A t \in Thread : pc[t] = "start" => seen[t] < nextTid /\ seen[t] # 0
  /\ \A t, u \in Thread : tid[t] = tid[u] /\ tid[t] # 0 => t = u
  /\ \A t, u \in Thread : pc[t] = "start" => tid[u] # seen[t]
  /\ \A t, u \in Thread : pc[t] = "start" /\ pc[u] = "start" /\ seen[t] = seen[u] => t = u
  /\ nextTid # 0

LEMMA InitTidInv == Init => TidInv
BY PageAssumption, SemaAssumption DEF Init, TidInv, Thread, Sema

\* A step that has nothing to do with allocate_tid.
LEMMA KeepTidInv ==
  ASSUME TidInv, value'[TidSema] = value[TidSema], UNCHANGED <<tid, nextTid, seen>>,
         \A u \in Thread : pc'[u] \in {"load", "store", "start"} => pc'[u] = pc[u]
  PROVE  TidInv'
BY DEF TidInv

LEMMA UpOther ==
  ASSUME TypeOK, NEW s \in Sema \ {TidSema}, Up(s)
  PROVE  value'[TidSema] = value[TidSema]
BY DEF TypeOK, Up, Sema

LEMMA NextTidInv == SInv /\ TidInv /\ [Next]_vars => TidInv'
<1>1. SUFFICES ASSUME SInv, TidInv, [Next]_vars PROVE TidInv'
  OBVIOUS
<1>. USE DEF SInv, TInv, TypeOK
<1>2. TidSema \in Sema /\ TidSema \notin ClientSema /\ IdleStarted \in Sema \ {TidSema}
  BY SemaAssumption DEF Sema
<1>0. TidInv /\ nextTid \in Nat /\ \A u \in Thread : tid[u] \in Nat /\ seen[u] \in Nat
  BY <1>1
<1>3. CASE Tick
  <2>1. \A u \in Thread : pc'[u] \in {"load", "store", "start"} => pc'[u] = pc[u]
    BY <1>1, <1>3 DEF Tick, WakeHlt
  <2>. QED BY <1>1, <1>3, <2>1, KeepTidInv DEF Tick
<1>4. ASSUME NEW s \in Sema, DeviceInterrupt(s) PROVE TidInv'
  <2>1. \A u \in Thread : pc'[u] \in {"load", "store", "start"} => pc'[u] = pc[u]
    BY <1>1, <1>4 DEF DeviceInterrupt, WakeHlt
  <2>2. value'[TidSema] = value[TidSema]
    BY <1>1, <1>2, <1>4, UpOther DEF DeviceInterrupt
  <2>. QED BY <1>1, <1>4, <2>1, <2>2, KeepTidInv DEF DeviceInterrupt
<1>5. ASSUME NEW t \in Thread, NEW s \in Sema, SemaDown(t, s) PROVE TidInv'
  <2>1. UNCHANGED <<tid, nextTid, seen>>
    BY <1>5 DEF SemaDown
  <2>2. CASE value[s] = 0
    <3>1. value' = value /\ pc' = [pc EXCEPT ![t] = "down"]
      BY <1>5, <2>2 DEF SemaDown, Goto
    <3>2. \A u \in Thread : pc'[u] \in {"load", "store", "start"} => pc'[u] = pc[u]
      BY <1>1, <3>1
    <3>. QED BY <1>1, <2>1, <3>1, <3>2, KeepTidInv
  <2>3. CASE value[s] # 0 /\ s # TidSema
    <3>1. value' = [value EXCEPT ![s] = @ - 1] /\ pc' = [pc EXCEPT ![t] = "run"]
      BY <1>5, <2>3 DEF SemaDown, Goto, AfterDown
    <3>2. \A u \in Thread : pc'[u] \in {"load", "store", "start"} => pc'[u] = pc[u]
      BY <1>1, <3>1
    <3>3. value'[TidSema] = value[TidSema]
      BY <1>1, <1>2, <2>3, <3>1
    <3>. QED BY <1>1, <2>1, <3>2, <3>3, KeepTidInv
  <2>4. CASE value[s] # 0 /\ s = TidSema
    <3>1. value' = [value EXCEPT ![TidSema] = @ - 1] /\ pc' = [pc EXCEPT ![t] = "load"]
      BY <1>5, <2>4 DEF SemaDown, Goto, AfterDown
    <3>2. value[TidSema] = 1 /\ value'[TidSema] = 0 /\ \A u \in Thread : pc[u] \notin {"load", "store"}
      BY <1>1, <1>2, <2>4, <3>1 DEF TidInv
    <3>3. \A u \in Thread : pc'[u] = IF u = t THEN "load" ELSE pc[u]
      BY <1>1, <3>1
    <3>. QED BY <1>0, <2>1, <3>2, <3>3 DEF TidInv
  <2>. QED BY <2>2, <2>3, <2>4
<1>6. ASSUME NEW t \in Thread, NEW s \in Sema, SemaTryDown(t, s) \/ SemaUp(t, s) PROVE TidInv'
  <2>1. UNCHANGED <<tid, nextTid, seen, pc>> /\ s # TidSema
    BY <1>2, <1>6 DEF SemaTryDown, SemaUp, locals
  <2>2. value'[TidSema] = value[TidSema]
    BY <1>1, <1>2, <1>6, <2>1, UpOther DEF SemaTryDown, SemaUp
  <2>. QED BY <1>1, <2>1, <2>2, KeepTidInv
<1>7. ASSUME NEW t \in Thread, NEW p \in Page, PallocThread(t, p) PROVE TidInv'
  <2>1. \A u \in Thread : pc'[u] \in {"load", "store", "start"} => pc'[u] = pc[u]
    BY <1>1, <1>7 DEF PallocThread, Goto
  <2>. QED BY <1>1, <1>7, <2>1, KeepTidInv DEF PallocThread
<1>8. ASSUME NEW t \in Thread, InitThread(t) PROVE TidInv'
  <2>. DEFINE c == child[t]
  <2>1. c \in Thread /\ pc[c] = "run" /\ c # t
    BY <1>1, <1>8, PageAssumption DEF InitThread, At, ChildInv, Creating, FamilyInv, Thread
  <2>2. /\ \A u \in Thread : tid'[u] = IF u = c THEN 0 ELSE tid[u]
        /\ \A u \in Thread : pc'[u] = IF u = t THEN "tidLock" ELSE pc[u]
        /\ UNCHANGED <<nextTid, value, seen>>
    BY <1>1, <1>8, <2>1 DEF InitThread
  <2>. HIDE DEF c
  <2>4. \A u \in Thread : tid'[u] < nextTid
    BY <1>0, <2>2 DEF TidInv
  <2>5. \A u \in Thread : pc'[u] \in {"load", "store", "start"} => pc'[u] = pc[u]
    BY <2>2
  <2>6. \A u, v \in Thread : tid'[u] = tid'[v] /\ tid'[u] # 0 => u = v
    BY <1>0, <2>2 DEF TidInv
  <2>7. \A u, v \in Thread : pc'[u] = "start" => tid'[v] # seen[u]
    BY <1>0, <2>2, <2>5 DEF TidInv
  <2>. QED BY <1>0, <2>2, <2>4, <2>5, <2>6, <2>7 DEF TidInv
<1>9. ASSUME NEW t \in Thread, LoadTid(t) PROVE TidInv'
  <2>1. /\ pc[t] = "load" /\ UNCHANGED <<tid, nextTid, value>>
        /\ \A u \in Thread : pc'[u] = IF u = t THEN "store" ELSE pc[u]
        /\ \A u \in Thread : seen'[u] = IF u = t THEN nextTid ELSE seen[u]
    BY <1>1, <1>9 DEF LoadTid, At, Goto
  <2>2. \A u \in Thread : pc[u] \in {"load", "store"} => u = t
    BY <1>0, <2>1 DEF TidInv
  <2>. QED BY <1>0, <2>1, <2>2 DEF TidInv
<1>10. ASSUME NEW t \in Thread, StoreTid(t) PROVE TidInv'
  <2>1. /\ pc[t] = "store" /\ UNCHANGED <<tid, seen>> /\ nextTid' = nextTid + 1 /\ seen[t] = nextTid
        /\ \A u \in Thread : pc'[u] = IF u = t THEN "start" ELSE pc[u]
    BY <1>1, <1>10 DEF StoreTid, At, Goto, TidInv
  <2>2. value'[TidSema] = 1
    BY <1>1, <1>2, <1>10, <2>1 DEF StoreTid, Up, TidInv
  <2>3. \A u \in Thread : pc'[u] \notin {"load", "store"}
    BY <1>0, <2>1 DEF TidInv
  <2>5. \A u \in Thread : pc'[u] = "start" => (u = t \/ pc[u] = "start")
    BY <2>1
  <2>6. nextTid # 0 /\ \A u \in Thread : tid[u] < nextTid /\ (pc[u] = "start" => seen[u] < nextTid /\ seen[u] # 0)
    BY <1>0 DEF TidInv
  <2>7. \A u \in Thread : tid'[u] < nextTid' /\ (pc'[u] = "start" => seen'[u] < nextTid' /\ seen'[u] # 0)
    BY <1>0, <2>1, <2>5, <2>6
  <2>8. \A u, v \in Thread : pc'[u] = "start" => tid'[v] # seen'[u]
    BY <1>0, <2>1, <2>5, <2>6 DEF TidInv
  <2>9. \A u, v \in Thread : pc'[u] = "start" /\ pc'[v] = "start" /\ seen'[u] = seen'[v] => u = v
    BY <1>0, <2>1, <2>5, <2>6 DEF TidInv
  <2>. QED BY <1>0, <2>1, <2>2, <2>3, <2>7, <2>8, <2>9 DEF TidInv
<1>11. ASSUME NEW t \in Thread, StartChild(t) PROVE TidInv'
  <2>. DEFINE c == child[t]
  <2>1. c \in Thread /\ c # t /\ pc[t] = "start"
    BY <1>1, <1>11, PageAssumption DEF StartChild, At, ChildInv, Creating, FamilyInv, Thread
  <2>2. /\ \A u \in Thread : tid'[u] = IF u = c THEN seen[t] ELSE tid[u]
        /\ \A u \in Thread : pc'[u] = IF u = t THEN "run" ELSE pc[u]
        /\ UNCHANGED <<nextTid, value, seen>>
    BY <1>1, <1>11, <2>1 DEF StartChild, Goto
  <2>. HIDE DEF c
  <2>3. \A u, v \in Thread : tid'[u] = tid'[v] /\ tid'[u] # 0 => u = v
    BY <1>0, <2>1, <2>2 DEF TidInv
  <2>4. \A u, v \in Thread : pc'[u] = "start" => tid'[v] # seen[u]
    BY <1>0, <2>1, <2>2 DEF TidInv
  <2>. QED BY <1>0, <2>1, <2>2, <2>3, <2>4 DEF TidInv
<1>12. ASSUME NEW t \in Thread, Yield(t) \/ Exit(t) PROVE TidInv'
  BY <1>1, <1>12, KeepTidInv DEF Yield, Exit, locals
<1>13. ASSUME NEW t \in Thread, IdleSet(t) \/ IdleUp(t) \/ IdleBlock(t) PROVE TidInv'
  <2>1. \A u \in Thread : pc'[u] \in {"load", "store", "start"} => pc'[u] = pc[u]
    BY <1>1, <1>13 DEF IdleSet, IdleUp, IdleBlock, Goto
  <2>2. value'[TidSema] = value[TidSema]
    BY <1>1, <1>2, <1>13, UpOther DEF IdleSet, IdleUp, IdleBlock
  <2>. QED BY <1>1, <1>13, <2>1, <2>2, KeepTidInv DEF IdleSet, IdleUp, IdleBlock
<1>14. CASE UNCHANGED vars
  BY <1>1, <1>14, KeepTidInv DEF vars, locals
<1>. QED BY <1>1, <1>3, <1>4, <1>5, <1>6, <1>7, <1>8, <1>9, <1>10, <1>11, <1>12, <1>13, <1>14 DEF Next

(* tid_lock makes allocate_tid atomic: no interleaving of creators, sleeps *)
(* on the lock included, gives two threads in all_list the same tid.       *)
THEOREM TidsDiffer == Spec => []UniqueTid
<1>1. SInv /\ TidInv => UniqueTid
  BY DEF SInv, TInv, TypeOK, TidInv, UniqueTid
<1>. QED BY <1>1, InitSInv, InitTidInv, NextSInv, NextTidInv, PTL DEF Spec

(* NoLostWakeup, and that the threads it counts can be counted.            *)
WakeInv ==
  \A s \in Sema : /\ IsFiniteSet(Woken(s))
                  /\ waiters[s] # <<>> => value[s] <= Cardinality(Woken(s))

LEMMA KeepWakeInv ==
  ASSUME WakeInv, TypeOK, TypeOK', \A s \in Sema : Woken(s)' = Woken(s), waiters' = waiters,
         \A s \in Sema : value'[s] <= value[s]
  PROVE  WakeInv'
<1>1. SUFFICES ASSUME NEW s \in Sema
      PROVE  IsFiniteSet(Woken(s)') /\ (waiters'[s] # <<>> => value'[s] <= Cardinality(Woken(s)'))
  BY DEF WakeInv
<1>2. IsFiniteSet(Woken(s)) /\ Cardinality(Woken(s)) \in Nat
  BY FS_CardinalityType DEF WakeInv
<1>3. Woken(s)' = Woken(s) /\ value'[s] <= value[s] /\ value[s] \in Nat /\ value'[s] \in Nat
  BY DEF TypeOK
<1>. QED BY <1>2, <1>3 DEF WakeInv

LEMMA SwitchWakeInv ==
  ASSUME SInv, WakeInv, TypeOK', NEW left, Switched(left), KeepsPlace, left \in Living \/ running # Idle,
         UNCHANGED <<value, waiters>>, IdleInv'
  PROVE  WakeInv'
<1>. USE DEF SInv, TInv
<1>0. Idle \in Thread
  BY PageAssumption DEF Thread
<1>1. \A u \in Thread \ {running} :
         u # Idle => (status'[u] \in {"READY", "RUNNING"} <=> status[u] \in {"READY", "RUNNING"})
  BY SwitchEffect
<1>2. pc[Idle] # "down" /\ pc'[Idle] # "down"
  BY <1>0 DEF IdleInv, IdleLabel
<1>3. \A s \in Sema : \A u \in Thread : u \in Woken(s)' <=> u \in Woken(s)
  BY <1>1, <1>2 DEF Woken, KeepsPlace
<1>4. \A s \in Sema : Woken(s)' = Woken(s)
  BY <1>3 DEF Woken
<1>5. \A s \in Sema : value'[s] <= value[s]
  BY DEF TypeOK
<1>. QED BY <1>4, <1>5, KeepWakeInv

LEMMA UpWakeInv ==
  ASSUME SInv, WakeInv, TypeOK', NEW s \in Sema, Up(s), KeepsPlace
  PROVE  WakeInv'
<1>. USE DEF SInv, TInv
<1>0. \A r \in Sema : value[r] \in Nat /\ value'[r] = IF r = s THEN value[r] + 1 ELSE value[r]
  BY DEF TypeOK, Up
<1>1. CASE waiters[s] = <<>>
  <2>1. UNCHANGED <<waiters, status>>
    BY <1>1 DEF Up
  <2>2. \A r \in Sema : Woken(r)' = Woken(r)
    BY <2>1 DEF Woken, KeepsPlace
  <2>3. SUFFICES ASSUME NEW r \in Sema
        PROVE  IsFiniteSet(Woken(r)') /\ (waiters'[r] # <<>> => value'[r] <= Cardinality(Woken(r)'))
    BY DEF WakeInv
  <2>4. CASE r = s
    BY <1>1, <2>1, <2>2, <2>4 DEF WakeInv
  <2>5. CASE r # s
    BY <1>0, <2>1, <2>2, <2>5 DEF WakeInv
  <2>. QED BY <2>4, <2>5
<1>2. CASE waiters[s] # <<>>
  <2>. DEFINE w == Head(waiters[s])
  <2>1. /\ w \in Sleepers(s)
        /\ status' = [status EXCEPT ![w] = "READY"]
        /\ waiters' = [waiters EXCEPT ![s] = Tail(@)]
    BY <1>2, UpMoves
  <2>. HIDE DEF w
  <2>2. w \in Thread /\ status[w] = "BLOCKED" /\ pc[w] = "down" /\ want[w] = s /\ w # running
    BY <2>1 DEF Sleepers, StatusInv
  <2>3. \A u \in Thread : status'[u] = IF u = w THEN "READY" ELSE status[u]
    BY <2>1, <2>2 DEF TypeOK
  <2>4. \A r \in Sema : Woken(r) \subseteq Thread /\ Woken(r)' \subseteq Thread
    BY DEF Woken
  <2>5. \A r \in Sema : \A u \in Thread : u \in Woken(r)' <=> (u \in Woken(r) \/ (u = w /\ r = s))
    BY <2>2, <2>3 DEF Woken, KeepsPlace
  <2>6. SUFFICES ASSUME NEW r \in Sema
        PROVE  IsFiniteSet(Woken(r)') /\ (waiters'[r] # <<>> => value'[r] <= Cardinality(Woken(r)'))
    BY DEF WakeInv
  <2>7. CASE r = s
    <3>1. Woken(s)' = Woken(s) \cup {w}
      BY <2>2, <2>4, <2>5
    <3>2. w \notin Woken(s)
      BY <2>2 DEF Woken
    <3>3. IsFiniteSet(Woken(s)) /\ value[s] <= Cardinality(Woken(s)) /\ Cardinality(Woken(s)) \in Nat
      BY <1>2, FS_CardinalityType DEF WakeInv
    <3>4. IsFiniteSet(Woken(s)') /\ Cardinality(Woken(s)') = Cardinality(Woken(s)) + 1
      BY <3>1, <3>2, <3>3, FS_AddElement
    <3>. QED BY <1>0, <2>7, <3>3, <3>4
  <2>8. CASE r # s
    <3>1. \A u \in Thread : u \in Woken(r)' <=> u \in Woken(r)
      BY <2>5, <2>8
    <3>2. Woken(r)' = Woken(r)
      BY <2>4, <3>1
    <3>3. waiters'[r] = waiters[r] /\ value'[r] = value[r]
      BY <1>0, <2>1, <2>8 DEF TypeOK
    <3>. QED BY <3>2, <3>3 DEF WakeInv
  <2>. QED BY <2>7, <2>8
<1>. QED BY <1>1, <1>2

LEMMA SemaDownWakeInv ==
  ASSUME SInv, WakeInv, TInv', NEW t \in Thread, NEW s \in Sema, SemaDown(t, s)
  PROVE  WakeInv'
<1>. USE DEF SInv, TInv
<1>1. /\ running = t /\ t # Idle /\ status[t] = "RUNNING" /\ want[t] \in Sema
      /\ CallsDown(t, s) \/ (pc[t] = "down" /\ want[t] = s)
      /\ pc[t] = "down" => want[t] = s
      /\ Idle \in Thread /\ pc[Idle] # "down" /\ pc'[Idle] # "down"
  BY PageAssumption DEF SemaDown, CallsDown, IdleInv, IdleLabel, StatusInv, TypeOK, Thread
<1>2. \A r \in Sema : value[r] \in Nat
  BY DEF TypeOK
<1>3. \A r \in Sema : Woken(r) \subseteq Thread /\ Woken(r)' \subseteq Thread
  BY DEF Woken
<1>4. ASSUME NEW r \in Sema, r # s PROVE t \notin Woken(r)
  BY <1>1, <1>4 DEF Woken
<1>5. \A r \in Sema : Woken(r)' = Woken(r) \ {t}
  <2>1. CASE value[s] = 0
    <3>1. /\ Block /\ pc' = [pc EXCEPT ![t] = "down"] /\ want' = [want EXCEPT ![t] = s]
      BY <2>1 DEF SemaDown, Goto
    <3>2. Switched("BLOCKED") /\ running' # running
      BY <1>1, <3>1, BlockSwitched
    <3>3. /\ status'[t] = "BLOCKED"
          /\ \A u \in Thread \ {t} :
               u # Idle => (status'[u] \in {"READY", "RUNNING"} <=> status[u] \in {"READY", "RUNNING"})
      BY <1>1, <3>2, SwitchEffect
    <3>4. \A u \in Thread \ {t} : pc'[u] = pc[u] /\ want'[u] = want[u]
      BY <3>1 DEF TypeOK
    <3>5. \A r \in Sema : \A u \in Thread : u \in Woken(r)' <=> u \in Woken(r) /\ u # t
      BY <1>1, <3>3, <3>4 DEF Woken
    <3>. QED BY <1>3, <3>5
  <2>2. CASE value[s] # 0
    <3>1. /\ pc' = [pc EXCEPT ![t] = AfterDown(s)] /\ status' = status /\ want' = want
          /\ AfterDown(s) # "down"
      BY <2>2 DEF SemaDown, Goto, AfterDown
    <3>2. \A r \in Sema : \A u \in Thread : u \in Woken(r)' <=> u \in Woken(r) /\ u # t
      BY <3>1 DEF Woken, TypeOK
    <3>. QED BY <1>3, <3>2
  <2>. QED BY <2>1, <2>2
<1>6. SUFFICES ASSUME NEW r \in Sema
      PROVE  IsFiniteSet(Woken(r)') /\ (waiters'[r] # <<>> => value'[r] <= Cardinality(Woken(r)'))
  BY DEF WakeInv
<1>7. IsFiniteSet(Woken(r)) /\ Cardinality(Woken(r)) \in Nat
  BY FS_CardinalityType DEF WakeInv
<1>8. /\ IsFiniteSet(Woken(r)') /\ Cardinality(Woken(r)') \in Nat
      /\ Cardinality(Woken(r)') = IF t \in Woken(r) THEN Cardinality(Woken(r)) - 1 ELSE Cardinality(Woken(r))
  BY <1>5, <1>7, FS_RemoveElement, FS_CardinalityType
<1>9. CASE r # s
  <2>1. waiters'[r] = waiters[r] /\ value'[r] = value[r]
    BY <1>9 DEF SemaDown, WaitAt, TypeOK
  <2>. QED BY <1>4, <1>8, <1>9, <2>1 DEF WakeInv
<1>10. CASE r = s /\ value[s] = 0
  <2>1. value'[s] = 0
    BY <1>10 DEF SemaDown
  <2>. QED BY <1>8, <1>10, <2>1
<1>11. CASE r = s /\ value[s] # 0
  <2>1. waiters' = waiters /\ value'[s] = value[s] - 1
    BY <1>11 DEF SemaDown, TypeOK
  <2>2. waiters[s] # <<>> => value[s] <= Cardinality(Woken(s))
    BY DEF WakeInv
  <2>3. waiters[s] # <<>> => value[s] - 1 <= Cardinality(Woken(s)')
    BY <1>2, <1>7, <1>8, <1>11, <2>2
  <2>. QED BY <1>8, <1>11, <2>1, <2>3
<1>. QED BY <1>9, <1>10, <1>11

LEMMA NextWakeInv == SInv /\ WakeInv /\ [Next]_vars => WakeInv'
<1>1. SUFFICES ASSUME SInv, WakeInv, [Next]_vars PROVE WakeInv'
  OBVIOUS
<1>2. TInv /\ TInv' /\ TypeOK /\ TypeOK' /\ IdleInv /\ IdleInv'
  BY <1>1, NextTInv DEF SInv, TInv
<1>3. \A s \in Sema : value[s] \in Nat
  BY <1>2 DEF TypeOK
<1>4. ASSUME UNCHANGED locals, pc[running] # "down" PROVE KeepsPlace
  BY <1>4 DEF KeepsPlace, Creating, locals
<1>5. ASSUME KeepsPlace, status' = status PROVE \A s \in Sema : Woken(s)' = Woken(s)
  BY <1>5 DEF KeepsPlace, Woken
<1>6. ASSUME WakeHlt, UNCHANGED <<want, child>>, InterruptsOn PROVE KeepsPlace
  <2>1. \A u \in Thread : pc'[u] = pc[u] \/ (u = running /\ pc[running] = "hlt" /\ pc'[u] = "idleBlock")
    BY <1>2, <1>6 DEF WakeHlt, TypeOK
  <2>2. running \in Thread
    BY <1>2 DEF TypeOK
  <2>. QED BY <1>6, <2>1, <2>2 DEF KeepsPlace, Creating, InterruptsOn
<1>7. CASE Tick
  <2>1. KeepsPlace /\ UNCHANGED <<value, waiters>>
    BY <1>6, <1>7 DEF Tick
  <2>2. CASE YieldCPU
    BY <1>1, <1>2, <2>1, <2>2, YieldSwitched, SwitchWakeInv DEF Living
  <2>3. CASE status' = status
    BY <1>1, <1>2, <1>3, <1>5, <2>1, <2>3, KeepWakeInv
  <2>. QED BY <1>7, <2>2, <2>3 DEF Tick
<1>8. ASSUME NEW s \in Sema, DeviceInterrupt(s) PROVE WakeInv'
  <2>1. KeepsPlace /\ Up(s)
    BY <1>6, <1>8 DEF DeviceInterrupt
  <2>. QED BY <1>1, <1>2, <2>1, UpWakeInv
<1>9. ASSUME NEW t \in Thread, NEW s \in Sema, SemaTryDown(t, s) \/ SemaUp(t, s) PROVE WakeInv'
  <2>1. KeepsPlace
    BY <1>4, <1>9 DEF SemaTryDown, SemaUp, At
  <2>2. CASE SemaUp(t, s)
    BY <1>1, <1>2, <2>1, <2>2, UpWakeInv DEF SemaUp
  <2>3. CASE SemaTryDown(t, s)
    <3>1. \A r \in Sema : value'[r] <= value[r]
      <4>1. \A r \in Sema : value'[r] = IF r = s THEN value[r] - 1 ELSE value[r]
        BY <1>2, <2>3 DEF SemaTryDown, TypeOK
      <4>. QED BY <1>3, <4>1
    <3>. QED BY <1>1, <1>2, <1>5, <2>1, <2>3, <3>1, KeepWakeInv DEF SemaTryDown
  <2>. QED BY <1>9, <2>2, <2>3
<1>10. ASSUME NEW t \in Thread, NEW p \in Page, PallocThread(t, p) PROVE WakeInv'
  <2>1. /\ \A u \in Thread \ {t} : pc'[u] = pc[u]
        /\ \A u \in Thread \ {p} : status'[u] = status[u]
        /\ pc[t] = "run" /\ pc'[t] = "init" /\ pc[p] = "run" /\ want' = want
    BY <1>1, <1>2, <1>10 DEF PallocThread, At, Goto, TypeOK, SInv, StatusInv, Living, Thread
  <2>2. \A s \in Sema : \A u \in Thread : u \in Woken(s)' <=> u \in Woken(s)
    <3>1. p = t \/ pc'[p] = "run"
      BY <2>1 DEF Thread
    <3>. QED BY <2>1, <3>1 DEF Woken
  <2>3. \A s \in Sema : Woken(s)' = Woken(s)
    BY <2>2 DEF Woken
  <2>. QED BY <1>1, <1>2, <1>3, <1>10, <2>3, KeepWakeInv DEF PallocThread
<1>11. ASSUME NEW t \in Thread, InitThread(t) \/ StartChild(t) PROVE WakeInv'
  <2>. DEFINE c == child[t]
  <2>1. c \in Thread /\ pc[c] = "run" /\ pc[t] \in {"init", "start"}
    BY <1>1, <1>2, <1>11, PageAssumption
       DEF InitThread, StartChild, At, TInv, SInv, ChildInv, Creating, FamilyInv, Thread
  <2>. HIDE DEF c
  <2>2. /\ \A u \in Thread \ {t} : pc'[u] = pc[u]
        /\ \A u \in Thread \ {c} : status'[u] = status[u]
        /\ pc'[t] # "down" /\ want' = want /\ UNCHANGED <<value, waiters>>
    BY <1>2, <1>11, <2>1 DEF InitThread, StartChild, Unblock, Goto, TypeOK, c
  <2>3. \A s \in Sema : \A u \in Thread : u \in Woken(s)' <=> u \in Woken(s)
    BY <2>1, <2>2 DEF Woken
  <2>4. \A s \in Sema : Woken(s)' = Woken(s)
    BY <2>3 DEF Woken
  <2>. QED BY <1>1, <1>2, <1>3, <2>2, <2>4, KeepWakeInv
<1>12. ASSUME NEW t \in Thread, LoadTid(t) \/ StoreTid(t) PROVE WakeInv'
  <2>1. KeepsPlace
    BY <1>2, <1>12 DEF LoadTid, StoreTid, At, Goto, KeepsPlace, Creating, TypeOK
  <2>2. CASE LoadTid(t)
    BY <1>1, <1>2, <1>3, <1>5, <2>1, <2>2, KeepWakeInv DEF LoadTid
  <2>3. CASE StoreTid(t)
    BY <1>1, <1>2, <2>1, <2>3, UpWakeInv DEF StoreTid, Sema
  <2>. QED BY <1>12, <2>2, <2>3
<1>13. ASSUME NEW t \in Thread, Yield(t) PROVE WakeInv'
  <2>1. KeepsPlace
    BY <1>4, <1>13 DEF Yield, At
  <2>. QED BY <1>1, <1>2, <1>13, <2>1, YieldSwitched, SwitchWakeInv DEF Yield, Living
<1>14. ASSUME NEW t \in Thread, Exit(t) PROVE WakeInv'
  <2>1. KeepsPlace /\ running = t /\ running # Idle
    BY <1>2, <1>4, <1>14 DEF Exit, At, IdleInv, IdleLabel
  <2>2. Schedule([status EXCEPT ![running] = "DYING"], ready) /\ UNCHANGED <<value, waiters>>
    BY <1>14, <2>1 DEF Exit
  <2>3. Switched(IF running = Main THEN "DYING" ELSE "FREE")
    BY <1>1, <2>1, <2>2, ExitSwitched
  <2>. QED BY <1>1, <1>2, <2>1, <2>2, <2>3, SwitchWakeInv
<1>15. ASSUME NEW t \in Thread, IdleSet(t) \/ IdleUp(t) \/ IdleBlock(t) PROVE WakeInv'
  <2>1. running = t /\ t = Idle /\ pc[t] \in IdleLabel
    BY <1>2, <1>15 DEF IdleSet, IdleUp, IdleBlock, At, IdleInv, IdleLabel
  <2>2. KeepsPlace
    BY <1>2, <1>15, <2>1 DEF IdleSet, IdleUp, IdleBlock, Goto, KeepsPlace, Creating, IdleLabel, TypeOK
  <2>3. CASE IdleSet(t)
    BY <1>1, <1>2, <1>3, <1>5, <2>2, <2>3, KeepWakeInv DEF IdleSet
  <2>4. CASE IdleUp(t)
    BY <1>1, <1>2, <2>2, <2>4, UpWakeInv DEF IdleUp, Sema
  <2>5. CASE IdleBlock(t)
    <3>1. pc[running] = "idleBlock" /\ Block /\ UNCHANGED <<value, waiters>>
      BY <2>1, <2>5 DEF IdleBlock, At
    <3>2. Switched("BLOCKED")
      BY <1>1, <2>1, <3>1, BlockSwitched
    <3>. QED BY <1>1, <1>2, <2>2, <3>1, <3>2, SwitchWakeInv DEF Living
  <2>. QED BY <1>15, <2>3, <2>4, <2>5
<1>16. ASSUME NEW t \in Thread, NEW s \in Sema, SemaDown(t, s) PROVE WakeInv'
  BY <1>1, <1>2, <1>16, SemaDownWakeInv
<1>17. CASE UNCHANGED vars
  <2>1. \A s \in Sema : Woken(s)' = Woken(s)
    BY <1>17 DEF vars, locals, Woken
  <2>. QED BY <1>1, <1>2, <1>3, <1>17, <2>1, KeepWakeInv DEF vars
<1>. QED BY <1>1, <1>7, <1>8, <1>9, <1>10, <1>11, <1>12, <1>13, <1>14, <1>15, <1>16, <1>17 DEF Next

(* sema_up wakes one waiter per unit it adds, and a woken waiter that      *)
(* finds 0 again took nothing: nobody sleeps next to an unclaimed unit.    *)
THEOREM NoWakeupIsLost == Spec => []NoLostWakeup
<1>1. Init => WakeInv
  <2>1. SUFFICES ASSUME Init PROVE WakeInv
    OBVIOUS
  <2>2. \A s \in Sema : waiters[s] = <<>> /\ Woken(s) = {}
    BY <2>1 DEF Init, Woken
  <2>. QED BY <2>2, FS_EmptySet DEF WakeInv
<1>2. WakeInv => NoLostWakeup
  BY DEF WakeInv, NoLostWakeup
<1>. QED BY <1>1, <1>2, InitSInv, NextSInv, NextWakeInv, PTL DEF Spec

\* The order of a list without repetitions: total, and by position.
LEMMA AheadOrder ==
  ASSUME NEW S, NEW q \in Seq(S), Distinct(q)
  PROVE  /\ \A t, u \in Elems(q) : t # u => Ahead(q, t, u) \/ Ahead(q, u, t)
         /\ \A t, u : Ahead(q, t, u) => ~Ahead(q, u, t) /\ t \in Elems(q) /\ u \in Elems(q)
         /\ \A t : q # <<>> => ~Ahead(q, t, Head(q))
<1>0. Len(q) \in Nat
  OBVIOUS
<1>1. ASSUME NEW t \in Elems(q), NEW u \in Elems(q), t # u
      PROVE  Ahead(q, t, u) \/ Ahead(q, u, t)
  <2>1. PICK i \in 1..Len(q), j \in 1..Len(q) : q[i] = t /\ q[j] = u
    BY DEF Elems
  <2>2. i < j \/ j < i
    BY <1>1, <2>1
  <2>. QED BY <2>1, <2>2 DEF Ahead
<1>2. ASSUME NEW t, NEW u, Ahead(q, t, u), Ahead(q, u, t) PROVE FALSE
  <2>1. PICK i \in 1..Len(q), j \in 1..Len(q) : i < j /\ q[i] = t /\ q[j] = u
    BY <1>2 DEF Ahead
  <2>2. PICK k \in 1..Len(q), l \in 1..Len(q) : k < l /\ q[k] = u /\ q[l] = t
    BY <1>2 DEF Ahead
  <2>3. k = j /\ l = i
    BY <2>1, <2>2 DEF Distinct
  <2>. QED BY <2>1, <2>2, <2>3
<1>3. \A t, u : Ahead(q, t, u) => t \in Elems(q) /\ u \in Elems(q)
  BY DEF Ahead, Elems
<1>4. ASSUME NEW t, q # <<>>, Ahead(q, t, Head(q)) PROVE FALSE
  <2>1. PICK i \in 1..Len(q), j \in 1..Len(q) : i < j /\ q[j] = Head(q)
    BY <1>4 DEF Ahead
  <2>2. 1 \in 1..Len(q) /\ q[1] = Head(q)
    BY <1>4
  <2>3. j = 1
    BY <2>1, <2>2 DEF Distinct
  <2>. QED BY <2>1, <2>3
<1>. QED BY <1>1, <1>2, <1>3, <1>4

LEMMA AheadAppend ==
  ASSUME NEW S, NEW q \in Seq(S), NEW x \in S
  PROVE  /\ \A t, u : Ahead(q, t, u) => Ahead(Append(q, x), t, u)
         /\ \A t \in Elems(q) : Ahead(Append(q, x), t, x)
<1>. DEFINE r == Append(q, x)
<1>1. Len(r) = Len(q) + 1 /\ Len(q) \in Nat /\ r[Len(q) + 1] = x
  OBVIOUS
<1>2. \A i \in 1..Len(q) : r[i] = q[i]
  OBVIOUS
<1>. HIDE DEF r
<1>3. \A i \in 1..Len(q) : i \in 1..Len(r) /\ i < Len(q) + 1 /\ Len(q) + 1 \in 1..Len(r)
  BY <1>1
<1>4. \A t, u : Ahead(q, t, u) => Ahead(r, t, u)
  BY <1>2, <1>3 DEF Ahead
<1>5. \A t \in Elems(q) : Ahead(r, t, x)
  BY <1>1, <1>2, <1>3 DEF Ahead, Elems
<1>. QED BY <1>4, <1>5 DEF r

LEMMA AheadTail ==
  ASSUME NEW S, NEW q \in Seq(S), q # <<>>, NEW t, NEW u, t # Head(q), Ahead(q, t, u)
  PROVE  Ahead(Tail(q), t, u)
<1>. DEFINE r == Tail(q)
<1>1. Len(r) = Len(q) - 1 /\ Len(q) \in Nat \ {0} /\ Head(q) = q[1]
  OBVIOUS
<1>2. \A i \in 1..Len(r) : r[i] = q[i + 1]
  OBVIOUS
<1>. HIDE DEF r
<1>3. PICK i \in 1..Len(q), j \in 1..Len(q) : i < j /\ q[i] = t /\ q[j] = u
  BY DEF Ahead
<1>4. i # 1 /\ j # 1
  BY <1>1, <1>3
<1>5. i - 1 \in 1..Len(r) /\ j - 1 \in 1..Len(r) /\ i - 1 < j - 1
  BY <1>1, <1>3, <1>4
<1>6. r[i - 1] = t /\ r[j - 1] = u
  <2>1. r[i - 1] = q[(i - 1) + 1] /\ r[j - 1] = q[(j - 1) + 1]
    BY <1>2, <1>5
  <2>2. (i - 1) + 1 = i /\ (j - 1) + 1 = j
    OBVIOUS
  <2>. QED BY <1>3, <2>1, <2>2
<1>7. Ahead(r, t, u)
  BY <1>5, <1>6 DEF Ahead
<1>. QED BY <1>7 DEF r

LEMMA AppendFair ==
  ASSUME NEW S, NEW q \in Seq(S), NEW x \in S, Distinct(q), x \notin Elems(q)
  PROVE  NoOvertaking(q, Append(q, x))
<1>. DEFINE r == Append(q, x)
<1>1. Elems(r) = Elems(q) \cup {x}
  BY AppendElems
<1>2. /\ \A t, u : Ahead(q, t, u) => Ahead(r, t, u)
      /\ \A t \in Elems(q) : Ahead(r, t, x)
  BY AheadAppend
<1>3. \A t, u \in Elems(q) : t # u => Ahead(q, t, u) \/ Ahead(q, u, t)
  BY AheadOrder
<1>. HIDE DEF r
<1>4. NoOvertaking(q, r)
  BY <1>1, <1>2, <1>3 DEF NoOvertaking
<1>. QED BY <1>4 DEF r

LEMMA TailFair ==
  ASSUME NEW S, NEW q \in Seq(S), Distinct(q), q # <<>>
  PROVE  NoOvertaking(q, Tail(q))
<1>. DEFINE r == Tail(q)
<1>1. Elems(r) = Elems(q) \ {Head(q)}
  BY TailElems
<1>2. \A t, u : t # Head(q) /\ Ahead(q, t, u) => Ahead(r, t, u)
  BY AheadTail
<1>3. /\ \A t, u \in Elems(q) : t # u => Ahead(q, t, u) \/ Ahead(q, u, t)
      /\ \A t : ~Ahead(q, t, Head(q))
  BY AheadOrder
<1>. HIDE DEF r
<1>4. NoOvertaking(q, r)
  BY <1>1, <1>2, <1>3 DEF NoOvertaking
<1>. QED BY <1>4 DEF r

\* The queue changes that the kernel makes are fair.
LEMMA QueueMoves ==
  ASSUME NEW S, NEW q \in Seq(S), Distinct(q)
  PROVE  /\ NoOvertaking(q, q)
         /\ q # <<>> => NoOvertaking(q, Tail(q))
         /\ \A x \in S : x \notin Elems(q) =>
              NoOvertaking(q, Append(q, x)) /\ NoOvertaking(q, Tail(Append(q, x)))
<1>1. NoOvertaking(q, q)
  BY AheadOrder DEF NoOvertaking
<1>2. ASSUME NEW x \in S, x \notin Elems(q), q # <<>> PROVE NoOvertaking(q, Tail(Append(q, x)))
  <2>. DEFINE a == Append(q, x)
              r == Tail(a)
  <2>1. a \in Seq(S) /\ a # <<>> /\ Head(a) = Head(q)
    BY <1>2, AppendProperties
  <2>2. Distinct(a) /\ Elems(a) = Elems(q) \cup {x}
    BY <1>2, AppendElems
  <2>3. /\ \A t, u : Ahead(q, t, u) => Ahead(a, t, u)
        /\ \A t \in Elems(q) : Ahead(a, t, x)
    BY AheadAppend
  <2>. HIDE DEF a
  <2>4. Elems(r) = Elems(a) \ {Head(q)}
    BY <2>1, <2>2, TailElems
  <2>5. \A t, u : t # Head(q) /\ Ahead(a, t, u) => Ahead(r, t, u)
    BY <2>1, AheadTail
  <2>6. /\ \A t, u \in Elems(q) : t # u => Ahead(q, t, u) \/ Ahead(q, u, t)
        /\ \A t : ~Ahead(q, t, Head(q))
    BY <1>2, AheadOrder
  <2>. HIDE DEF r
  <2>7. NoOvertaking(q, r)
    BY <2>2, <2>3, <2>4, <2>5, <2>6 DEF NoOvertaking
  <2>. QED BY <2>7 DEF r, a
<1>3. ASSUME NEW x \in S, q = <<>> PROVE NoOvertaking(q, Tail(Append(q, x)))
  <2>1. Elems(q) = {}
    BY <1>3, EmptyElems
  <2>. QED BY <2>1 DEF NoOvertaking
<1>. QED BY <1>1, <1>2, <1>3, AppendFair, TailFair

\* The step formula of RoundRobin.
FairStep ==
  /\ (running' # running \/ ticks' < ticks) /\ ready # <<>> => running' = Head(ready)
  /\ NoOvertaking(ready, ready')
  /\ \A s \in Sema : NoOvertaking(waiters[s], waiters'[s])

LEMMA SwitchFair ==
  ASSUME SInv, NEW st, NEW q, Schedule(st, q), q = ready \/ q = Append(ready, running)
  PROVE  (ready # <<>> => running' = Head(ready)) /\ NoOvertaking(ready, ready')
<1>1. /\ ready \in Seq(Thread) /\ running \in Thread
      /\ Distinct(ready) /\ running \notin Elems(ready)
  BY DEF SInv, TInv, TypeOK, ListInv, ReadySet, StatusInv
<1>2. CASE q = ready
  <2>1. ready = <<>> => ready' = ready
    BY <1>2 DEF Schedule
  <2>2. ready # <<>> => ready' = Tail(ready) /\ running' = Head(ready)
    BY <1>2 DEF Schedule, NextThread
  <2>. QED BY <1>1, <2>1, <2>2, QueueMoves
<1>3. CASE q = Append(ready, running)
  <2>1. q # <<>> /\ (ready # <<>> => Head(q) = Head(ready))
    BY <1>1, <1>3, AppendProperties
  <2>2. running' = Head(q) /\ ready' = Tail(q)
    BY <2>1 DEF Schedule, NextThread
  <2>. QED BY <1>1, <1>3, <2>1, <2>2, QueueMoves
<1>. QED BY <1>2, <1>3

LEMMA SameWaiters ==
  ASSUME SInv, waiters' = waiters
  PROVE  \A s \in Sema : NoOvertaking(waiters[s], waiters'[s])
<1>1. \A s \in Sema : waiters[s] \in Seq(Thread) /\ Distinct(waiters[s])
  BY DEF SInv, TInv, TypeOK, ListInv
<1>. QED BY <1>1, QueueMoves

LEMMA StillFair ==
  ASSUME SInv, UNCHANGED <<ready, running, waiters>>, ticks' \in {ticks, ticks + 1}
  PROVE  FairStep
<1>1. ready \in Seq(Thread) /\ ticks \in Nat /\ Distinct(ready)
  BY DEF SInv, TInv, TypeOK, ListInv
<1>2. NoOvertaking(ready, ready)
  BY <1>1, QueueMoves
<1>. QED BY <1>1, <1>2, SameWaiters DEF FairStep

LEMMA UpFair ==
  ASSUME SInv, NEW s \in Sema, Up(s), UNCHANGED <<running, ticks>>
  PROVE  FairStep
<1>1. CASE waiters[s] = <<>>
  BY <1>1, StillFair DEF Up
<1>2. CASE waiters[s] # <<>>
  <2>1. /\ ready \in Seq(Thread) /\ Distinct(ready) /\ ticks \in Nat
        /\ Head(waiters[s]) \in Thread /\ Head(waiters[s]) \notin Elems(ready)
        /\ ready' = Append(ready, Head(waiters[s])) /\ waiters' = [waiters EXCEPT ![s] = Tail(@)]
    BY <1>2, UpMoves DEF SInv, TInv, TypeOK, ListInv, ReadySet, Sleepers
  <2>2. NoOvertaking(ready, ready')
    BY <2>1, QueueMoves
  <2>3. ASSUME NEW r \in Sema PROVE NoOvertaking(waiters[r], waiters'[r])
    <3>0. waiters[r] \in Seq(Thread) /\ Distinct(waiters[r]) /\ waiters \in [Sema -> Seq(Thread)]
      BY DEF SInv, TInv, TypeOK, ListInv
    <3>1. CASE r = s
      <4>1. waiters'[s] = Tail(waiters[s])
        BY <2>1, <3>0
      <4>. QED BY <1>2, <3>0, <3>1, <4>1, QueueMoves
    <3>2. CASE r # s
      <4>1. waiters'[r] = waiters[r]
        BY <2>1, <3>0, <3>2
      <4>. QED BY <3>0, <4>1, QueueMoves
    <3>. QED BY <3>1, <3>2
  <2>. QED BY <2>1, <2>2, <2>3 DEF FairStep
<1>. QED BY <1>1, <1>2

LEMMA NextFair == SInv /\ [Next]_vars => FairStep
<1>1. SUFFICES ASSUME SInv, TInv, TypeOK, [Next]_vars PROVE FairStep
  BY DEF SInv, TInv
<1>2. ASSUME YieldCPU, waiters' = waiters PROVE FairStep
  <2>. DEFINE q == IF running # idleThread THEN Append(ready, running) ELSE ready
  <2>1. q = ready \/ q = Append(ready, running)
    OBVIOUS
  <2>2. Schedule([status EXCEPT ![running] = "READY"], q)
    BY <1>2 DEF YieldCPU
  <2>. HIDE DEF q
  <2>. QED BY <1>1, <1>2, <2>1, <2>2, SwitchFair, SameWaiters DEF FairStep
<1>3. CASE Tick
  BY <1>1, <1>2, <1>3, StillFair DEF Tick
<1>4. ASSUME NEW s \in Sema, DeviceInterrupt(s) PROVE FairStep
  BY <1>1, <1>4, UpFair DEF DeviceInterrupt
<1>5. ASSUME NEW t \in Thread, NEW s \in Sema, SemaDown(t, s) PROVE FairStep
  <2>1. CASE value[s] = 0
    <3>1. Schedule([status EXCEPT ![running] = "BLOCKED"], ready) /\ waiters' = [waiters EXCEPT ![s] = Append(@, t)]
      BY <1>5, <2>1 DEF SemaDown, WaitAt, Block
    <3>2. (ready # <<>> => running' = Head(ready)) /\ NoOvertaking(ready, ready')
      BY <1>1, <3>1, SwitchFair
    <3>3. ASSUME NEW r \in Sema PROVE NoOvertaking(waiters[r], waiters'[r])
      <4>1. waiters[r] \in Seq(Thread) /\ Distinct(waiters[r]) /\ t \notin Elems(waiters[r])
        BY <1>1, <1>5 DEF SemaDown, TypeOK, ListInv, SInv, Sleepers, StatusInv
      <4>2. waiters'[r] = Append(waiters[r], t) \/ waiters'[r] = waiters[r]
        BY <1>1, <3>1 DEF TypeOK
      <4>. QED BY <4>1, <4>2, QueueMoves
    <3>. QED BY <3>2, <3>3 DEF FairStep
  <2>2. CASE value[s] # 0
    BY <1>1, <1>5, <2>2, StillFair DEF SemaDown
  <2>. QED BY <2>1, <2>2
<1>6. ASSUME NEW t \in Thread, NEW s \in Sema, SemaTryDown(t, s) \/ SemaUp(t, s) PROVE FairStep
  BY <1>1, <1>6, UpFair, StillFair DEF SemaTryDown, SemaUp
<1>7. ASSUME NEW t \in Thread, NEW p \in Page, PallocThread(t, p) PROVE FairStep
  BY <1>1, <1>7, StillFair DEF PallocThread
<1>8. ASSUME NEW t \in Thread, InitThread(t) \/ LoadTid(t) PROVE FairStep
  BY <1>1, <1>8, StillFair DEF InitThread, LoadTid
<1>9. ASSUME NEW t \in Thread, StoreTid(t) \/ IdleUp(t) PROVE FairStep
  BY <1>1, <1>9, UpFair DEF StoreTid, IdleUp, Sema
<1>10. ASSUME NEW t \in Thread, StartChild(t) PROVE FairStep
  <2>1. ready' = Append(ready, child[t]) /\ child[t] \in Thread /\ UNCHANGED <<running, ticks, waiters>>
    BY <1>1, <1>10 DEF StartChild, Unblock, TInv, ChildInv, Creating, At, Thread
  <2>2. child[t] \notin Elems(ready)
    <3>1. pc[t] = "start" /\ child[t] \in Page
      BY <1>1, <1>10 DEF StartChild, At, ChildInv, Creating, TInv
    <3>2. status[child[t]] = "BLOCKED"
      BY <1>1, <3>1, PageAssumption DEF SInv, FamilyInv
    <3>. QED BY <1>1, <3>2 DEF SInv, ListInv, ReadySet
  <2>3. NoOvertaking(ready, ready') /\ ticks \in Nat
    BY <1>1, <2>1, <2>2, QueueMoves DEF TypeOK, SInv, ListInv
  <2>. QED BY <1>1, <2>1, <2>3, SameWaiters DEF FairStep
<1>11. ASSUME NEW t \in Thread, Exit(t) \/ IdleBlock(t) PROVE FairStep
  <2>1. PICK st : Schedule(st, ready) /\ waiters' = waiters
    BY <1>11 DEF Exit, IdleBlock, Block
  <2>. QED BY <1>1, <2>1, SwitchFair, SameWaiters DEF FairStep
<1>12. ASSUME NEW t \in Thread, Yield(t) PROVE FairStep
  BY <1>2, <1>12 DEF Yield
<1>13. ASSUME NEW t \in Thread, IdleSet(t) PROVE FairStep
  BY <1>1, <1>13, StillFair DEF IdleSet
<1>14. CASE UNCHANGED vars
  BY <1>1, <1>14, StillFair DEF vars
<1>. QED BY <1>1, <1>3, <1>4, <1>5, <1>6, <1>7, <1>8, <1>9, <1>10, <1>11, <1>12, <1>13, <1>14 DEF Next

(* First come, first served, whatever the order of calls and interrupts:   *)
(* the CPU goes to the head of the ready list, and on the ready list and   *)
(* on every wait list nobody who stays is passed by another thread.        *)
THEOREM FirstComeFirstServed == Spec => RoundRobin
<1>1. SInv /\ [Next]_vars => FairStep
  BY NextFair
<1>. QED BY <1>1, InitSInv, NextSInv, PTL DEF Spec, RoundRobin, FairStep
=============================================================================
