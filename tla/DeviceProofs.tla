----------------------------- MODULE DeviceProofs -----------------------------
(***************************************************************************)
(* Theorems about Ide, for any threads, disks, sectors and data and any    *)
(* number of spurious interrupts; further down about Intq, the queue       *)
(* between the interrupt handlers of the other devices and the threads,    *)
(* about Terminal, the keyboard and the display, about Partition and about *)
(* Clock, the timer.                                                       *)
(***************************************************************************)
EXTENDS Ide, SequenceTheorems, TLAPS

Label == {"out", "lock", "idle1", "select", "idle2", "command", "down", "poll", "transfer", "unlock"}
State == {"idle", "reading", "hasData", "readying", "wantsData", "storing"}

(* Calls and their results, thread by thread.                              *)
CallInv ==
  /\ pc \in [Thread -> Label] /\ DOMAIN call = Thread /\ DOMAIN got = Thread
  /\ \A t \in Thread : /\ pc[t] = "out" => call[t] = NoCall
                       /\ pc[t] # "out" => call[t] \in Call
                       /\ got[t] # Blank => pc[t] = "unlock" /\ call[t].op = "read"

(* The lock's holder is the one thread that uses the channel.              *)
OwnerInv ==
  /\ owner \in Thread \cup {NoThread}
  /\ \A t \in Thread : pc[t] \notin {"out", "lock"} <=> owner = t

(* No disk but the selected one is doing anything.                         *)
DiskInv ==
  /\ selected \in Disk /\ target \in Sector
  /\ state \in [Disk -> State] /\ DOMAIN latch = Disk /\ DOMAIN media = Place
  /\ \A d \in Disk : DOMAIN latch[d] = {"at", "data"}
  /\ \A d \in Disk \ {selected} : state[d] = "idle"
  /\ state[selected] = "storing" => latch[selected].at[1] = selected

(* What the selected disk may be doing, s, while the thread that has the   *)
(* channel is at p in the call c, and for which sector, a.                 *)
Use(p, c, s, sel, a) ==
  /\ p = "idle1" => s \in {"idle", "storing"}
  /\ p \in {"select", "idle2", "command"} => s = "idle"
  /\ p \in {"idle2", "command", "down", "poll", "transfer"} => sel = c.at[1]
  /\ c.op = "read" => /\ p \in {"down", "poll"} => s \in {"reading", "hasData"}
                      /\ p = "transfer" => s = "hasData"
                      /\ p = "unlock" => s = "idle"
  /\ c.op # "read" => /\ p = "poll" => s \in {"readying", "wantsData"}
                      /\ p = "transfer" => s = "wantsData"
                      /\ p \in {"down", "unlock"} => s \in {"storing", "idle"}
  /\ p \in {"down", "poll", "transfer"} => a = c.at
UseInv(t) == Use(pc[t], call[t], state[selected], selected, latch[selected].at)

(* The channel is quiet between the calls, but for the end of a write.     *)
ChannelInv ==
  /\ owner = NoThread => state[selected] \in {"idle", "storing"}
  /\ \A t \in Thread : owner = t => UseInv(t)

IInv == CallInv /\ OwnerInv /\ DiskInv /\ ChannelInv

-------------------------------------------------------------------------------
\* What Goto does to the labels.
LEMMA GotoFacts ==
  ASSUME CallInv, NEW t \in Thread, NEW from, NEW to \in Label, Goto(t, from, to)
  PROVE  /\ pc[t] = from /\ pc'[t] = to /\ \A u \in Thread \ {t} : pc'[u] = pc[u]
         /\ pc' \in [Thread -> Label]
BY DEF Goto, CallInv

\* A step of the thread that has the channel, which leaves the lock alone.
LEMMA HolderStep ==
  ASSUME IdeAssumption, IInv, NEW t \in Thread, pc[t] \notin {"out", "lock"},
         pc' \in [Thread -> Label], pc'[t] \notin {"out", "lock"},
         \A u \in Thread \ {t} : pc'[u] = pc[u],
         UNCHANGED <<owner, call>>, DOMAIN got' = Thread,
         \A u \in Thread \ {t} : got'[u] = got[u],
         got'[t] # Blank => pc'[t] = "unlock" /\ call[t].op = "read",
         DiskInv', UseInv(t)'
  PROVE  IInv'
<1>. USE DEF IInv
<1>1. owner = t /\ owner' = t /\ owner' # NoThread
  BY DEF OwnerInv, IdeAssumption
<1>2. CallInv'
  BY DEF CallInv
<1>3. OwnerInv'
  BY DEF OwnerInv
<1>4. ChannelInv'
  BY <1>1 DEF ChannelInv
<1>. QED BY <1>2, <1>3, <1>4

\* A step of the disks, of the handler or of the outside: no thread moves.
LEMMA OutsideStep ==
  ASSUME IInv, UNCHANGED <<owner, pc, call, got>>, DiskInv', UNCHANGED selected,
         owner = NoThread => state'[selected] \in {"idle", "storing"},
         \A t \in Thread : owner = t => UseInv(t)'
  PROVE  IInv'
BY DEF IInv, CallInv, OwnerInv, ChannelInv

\* The thread that has the channel, its call and the sector it is for.
LEMMA Holder ==
  ASSUME IdeAssumption, IInv, NEW t \in Thread, pc[t] \notin {"out", "lock"}
  PROVE  /\ owner = t /\ owner # NoThread /\ UseInv(t) /\ call[t] \in Call
         /\ call[t].op \in {"read", "write"} /\ call[t].at \in Place
         /\ call[t].at[1] \in Disk /\ call[t].at[2] \in Sector
         /\ call[t].at = <<call[t].at[1], call[t].at[2]>>
         /\ selected \in Disk /\ state[selected] \in State
<1>1. owner = t /\ owner # NoThread
  BY DEF IInv, OwnerInv, IdeAssumption
<1>2. UseInv(t)
  BY <1>1 DEF IInv, ChannelInv
<1>3. call[t] \in Call
  BY DEF IInv, CallInv
<1>4. call[t].op \in {"read", "write"} /\ call[t].at \in Place
  BY <1>3 DEF Call
<1>5. /\ call[t].at[1] \in Disk /\ call[t].at[2] \in Sector
      /\ call[t].at = <<call[t].at[1], call[t].at[2]>>
  BY <1>4 DEF Place
<1>6. selected \in Disk /\ state[selected] \in State
  BY DEF IInv, DiskInv
<1>. QED BY <1>1, <1>2, <1>3, <1>4, <1>5, <1>6

\* A step that changes what the selected disk does and leaves its place.
LEMMA DiskStepInv ==
  ASSUME DiskInv, NEW s \in State, UNCHANGED <<selected, target>>,
         state' = [state EXCEPT ![selected] = s], DOMAIN media' = Place,
         \/ UNCHANGED latch
         \/ \E x : latch' = [latch EXCEPT ![selected].data = x],
         s = "storing" => latch[selected].at[1] = selected
  PROVE  DiskInv' /\ state'[selected] = s /\ latch'[selected].at = latch[selected].at
<1>. USE DEF DiskInv
<1>1. /\ state' \in [Disk -> State] /\ state'[selected] = s
      /\ \A d \in Disk \ {selected} : state'[d] = "idle"
  OBVIOUS
<1>2. /\ DOMAIN latch' = Disk /\ \A d \in Disk : DOMAIN latch'[d] = {"at", "data"}
      /\ latch'[selected].at = latch[selected].at
  OBVIOUS
<1>. QED BY <1>1, <1>2

-------------------------------------------------------------------------------
\* The status says idle: nothing is stored any more.
LEMMA WaitIdleIInv == ASSUME IdeAssumption, IInv, NEW t \in Thread, WaitIdle(t) PROVE IInv'
<1>1. PICK from \in {"idle1", "idle2"}, to \in {"select", "command"} :
        Goto(t, from, to) /\ (from = "idle1" <=> to = "select")
  BY DEF WaitIdle
<1>2. /\ UNCHANGED <<owner, call, got, selected, target, state, latch, media>>
      /\ ~Busy(selected) /\ ~Drq(selected)
  BY DEF WaitIdle
<1>3. /\ pc[t] = from /\ pc'[t] = to /\ \A u \in Thread \ {t} : pc'[u] = pc[u]
      /\ pc' \in [Thread -> Label]
  BY <1>1, GotoFacts DEF IInv, Label
<1>4. state[selected] = "idle" /\ UseInv(t)
  BY <1>2, <1>3, Holder DEF Busy, Drq, State
<1>5. UseInv(t)'
  BY <1>1, <1>2, <1>3, <1>4 DEF UseInv, Use
<1>6. DiskInv'
  BY <1>2 DEF IInv, DiskInv
<1>7. DOMAIN got = Thread /\ got[t] = Blank
  BY <1>1, <1>3 DEF IInv, CallInv
<1>. QED BY <1>1, <1>2, <1>3, <1>5, <1>6, <1>7, HolderStep

\* The other disk is idle too.
LEMMA SelectIInv == ASSUME IdeAssumption, IInv, NEW t \in Thread, Select(t) PROVE IInv'
<1>1. /\ pc[t] = "select" /\ pc'[t] = "idle2" /\ \A u \in Thread \ {t} : pc'[u] = pc[u]
      /\ pc' \in [Thread -> Label]
  BY GotoFacts DEF IInv, Select, Label
<1>2. /\ UNCHANGED <<owner, call, got, target, state, latch, media>>
      /\ selected' = call[t].at[1]
  BY DEF Select
<1>3. state[selected] = "idle" /\ call[t].at[1] \in Disk
  BY <1>1, Holder DEF UseInv, Use
<1>4. DiskInv' /\ state'[selected'] = "idle"
  BY <1>2, <1>3 DEF IInv, DiskInv
<1>5. UseInv(t)'
  BY <1>1, <1>2, <1>4 DEF UseInv, Use
<1>6. DOMAIN got = Thread /\ got[t] = Blank
  BY <1>1 DEF IInv, CallInv
<1>. QED BY <1>1, <1>2, <1>4, <1>5, <1>6, HolderStep

\* The disk is idle, so that it takes the command, which is for the sector of
\* the call.
LEMMA IssueIInv == ASSUME IdeAssumption, IInv, NEW t \in Thread, Issue(t) PROVE IInv'
<1>. DEFINE to == IF call[t].op = "read" THEN "down" ELSE "poll"
            s == IF call[t].op = "read" THEN "reading" ELSE "readying"
<1>1. /\ pc[t] = "command" /\ pc'[t] = to /\ \A u \in Thread \ {t} : pc'[u] = pc[u]
      /\ pc' \in [Thread -> Label]
  <2>1. to \in Label /\ Goto(t, "command", to)
    BY DEF Issue, Label
  <2>. HIDE DEF to
  <2>. QED BY <2>1, GotoFacts DEF IInv
<1>2. /\ UseInv(t) /\ call[t].at[1] \in Disk /\ call[t].at[2] \in Sector
      /\ call[t].at = <<call[t].at[1], call[t].at[2]>> /\ selected \in Disk
  BY <1>1, Holder
<1>3. state[selected] = "idle" /\ selected = call[t].at[1]
  BY <1>1, <1>2 DEF UseInv, Use
<1>4. /\ UNCHANGED <<owner, call, got, selected, media>> /\ target' = call[t].at[2]
      /\ state' = [state EXCEPT ![selected] = s]
      /\ latch' = [latch EXCEPT ![selected] = [at |-> <<selected, target'>>, data |-> Blank]]
  BY <1>3 DEF Issue, Busy
<1>5. s \in State /\ to \in {"down", "poll"}
  BY DEF State
<1>6. /\ state' \in [Disk -> State] /\ state'[selected] = s
      /\ \A d \in Disk \ {selected} : state'[d] = "idle"
  <2>. HIDE DEF s
  <2>. QED BY <1>4, <1>5 DEF IInv, DiskInv
<1>7. /\ DOMAIN latch' = Disk /\ latch'[selected].at = <<selected, target'>>
      /\ \A d \in Disk : DOMAIN latch'[d] = {"at", "data"}
  BY <1>4 DEF IInv, DiskInv
<1>8. latch'[selected].at = call[t].at
  BY <1>2, <1>3, <1>4, <1>7
<1>9. DiskInv'
  BY <1>2, <1>4, <1>6, <1>7 DEF IInv, DiskInv
<1>10. UseInv(t)'
  BY <1>1, <1>3, <1>4, <1>6, <1>8 DEF UseInv, Use
<1>11. DOMAIN got = Thread /\ got[t] = Blank
  BY <1>1 DEF IInv, CallInv
<1>. QED
  <2>. HIDE DEF s, to
  <2>. QED BY <1>1, <1>4, <1>5, <1>9, <1>10, <1>11, HolderStep

\* A read may go on before its data are there, a write before they are stored.
LEMMA DownIInv == ASSUME IdeAssumption, IInv, NEW t \in Thread, Down(t) PROVE IInv'
<1>. DEFINE to == IF call[t].op = "read" THEN "poll" ELSE "unlock"
<1>1. /\ pc[t] = "down" /\ pc'[t] = to /\ \A u \in Thread \ {t} : pc'[u] = pc[u]
      /\ pc' \in [Thread -> Label]
  <2>1. to \in Label /\ Goto(t, "down", to)
    BY DEF Down, Label
  <2>. HIDE DEF to
  <2>. QED BY <2>1, GotoFacts DEF IInv
<1>2. UNCHANGED <<owner, call, got, selected, target, state, latch, media>>
  BY DEF Down, device
<1>3. UseInv(t)'
  <2>1. UseInv(t)
    BY <1>1, Holder
  <2>. QED BY <1>1, <1>2, <2>1 DEF UseInv, Use
<1>4. DiskInv'
  BY <1>2 DEF IInv, DiskInv
<1>5. DOMAIN got = Thread /\ got[t] = Blank /\ to \notin {"out", "lock"}
  BY <1>1 DEF IInv, CallInv
<1>. QED
  <2>. HIDE DEF to
  <2>. QED BY <1>1, <1>2, <1>3, <1>4, <1>5, HolderStep

\* A disk that is not busy has data or wants them: the kernel does not panic.
LEMMA PollIInv == ASSUME IdeAssumption, IInv, NEW t \in Thread, Poll(t) PROVE IInv'
<1>1. pc[t] = "poll" /\ ~Busy(selected)
  BY DEF Poll, Goto
<1>2. UseInv(t)
  BY <1>1, Holder
<1>3. Drq(selected)
  BY <1>1, <1>2 DEF UseInv, Use, Busy, Drq
<1>4. Goto(t, "poll", "transfer")
  BY <1>3 DEF Poll
<1>5. /\ pc'[t] = "transfer" /\ \A u \in Thread \ {t} : pc'[u] = pc[u]
      /\ pc' \in [Thread -> Label]
  BY <1>4, GotoFacts DEF IInv, Label
<1>6. UNCHANGED <<owner, call, got, selected, target, state, latch, media>>
  BY DEF Poll, device
<1>7. UseInv(t)'
  BY <1>1, <1>2, <1>3, <1>5, <1>6 DEF UseInv, Use, Drq
<1>8. DiskInv'
  BY <1>6 DEF IInv, DiskInv
<1>9. DOMAIN got = Thread /\ got[t] = Blank
  BY <1>1 DEF IInv, CallInv
<1>. QED BY <1>1, <1>5, <1>6, <1>7, <1>8, <1>9, HolderStep

\* The disk had the sector of the call.
LEMMA InputIInv ==
  ASSUME IdeAssumption, IInv, NEW t \in Thread, Input(t)
  PROVE  IInv' /\ got' = [got EXCEPT ![t] = media[call[t].at]] /\ latch[selected].at = call[t].at
<1>1. /\ pc[t] = "transfer" /\ pc'[t] = "unlock" /\ \A u \in Thread \ {t} : pc'[u] = pc[u]
      /\ pc' \in [Thread -> Label] /\ call[t].op = "read"
  BY GotoFacts DEF IInv, Input, Label
<1>2. UseInv(t)
  BY <1>1, Holder
<1>3. Drq(selected) /\ latch[selected].at = call[t].at
  BY <1>1, <1>2 DEF UseInv, Use, Drq
<1>4. /\ UNCHANGED <<owner, call, selected, target, latch, media>>
      /\ got' = [got EXCEPT ![t] = media[call[t].at]]
      /\ state' = [state EXCEPT ![selected] = "idle"]
  BY <1>3 DEF Input
<1>5. DiskInv' /\ state'[selected] = "idle"
  <2>1. DOMAIN media' = Place /\ DiskInv /\ "idle" \in State
    BY <1>4 DEF IInv, DiskInv, State
  <2>. QED BY <1>4, <2>1, DiskStepInv
<1>6. UseInv(t)'
  BY <1>1, <1>4, <1>5 DEF UseInv, Use
<1>7. DOMAIN got' = Thread /\ \A u \in Thread \ {t} : got'[u] = got[u]
  BY <1>4 DEF IInv, CallInv
<1>. QED BY <1>1, <1>3, <1>4, <1>5, <1>6, <1>7, HolderStep

\* The disk stores what the call gave it.
LEMMA OutputIInv ==
  ASSUME IdeAssumption, IInv, NEW t \in Thread, Output(t)
  PROVE  IInv' /\ latch[selected].at = call[t].at /\ selected = call[t].at[1]
<1>1. /\ pc[t] = "transfer" /\ pc'[t] = "down" /\ \A u \in Thread \ {t} : pc'[u] = pc[u]
      /\ pc' \in [Thread -> Label] /\ call[t].op = "write"
  BY GotoFacts DEF IInv, Output, Label
<1>2. UseInv(t)
  BY <1>1, Holder
<1>3. latch[selected].at = call[t].at /\ selected = call[t].at[1]
  BY <1>1, <1>2 DEF UseInv, Use
<1>4. /\ UNCHANGED <<owner, call, got, selected, target, media>>
      /\ latch' = [latch EXCEPT ![selected].data = call[t].data]
      /\ state' = [state EXCEPT ![selected] = "storing"]
  BY DEF Output
<1>5. DiskInv' /\ state'[selected] = "storing" /\ latch'[selected].at = latch[selected].at
  <2>1. DOMAIN media' = Place /\ DiskInv /\ "storing" \in State
    BY <1>4 DEF IInv, DiskInv, State
  <2>. QED BY <1>3, <1>4, <2>1, DiskStepInv
<1>6. UseInv(t)'
  BY <1>1, <1>3, <1>4, <1>5 DEF UseInv, Use
<1>7. DOMAIN got = Thread /\ got[t] = Blank
  BY <1>1 DEF IInv, CallInv
<1>. QED BY <1>1, <1>3, <1>4, <1>5, <1>6, <1>7, HolderStep

\* A call begins: the channel is as it was.
LEMMA BeginIInv == ASSUME IInv, NEW t \in Thread, NEW c \in Call, Begin(t, c) PROVE IInv'
<1>. USE DEF IInv
<1>1. /\ pc[t] = "out" /\ pc'[t] = "lock" /\ \A u \in Thread \ {t} : pc'[u] = pc[u]
      /\ pc' \in [Thread -> Label]
  BY GotoFacts DEF Begin, Label
<1>2. /\ UNCHANGED <<owner, got, selected, target, state, latch, media>>
      /\ call' = [call EXCEPT ![t] = c]
  BY DEF Begin, device
<1>3. CallInv'
  BY <1>1, <1>2 DEF CallInv
<1>4. OwnerInv' /\ owner # t
  BY <1>1, <1>2 DEF OwnerInv
<1>5. DiskInv'
  BY <1>2 DEF DiskInv
<1>6. \A u \in Thread \ {t} : UseInv(u)' <=> UseInv(u)
  BY <1>1, <1>2 DEF UseInv, CallInv
<1>7. ChannelInv'
  BY <1>2, <1>4, <1>6 DEF ChannelInv
<1>. QED BY <1>3, <1>4, <1>5, <1>7

\* The lock is free, so nobody has the channel.
LEMMA AcquireIInv == ASSUME IdeAssumption, IInv, NEW t \in Thread, Acquire(t) PROVE IInv'
<1>. USE DEF IInv
<1>1. /\ pc[t] = "lock" /\ pc'[t] = "idle1" /\ \A u \in Thread \ {t} : pc'[u] = pc[u]
      /\ pc' \in [Thread -> Label]
  BY GotoFacts DEF Acquire, Label
<1>2. /\ UNCHANGED <<got, call, selected, target, state, latch, media>>
      /\ owner = NoThread /\ owner' = t
  BY DEF Acquire, device
<1>3. CallInv'
  BY <1>1, <1>2 DEF CallInv
<1>4. \A u \in Thread : pc[u] \in {"out", "lock"}
  BY <1>2 DEF OwnerInv, IdeAssumption
<1>5. OwnerInv'
  BY <1>1, <1>2, <1>4 DEF OwnerInv
<1>6. DiskInv'
  BY <1>2 DEF DiskInv
<1>7. UseInv(t)'
  BY <1>1, <1>2 DEF UseInv, Use, ChannelInv
<1>8. ChannelInv'
  BY <1>2, <1>7 DEF ChannelInv, IdeAssumption
<1>. QED BY <1>3, <1>5, <1>6, <1>8

\* The data are there, or on their way to the platter.
LEMMA ReleaseIInv == ASSUME IdeAssumption, IInv, NEW t \in Thread, Release(t) PROVE IInv'
<1>. USE DEF IInv
<1>1. /\ pc[t] = "unlock" /\ pc'[t] = "out" /\ \A u \in Thread \ {t} : pc'[u] = pc[u]
      /\ pc' \in [Thread -> Label]
  BY GotoFacts DEF Release, Label
<1>2. /\ UNCHANGED <<selected, target, state, latch, media>> /\ owner' = NoThread
      /\ call' = [call EXCEPT ![t] = NoCall] /\ got' = [got EXCEPT ![t] = Blank]
  BY DEF Release, device
<1>3. CallInv'
  BY <1>1, <1>2 DEF CallInv
<1>4. owner = t /\ UseInv(t)
  BY <1>1, Holder
<1>5. OwnerInv'
  BY <1>1, <1>2, <1>4 DEF OwnerInv, IdeAssumption
<1>6. DiskInv'
  BY <1>2 DEF DiskInv
<1>7. state[selected] \in {"idle", "storing"}
  BY <1>1, <1>4 DEF UseInv, Use
<1>8. ChannelInv'
  BY <1>2, <1>7 DEF ChannelInv, IdeAssumption
<1>. QED BY <1>3, <1>5, <1>6, <1>8

\* A disk that does something is the selected one, and its thread knows.
LEMMA DiskStepIInv == ASSUME IInv, NEW d \in Disk, DiskStep(d) PROVE IInv'
<1>1. PICK from, to \in State : /\ <<from, to>> \in {<<"reading", "hasData">>,
                                       <<"readying", "wantsData">>, <<"storing", "idle">>}
                                /\ state[d] = from /\ state' = [state EXCEPT ![d] = to]
  BY DEF DiskStep, DiskReads, DiskReadies, DiskStores, State
<1>2. UNCHANGED <<owner, pc, call, got, selected, target, latch>>
  BY DEF DiskStep, DiskReads, DiskReadies, DiskStores, driver
<1>3. DOMAIN media' = Place
  BY DEF IInv, DiskInv, DiskStep, DiskReads, DiskReadies, DiskStores
<1>4. d = selected
  BY <1>1 DEF IInv, DiskInv
<1>5. DiskInv' /\ state'[selected] = to
  <2>1. DiskInv
    BY DEF IInv
  <2>. QED BY <1>1, <1>2, <1>3, <1>4, <2>1, DiskStepInv
<1>6. owner = NoThread => state'[selected] \in {"idle", "storing"}
  BY <1>1, <1>4, <1>5 DEF IInv, ChannelInv
<1>7. ASSUME NEW t \in Thread, owner = t PROVE UseInv(t)'
  <2>1. UseInv(t)
    BY <1>7 DEF IInv, ChannelInv
  <2>. QED BY <1>1, <1>2, <1>4, <1>5, <2>1 DEF UseInv, Use
<1>. QED BY <1>2, <1>5, <1>6, <1>7, OutsideStep

\* The handler, a stray interrupt and a look at the status change no more than
\* the interrupt line and the semaphore.
LEMMA InterruptIInv ==
  ASSUME IInv, UNCHANGED <<owner, pc, call, got, selected, target, state, latch, media>>
  PROVE  IInv'
BY DEF IInv, CallInv, OwnerInv, DiskInv, ChannelInv, UseInv

LEMMA NextIInv == ASSUME IdeAssumption, IInv, [Next]_vars PROVE IInv'
<1>1. CASE UNCHANGED vars
  BY <1>1, InterruptIInv DEF vars, driver, device
<1>2. ASSUME NEW t \in Thread, ReadStatus(t) PROVE IInv'
  BY <1>2, InterruptIInv DEF ReadStatus, driver
<1>3. CASE Handler \/ Spurious
  BY <1>3, InterruptIInv DEF Handler, Spurious, driver
<1>4. ASSUME NEW t \in Thread, Step(t) PROVE IInv'
  BY <1>2, <1>4, AcquireIInv, WaitIdleIInv, SelectIInv, IssueIInv, DownIInv, PollIInv, InputIInv,
     OutputIInv, ReleaseIInv DEF Step
<1>. QED BY <1>1, <1>3, <1>4, BeginIInv, DiskStepIInv DEF Next

LEMMA InitIInv == ASSUME IdeAssumption, Init PROVE IInv
<1>. USE DEF Init
<1>1. CallInv
  BY DEF CallInv, Label
<1>2. OwnerInv
  BY DEF OwnerInv, IdeAssumption
<1>3. DiskInv
  BY DEF DiskInv, State, NoLatch
<1>4. ChannelInv
  BY DEF ChannelInv, IdeAssumption
<1>. QED BY <1>1, <1>2, <1>3, <1>4 DEF IInv

\* IInv holds between any two steps of the threads, the handler and the disks.
THEOREM Invariant == IdeAssumption => (Spec => []IInv)
<1>1. IdeAssumption /\ Init => IInv
  BY InitIInv
<1>2. IdeAssumption /\ IInv /\ [Next]_vars => IInv'
  BY NextIInv
<1>3. SUFFICES ASSUME IdeAssumption PROVE Spec => []IInv
  OBVIOUS
<1>4. Init => IInv
  BY <1>1, <1>3
<1>5. IInv /\ [Next]_vars => IInv'
  BY <1>2, <1>3
<1>. QED BY <1>4, <1>5, PTL DEF Spec

\* wait_while_busy never finds a disk that is neither busy nor ready: the kernel
\* does not panic, however many stray interrupts there are.
NoPanic == \A t \in Thread : pc[t] # "panicked"
THEOREM DriverNeverPanics == IdeAssumption => (Spec => []NoPanic)
<1>1. SUFFICES ASSUME IdeAssumption PROVE Spec => []NoPanic
  OBVIOUS
<1>2. Spec => []IInv
  BY <1>1, Invariant
<1>3. IInv => NoPanic
  BY DEF IInv, CallInv, Label, NoPanic
<1>. QED BY <1>2, <1>3, PTL

-------------------------------------------------------------------------------
(* The driver implements AbstractDisk.                                     *)
Calls == [t \in Thread |-> CallOf(t)]

\* While nothing is stored the sectors are what the media hold.
LEMMA QuietContent ==
  ASSUME DiskInv, state[selected] # "storing"
  PROVE  Content = [p \in Place |-> media[p]]
<1>1. \A d \in Disk : state[d] # "storing"
  BY DEF DiskInv
<1>2. \A p \in Place : p[1] \in Disk
  BY DEF Place
<1>. QED BY <1>1, <1>2 DEF Content

\* What a step leaves alone.
LEMMA SameContent ==
  ASSUME DiskInv, DiskInv', UNCHANGED media, state[selected] # "storing", state'[selected'] # "storing"
  PROVE  Content' = Content
<1>1. \A d \in Disk : state[d] # "storing" /\ state'[d] # "storing"
  BY DEF DiskInv
<1>2. \A p \in Place : p[1] \in Disk
  BY DEF Place
<1>. QED BY <1>1, <1>2 DEF Content

LEMMA SameCalls ==
  ASSUME NEW t \in Thread, \A u \in Thread \ {t} : UNCHANGED <<pc[u], call[u], got[u]>>,
         UNCHANGED CallOf(t)
  PROVE  UNCHANGED Calls
<1>1. \A u \in Thread \ {t} : CallOf(u)' = CallOf(u)
  BY DEF CallOf
<1>. QED BY <1>1 DEF Calls

\* A call that takes effect, begins or returns: what the abstract call becomes.
LEMMA OneCall ==
  ASSUME NEW t \in Thread, \A u \in Thread \ {t} : UNCHANGED <<pc[u], call[u], got[u]>>,
         NEW c, CallOf(t)' = c
  PROVE  Calls' = [Calls EXCEPT ![t] = c]
<1>1. \A u \in Thread \ {t} : CallOf(u)' = CallOf(u)
  BY DEF CallOf
<1>. QED BY <1>1 DEF Calls

LEMMA StepStutters ==
  ASSUME IdeAssumption, IInv, IInv', NEW t \in Thread,
         \/ Acquire(t) \/ WaitIdle(t) \/ ReadStatus(t) \/ Select(t) \/ Issue(t) \/ Down(t) \/ Poll(t)
  PROVE  UNCHANGED <<Content, Calls>>
<1>. USE DEF IInv
<1>0. UNCHANGED <<call, got, media>>
  BY DEF Acquire, WaitIdle, ReadStatus, Select, Issue, Down, Poll, device, driver
<1>1. \A u \in Thread \ {t} : UNCHANGED <<pc[u], call[u], got[u]>>
  BY <1>0 DEF Acquire, WaitIdle, ReadStatus, Select, Issue, Down, Poll, Goto, driver, CallInv
<1>2. UNCHANGED CallOf(t)
  <2>1. CASE ReadStatus(t)
    BY <2>1 DEF ReadStatus, driver, CallOf
  <2>2. CASE Acquire(t) \/ WaitIdle(t) \/ Select(t)
    BY <2>2, <1>0 DEF Acquire, WaitIdle, Select, Goto, CallInv, CallOf
  <2>3. CASE Issue(t)
    BY <2>3, <1>0 DEF Issue, Goto, CallInv, CallOf
  <2>4. CASE Down(t)
    <3>1. /\ pc[t] = "down" /\ pc'[t] = IF call[t].op = "read" THEN "poll" ELSE "unlock"
          /\ call[t].op \in {"read", "write"}
      BY <2>4, Holder DEF Down, Goto, CallInv
    <3>. QED BY <3>1, <1>0 DEF CallOf
  <2>5. CASE Poll(t)
    BY <2>5, <1>0 DEF Poll, Goto, CallInv, CallOf
  <2>. QED BY <2>1, <2>2, <2>3, <2>4, <2>5
<1>3. UNCHANGED Content
  <2>1. CASE UNCHANGED <<state, latch>>
    BY <2>1, <1>0 DEF Content
  <2>2. CASE Issue(t)
    <3>1. pc[t] = "command" /\ pc'[t] = IF call[t].op = "read" THEN "down" ELSE "poll"
      BY <2>2 DEF Issue, Goto, CallInv
    <3>2. state[selected] = "idle" /\ UseInv(t)' /\ call'[t].op \in {"read", "write"}
      BY <3>1, <1>0, Holder DEF UseInv, Use, ChannelInv, OwnerInv
    <3>3. state[selected] # "storing" /\ state'[selected'] # "storing"
      BY <3>1, <3>2, <1>0 DEF UseInv, Use
    <3>. QED BY <3>3, <1>0, SameContent
  <2>3. CASE Acquire(t) \/ Down(t) \/ Poll(t)
    BY <2>1, <2>3 DEF Acquire, Down, Poll, device
  <2>4. CASE WaitIdle(t) \/ ReadStatus(t) \/ Select(t)
    BY <2>1, <2>4 DEF WaitIdle, ReadStatus, Select
  <2>. QED BY <2>2, <2>3, <2>4
<1>. QED BY <1>1, <1>2, <1>3, SameCalls

\* A call begins.
LEMMA BeginMaps ==
  ASSUME IInv, NEW t \in Thread, NEW c \in Call, Begin(t, c)
  PROVE  Abstract!Next
<1>1. /\ pc[t] = "out" /\ pc'[t] = "lock" /\ call'[t] = c
      /\ \A u \in Thread \ {t} : UNCHANGED <<pc[u], call[u], got[u]>>
  BY DEF IInv, CallInv, Begin, Goto
<1>2. UNCHANGED Content
  <2>1. UNCHANGED <<state, latch, media>>
    BY DEF Begin, device
  <2>. QED BY <2>1 DEF Content
<1>3. CASE c.op = "read"
  <2>1. c.at \in Place
    BY <1>3 DEF Call
  <2>2. CallOf(t)' = [op |-> "read", at |-> c.at] /\ CallOf(t) = Abstract!Idle
    BY <1>1, <1>3 DEF CallOf, Abstract!Idle
  <2>3. Calls' = [Calls EXCEPT ![t] = [op |-> "read", at |-> c.at]] /\ Calls[t] = Abstract!Idle
    BY <1>1, <2>2, OneCall DEF Calls
  <2>. QED BY <1>2, <2>1, <2>3 DEF Abstract!Next, Abstract!Begin, Calls
<1>4. CASE c.op = "write"
  <2>1. c.at \in Place /\ c.data \in Data /\ c = [op |-> "write", at |-> c.at, data |-> c.data]
    BY <1>4 DEF Call
  <2>2. CallOf(t)' = c /\ CallOf(t) = Abstract!Idle
    BY <1>1, <1>4 DEF CallOf, Abstract!Idle
  <2>3. Calls' = [Calls EXCEPT ![t] = c] /\ Calls[t] = Abstract!Idle
    BY <1>1, <2>2, OneCall DEF Calls
  <2>. QED BY <1>2, <2>1, <2>3 DEF Abstract!Next, Abstract!Begin, Calls
<1>. QED BY <1>3, <1>4 DEF Call

\* The driver has the sector: the read takes effect.
LEMMA InputMaps ==
  ASSUME IdeAssumption, IInv, NEW t \in Thread, Input(t)
  PROVE  Abstract!Next
<1>. USE DEF IInv
<1>1. /\ pc[t] = "transfer" /\ pc'[t] = "unlock" /\ call[t].op = "read"
      /\ UNCHANGED <<call, media>>
      /\ \A u \in Thread \ {t} : UNCHANGED <<pc[u], call[u], got[u]>>
  BY DEF CallInv, Input, Goto
<1>2. IInv' /\ got'[t] = media[call[t].at] /\ call[t].at \in Place
  BY <1>1, InputIInv, Holder DEF CallInv
<1>3. state[selected] = "hasData" /\ state'[selected'] # "storing"
  <2>1. UseInv(t)
    BY <1>1, Holder
  <2>2. state[selected] = "hasData"
    BY <1>1, <2>1 DEF UseInv, Use
  <2>. QED BY <2>2 DEF Input, Drq, DiskInv
<1>4. Content' = Content /\ Content[call[t].at] = media[call[t].at]
  BY <1>1, <1>2, <1>3, SameContent, QuietContent
<1>5. /\ CallOf(t) = [op |-> "read", at |-> call[t].at]
      /\ CallOf(t)' = [op |-> "done", got |-> Content[call[t].at]]
  BY <1>1, <1>2, <1>4 DEF CallOf
<1>6. /\ Calls' = [Calls EXCEPT ![t] = [op |-> "done", got |-> Content[call[t].at]]]
      /\ Calls[t].op = "read" /\ Calls[t].at = call[t].at
  BY <1>1, <1>5, OneCall DEF Calls
<1>7. Abstract!Read(t)
  BY <1>4, <1>6 DEF Abstract!Read, Calls
<1>. QED BY <1>7 DEF Abstract!Next

\* The disk has the sector: the write takes effect.
LEMMA OutputMaps ==
  ASSUME IdeAssumption, IInv, NEW t \in Thread, Output(t)
  PROVE  Abstract!Next
<1>. USE DEF IInv
<1>1. /\ pc[t] = "transfer" /\ pc'[t] = "down" /\ call[t].op = "write"
      /\ UNCHANGED <<call, got, media, selected>> /\ got[t] = Blank
      /\ \A u \in Thread \ {t} : UNCHANGED <<pc[u], call[u], got[u]>>
  BY DEF CallInv, Output, Goto
<1>2. /\ call[t].at \in Place /\ latch[selected].at = call[t].at /\ selected = call[t].at[1]
      /\ call[t] \in Call /\ selected \in Disk
  BY <1>1, OutputIInv, Holder
<1>3. state[selected] = "wantsData"
  <2>1. UseInv(t)
    BY <1>1, Holder
  <2>. QED BY <1>1, <2>1 DEF UseInv, Use
<1>4. /\ state'[selected] = "storing" /\ \A d \in Disk \ {selected} : state'[d] = "idle"
      /\ latch'[selected].at = call[t].at /\ latch'[selected].data = call[t].data
  BY <1>2 DEF Output, DiskInv
<1>5. Content = [p \in Place |-> media[p]]
  BY <1>3, QuietContent
<1>6. ASSUME NEW p \in Place
      PROVE  (IF state'[p[1]] = "storing" /\ latch'[p[1]].at = p THEN latch'[p[1]].data ELSE media[p])
             = IF p = call[t].at THEN call[t].data ELSE media[p]
  <2>1. p[1] \in Disk
    BY DEF Place
  <2>. QED BY <1>2, <1>4, <2>1
<1>7. Content' = [Content EXCEPT ![call[t].at] = call[t].data]
  <2>1. Content' = [p \in Place |-> IF state'[p[1]] = "storing" /\ latch'[p[1]].at = p
                                    THEN latch'[p[1]].data ELSE media[p]]
    BY <1>1 DEF Content
  <2>2. Content' = [p \in Place |-> IF p = call[t].at THEN call[t].data ELSE media[p]]
    BY <1>6, <2>1
  <2>. QED BY <1>5, <2>2
<1>8. CallOf(t) = call[t] /\ CallOf(t)' = [op |-> "done", got |-> Blank]
  BY <1>1 DEF CallOf
<1>9. /\ Calls' = [Calls EXCEPT ![t] = [op |-> "done", got |-> Blank]] /\ Calls[t] = call[t]
  BY <1>1, <1>8, OneCall DEF Calls
<1>10. Abstract!Write(t)
  BY <1>1, <1>7, <1>9 DEF Abstract!Write, Calls
<1>. QED BY <1>10 DEF Abstract!Next

\* A call returns.
LEMMA ReleaseMaps ==
  ASSUME IInv, NEW t \in Thread, Release(t)
  PROVE  Abstract!Next
<1>1. /\ pc[t] = "unlock" /\ pc'[t] = "out"
      /\ \A u \in Thread \ {t} : UNCHANGED <<pc[u], call[u], got[u]>>
  BY DEF IInv, CallInv, Release, Goto
<1>2. UNCHANGED Content
  BY DEF Release, device, Content
<1>3. CallOf(t) = [op |-> "done", got |-> got[t]] /\ CallOf(t)' = Abstract!Idle
  BY <1>1 DEF CallOf, Abstract!Idle
<1>4. Calls' = [Calls EXCEPT ![t] = Abstract!Idle] /\ Calls[t].op = "done"
  BY <1>1, <1>3, OneCall DEF Calls
<1>5. Abstract!Return(t)
  BY <1>2, <1>4 DEF Abstract!Return, Calls
<1>. QED BY <1>5 DEF Abstract!Next

\* What a disk stores was its content already.
LEMMA DiskStepStutters ==
  ASSUME IInv, IInv', NEW d \in Disk, DiskStep(d)
  PROVE  UNCHANGED <<Content, Calls>>
<1>. USE DEF IInv
<1>1. UNCHANGED <<pc, call, got, latch, selected>> /\ state[d] # "idle" /\ d = selected
  BY DEF DiskStep, DiskReads, DiskReadies, DiskStores, driver, DiskInv
<1>2. UNCHANGED Calls
  BY <1>1 DEF Calls, CallOf
<1>3. CASE DiskReads(d) \/ DiskReadies(d)
  <2>1. state[selected] # "storing" /\ state'[selected'] # "storing" /\ UNCHANGED media
    BY <1>1, <1>3 DEF DiskReads, DiskReadies, DiskInv
  <2>. QED BY <1>2, <2>1, SameContent
<1>4. CASE DiskStores(d)
  <2>1. /\ state[d] = "storing" /\ state'[d] = "idle" /\ latch[d].at[1] = d
        /\ media' = [media EXCEPT ![latch[d].at] = latch[d].data] /\ DOMAIN media = Place
        /\ \A e \in Disk \ {d} : state[e] = "idle"
    BY <1>1, <1>4 DEF DiskStores, DiskInv
  <2>2. \A e \in Disk : state'[e] # "storing"
    BY <2>1, <1>4 DEF DiskStores, DiskInv
  <2>3. Content' = [p \in Place |-> media'[p]]
    <3>1. \A p \in Place : p[1] \in Disk
      BY DEF Place
    <3>. QED BY <2>2, <3>1 DEF Content
  <2>4. ASSUME NEW p \in Place
        PROVE  media'[p] = IF state[p[1]] = "storing" /\ latch[p[1]].at = p THEN latch[p[1]].data
                           ELSE media[p]
    <3>1. p[1] \in Disk
      BY DEF Place
    <3>. QED BY <2>1, <3>1
  <2>. QED BY <1>2, <2>3, <2>4 DEF Content
<1>. QED BY <1>3, <1>4 DEF DiskStep

LEMMA NextMaps ==
  ASSUME IdeAssumption, IInv, IInv', [Next]_vars
  PROVE  Abstract!Next \/ UNCHANGED <<Content, Calls>>
<1>1. CASE UNCHANGED vars
  BY <1>1 DEF vars, driver, device, Content, Calls, CallOf
<1>2. CASE Handler \/ Spurious
  BY <1>2 DEF Handler, Spurious, driver, Content, Calls, CallOf
<1>. QED
  BY <1>1, <1>2, BeginMaps, InputMaps, OutputMaps, ReleaseMaps, StepStutters, DiskStepStutters
     DEF Next, Step

LEMMA InitMaps == ASSUME Init PROVE Abstract!Init
<1>1. \A p \in Place : p[1] \in Disk
  BY DEF Place
<1>2. Content = [p \in Place |-> Blank]
  BY <1>1 DEF Init, Content
<1>3. Calls = [t \in Thread |-> Abstract!Idle]
  BY DEF Init, Calls, CallOf, Abstract!Idle
<1>. QED BY <1>2, <1>3 DEF Abstract!Init, Calls

\* Threads that share a channel see one atomic disk each: the driver with its
\* lock, its handler and the disks implements AbstractDisk.
THEOREM DriverImplementsDisk == IdeAssumption => (Spec => ImplementsDisk)
<1>1. SUFFICES ASSUME IdeAssumption PROVE Spec => ImplementsDisk
  OBVIOUS
<1>2. Spec => []IInv
  BY <1>1, Invariant
<1>3. Init => Abstract!Init
  BY InitMaps
<1>4. IInv /\ IInv' /\ [Next]_vars => [Abstract!Next]_<<Content, Calls>>
  BY <1>1, NextMaps
<1>5. ImplementsDisk <=> Abstract!Init /\ [][Abstract!Next]_<<Content, Calls>>
  BY DEF ImplementsDisk, Abstract!Spec, Calls
<1>. QED BY <1>2, <1>3, <1>4, <1>5, PTL DEF Spec

-------------------------------------------------------------------------------
(* The interrupt queue of intq.c: any readers, writers and handlers, and a  *)
(* buffer of any size from two bytes on.                                    *)
CONSTANTS Reader, Writer, Called, Byte, BufSize
VARIABLES buf, head, tail, waiter, lockOwner, queue, place, returned

Ring == INSTANCE Intq WITH
  Handler <- Called, owner <- lockOwner, pc <- place, got <- returned

Elems(q) == {q[i] : i \in 1..Len(q)}
Distinct(q) == \A i, j \in 1..Len(q) : q[i] = q[j] => i = j
Conditions == {"not_empty", "not_full"}

(* The threads asleep on the lock are on its list, each once.              *)
QueueInv == Distinct(queue) /\ \A t \in Ring!User : place[t] = "queued" <=> t \in Elems(queue)

(* A signal wakes a thread that sleeps, and wakes it from its own wait.     *)
SignalInv == \A c \in Conditions : waiter[c] # NoThread => place[waiter[c]] = "waiting"

RingInv == Ring!TypeOK /\ Ring!OneWaiter /\ Ring!NoSleepWithWork /\ QueueInv /\ SignalInv

LEMMA AppendElems ==
  ASSUME NEW S, NEW q \in Seq(S), NEW x \in S, Distinct(q), x \notin Elems(q)
  PROVE  /\ Append(q, x) \in Seq(S) /\ Elems(Append(q, x)) = Elems(q) \cup {x}
         /\ Distinct(Append(q, x))
<1>. DEFINE r == Append(q, x)
<1>1. /\ r \in Seq(S) /\ Len(r) = Len(q) + 1 /\ Len(q) \in Nat
      /\ \A i \in 1..Len(q) : r[i] = q[i]
      /\ r[Len(q) + 1] = x
  OBVIOUS
<1>. HIDE DEF r
<1>2. 1..Len(r) = 1..Len(q) \cup {Len(q) + 1}
  BY <1>1
<1>3. Elems(r) = Elems(q) \cup {x}
  BY <1>1, <1>2 DEF Elems
<1>4. \A i \in 1..Len(q) : r[i] # x
  BY <1>1 DEF Elems
<1>5. Distinct(r)
  BY <1>1, <1>2, <1>4 DEF Distinct
<1>. QED BY <1>1, <1>3, <1>5 DEF r

LEMMA TailElems ==
  ASSUME NEW S, NEW q \in Seq(S), q # <<>>, Distinct(q)
  PROVE  /\ Tail(q) \in Seq(S) /\ Head(q) \in S /\ Head(q) \in Elems(q)
         /\ Elems(Tail(q)) = Elems(q) \ {Head(q)} /\ Distinct(Tail(q))
<1>. DEFINE r == Tail(q)
<1>1. /\ r \in Seq(S) /\ Len(r) = Len(q) - 1 /\ Len(q) \in Nat \ {0}
      /\ Head(q) = q[1] /\ Head(q) \in S
      /\ \A i \in 1..Len(r) : r[i] = q[i + 1] /\ i + 1 \in 1..Len(q)
  OBVIOUS
<1>. HIDE DEF r
<1>2. \A i \in 1..Len(q) : i # 1 => i - 1 \in 1..Len(r) /\ r[i - 1] = q[i]
  BY <1>1
<1>3. \A i \in 1..Len(r) : r[i] # q[1]
  BY <1>1 DEF Distinct
<1>4. Elems(r) = Elems(q) \ {q[1]}
  BY <1>1, <1>2, <1>3 DEF Elems
<1>5. Distinct(r)
  <2>1. SUFFICES ASSUME NEW i \in 1..Len(r), NEW j \in 1..Len(r), r[i] = r[j] PROVE i = j
    BY DEF Distinct
  <2>2. i + 1 = j + 1
    BY <1>1, <2>1 DEF Distinct
  <2>. QED BY <2>2, <1>1
<1>6. Head(q) \in Elems(q)
  BY <1>1 DEF Elems
<1>. QED BY <1>1, <1>4, <1>5, <1>6 DEF r
-------------------------------------------------------------------------------
\* Positions wrap by at most one turn.
LEMMA ModOnce ==
  ASSUME NEW B \in Nat \ {0}
  PROVE  /\ \A n \in 0..B - 1 : n % B = n
         /\ \A n \in B..2 * B - 1 : n % B = n - B
OBVIOUS

LEMMA PosAfterRange ==
  ASSUME Ring!IntqAssumption, NEW pos \in 0..BufSize - 1
  PROVE  /\ Ring!PosAfter(pos) \in 0..BufSize - 1 /\ Ring!PosAfter(pos) # pos
         /\ Ring!PosAfter(pos) = IF pos = BufSize - 1 THEN 0 ELSE pos + 1
BY ModOnce DEF Ring!IntqAssumption, Ring!PosAfter

\* lock_release after a sleep wakes the first of those asleep on the lock.
LEMMA ReleaseFacts ==
  ASSUME Ring!IntqAssumption, Ring!TypeOK, QueueInv, NEW t \in Ring!User, queue' = Ring!QueueAfter(t)
  PROVE  \/ /\ Ring!LockWoken(t) = {} /\ queue' = queue
            /\ place[t] = "resumed" => \A u \in Ring!User : place[u] # "queued"
         \/ /\ place[t] = "resumed" /\ queue' \in Seq(Ring!User) /\ Distinct(queue')
            /\ \E h \in Ring!User : /\ place[h] = "queued" /\ Ring!LockWoken(t) = {h}
                                    /\ Elems(queue') = Elems(queue) \ {h}
<1>1. CASE Ring!LockWoken(t) = {}
  <2>1. place[t] = "resumed" => queue = <<>>
    BY <1>1 DEF Ring!LockWoken
  <2>2. queue = <<>> => Elems(queue) = {}
    BY DEF Elems
  <2>. QED BY <1>1, <2>1, <2>2 DEF Ring!QueueAfter, QueueInv
<1>2. CASE Ring!LockWoken(t) # {}
  <2>1. place[t] = "resumed" /\ queue # <<>> /\ Ring!LockWoken(t) = {Head(queue)} /\ queue' = Tail(queue)
    BY <1>2 DEF Ring!LockWoken, Ring!QueueAfter
  <2>2. /\ Tail(queue) \in Seq(Ring!User) /\ Head(queue) \in Ring!User /\ Head(queue) \in Elems(queue)
        /\ Elems(Tail(queue)) = Elems(queue) \ {Head(queue)} /\ Distinct(Tail(queue))
    BY <2>1, TailElems DEF Ring!TypeOK, QueueInv
  <2>3. place[Head(queue)] = "queued"
    BY <2>2 DEF QueueInv
  <2>. QED BY <2>1, <2>2, <2>3
<1>. QED BY <1>1, <1>2

(* A byte moved under a signal of condition c: those it might concern wait   *)
(* on c, and the other condition has no waiter.                            *)
LEMMA SignalFacts ==
  ASSUME Ring!IntqAssumption, RingInv, NEW c \in Conditions,
         (c = "not_full" /\ ~Ring!Empty) \/ (c = "not_empty" /\ ~Ring!Full)
  PROVE  /\ \A u \in Ring!User : place[u] = "waiting" => u \in Ring!Signaled(c)
         /\ \A u \in Ring!Signaled(c) : u \in Ring!User /\ place[u] = "waiting" /\ lockOwner = u
         /\ \A d \in Conditions \ {c} : waiter[d] = NoThread
<1>. USE DEF RingInv
<1>1. /\ waiter["not_empty"] \in Reader \cup {NoThread}
      /\ waiter["not_full"] \in Writer \cup {NoThread}
  BY DEF Ring!TypeOK
<1>2. \A u \in Ring!User : /\ Ring!Condition(u) \in Conditions /\ waiter[Ring!Condition(u)] # NoThread =>
                                     waiter[Ring!Condition(u)] \in Ring!User
                           /\ Ring!MustWait(u) => Ring!Condition(u) = c
  BY <1>1 DEF Ring!Condition, Ring!MustWait, Conditions, Ring!User
<1>3. \A u \in Ring!User : place[u] = "waiting" => u \in Ring!Signaled(c)
  BY <1>2 DEF Ring!NoSleepWithWork, Ring!Signaled, Ring!IntqAssumption
<1>4. \A u \in Ring!Signaled(c) : u \in Ring!User /\ place[u] = "waiting" /\ lockOwner = u
  BY <1>1 DEF Ring!Signaled, SignalInv, Conditions, Ring!User, Ring!OneWaiter
<1>5. ASSUME NEW d \in Conditions \ {c} PROVE waiter[d] = NoThread
  <2>1. SUFFICES ASSUME waiter[d] # NoThread PROVE FALSE
    OBVIOUS
  <2>2. waiter[d] \in Ring!User /\ place[waiter[d]] = "waiting" /\ Ring!Condition(waiter[d]) = d
    BY <1>1, <2>1 DEF SignalInv, Conditions, Ring!User, Ring!Condition, Ring!IntqAssumption
  <2>3. Ring!MustWait(waiter[d])
    BY <2>2 DEF Ring!NoSleepWithWork
  <2>. QED BY <1>2, <2>2, <2>3
<1>. QED BY <1>3, <1>4, <1>5

\* What Remove and Insert do to the buffer, without its contents.
LEMMA MoveFacts ==
  ASSUME Ring!IntqAssumption, Ring!TypeOK, NEW c \in Conditions,
         (c = "not_full" /\ Ring!Remove) \/ (c = "not_empty" /\ Ring!Insert)
  PROVE  /\ buf' \in [0..BufSize - 1 -> Byte] /\ returned' \in Byte
         /\ head' \in 0..BufSize - 1 /\ tail' \in 0..BufSize - 1
         /\ waiter' = [waiter EXCEPT ![c] = NoThread]
         /\ waiter' \in [not_empty : Reader \cup {NoThread}, not_full : Writer \cup {NoThread}]
<1>1. CASE c = "not_full" /\ Ring!Remove
  BY <1>1, PosAfterRange DEF Ring!Remove, Ring!TypeOK
<1>2. CASE c = "not_empty" /\ Ring!Insert
  <2>1. PICK b \in Byte : buf' = [buf EXCEPT ![head] = b]
    BY <1>2 DEF Ring!Insert
  <2>2. head' \in 0..BufSize - 1 /\ UNCHANGED <<tail, returned>>
    BY <1>2, PosAfterRange DEF Ring!Insert, Ring!TypeOK
  <2>3. waiter' = [waiter EXCEPT !.not_empty = NoThread]
    BY <1>2 DEF Ring!Insert
  <2>. QED BY <1>2, <2>1, <2>2, <2>3 DEF Ring!TypeOK
<1>. QED BY <1>1, <1>2

\* Where the threads are after a step of t that wakes others.
LEMMA SetPcFacts ==
  ASSUME Ring!TypeOK, NEW t, NEW l, NEW lw, NEW s, Ring!SetPc(t, l, lw, s),
         t \notin lw \cup s, lw \cap s = {},
         l \in {"out", "queued", "lock_woken", "waiting", "resumed", "panicked"}
  PROVE  /\ t \in Ring!User => place'[t] = l
         /\ \A u \in Ring!User \ {t} : place'[u] = IF u \in lw THEN "lock_woken"
                                                   ELSE IF u \in s THEN "resumed" ELSE place[u]
         /\ place' \in [Ring!User -> {"out", "queued", "lock_woken", "waiting", "resumed", "panicked"}]
<1>1. \A u \in Ring!User : place'[u] = CASE u = t -> l
                                         [] u \in lw -> "lock_woken"
                                         [] u \in s -> "resumed"
                                         [] OTHER -> place[u]
  BY DEF Ring!SetPc
<1>2. t \in Ring!User => place'[t] = l
  BY <1>1
<1>3. \A u \in Ring!User \ {t} : place'[u] = IF u \in lw THEN "lock_woken"
                                           ELSE IF u \in s THEN "resumed" ELSE place[u]
  BY <1>1
<1>4. \A u \in Ring!User :
        place'[u] \in {"out", "queued", "lock_woken", "waiting", "resumed", "panicked"}
  BY <1>2, <1>3 DEF Ring!TypeOK
<1>5. place' = [u \in Ring!User |-> place'[u]]
  BY DEF Ring!SetPc
<1>. QED BY <1>2, <1>3, <1>4, <1>5

LEMMA FinishIInv ==
  ASSUME Ring!IntqAssumption, RingInv, NEW t \in Ring!User, Ring!Finish(t)
  PROVE  RingInv'
<1>. DEFINE c == IF t \in Reader THEN "not_full" ELSE "not_empty"
<1>. USE DEF RingInv
<1>1. /\ c \in Conditions
      /\ (c = "not_full" /\ ~Ring!Empty) \/ (c = "not_empty" /\ ~Ring!Full)
      /\ (c = "not_full" /\ Ring!Remove) \/ (c = "not_empty" /\ Ring!Insert)
      /\ Ring!SetPc(t, "out", Ring!LockWoken(t), Ring!Signaled(c)) /\ place[t] \in {"out", "resumed"}
  BY DEF Ring!Finish, Ring!MustWait, Conditions
<1>. HIDE DEF c
<1>2. /\ \A u \in Ring!User : place[u] = "waiting" => u \in Ring!Signaled(c)
      /\ \A u \in Ring!Signaled(c) : u \in Ring!User /\ place[u] = "waiting" /\ lockOwner = u
      /\ \A d \in Conditions \ {c} : waiter[d] = NoThread
  BY <1>1, SignalFacts
<1>3. /\ buf' \in [0..BufSize - 1 -> Byte] /\ returned' \in Byte
      /\ head' \in 0..BufSize - 1 /\ tail' \in 0..BufSize - 1
      /\ waiter' = [waiter EXCEPT ![c] = NoThread]
      /\ waiter' \in [not_empty : Reader \cup {NoThread}, not_full : Writer \cup {NoThread}]
  BY <1>1, MoveFacts
<1>4. \A d \in Conditions : waiter'[d] = NoThread
  BY <1>1, <1>2, <1>3 DEF Ring!TypeOK, Conditions
<1>5. queue' = Ring!QueueAfter(t)
  BY DEF Ring!Finish
<1>6. \/ /\ Ring!LockWoken(t) = {} /\ queue' = queue
         /\ place[t] = "resumed" => \A u \in Ring!User : place[u] # "queued"
      \/ /\ place[t] = "resumed" /\ queue' \in Seq(Ring!User) /\ Distinct(queue')
         /\ \E h \in Ring!User : /\ place[h] = "queued" /\ Ring!LockWoken(t) = {h}
                                 /\ Elems(queue') = Elems(queue) \ {h}
  BY <1>5, ReleaseFacts
<1>7. \A u \in Ring!User : u \in Ring!LockWoken(t) => place[u] = "queued"
  BY <1>6
<1>8. /\ place'[t] = "out"
      /\ \A u \in Ring!User \ {t} : place'[u] = IF u \in Ring!LockWoken(t) THEN "lock_woken"
                                                ELSE IF u \in Ring!Signaled(c) THEN "resumed" ELSE place[u]
      /\ place' \in [Ring!User -> {"out", "queued", "lock_woken", "waiting", "resumed", "panicked"}]
  BY <1>1, <1>2, <1>6, <1>7, SetPcFacts
<1>9. \A u \in Ring!User : place'[u] # "waiting"
  BY <1>2, <1>8
<1>10. Ring!TypeOK'
  <2>1. lockOwner' \in Ring!User \cup {NoThread} /\ queue' \in Seq(Ring!User)
    BY <1>6 DEF Ring!TypeOK, Ring!Finish
  <2>. QED BY <2>1, <1>3, <1>8 DEF Ring!TypeOK
<1>11. Ring!OneWaiter'
  <2>1. CASE place[t] = "resumed"
    <3>1. lockOwner = t /\ lockOwner' = NoThread
      BY <2>1 DEF Ring!OneWaiter, Ring!Finish
    <3>2. \A u \in Ring!User \ {t} : place[u] \notin {"waiting", "resumed"}
      BY <3>1 DEF Ring!OneWaiter
    <3>. QED BY <1>2, <1>8, <3>1, <3>2 DEF Ring!OneWaiter, Ring!IntqAssumption
  <2>2. CASE place[t] = "out"
    <3>1. lockOwner' = lockOwner /\ Ring!LockWoken(t) = {}
      BY <2>2 DEF Ring!Finish, Ring!LockWoken
    <3>2. \A u \in Ring!User : place'[u] \in {"waiting", "resumed"} <=> place[u] \in {"waiting", "resumed"}
      BY <1>2, <1>8, <3>1, <2>2
    <3>. QED BY <3>1, <3>2 DEF Ring!OneWaiter
  <2>. QED BY <1>1, <2>1, <2>2
<1>12. QueueInv'
  <2>1. Distinct(queue')
    BY <1>6 DEF QueueInv
  <2>2. \A u \in Ring!User : place'[u] = "queued" <=> place[u] = "queued" /\ u \notin Ring!LockWoken(t)
    BY <1>1, <1>2, <1>8
  <2>3. \A u \in Ring!User : u \in Elems(queue') <=> u \in Elems(queue) /\ u \notin Ring!LockWoken(t)
    BY <1>6
  <2>. QED BY <2>1, <2>2, <2>3 DEF QueueInv
<1>13. Ring!NoSleepWithWork'
  <2>1. (\E u \in Ring!User : place'[u] = "queued") =>
           lockOwner' # NoThread \/ \E u \in Ring!User : place'[u] \in {"lock_woken", "panicked"}
    <3>1. CASE \E h \in Ring!User : Ring!LockWoken(t) = {h} /\ place[h] = "queued"
      BY <1>1, <1>8, <3>1
    <3>2. CASE Ring!LockWoken(t) = {} /\ place[t] = "resumed" /\ \A u \in Ring!User : place[u] # "queued"
      BY <1>8, <3>2
    <3>3. CASE Ring!LockWoken(t) = {} /\ place[t] = "out"
      <4>1. lockOwner' = lockOwner
        BY <3>3 DEF Ring!Finish
      <4>2. \A u \in Ring!User : place[u] \in {"lock_woken", "panicked"} => place'[u] = place[u]
        BY <1>2, <1>8, <3>3
      <4>3. (\E u \in Ring!User : place'[u] = "queued") => \E u \in Ring!User : place[u] = "queued"
        BY <1>8, <3>3
      <4>. QED BY <4>1, <4>2, <4>3 DEF Ring!NoSleepWithWork
    <3>. QED BY <1>1, <1>6, <3>1, <3>2, <3>3
  <2>. QED BY <1>9, <2>1 DEF Ring!NoSleepWithWork
<1>14. SignalInv'
  BY <1>4 DEF SignalInv
<1>. QED BY <1>10, <1>11, <1>12, <1>13, <1>14

LEMMA HandlerIInv ==
  ASSUME Ring!IntqAssumption, RingInv, Ring!HandlerPut \/ Ring!HandlerGet
  PROVE  RingInv'
<1>. DEFINE c == IF Ring!HandlerGet THEN "not_full" ELSE "not_empty"
<1>. USE DEF RingInv
<1>1. /\ c \in Conditions
      /\ (c = "not_full" /\ ~Ring!Empty) \/ (c = "not_empty" /\ ~Ring!Full)
      /\ (c = "not_full" /\ Ring!Remove) \/ (c = "not_empty" /\ Ring!Insert)
      /\ Ring!SetPc(NoThread, "out", {}, Ring!Signaled(c)) /\ UNCHANGED <<lockOwner, queue>>
  BY DEF Ring!HandlerPut, Ring!HandlerGet, Conditions, Ring!lockVars
<1>. HIDE DEF c
<1>2. /\ \A u \in Ring!User : place[u] = "waiting" => u \in Ring!Signaled(c)
      /\ \A u \in Ring!Signaled(c) : u \in Ring!User /\ place[u] = "waiting" /\ lockOwner = u
      /\ \A d \in Conditions \ {c} : waiter[d] = NoThread
  BY <1>1, SignalFacts
<1>3. /\ buf' \in [0..BufSize - 1 -> Byte] /\ returned' \in Byte
      /\ head' \in 0..BufSize - 1 /\ tail' \in 0..BufSize - 1
      /\ waiter' = [waiter EXCEPT ![c] = NoThread]
      /\ waiter' \in [not_empty : Reader \cup {NoThread}, not_full : Writer \cup {NoThread}]
  BY <1>1, MoveFacts
<1>4. \A d \in Conditions : waiter'[d] = NoThread
  BY <1>1, <1>2, <1>3 DEF Ring!TypeOK, Conditions
<1>5. /\ \A u \in Ring!User : place'[u] = IF u \in Ring!Signaled(c) THEN "resumed" ELSE place[u]
      /\ place' \in [Ring!User -> {"out", "queued", "lock_woken", "waiting", "resumed", "panicked"}]
  BY <1>1, <1>2, SetPcFacts DEF Ring!IntqAssumption
<1>6. Ring!TypeOK'
  BY <1>1, <1>3, <1>5 DEF Ring!TypeOK
<1>7. Ring!OneWaiter'
  <2>1. \A u \in Ring!User : place'[u] \in {"waiting", "resumed"} <=> place[u] \in {"waiting", "resumed"}
    BY <1>2, <1>5
  <2>. QED BY <1>1, <2>1 DEF Ring!OneWaiter
<1>8. /\ \A u \in Ring!User : place'[u] # "waiting"
      /\ \A u \in Ring!User : place'[u] = "queued" <=> place[u] = "queued"
      /\ \A u \in Ring!User : place[u] \in {"lock_woken", "panicked"} => place'[u] = place[u]
  BY <1>2, <1>5
<1>9. QueueInv' /\ Ring!NoSleepWithWork' /\ SignalInv'
  BY <1>1, <1>4, <1>8 DEF QueueInv, Ring!NoSleepWithWork, SignalInv
<1>. QED BY <1>6, <1>7, <1>9

(* lock_acquire finds the lock free and wait sleeps: nobody else waits.      *)
LEMMA StartWaitIInv ==
  ASSUME Ring!IntqAssumption, RingInv, NEW t \in Ring!User, Ring!StartWait(t)
  PROVE  RingInv'
<1>. USE DEF RingInv
<1>1. /\ Ring!MustWait(t) /\ place[t] \in {"out", "resumed"} /\ lockOwner' = t /\ queue' = Ring!QueueAfter(t)
      /\ waiter' = [waiter EXCEPT ![Ring!Condition(t)] = t] /\ UNCHANGED <<buf, head, tail, returned>>
      /\ lockOwner = NoThread \/ (place[t] = "resumed" /\ lockOwner = t)
  BY DEF Ring!StartWait, Ring!bufVars, Ring!OneWaiter
<1>2. \A u \in Ring!User \ {t} : place[u] \notin {"waiting", "resumed"}
  BY <1>1 DEF Ring!OneWaiter, Ring!IntqAssumption
<1>3. \/ /\ Ring!LockWoken(t) = {} /\ queue' = queue
         /\ place[t] = "resumed" => \A u \in Ring!User : place[u] # "queued"
      \/ /\ place[t] = "resumed" /\ queue' \in Seq(Ring!User) /\ Distinct(queue')
         /\ \E h \in Ring!User : /\ place[h] = "queued" /\ Ring!LockWoken(t) = {h}
                                 /\ Elems(queue') = Elems(queue) \ {h}
  BY <1>1, ReleaseFacts
<1>4. /\ place'[t] = "waiting"
      /\ \A u \in Ring!User \ {t} : place'[u] = IF u \in Ring!LockWoken(t) THEN "lock_woken" ELSE place[u]
      /\ place' \in [Ring!User -> {"out", "queued", "lock_woken", "waiting", "resumed", "panicked"}]
  BY <1>1, <1>3, SetPcFacts DEF Ring!StartWait
<1>5. Ring!Condition(t) \in Conditions /\ Ring!MustWait(t)'
  BY <1>1 DEF Ring!Condition, Conditions, Ring!MustWait, Ring!Empty, Ring!Full
<1>6. \A d \in Conditions : waiter'[d] = IF d = Ring!Condition(t) THEN t ELSE NoThread
  <2>1. ASSUME NEW d \in Conditions, d # Ring!Condition(t), waiter[d] # NoThread PROVE FALSE
    <3>1. waiter[d] \in Ring!User /\ place[waiter[d]] = "waiting"
      BY <2>1 DEF SignalInv, Ring!TypeOK, Conditions, Ring!User
    <3>. QED BY <1>1, <1>2, <3>1
  <2>. QED BY <1>1, <1>5, <2>1 DEF Ring!TypeOK, Conditions
<1>7. Ring!TypeOK'
  <2>1. waiter' \in [not_empty : Reader \cup {NoThread}, not_full : Writer \cup {NoThread}]
    BY <1>1 DEF Ring!TypeOK, Ring!Condition, Ring!User
  <2>2. queue' \in Seq(Ring!User)
    BY <1>3 DEF Ring!TypeOK
  <2>. QED BY <1>1, <1>4, <2>1, <2>2 DEF Ring!TypeOK
<1>8. \A u \in Ring!User \ {t} : place'[u] \notin {"waiting", "resumed"}
  BY <1>2, <1>4
<1>9. Ring!OneWaiter'
  BY <1>1, <1>4, <1>8 DEF Ring!OneWaiter
<1>10. QueueInv'
  <2>1. Distinct(queue')
    BY <1>3 DEF QueueInv
  <2>2. \A u \in Ring!User : place'[u] = "queued" <=> place[u] = "queued" /\ u \notin Ring!LockWoken(t)
    BY <1>1, <1>4
  <2>3. \A u \in Ring!User : u \in Elems(queue') <=> u \in Elems(queue) /\ u \notin Ring!LockWoken(t)
    BY <1>3
  <2>. QED BY <2>1, <2>2, <2>3 DEF QueueInv
<1>11. Ring!NoSleepWithWork'
  BY <1>1, <1>5, <1>6, <1>8 DEF Ring!NoSleepWithWork, Ring!IntqAssumption, Ring!Condition
<1>12. SignalInv'
  BY <1>4, <1>6 DEF SignalInv
<1>. QED BY <1>7, <1>9, <1>10, <1>11, <1>12

\* lock_acquire finds the lock taken: its owner will wake t.
LEMMA QueueOnLockIInv ==
  ASSUME Ring!IntqAssumption, RingInv, NEW t \in Ring!User, Ring!QueueOnLock(t)
  PROVE  RingInv'
<1>. USE DEF RingInv
<1>1. /\ place[t] \in {"out", "lock_woken"} /\ lockOwner # NoThread /\ queue' = Append(queue, t)
      /\ UNCHANGED <<buf, head, tail, returned, waiter, lockOwner>>
  BY DEF Ring!QueueOnLock, Ring!bufVars
<1>2. /\ place'[t] = "queued" /\ \A u \in Ring!User \ {t} : place'[u] = place[u]
      /\ place' \in [Ring!User -> {"out", "queued", "lock_woken", "waiting", "resumed", "panicked"}]
  BY SetPcFacts DEF Ring!QueueOnLock
<1>3. t \notin Elems(queue)
  BY <1>1 DEF QueueInv
<1>4. queue' \in Seq(Ring!User) /\ Elems(queue') = Elems(queue) \cup {t} /\ Distinct(queue')
  BY <1>1, <1>3, AppendElems DEF Ring!TypeOK, QueueInv
<1>5. Ring!TypeOK'
  BY <1>1, <1>2, <1>4 DEF Ring!TypeOK
<1>6. Ring!OneWaiter'
  BY <1>1, <1>2 DEF Ring!OneWaiter
<1>7. QueueInv'
  BY <1>2, <1>4 DEF QueueInv
<1>8. Ring!NoSleepWithWork'
  BY <1>1, <1>2 DEF Ring!NoSleepWithWork, Ring!MustWait, Ring!Empty, Ring!Full, Ring!Condition
<1>9. SignalInv'
  BY <1>1, <1>2 DEF SignalInv, Ring!TypeOK, Conditions, Ring!User
<1>. QED BY <1>5, <1>6, <1>7, <1>8, <1>9

\* lock_acquire got the lock after a sleep: wait sleeps, or its ASSERT fails.
LEMMA WaitAfterLockIInv ==
  ASSUME Ring!IntqAssumption, RingInv, NEW t \in Ring!User, Ring!WaitAfterLock(t)
  PROVE  RingInv'
<1>. USE DEF RingInv
<1>1. /\ place[t] = "lock_woken" /\ lockOwner = NoThread
      /\ UNCHANGED <<buf, head, tail, returned, queue>>
  BY DEF Ring!WaitAfterLock, Ring!bufVars
<1>2. /\ \A u \in Ring!User : place[u] \notin {"waiting", "resumed"}
      /\ \A d \in Conditions : waiter[d] = NoThread
  <2>1. \A u \in Ring!User : place[u] \notin {"waiting", "resumed"}
    BY <1>1 DEF Ring!OneWaiter, Ring!IntqAssumption
  <2>2. ASSUME NEW d \in Conditions, waiter[d] # NoThread PROVE FALSE
    BY <2>1, <2>2 DEF SignalInv, Ring!TypeOK, Conditions, Ring!User
  <2>. QED BY <2>1, <2>2
<1>3. CASE Ring!MustWait(t)
  <2>1. /\ lockOwner' = t /\ waiter' = [waiter EXCEPT ![Ring!Condition(t)] = t]
        /\ Ring!SetPc(t, "waiting", {}, {})
    BY <1>3 DEF Ring!WaitAfterLock
  <2>2. /\ place'[t] = "waiting" /\ \A u \in Ring!User \ {t} : place'[u] = place[u]
        /\ place' \in [Ring!User -> {"out", "queued", "lock_woken", "waiting", "resumed", "panicked"}]
    BY <2>1, SetPcFacts
  <2>3. \A d \in Conditions : waiter'[d] = IF d = Ring!Condition(t) THEN t ELSE NoThread
    BY <1>2, <2>1 DEF Ring!TypeOK, Conditions
  <2>4. Ring!Condition(t) \in Conditions /\ Ring!MustWait(t)'
    BY <1>1, <1>3 DEF Ring!Condition, Conditions, Ring!MustWait, Ring!Empty, Ring!Full
  <2>5. Ring!TypeOK'
    <3>1. waiter' \in [not_empty : Reader \cup {NoThread}, not_full : Writer \cup {NoThread}]
      BY <2>1 DEF Ring!TypeOK, Ring!Condition, Ring!User
    <3>. QED BY <1>1, <2>1, <2>2, <3>1 DEF Ring!TypeOK
  <2>6. Ring!OneWaiter'
    BY <1>2, <2>1, <2>2 DEF Ring!OneWaiter
  <2>7. QueueInv'
    BY <1>1, <2>2 DEF QueueInv
  <2>8. Ring!NoSleepWithWork'
    BY <1>2, <2>1, <2>2, <2>3, <2>4 DEF Ring!NoSleepWithWork, Ring!IntqAssumption
  <2>9. SignalInv'
    BY <2>2, <2>3 DEF SignalInv
  <2>. QED BY <2>5, <2>6, <2>7, <2>8, <2>9
<1>4. CASE ~Ring!MustWait(t)
  <2>1. UNCHANGED <<lockOwner, waiter>> /\ Ring!SetPc(t, "panicked", {}, {})
    BY <1>4 DEF Ring!WaitAfterLock
  <2>2. /\ place'[t] = "panicked" /\ \A u \in Ring!User \ {t} : place'[u] = place[u]
        /\ place' \in [Ring!User -> {"out", "queued", "lock_woken", "waiting", "resumed", "panicked"}]
    BY <2>1, SetPcFacts
  <2>. QED BY <1>1, <1>2, <2>1, <2>2
           DEF Ring!TypeOK, Ring!OneWaiter, QueueInv, Ring!NoSleepWithWork, SignalInv, Conditions
<1>. QED BY <1>3, <1>4

LEMMA RingInitInv == ASSUME Ring!IntqAssumption, Ring!Init PROVE RingInv
<1>1. Ring!TypeOK
  BY DEF Ring!IntqAssumption, Ring!Init, Ring!TypeOK
<1>2. Ring!OneWaiter /\ Ring!NoSleepWithWork /\ SignalInv
  BY DEF Ring!IntqAssumption, Ring!Init, Ring!OneWaiter, Ring!NoSleepWithWork, SignalInv, Conditions
<1>3. Elems(queue) = {} /\ Distinct(queue)
  BY DEF Ring!Init, Elems, Distinct
<1>4. QueueInv
  BY <1>3 DEF QueueInv, Ring!Init
<1>. QED BY <1>1, <1>2, <1>4 DEF RingInv

LEMMA RingNextInv == ASSUME Ring!IntqAssumption, RingInv, [Ring!Next]_(Ring!vars) PROVE RingInv'
<1>1. CASE Ring!Next
  <2>1. ASSUME NEW t \in Ring!User, Ring!Step(t) PROVE RingInv'
    BY <2>1, FinishIInv, StartWaitIInv, QueueOnLockIInv, WaitAfterLockIInv DEF Ring!Step
  <2>2. CASE Ring!HandlerPut \/ Ring!HandlerGet
    BY <2>2, HandlerIInv
  <2>. QED BY <1>1, <2>1, <2>2 DEF Ring!Next
<1>2. CASE UNCHANGED Ring!vars
  BY <1>2 DEF Ring!vars, RingInv, Ring!TypeOK, Ring!OneWaiter, Ring!NoSleepWithWork, QueueInv, SignalInv,
              Ring!MustWait, Ring!Empty, Ring!Full, Ring!Condition
<1>. QED BY <1>1, <1>2

\* IInv holds between any two calls of intq.c, by threads and by handlers.
THEOREM RingInvariant == Ring!IntqAssumption => (Ring!Spec => []RingInv)
<1>. SUFFICES ASSUME Ring!IntqAssumption PROVE Ring!Spec => []RingInv
  OBVIOUS
<1>1. Ring!Init => RingInv
  BY RingInitInv
<1>2. RingInv /\ [Ring!Next]_(Ring!vars) => RingInv'
  BY RingNextInv
<1>. QED BY <1>1, <1>2, PTL DEF Ring!Spec

(* "Only one thread may wait at once" (intq.h): between entering wait and    *)
(* lock_release a thread owns the lock, whichever condition it waits on, and *)
(* a second one never overwrites q->not_empty or q->not_full.               *)
THEOREM OneThreadWaits == Ring!IntqAssumption => (Ring!Spec => []Ring!OneWaiter)
<1>. SUFFICES ASSUME Ring!IntqAssumption PROVE Ring!Spec => []Ring!OneWaiter
  OBVIOUS
<1>1. RingInv => Ring!OneWaiter
  BY DEF RingInv
<1>. QED BY <1>1, RingInvariant, PTL

(* However threads and handlers meet, a thread in wait has a condition that  *)
(* still fails and a signal will find it; a thread asleep on the lock has an *)
(* owner to wake it or a woken thread that passes the lock on.              *)
THEOREM NobodySleepsOnWork == Ring!IntqAssumption => (Ring!Spec => []Ring!NoSleepWithWork)
<1>. SUFFICES ASSUME Ring!IntqAssumption PROVE Ring!Spec => []Ring!NoSleepWithWork
  OBVIOUS
<1>1. RingInv => Ring!NoSleepWithWork
  BY DEF RingInv
<1>. QED BY <1>1, RingInvariant, PTL
-------------------------------------------------------------------------------
(* The ring, as a function of the buffer and its two ends.                  *)

LengthOf(h, t) == IF t <= h THEN h - t ELSE h + BufSize - t
At(pos) == IF pos < BufSize THEN pos ELSE pos - BufSize
ContentsOf(b, h, t) == [i \in 1..LengthOf(h, t) |-> b[At(t + i - 1)]]
RingIndex == 0..BufSize - 1

LEMMA LengthRange ==
  ASSUME Ring!IntqAssumption, NEW h \in RingIndex, NEW t \in RingIndex
  PROVE  /\ LengthOf(h, t) \in RingIndex
         /\ (h + BufSize - t) % BufSize = LengthOf(h, t)
         /\ \A i \in 1..LengthOf(h, t) :
              At(t + i - 1) \in RingIndex /\ (t + i - 1) % BufSize = At(t + i - 1)
<1>1. /\ \A n \in 0..BufSize - 1 : n % BufSize = n
      /\ \A n \in BufSize..2 * BufSize - 1 : n % BufSize = n - BufSize
  <2>1. BufSize \in Nat \ {0}
    BY DEF Ring!IntqAssumption
  <2>. QED BY <2>1, ModOnce
<1>. USE DEF Ring!IntqAssumption, RingIndex
<1>2. LengthOf(h, t) \in 0..BufSize - 1
  BY DEF LengthOf
<1>3. (h + BufSize - t) % BufSize = LengthOf(h, t)
  <2>1. CASE t <= h
    <3>1. h + BufSize - t \in BufSize..2 * BufSize - 1 /\ LengthOf(h, t) = h + BufSize - t - BufSize
      BY <2>1 DEF LengthOf
    <3>. QED BY <1>1, <3>1
  <2>2. CASE ~(t <= h)
    <3>1. h + BufSize - t \in 0..BufSize - 1 /\ LengthOf(h, t) = h + BufSize - t
      BY <2>2 DEF LengthOf
    <3>. QED BY <1>1, <3>1
  <2>. QED BY <2>1, <2>2
<1>4. ASSUME NEW i \in 1..LengthOf(h, t)
      PROVE  At(t + i - 1) \in 0..BufSize - 1 /\ (t + i - 1) % BufSize = At(t + i - 1)
  <2>1. i \in Nat /\ t + i - 1 \in 0..2 * BufSize - 1
    BY <1>2
  <2>2. CASE t + i - 1 < BufSize
    BY <1>1, <2>1, <2>2 DEF At
  <2>3. CASE ~(t + i - 1 < BufSize)
    <3>1. t + i - 1 \in BufSize..2 * BufSize - 1 /\ At(t + i - 1) = t + i - 1 - BufSize
      BY <2>1, <2>3 DEF At
    <3>. QED BY <1>1, <3>1
  <2>. QED BY <2>2, <2>3
<1>. QED BY <1>2, <1>3, <1>4

LEMMA ContentsIs ==
  ASSUME Ring!IntqAssumption, head \in RingIndex, tail \in RingIndex
  PROVE  Ring!Contents = ContentsOf(buf, head, tail)
BY LengthRange DEF Ring!Contents, ContentsOf, Ring!Length

LEMMA ContentsPrimeIs ==
  ASSUME Ring!IntqAssumption, head' \in RingIndex, tail' \in RingIndex
  PROVE  Ring!Contents' = ContentsOf(buf', head', tail')
BY LengthRange DEF Ring!Contents, ContentsOf, Ring!Length

LEMMA ContentsSeq ==
  ASSUME Ring!IntqAssumption, NEW b \in [RingIndex -> Byte], NEW h \in RingIndex, NEW t \in RingIndex
  PROVE  /\ ContentsOf(b, h, t) \in Seq(Byte)
         /\ Len(ContentsOf(b, h, t)) = LengthOf(h, t)
         /\ \A i \in 1..LengthOf(h, t) : ContentsOf(b, h, t)[i] = b[At(t + i - 1)]
<1>1. \A i \in 1..LengthOf(h, t) : b[At(t + i - 1)] \in Byte
  BY LengthRange
<1>2. LengthOf(h, t) \in Nat
  BY LengthRange DEF RingIndex
<1>. QED BY <1>1, <1>2 DEF ContentsOf

\* A byte put at head is the last of the contents.
LEMMA PutAppends ==
  ASSUME Ring!IntqAssumption, NEW b \in [RingIndex -> Byte], NEW h \in RingIndex, NEW t \in RingIndex,
         NEW x \in Byte, Ring!PosAfter(h) # t
  PROVE  /\ Len(ContentsOf(b, h, t)) < BufSize - 1
         /\ ContentsOf([b EXCEPT ![h] = x], Ring!PosAfter(h), t) = Append(ContentsOf(b, h, t), x)
<1>. DEFINE n == LengthOf(h, t)
            b2 == [b EXCEPT ![h] = x]
            h2 == Ring!PosAfter(h)
            p == ContentsOf(b, h, t)
            q == ContentsOf(b2, h2, t)
<1>1. /\ h2 \in RingIndex /\ b2 \in [RingIndex -> Byte] /\ h2 = IF h = BufSize - 1 THEN 0 ELSE h + 1
  BY PosAfterRange DEF RingIndex
<1>2. /\ n \in Nat /\ LengthOf(h2, t) = n + 1 /\ n < BufSize - 1
      /\ At(t + n) = h
      /\ \A i \in 1..n : At(t + i - 1) \in RingIndex /\ At(t + i - 1) # h
  BY <1>1 DEF LengthOf, At, RingIndex, Ring!IntqAssumption
<1>3. p \in Seq(Byte) /\ Len(p) = n /\ \A i \in 1..n : p[i] = b[At(t + i - 1)]
  BY ContentsSeq
<1>4. q \in Seq(Byte) /\ Len(q) = n + 1 /\ \A i \in 1..n + 1 : q[i] = b2[At(t + i - 1)]
  <2>. HIDE DEF b2, h2
  <2>1. /\ q \in Seq(Byte) /\ Len(q) = LengthOf(h2, t)
        /\ \A i \in 1..LengthOf(h2, t) : q[i] = b2[At(t + i - 1)]
    BY <1>1, ContentsSeq
  <2>. HIDE DEF q
  <2>. QED BY <1>2, <2>1
<1>5. \A i \in 1..n : q[i] = p[i]
  <2>1. SUFFICES ASSUME NEW i \in 1..n PROVE q[i] = p[i]
    OBVIOUS
  <2>2. i \in 1..n + 1
    BY <1>2
  <2>3. b2[At(t + i - 1)] = b[At(t + i - 1)]
    BY <1>2
  <2>. QED BY <1>3, <1>4, <2>2, <2>3
<1>6. q[n + 1] = x
  <2>1. q[n + 1] = b2[At(t + (n + 1) - 1)]
    <3>. HIDE DEF q, b2, n
    <3>. QED BY <1>2, <1>4
  <2>2. t + (n + 1) - 1 = t + n
    BY <1>2 DEF RingIndex, Ring!IntqAssumption
  <2>. QED BY <1>2, <2>1, <2>2
<1>. HIDE DEF n, p, q, b2, h2
<1>7. q = Append(p, x)
  <2>1. Append(p, x) \in Seq(Byte) /\ Len(Append(p, x)) = n + 1
    BY <1>3
  <2>2. \A i \in 1..n + 1 : Append(p, x)[i] = q[i]
    BY <1>2, <1>3, <1>5, <1>6
  <2>. QED BY <1>4, <2>1, <2>2
<1>. QED BY <1>2, <1>3, <1>7 DEF n, p, q, b2, h2

\* The byte at tail is the first of the contents.
LEMMA GetTakes ==
  ASSUME Ring!IntqAssumption, NEW b \in [RingIndex -> Byte], NEW h \in RingIndex, NEW t \in RingIndex,
         h # t
  PROVE  /\ ContentsOf(b, h, t) # <<>> /\ Head(ContentsOf(b, h, t)) = b[t]
         /\ ContentsOf(b, h, Ring!PosAfter(t)) = Tail(ContentsOf(b, h, t))
<1>. DEFINE n == LengthOf(h, t)
            t2 == Ring!PosAfter(t)
            p == ContentsOf(b, h, t)
            q == ContentsOf(b, h, t2)
<1>1. t2 \in RingIndex /\ t2 = IF t = BufSize - 1 THEN 0 ELSE t + 1
  BY PosAfterRange DEF RingIndex
<1>2. /\ n \in Nat \ {0} /\ LengthOf(h, t2) = n - 1
      /\ At(t + 1 - 1) = t
      /\ \A i \in 1..n - 1 : At(t2 + i - 1) = At(t + (i + 1) - 1)
  BY <1>1 DEF LengthOf, At, RingIndex, Ring!IntqAssumption
<1>3. p \in Seq(Byte) /\ Len(p) = n /\ \A i \in 1..n : p[i] = b[At(t + i - 1)]
  BY ContentsSeq
<1>4. q \in Seq(Byte) /\ Len(q) = n - 1 /\ \A i \in 1..n - 1 : q[i] = b[At(t2 + i - 1)]
  BY <1>1, <1>2, ContentsSeq
<1>5. p[1] = b[t]
  BY <1>2, <1>3
<1>6. \A i \in 1..n - 1 : q[i] = p[i + 1]
  <2>1. SUFFICES ASSUME NEW i \in 1..n - 1 PROVE q[i] = p[i + 1]
    OBVIOUS
  <2>2. i + 1 \in 1..n
    BY <1>2
  <2>. QED BY <1>2, <1>3, <1>4, <2>2
<1>. HIDE DEF n, p, q, t2
<1>7. p # <<>> /\ Head(p) = b[t]
  BY <1>2, <1>3, <1>5
<1>8. q = Tail(p)
  <2>1. Tail(p) \in Seq(Byte) /\ Len(Tail(p)) = n - 1 /\ \A i \in 1..n - 1 : Tail(p)[i] = p[i + 1]
    BY <1>2, <1>3
  <2>. QED BY <1>4, <1>6, <2>1
<1>. QED BY <1>7, <1>8 DEF n, p, q, t2

\* What the queue is seen as changes only when a byte moves.
LEMMA MovesRefine ==
  ASSUME Ring!IntqAssumption, Ring!TypeOK, Ring!TypeOK'
  PROVE  /\ Ring!Remove /\ ~Ring!Empty => Ring!Abstract!Get
         /\ Ring!Insert /\ ~Ring!Full => \E b \in Byte : Ring!Abstract!Put(b)
         /\ UNCHANGED <<buf, head, tail, returned>> => UNCHANGED <<Ring!Contents, returned>>
<1>1. /\ buf \in [RingIndex -> Byte] /\ head \in RingIndex /\ tail \in RingIndex
      /\ head' \in RingIndex /\ tail' \in RingIndex
      /\ Ring!Contents = ContentsOf(buf, head, tail) /\ Ring!Contents' = ContentsOf(buf', head', tail')
  BY ContentsIs, ContentsPrimeIs DEF Ring!TypeOK, RingIndex
<1>2. ASSUME Ring!Remove, ~Ring!Empty PROVE Ring!Abstract!Get
  <2>1. returned' = buf[tail] /\ tail' = Ring!PosAfter(tail) /\ UNCHANGED <<buf, head>> /\ head # tail
    BY <1>2 DEF Ring!Remove, Ring!Empty
  <2>2. /\ Ring!Contents # <<>> /\ Head(Ring!Contents) = buf[tail]
        /\ ContentsOf(buf, head, Ring!PosAfter(tail)) = Tail(Ring!Contents)
    BY <1>1, <2>1, GetTakes
  <2>3. Ring!Contents' = Tail(Ring!Contents)
    BY <1>1, <2>1, <2>2
  <2>. QED BY <2>1, <2>2, <2>3 DEF Ring!Abstract!Get
<1>3. ASSUME Ring!Insert, ~Ring!Full PROVE \E b \in Byte : Ring!Abstract!Put(b)
  <2>1. PICK b \in Byte : buf' = [buf EXCEPT ![head] = b]
    BY <1>3 DEF Ring!Insert
  <2>2. head' = Ring!PosAfter(head) /\ UNCHANGED <<tail, returned>> /\ Ring!PosAfter(head) # tail
    BY <1>3 DEF Ring!Insert, Ring!Full
  <2>3. /\ Len(Ring!Contents) < BufSize - 1
        /\ ContentsOf([buf EXCEPT ![head] = b], Ring!PosAfter(head), tail) = Append(Ring!Contents, b)
    BY <1>1, <2>2, PutAppends
  <2>4. Ring!Contents' = Append(Ring!Contents, b)
    BY <1>1, <2>1, <2>2, <2>3
  <2>. QED BY <2>2, <2>3, <2>4 DEF Ring!Abstract!Put
<1>4. ASSUME UNCHANGED <<buf, head, tail, returned>> PROVE UNCHANGED <<Ring!Contents, returned>>
  BY <1>1, <1>4
<1>. QED BY <1>2, <1>3, <1>4

LEMMA NextRefines ==
  ASSUME Ring!IntqAssumption, Ring!TypeOK, Ring!TypeOK', [Ring!Next]_(Ring!vars)
  PROVE  [Ring!Abstract!Next]_<<Ring!Contents, returned>>
<1>1. ASSUME NEW t \in Ring!User, Ring!Finish(t) PROVE Ring!Abstract!Next
  <2>1. (Ring!Remove /\ ~Ring!Empty) \/ (Ring!Insert /\ ~Ring!Full)
    BY <1>1 DEF Ring!Finish, Ring!MustWait
  <2>. QED BY <2>1, MovesRefine DEF Ring!Abstract!Next
<1>2. CASE Ring!HandlerPut \/ Ring!HandlerGet
  BY <1>2, MovesRefine DEF Ring!HandlerPut, Ring!HandlerGet, Ring!Abstract!Next
<1>3. ASSUME NEW t \in Ring!User, Ring!StartWait(t) \/ Ring!QueueOnLock(t) \/ Ring!WaitAfterLock(t)
      PROVE  UNCHANGED <<Ring!Contents, returned>>
  <2>1. UNCHANGED <<buf, head, tail, returned>>
    BY <1>3 DEF Ring!StartWait, Ring!QueueOnLock, Ring!WaitAfterLock, Ring!bufVars
  <2>. QED BY <2>1, MovesRefine
<1>4. CASE UNCHANGED Ring!vars
  BY <1>4, MovesRefine DEF Ring!vars
<1>. QED BY <1>1, <1>2, <1>3, <1>4 DEF Ring!Next, Ring!Step

(* The ring buffer with its threads and handlers is a bounded FIFO of        *)
(* BufSize - 1 bytes: none is lost, invented or overtaken when head and tail *)
(* wrap, whoever moves them.                                               *)
THEOREM RingImplementsFifo == Ring!IntqAssumption => (Ring!Spec => Ring!ImplementsFifo)
<1>. SUFFICES ASSUME Ring!IntqAssumption PROVE Ring!Spec => Ring!ImplementsFifo
  OBVIOUS
<1>1. Ring!Init => Ring!Abstract!Init
  <2>. SUFFICES ASSUME Ring!Init PROVE Ring!Abstract!Init
    OBVIOUS
  <2>1. head = 0 /\ tail = 0 /\ returned \in Byte /\ 0 \in RingIndex
    BY DEF Ring!Init, RingIndex, Ring!IntqAssumption
  <2>2. Ring!Contents = ContentsOf(buf, 0, 0)
    BY <2>1, ContentsIs
  <2>3. ContentsOf(buf, 0, 0) = <<>>
    BY DEF ContentsOf, LengthOf
  <2>. QED BY <2>1, <2>2, <2>3 DEF Ring!Abstract!Init
<1>2. Ring!TypeOK /\ Ring!TypeOK' /\ [Ring!Next]_(Ring!vars) => [Ring!Abstract!Next]_<<Ring!Contents, returned>>
  BY NextRefines
<1>3. RingInv => Ring!TypeOK
  BY DEF RingInv
<1>. QED BY <1>1, <1>2, <1>3, RingInvariant, PTL DEF Ring!Spec, Ring!ImplementsFifo, Ring!Abstract!Spec

-------------------------------------------------------------------------------
(* The keyboard and the display: a display of any size whose places fit its *)
(* cursor register, and any keys of seven bits with and without the prefix. *)
CONSTANTS Key, MaxHeld, InputSize, Chars, Cols, Rows, Tab, Half, MaxWritten, BlankCell
VARIABLES
  held, mods, caps, capsHeld, input, last,
  fb, cx, cy, cursor, beeping, paper, written

Tty == INSTANCE Terminal WITH Blank <- BlankCell

\* No two keys have one scancode.
LEMMA KeysDiffer ==
  ASSUME Tty!TerminalAssumption, NEW j \in Key, NEW k \in Key,
         Tty!ScanCode(j) = Tty!ScanCode(k)
  PROVE  j = k
<1>1. /\ j \in [prefix : BOOLEAN, code : 0..127] /\ k \in [prefix : BOOLEAN, code : 0..127]
  BY DEF Tty!TerminalAssumption
<1>2. j.code = k.code /\ (j.prefix <=> k.prefix)
  <2>1. PICK m, n \in 0..127 : m = j.code /\ n = k.code
    BY <1>1
  <2>2. (IF j.prefix THEN 57344 + m ELSE m) = (IF k.prefix THEN 57344 + n ELSE n)
    BY <2>1 DEF Tty!ScanCode, Tty!Prefix
  <2>3. 57344 + m # n /\ 57344 + n # m /\ (57344 + m = 57344 + n => m = n)
    BY <2>1
  <2>4. CASE j.prefix /\ k.prefix
    BY <2>1, <2>2, <2>3, <2>4
  <2>5. CASE j.prefix /\ ~k.prefix
    BY <2>2, <2>3, <2>5
  <2>6. CASE ~j.prefix /\ k.prefix
    BY <2>2, <2>3, <2>6
  <2>7. CASE ~j.prefix /\ ~k.prefix
    BY <2>1, <2>2, <2>7
  <2>. QED BY <2>4, <2>5, <2>6, <2>7
<1>3. j.prefix = k.prefix
  BY <1>1, <1>2
<1>. QED BY <1>1, <1>2, <1>3

\* With the theorem's property, what its terms range over.
KeyInv ==
  /\ held \subseteq Key /\ last.down \subseteq Key /\ caps \in BOOLEAN
  /\ Tty!KeyboardRight

\* What the driver takes for down is what is down.
LEMMA ModifiersDown ==
  ASSUME Tty!ModifiersExact, NEW codes \in SUBSET Tty!ShiftKeys
  PROVE  codes \cap mods # {} <=> Tty!Down(codes, held)
BY DEF Tty!ModifiersExact, Tty!Down

\* A key typed with what is down now.
LEMMA TypedIs ==
  ASSUME KeyInv, NEW code \in DOMAIN Tty!KeyMap,
         last' = [code |-> code, down |-> held, caps |-> capsHeld, typed |-> Tty!Typed(code)]
  PROVE  Tty!TypedRight'
<1>. DEFINE shift == Tty!Down({Tty!LeftShift, Tty!RightShift}, held)
            ctrl == Tty!Down({Tty!LeftCtrl, Tty!RightCtrl}, held)
            alt == Tty!Down({Tty!LeftAlt, Tty!RightAlt}, held)
<1>1. (Tty!Shift <=> shift) /\ (Tty!Ctrl <=> ctrl) /\ (Tty!Alt <=> alt) /\ caps = capsHeld
  BY ModifiersDown DEF KeyInv, Tty!KeyboardRight, Tty!ModifiersExact, Tty!Shift, Tty!Ctrl, Tty!Alt, Tty!ShiftKeys
<1>2. /\ last'.code = code /\ last'.down = held /\ last'.caps = capsHeld /\ last'.typed = Tty!Typed(code)
  OBVIOUS
<1>3. /\ Tty!Down({Tty!LeftShift, Tty!RightShift}, last.down)' = shift
      /\ Tty!Down({Tty!LeftCtrl, Tty!RightCtrl}, last.down)' = ctrl
      /\ Tty!Down({Tty!LeftAlt, Tty!RightAlt}, last.down)' = alt
  BY <1>2 DEF Tty!Down, Tty!ScanCode, Tty!LeftShift, Tty!RightShift, Tty!LeftCtrl, Tty!RightCtrl,
              Tty!LeftAlt, Tty!RightAlt, Tty!Prefix
<1>4. code \in {2, 26, 28, 30, 83}
  BY DEF Tty!KeyMap
<1>. HIDE DEF shift, ctrl, alt
<1>5. /\ Tty!KeyMap[2] = [plain |-> 49, shifted |-> 33] /\ Tty!KeyMap[26] = [plain |-> 91, shifted |-> 123]
      /\ Tty!KeyMap[28] = [plain |-> 13, shifted |-> 13] /\ Tty!KeyMap[30] = [plain |-> 65, shifted |-> 65]
      /\ Tty!KeyMap[83] = [plain |-> 127, shifted |-> 127]
  BY DEF Tty!KeyMap
<1>6. CASE code = 2
  BY <1>1, <1>2, <1>3, <1>5, <1>6 DEF Tty!TypedRight, Tty!Typed, Tty!ToLower, Tty!Reboot
<1>7. CASE code = 26
  BY <1>1, <1>2, <1>3, <1>5, <1>7 DEF Tty!TypedRight, Tty!Typed, Tty!ToLower, Tty!Reboot
<1>8. CASE code = 28
  BY <1>1, <1>2, <1>3, <1>5, <1>8 DEF Tty!TypedRight, Tty!Typed, Tty!ToLower, Tty!Reboot
<1>9. CASE code = 30
  <2>1. Tty!Typed(30) = LET d == IF ctrl THEN 1 ELSE IF Tty!Shift = caps THEN 97 ELSE 65
                        IN IF alt THEN d + 128 ELSE d
    BY <1>1, <1>5 DEF Tty!Typed, Tty!ToLower
  <2>2. (Tty!Shift = caps) <=> ~(shift # last'.caps)
    <3>1. Tty!Shift \in BOOLEAN
      BY Zenon DEF Tty!Shift
    <3>2. shift \in BOOLEAN
      BY Zenon DEF shift, Tty!Down
    <3>3. Tty!Shift = shift
      BY <1>1, <3>1, <3>2
    <3>. QED BY <1>1, <1>2, <3>3
  <2>. QED BY <1>2, <1>3, <1>9, <2>1, <2>2 DEF Tty!TypedRight
<1>10. CASE code = 83
  BY <1>1, <1>2, <1>3, <1>5, <1>10 DEF Tty!TypedRight, Tty!Typed, Tty!ToLower, Tty!Reboot
<1>. QED BY <1>4, <1>6, <1>7, <1>8, <1>9, <1>10

\* What the keys send.
Codes(keys) == {Tty!ScanCode(k) : k \in keys}

\* No key is of two kinds.
LEMMA NoShift ==
  /\ Tty!CapsLock \notin Tty!ShiftKeys /\ Tty!CapsLock \notin DOMAIN Tty!KeyMap
  /\ DOMAIN Tty!KeyMap \cap Tty!ShiftKeys = {}
BY DEF Tty!CapsLock, Tty!ShiftKeys, Tty!KeyMap,
       Tty!LeftShift, Tty!RightShift, Tty!LeftAlt, Tty!RightAlt, Tty!LeftCtrl, Tty!RightCtrl, Tty!Prefix

\* What a key does to the driver's state, by its code.
LEMMA Interpreted ==
  ASSUME KeyInv, NEW code, NEW release \in BOOLEAN, Tty!Interpret(code, release)
  PROVE  /\ Tty!TypedRight' /\ last'.down \subseteq Key
         /\ mods' = IF code \notin Tty!ShiftKeys THEN mods
                    ELSE IF release THEN mods \ {code} ELSE mods \cup {code}
         /\ caps' = IF code = Tty!CapsLock /\ ~release THEN ~caps ELSE caps
<1>1. CASE code = Tty!CapsLock
  <2>1. last' = Tty!NoKey /\ mods' = mods /\ caps' = Tty!Toggle(release)
    BY <1>1, NoShift DEF Tty!Interpret
  <2>2. Tty!TypedRight' /\ last'.down = {}
    BY <2>1 DEF Tty!TypedRight, Tty!NoKey
  <2>. QED BY <1>1, <2>1, <2>2, NoShift DEF Tty!Toggle
<1>2. CASE code \in DOMAIN Tty!KeyMap
  <2>0. code # Tty!CapsLock /\ code \notin Tty!ShiftKeys
    BY <1>2, NoShift
  <2>1. /\ mods' = mods /\ caps' = caps
        /\ \/ last' = Tty!NoKey
           \/ last' = [code |-> code, down |-> held, caps |-> capsHeld, typed |-> Tty!Typed(code)]
    BY <1>2, <2>0 DEF Tty!Interpret
  <2>2. CASE last' = Tty!NoKey
    <3>1. Tty!TypedRight' /\ last'.down = {}
      BY <2>2 DEF Tty!TypedRight, Tty!NoKey
    <3>. QED BY <2>0, <2>1, <3>1
  <2>3. CASE last' = [code |-> code, down |-> held, caps |-> capsHeld, typed |-> Tty!Typed(code)]
    <3>1. Tty!TypedRight'
      BY <1>2, <2>3, TypedIs
    <3>2. last'.down \subseteq Key
      BY <2>3 DEF KeyInv
    <3>. QED BY <2>0, <2>1, <3>1, <3>2
  <2>. QED BY <2>1, <2>2, <2>3
<1>3. CASE code # Tty!CapsLock /\ code \notin DOMAIN Tty!KeyMap
  <2>1. /\ last' = Tty!NoKey /\ caps' = caps
        /\ mods' = IF code \notin Tty!ShiftKeys THEN mods
                   ELSE IF release THEN mods \ {code} ELSE mods \cup {code}
    BY <1>3 DEF Tty!Interpret
  <2>2. Tty!TypedRight' /\ last'.down = {}
    BY <2>1 DEF Tty!TypedRight, Tty!NoKey
  <2>. QED BY <1>3, <2>1, <2>2
<1>. QED BY <1>1, <1>2, <1>3

LEMMA KeyStep ==
  ASSUME Tty!TerminalAssumption, KeyInv, [Tty!KeyNext]_(Tty!keyVars) PROVE KeyInv'
<1>0. held \subseteq Key /\ mods = Codes(held) \cap Tty!ShiftKeys /\ caps = capsHeld /\ caps \in BOOLEAN
  BY DEF KeyInv, Tty!KeyboardRight, Tty!ModifiersExact, Codes
<1>1. ASSUME NEW k \in Key, Tty!Press(k) PROVE KeyInv'
  <2>1. /\ held' = held \cup {k} /\ Tty!Interpret(Tty!ScanCode(k), FALSE)
        /\ capsHeld' = IF Tty!ScanCode(k) = Tty!CapsLock THEN ~capsHeld ELSE capsHeld
    BY <1>1 DEF Tty!Press
  <2>2. /\ Tty!TypedRight' /\ last'.down \subseteq Key
        /\ mods' = IF Tty!ScanCode(k) \notin Tty!ShiftKeys THEN mods ELSE mods \cup {Tty!ScanCode(k)}
        /\ caps' = IF Tty!ScanCode(k) = Tty!CapsLock THEN ~caps ELSE caps
    BY <2>1, Interpreted
  <2>3. Codes(held') = Codes(held) \cup {Tty!ScanCode(k)}
    BY <2>1 DEF Codes
  <2>4. mods' = Codes(held') \cap Tty!ShiftKeys
    BY <1>0, <2>2, <2>3
  <2>5. caps' = capsHeld' /\ caps' \in BOOLEAN
    BY <1>0, <2>1, <2>2, Zenon
  <2>6. Tty!ModifiersExact'
    BY <2>4, <2>5 DEF Tty!ModifiersExact, Codes
  <2>. QED BY <1>0, <2>1, <2>2, <2>5, <2>6 DEF KeyInv, Tty!KeyboardRight
<1>2. ASSUME NEW k \in Key, Tty!Lift(k) PROVE KeyInv'
  <2>1. k \in held /\ held' = held \ {k} /\ Tty!Interpret(Tty!ScanCode(k), TRUE) /\ capsHeld' = capsHeld
    BY <1>2 DEF Tty!Lift
  <2>2. /\ Tty!TypedRight' /\ last'.down \subseteq Key /\ caps' = caps
        /\ mods' = IF Tty!ScanCode(k) \notin Tty!ShiftKeys THEN mods ELSE mods \ {Tty!ScanCode(k)}
    BY <2>1, Interpreted
  <2>3. Codes(held') = Codes(held) \ {Tty!ScanCode(k)}
    <3>1. \A j \in held : Tty!ScanCode(j) = Tty!ScanCode(k) => j = k
      BY <1>0, KeysDiffer
    <3>. QED BY <2>1, <3>1 DEF Codes
  <2>4. mods' = Codes(held') \cap Tty!ShiftKeys
    BY <1>0, <2>2, <2>3
  <2>5. Tty!ModifiersExact'
    BY <1>0, <2>1, <2>2, <2>4 DEF Tty!ModifiersExact, Codes
  <2>. QED BY <1>0, <2>1, <2>2, <2>5 DEF KeyInv, Tty!KeyboardRight
<1>3. CASE Tty!Take
  <2>1. last' = Tty!NoKey /\ UNCHANGED <<held, mods, caps, capsHeld>>
    BY <1>3 DEF Tty!Take
  <2>2. Tty!TypedRight' /\ last'.down = {}
    BY <2>1 DEF Tty!TypedRight, Tty!NoKey
  <2>3. Tty!ModifiersExact'
    BY <1>0, <2>1 DEF Tty!ModifiersExact, Codes
  <2>. QED BY <1>0, <2>1, <2>2, <2>3 DEF KeyInv, Tty!KeyboardRight
<1>4. CASE Tty!Restart
  <2>1. held' = {} /\ mods' = {} /\ caps' = FALSE /\ capsHeld' = FALSE /\ last' = Tty!NoKey
    BY <1>4 DEF Tty!Restart
  <2>2. Tty!TypedRight' /\ last'.down = {}
    BY <2>1 DEF Tty!TypedRight, Tty!NoKey
  <2>3. Tty!ModifiersExact'
    BY <2>1 DEF Tty!ModifiersExact
  <2>4. caps' \in BOOLEAN
    BY <2>1, Zenon
  <2>. QED BY <2>1, <2>2, <2>3, <2>4 DEF KeyInv, Tty!KeyboardRight
<1>5. CASE UNCHANGED Tty!keyVars
  <2>1. UNCHANGED <<held, mods, caps, capsHeld, last>>
    BY <1>5 DEF Tty!keyVars
  <2>2. Tty!ModifiersExact' = Tty!ModifiersExact
    BY <2>1 DEF Tty!ModifiersExact
  <2>3. Tty!TypedRight' = Tty!TypedRight
    BY <2>1 DEF Tty!TypedRight, Tty!Down
  <2>. QED BY <2>1, <2>2, <2>3 DEF KeyInv, Tty!KeyboardRight
<1>. QED BY <1>1, <1>2, <1>3, <1>4, <1>5 DEF Tty!KeyNext

LEMMA InitKeyInv == ASSUME Tty!KeyInit PROVE KeyInv
<1>1. last.down = {} /\ Tty!TypedRight
  BY DEF Tty!KeyInit, Tty!NoKey, Tty!TypedRight
<1>2. Tty!ModifiersExact
  BY DEF Tty!KeyInit, Tty!ModifiersExact
<1>3. caps \in BOOLEAN
  BY Zenon DEF Tty!KeyInit
<1>. QED BY <1>1, <1>2, <1>3 DEF Tty!KeyInit, KeyInv, Tty!KeyboardRight

\* Whatever keys go down and up in whatever order, the driver knows which shift
\* keys are down, and each key types what it should with them.
THEOREM KeyboardIsRight ==
  Tty!TerminalAssumption => (Tty!KeyInit /\ [][Tty!KeyNext]_(Tty!keyVars) => []Tty!KeyboardRight)
<1>1. SUFFICES ASSUME Tty!TerminalAssumption
               PROVE  Tty!KeyInit /\ [][Tty!KeyNext]_(Tty!keyVars) => []Tty!KeyboardRight
  OBVIOUS
<1>2. Tty!KeyInit => KeyInv
  BY InitKeyInv
<1>3. KeyInv /\ [Tty!KeyNext]_(Tty!keyVars) => KeyInv'
  BY <1>1, KeyStep
<1>4. KeyInv => Tty!KeyboardRight
  BY DEF KeyInv
<1>. QED BY <1>2, <1>3, <1>4, PTL
-------------------------------------------------------------------------------
(* The display.                                                             *)
Row == [0..Cols - 1 -> Chars \cup {BlankCell}]
Line == 0..Rows - 1

\* The rows of the paper that are above the screen, and the row of the cursor.
Above(rs) == IF Len(rs) > Rows THEN Len(rs) - Rows ELSE 0
LastLine(rs) == Len(rs) - Above(rs) - 1
Shows(f, rs) ==
  f = [y \in Line |-> IF Above(rs) + y + 1 \in DOMAIN rs THEN rs[Above(rs) + y + 1] ELSE Tty!BlankRow]

\* A screen and the paper it shows.
Same(f, x, y, p) ==
  /\ f \in [Line -> Row] /\ p \in [rows : Seq(Row), x : 0..Cols - 1] /\ p.rows # <<>>
  /\ Shows(f, p.rows) /\ x = p.x /\ y = LastLine(p.rows)

CursorIs(x, y) == cursor.high * Half + cursor.low = x + Cols * y

DisplayInv == Same(fb, cx, cy, paper) /\ CursorIs(cx, cy)

LEMMA SizesAre ==
  ASSUME Tty!TerminalAssumption
  PROVE  Cols \in Nat \ {0} /\ Rows \in Nat \ {0} /\ Tab \in Nat \ {0} /\ Half \in Nat \ {0}
BY DEF Tty!TerminalAssumption

LEMMA BlankRowType == Tty!BlankRow \in Row
BY DEF Tty!BlankRow, Row

LEMMA LastLineIs ==
  ASSUME Tty!TerminalAssumption, NEW rs \in Seq(Row), rs # <<>>
  PROVE  /\ Len(rs) \in Nat \ {0} /\ Above(rs) \in Nat /\ LastLine(rs) \in Line
         /\ Above(rs) + LastLine(rs) + 1 = Len(rs) /\ DOMAIN rs = 1..Len(rs)
<1>1. Rows \in Nat \ {0} /\ Len(rs) \in Nat \ {0} /\ DOMAIN rs = 1..Len(rs)
  BY SizesAre
<1>2. CASE Len(rs) > Rows
  BY <1>1, <1>2 DEF Above, LastLine, Line
<1>3. CASE ~(Len(rs) > Rows)
  BY <1>1, <1>3 DEF Above, LastLine, Line
<1>. QED BY <1>1, <1>2, <1>3

\* A row more on the paper: the screen moves up, or has a row left.
LEMMA NewlineShown ==
  ASSUME Tty!TerminalAssumption, NEW rs \in Seq(Row), rs # <<>>, NEW f \in [Line -> Row], Shows(f, rs)
  PROVE  /\ Tty!Newline(f, LastLine(rs)).fb \in [Line -> Row]
         /\ Shows(Tty!Newline(f, LastLine(rs)).fb, Append(rs, Tty!BlankRow))
         /\ Tty!Newline(f, LastLine(rs)).cx = 0
         /\ Tty!Newline(f, LastLine(rs)).cy = LastLine(Append(rs, Tty!BlankRow))
<1>1. PICK n : n = Len(rs)
  OBVIOUS
<1>2. PICK r : r = Append(rs, Tty!BlankRow)
  OBVIOUS
<1>3. /\ n \in Nat \ {0} /\ DOMAIN rs = 1..n
      /\ r \in Seq(Row) /\ Len(r) = n + 1 /\ DOMAIN r = 1..n + 1 /\ r[n + 1] = Tty!BlankRow
      /\ \A i \in 1..n : r[i] = rs[i]
  BY <1>1, <1>2, BlankRowType, AppendProperties
<1>4. Rows \in Nat \ {0}
  BY SizesAre
<1>5. \A y \in Line : f[y] = IF Above(rs) + y + 1 \in 1..n THEN rs[Above(rs) + y + 1] ELSE Tty!BlankRow
  BY <1>3 DEF Shows
<1>6. CASE n < Rows
  <2>1. Above(rs) = 0 /\ Above(r) = 0 /\ LastLine(rs) = n - 1 /\ LastLine(r) = n
    <3>1. ~(Len(rs) > Rows) /\ ~(Len(r) > Rows)
      BY <1>1, <1>3, <1>4, <1>6
    <3>2. Above(rs) = 0 /\ Above(r) = 0
      BY <3>1 DEF Above
    <3>. QED BY <1>1, <1>3, <3>2 DEF LastLine
  <2>2. Tty!Newline(f, LastLine(rs)) = [fb |-> f, cx |-> 0, cy |-> n]
    BY <1>3, <1>4, <1>6, <2>1 DEF Tty!Newline
  <2>3. \A y \in Line : f[y] = IF Above(r) + y + 1 \in DOMAIN r THEN r[Above(r) + y + 1] ELSE Tty!BlankRow
    BY <1>3, <1>4, <1>5, <2>1 DEF Line
  <2>4. Shows(f, r)
    BY <2>3 DEF Shows
  <2>. QED BY <1>2, <2>1, <2>2, <2>4
<1>7. CASE n >= Rows
  <2>1. /\ Above(rs) = n - Rows /\ Above(r) = n + 1 - Rows
        /\ LastLine(rs) = Rows - 1 /\ LastLine(r) = Rows - 1
    BY <1>1, <1>3, <1>4, <1>7 DEF Above, LastLine
  <2>2. PICK g : g = [y \in Line |-> IF y < Rows - 1 THEN f[y + 1] ELSE Tty!BlankRow]
    OBVIOUS
  <2>3. Tty!Newline(f, LastLine(rs)) = [fb |-> g, cx |-> 0, cy |-> Rows - 1]
    BY <1>4, <2>1, <2>2 DEF Tty!Newline, Line
  <2>4. ASSUME NEW y \in Line
        PROVE  /\ g[y] = IF Above(r) + y + 1 \in DOMAIN r THEN r[Above(r) + y + 1] ELSE Tty!BlankRow
               /\ g[y] \in Row
    <3>1. CASE y < Rows - 1
      <4>1. y + 1 \in Line /\ g[y] = f[y + 1] /\ f[y + 1] \in Row
        BY <1>4, <2>2, <3>1 DEF Line
      <4>2. f[y + 1] = rs[n - Rows + y + 2]
        BY <1>3, <1>4, <1>5, <1>7, <2>1, <3>1, <4>1 DEF Line
      <4>3. n - Rows + y + 2 \in 1..n /\ Above(r) + y + 1 = n - Rows + y + 2
        BY <1>3, <1>4, <1>7, <2>1, <3>1 DEF Line
      <4>. QED BY <1>3, <4>1, <4>2, <4>3
    <3>2. CASE ~(y < Rows - 1)
      <4>1. g[y] = Tty!BlankRow /\ Above(r) + y + 1 = n + 1
        BY <1>3, <1>4, <2>1, <2>2, <3>2 DEF Line
      <4>. QED BY <1>3, <4>1, BlankRowType
    <3>. QED BY <3>1, <3>2
  <2>5. g \in [Line -> Row] /\ Shows(g, r)
    BY <2>2, <2>4 DEF Shows
  <2>. QED BY <1>2, <2>1, <2>3, <2>5
<1>. QED BY <1>3, <1>4, <1>6, <1>7

\* A character where the cursor is, on the screen and on the paper.
LEMMA MarkShown ==
  ASSUME Tty!TerminalAssumption, NEW rs \in Seq(Row), rs # <<>>, NEW f \in [Line -> Row], Shows(f, rs),
         NEW x \in 0..Cols - 1, NEW c \in Chars
  PROVE  /\ [f EXCEPT ![LastLine(rs)][x] = c] \in [Line -> Row]
         /\ [rs EXCEPT ![Len(rs)][x] = c] \in Seq(Row)
         /\ [rs EXCEPT ![Len(rs)][x] = c] # <<>>
         /\ LastLine([rs EXCEPT ![Len(rs)][x] = c]) = LastLine(rs)
         /\ Shows([f EXCEPT ![LastLine(rs)][x] = c], [rs EXCEPT ![Len(rs)][x] = c])
<1>1. /\ Len(rs) \in Nat \ {0} /\ Above(rs) \in Nat /\ LastLine(rs) \in Line
      /\ Above(rs) + LastLine(rs) + 1 = Len(rs) /\ DOMAIN rs = 1..Len(rs)
  BY LastLineIs
<1>2. PICK row : row = [rs[Len(rs)] EXCEPT ![x] = c]
  OBVIOUS
<1>3. rs[Len(rs)] \in Row
  BY <1>1
<1>4. row \in Row
  BY <1>2, <1>3 DEF Row
<1>5. f[LastLine(rs)] = rs[Len(rs)]
  BY <1>1 DEF Shows
<1>6. PICK g : g = [f EXCEPT ![LastLine(rs)][x] = c]
  OBVIOUS
<1>7. PICK r : r = [rs EXCEPT ![Len(rs)][x] = c]
  OBVIOUS
<1>8. g = [f EXCEPT ![LastLine(rs)] = row] /\ r = [rs EXCEPT ![Len(rs)] = row]
  BY <1>2, <1>5, <1>6, <1>7
<1>9. /\ r \in Seq(Row) /\ Len(r) = Len(rs)
      /\ \A i \in 1..Len(rs) : r[i] = IF i = Len(rs) THEN row ELSE rs[i]
  <2>1. Len(rs) \in 1..Len(rs)
    BY <1>1
  <2>. QED BY <1>4, <1>8, <2>1, ExceptSeq
<1>10. r # <<>> /\ DOMAIN r = DOMAIN rs /\ Above(r) = Above(rs) /\ LastLine(r) = LastLine(rs)
  <2>1. r # <<>> /\ DOMAIN r = DOMAIN rs
    BY <1>1, <1>9
  <2>2. Above(r) = Above(rs) /\ LastLine(r) = LastLine(rs)
    BY <1>9, Zenon DEF Above, LastLine
  <2>. QED BY <2>1, <2>2
<1>11. g \in [Line -> Row] /\ \A y \in Line : g[y] = IF y = LastLine(rs) THEN row ELSE f[y]
  BY <1>1, <1>4, <1>8
<1>12. ASSUME NEW y \in Line
       PROVE  g[y] = IF Above(r) + y + 1 \in DOMAIN r THEN r[Above(r) + y + 1] ELSE Tty!BlankRow
  <2>1. CASE y = LastLine(rs)
    BY <1>1, <1>9, <1>10, <1>11, <2>1
  <2>2. CASE y # LastLine(rs)
    <3>1. Above(rs) + y + 1 # Len(rs)
      BY <1>1, <2>2 DEF Line
    <3>2. f[y] = IF Above(rs) + y + 1 \in 1..Len(rs) THEN rs[Above(rs) + y + 1] ELSE Tty!BlankRow
      BY <1>1 DEF Shows
    <3>. QED BY <1>1, <1>9, <1>10, <1>11, <2>2, <3>1, <3>2
  <2>. QED BY <2>1, <2>2
<1>13. Shows(g, r)
  BY <1>11, <1>12 DEF Shows
<1>. QED BY <1>6, <1>7, <1>9, <1>10, <1>11, <1>13

\* The cursor moves within its row, or to the next one.
LEMMA MovedShown ==
  ASSUME NEW f, NEW x, NEW y, NEW p, Same(f, x, y, p), NEW n \in 0..Cols - 1
  PROVE  Same(f, n, y, [p EXCEPT !.x = n])
BY DEF Same

LEMMA NextShown ==
  ASSUME Tty!TerminalAssumption, NEW rs \in Seq(Row), rs # <<>>, NEW f \in [Line -> Row], Shows(f, rs)
  PROVE  LET s == Tty!Newline(f, LastLine(rs))
         IN Same(s.fb, s.cx, s.cy, [rows |-> Append(rs, Tty!BlankRow), x |-> 0])
<1>1. PICK s : s = Tty!Newline(f, LastLine(rs))
  OBVIOUS
<1>2. s.fb \in [Line -> Row] /\ Shows(s.fb, Append(rs, Tty!BlankRow))
      /\ s.cx = 0 /\ s.cy = LastLine(Append(rs, Tty!BlankRow))
  BY <1>1, NewlineShown
<1>3. Append(rs, Tty!BlankRow) \in Seq(Row) /\ Append(rs, Tty!BlankRow) # <<>> /\ 0 \in 0..Cols - 1
  BY BlankRowType, AppendProperties, SizesAre
<1>. QED BY <1>1, <1>2, <1>3 DEF Same

\* The first row of a screen that is clear.
LEMMA ClearShown ==
  ASSUME Tty!TerminalAssumption
  PROVE  Same([y \in Line |-> Tty!BlankRow], 0, 0, [rows |-> <<Tty!BlankRow>>, x |-> 0])
<1>1. PICK r : r = <<Tty!BlankRow>>
  OBVIOUS
<1>2. /\ r \in Seq(Row) /\ r # <<>> /\ Len(r) = 1 /\ r[1] = Tty!BlankRow /\ DOMAIN r = 1..1
      /\ Rows \in Nat \ {0} /\ 0 \in 0..Cols - 1
  BY <1>1, BlankRowType, SizesAre
<1>3. Above(r) = 0 /\ LastLine(r) = 0
  <2>1. ~(Len(r) > Rows)
    BY <1>2
  <2>2. Above(r) = 0
    BY <2>1 DEF Above
  <2>. QED BY <1>2, <2>2 DEF LastLine
<1>4. \A y \in Line : Tty!BlankRow = IF Above(r) + y + 1 \in DOMAIN r THEN r[Above(r) + y + 1] ELSE Tty!BlankRow
  BY <1>2, <1>3 DEF Line
<1>5. Shows([y \in Line |-> Tty!BlankRow], r)
  BY <1>4 DEF Shows
<1>6. [y \in Line |-> Tty!BlankRow] \in [Line -> Row]
  BY BlankRowType
<1>. QED BY <1>1, <1>2, <1>3, <1>5, <1>6 DEF Same

\* Both put a character in the same place and go on from it in the same way.
LEMMA PutcShown ==
  ASSUME Tty!TerminalAssumption, Same(fb, cx, cy, paper), NEW c \in Chars \cup Tty!Controls
  PROVE  Same(Tty!Shown(c).fb, Tty!Shown(c).cx, Tty!Shown(c).cy, Tty!OnPaper(paper, c))
<1>. DEFINE rs == paper.rows   x == paper.x
            here == [fb |-> fb, cx |-> cx, cy |-> cy]
            Moved(n) == [paper EXCEPT !.x = n]
            Below(r) == [rows |-> Append(r, Tty!BlankRow), x |-> 0]
<1>1. /\ rs \in Seq(Row) /\ rs # <<>> /\ fb \in [Line -> Row] /\ Shows(fb, rs)
      /\ x \in 0..Cols - 1 /\ cx = x /\ cy = LastLine(rs) /\ Cols \in Nat \ {0}
  BY SizesAre DEF Same
<1>2. \A n \in 0..Cols - 1 : Same(fb, n, cy, Moved(n))
  BY MovedShown
<1>3. LET s == Tty!Newline(fb, cy) IN Same(s.fb, s.cx, s.cy, Below(rs))
  BY <1>1, NextShown
<1>4. CASE c = "newline"
  <2>1. Tty!Shown(c) = Tty!Newline(fb, cy) /\ Tty!OnPaper(paper, c) = Below(rs)
    BY <1>1, <1>4 DEF Tty!Shown, Tty!OnPaper
  <2>. QED BY <1>3, <2>1
<1>5. CASE c = "feed"
  <2>1. /\ Tty!Shown(c) = [fb |-> [y \in Line |-> Tty!BlankRow], cx |-> 0, cy |-> 0]
        /\ Tty!OnPaper(paper, c) = [rows |-> <<Tty!BlankRow>>, x |-> 0]
    BY <1>5 DEF Tty!Shown, Tty!OnPaper, Line
  <2>. QED BY <2>1, ClearShown
<1>6. CASE c = "back"
  <2>1. PICK n \in 0..Cols - 1 : n = IF x > 0 THEN x - 1 ELSE 0
    BY <1>1
  <2>2. Tty!Shown(c) = [here EXCEPT !.cx = n] /\ Tty!OnPaper(paper, c) = Moved(n)
    <3>1. n = (IF paper.x = 0 THEN 0 ELSE paper.x - 1) /\ n < Cols
      BY <1>1, <2>1
    <3>. QED BY <1>1, <1>6, <2>1, <3>1 DEF Tty!Shown, Tty!OnPaper
  <2>3. Tty!Shown(c).fb = fb /\ Tty!Shown(c).cx = n /\ Tty!Shown(c).cy = cy
    BY <2>2
  <2>. QED BY <1>2, <2>2, <2>3
<1>7. CASE c = "return"
  <2>1. Tty!Shown(c) = [here EXCEPT !.cx = 0] /\ Tty!OnPaper(paper, c) = Moved(0) /\ 0 \in 0..Cols - 1
    BY <1>1, <1>7 DEF Tty!Shown, Tty!OnPaper
  <2>2. Tty!Shown(c).fb = fb /\ Tty!Shown(c).cx = 0 /\ Tty!Shown(c).cy = cy
    BY <2>1
  <2>. QED BY <1>2, <2>1, <2>2
<1>8. CASE c = "tab"
  <2>1. PICK n \in Nat : n = ((x + Tab) \div Tab) * Tab
    <3>1. x + Tab \in Nat /\ Tab \in Nat \ {0}
      BY <1>1, SizesAre
    <3>2. (x + Tab) \div Tab \in Nat
      BY <3>1
    <3>. QED BY <3>1, <3>2
  <2>2. CASE n >= Cols
    <3>1. Tty!Shown(c) = Tty!Newline(fb, cy) /\ Tty!OnPaper(paper, c) = Below(rs)
      BY <1>1, <1>8, <2>1, <2>2 DEF Tty!Shown, Tty!OnPaper
    <3>. QED BY <1>3, <3>1
  <2>3. CASE ~(n >= Cols)
    <3>1. Tty!Shown(c) = [here EXCEPT !.cx = n] /\ Tty!OnPaper(paper, c) = Moved(n) /\ n \in 0..Cols - 1
      BY <1>1, <1>8, <2>1, <2>3 DEF Tty!Shown, Tty!OnPaper
    <3>2. Tty!Shown(c).fb = fb /\ Tty!Shown(c).cx = n /\ Tty!Shown(c).cy = cy
      BY <3>1
    <3>. QED BY <1>2, <3>1, <3>2
  <2>. QED BY <2>2, <2>3
<1>9. CASE c \notin Tty!Controls
  <2>1. PICK g : g = [fb EXCEPT ![cy][cx] = c]
    OBVIOUS
  <2>2. PICK r : r = [rs EXCEPT ![Len(rs)][x] = c]
    OBVIOUS
  <2>3. g \in [Line -> Row] /\ r \in Seq(Row) /\ r # <<>> /\ LastLine(r) = cy /\ Shows(g, r)
    BY <1>1, <1>9, <2>1, <2>2, MarkShown
  <2>4. CASE x + 1 < Cols
    <3>1. /\ Tty!Shown(c) = [here EXCEPT !.fb = g, !.cx = x + 1]
          /\ Tty!OnPaper(paper, c) = [rows |-> r, x |-> x + 1] /\ x + 1 \in 0..Cols - 1
      BY <1>1, <1>9, <2>1, <2>2, <2>4 DEF Tty!Shown, Tty!OnPaper, Tty!Controls
    <3>2. Tty!Shown(c).fb = g /\ Tty!Shown(c).cx = x + 1 /\ Tty!Shown(c).cy = cy
      BY <3>1
    <3>. QED BY <2>3, <3>1, <3>2 DEF Same
  <2>5. CASE ~(x + 1 < Cols)
    <3>1. Tty!Shown(c) = Tty!Newline(g, cy) /\ Tty!OnPaper(paper, c) = Below(r)
      BY <1>1, <1>9, <2>1, <2>2, <2>5 DEF Tty!Shown, Tty!OnPaper, Tty!Controls
    <3>2. LET s == Tty!Newline(g, cy) IN Same(s.fb, s.cx, s.cy, Below(r))
      BY <2>3, NextShown
    <3>. QED BY <3>1, <3>2
  <2>. QED BY <2>4, <2>5
<1>. QED BY <1>4, <1>5, <1>6, <1>7, <1>8, <1>9 DEF Tty!Controls

-------------------------------------------------------------------------------
(* The cursor register.                                                     *)
LEMMA HalvesGive ==
  ASSUME NEW h \in Nat \ {0}, NEW p \in Nat, p < h * h
  PROVE  /\ p \div h \in Nat /\ (p \div h) % h = p \div h
         /\ (p \div h) * h + (p % h) = p
<1>1. PICK q \in Nat : q = p \div h
  OBVIOUS
<1>2. q * h <= p /\ p % h = p - q * h
  BY <1>1
<1>3. q < h
  <2>1. SUFFICES ASSUME h <= q PROVE FALSE
    BY <1>1
  <2>2. h * h <= q * h
    BY <2>1
  <2>. QED BY <1>2, <2>2
<1>. QED BY <1>1, <1>2, <1>3

LEMMA PlaceFits ==
  ASSUME Tty!TerminalAssumption, NEW x \in 0..Cols - 1, NEW y \in Line
  PROVE  x + Cols * y \in Nat /\ x + Cols * y < Half * Half
<1>1. /\ Cols \in Nat \ {0} /\ Rows \in Nat \ {0} /\ Half \in Nat \ {0} /\ Cols * Rows <= Half * Half
      /\ y \in Nat /\ y + 1 <= Rows
  BY SizesAre DEF Tty!TerminalAssumption, Line
<1>2. Cols * (y + 1) <= Cols * Rows /\ Cols * y \in Nat /\ Cols * (y + 1) = Cols * y + Cols
  BY <1>1
<1>3. Half * Half \in Nat /\ Cols * Rows \in Nat
  BY <1>1
<1>. QED BY <1>1, <1>2, <1>3

LEMMA CursorAt ==
  ASSUME Tty!TerminalAssumption, NEW x \in 0..Cols - 1, NEW y \in Line, Tty!MoveCursor(x, y)
  PROVE  cursor'.high * Half + cursor'.low = x + Cols * y
<1>1. PICK p \in Nat : p = x + Cols * y /\ p < Half * Half
  BY PlaceFits
<1>2. cursor'.high = (p \div Half) % Half /\ cursor'.low = p % Half
  BY <1>1 DEF Tty!MoveCursor
<1>3. (p \div Half) % Half = p \div Half /\ (p \div Half) * Half + (p % Half) = p
  BY <1>1, HalvesGive, SizesAre
<1>. QED BY <1>1, <1>2, <1>3

LEMMA InitDisplay == ASSUME Tty!TerminalAssumption, Tty!DisplayInit PROVE DisplayInv
<1>1. PICK r : r = [i \in 1..cy + 1 |-> Tty!BlankRow]
  OBVIOUS
<1>2. /\ Rows \in Nat \ {0} /\ Cols \in Nat \ {0} /\ Half \in Nat \ {0}
      /\ cy \in Line /\ cx = 0 /\ paper = [rows |-> r, x |-> 0]
      /\ fb = [y \in Line |-> Tty!BlankRow]
      /\ cursor = [high |-> (Cols * cy) \div Half, low |-> (Cols * cy) % Half]
  BY <1>1, SizesAre DEF Tty!DisplayInit, Line
<1>3. r \in Seq(Row) /\ Len(r) = cy + 1 /\ DOMAIN r = 1..cy + 1 /\ \A i \in 1..cy + 1 : r[i] = Tty!BlankRow
  <2>1. cy + 1 \in Nat
    BY <1>2 DEF Line
  <2>. QED BY <1>1, <2>1, BlankRowType
<1>4. Above(r) = 0 /\ LastLine(r) = cy /\ r # <<>>
  <2>1. ~(Len(r) > Rows)
    BY <1>2, <1>3 DEF Line
  <2>. QED BY <1>2, <1>3, <2>1 DEF Above, LastLine, Line
<1>5. Shows(fb, r)
  BY <1>2, <1>3, <1>4 DEF Shows
<1>6. fb \in [Line -> Row] /\ 0 \in 0..Cols - 1
  BY <1>2, BlankRowType
<1>7. CursorIs(cx, cy)
  <2>1. PICK p \in Nat : p = 0 + Cols * cy /\ p < Half * Half
    BY <1>2, <1>6, PlaceFits
  <2>2. Cols * cy = p
    BY <1>2, <2>1 DEF Line
  <2>3. (p \div Half) * Half + (p % Half) = p
    BY <1>2, <2>1, HalvesGive
  <2>4. cursor.high = p \div Half /\ cursor.low = p % Half
    BY <1>2, <2>2
  <2>. QED BY <1>2, <2>1, <2>3, <2>4 DEF CursorIs
<1>. QED BY <1>2, <1>3, <1>4, <1>5, <1>6, <1>7 DEF DisplayInv, Same

LEMMA DisplayStep ==
  ASSUME Tty!TerminalAssumption, DisplayInv, [Tty!DisplayNext]_(Tty!displayVars) PROVE DisplayInv'
<1>1. ASSUME NEW c \in Chars \cup Tty!Controls, Tty!Putc(c) PROVE DisplayInv'
  <2>1. /\ fb' = Tty!Shown(c).fb /\ cx' = Tty!Shown(c).cx /\ cy' = Tty!Shown(c).cy
        /\ paper' = Tty!OnPaper(paper, c)
        /\ Tty!MoveCursor(cx', cy')
    BY <1>1 DEF Tty!Putc
  <2>2. Same(fb, cx, cy, paper)'
    BY <2>1, PutcShown DEF DisplayInv
  <2>3. cx' \in 0..Cols - 1 /\ cy' \in Line
    BY <2>2, LastLineIs DEF Same
  <2>4. CursorIs(cx, cy)'
    BY <2>1, <2>3, CursorAt DEF CursorIs
  <2>. QED BY <2>2, <2>4 DEF DisplayInv
<1>2. CASE Tty!EndBeep
  <2>1. Tty!MoveCursor(cx, cy) /\ UNCHANGED <<fb, cx, cy, paper>>
    BY <1>2 DEF Tty!EndBeep
  <2>2. cx \in 0..Cols - 1 /\ cy \in Line
    BY LastLineIs DEF DisplayInv, Same
  <2>3. CursorIs(cx, cy)'
    BY <2>1, <2>2, CursorAt DEF CursorIs
  <2>. QED BY <2>1, <2>3 DEF DisplayInv
<1>3. CASE Tty!StartBeep \/ UNCHANGED Tty!displayVars
  BY <1>3 DEF Tty!StartBeep, Tty!displayVars, DisplayInv, CursorIs
<1>. QED BY <1>1, <1>2, <1>3 DEF Tty!DisplayNext

\* Whatever is written, on a display of any size, it shows the last rows of it
\* and the cursor, its own and the register's, is where the next one goes.
THEOREM DisplayIsRight ==
  Tty!TerminalAssumption => (Tty!DisplayInit /\ [][Tty!DisplayNext]_(Tty!displayVars) => []Tty!DisplayRight)
<1>1. SUFFICES ASSUME Tty!TerminalAssumption
               PROVE  Tty!DisplayInit /\ [][Tty!DisplayNext]_(Tty!displayVars) => []Tty!DisplayRight
  OBVIOUS
<1>2. Tty!DisplayInit => DisplayInv
  BY <1>1, InitDisplay
<1>3. DisplayInv /\ [Tty!DisplayNext]_(Tty!displayVars) => DisplayInv'
  BY <1>1, DisplayStep
<1>4. DisplayInv => Tty!DisplayRight
  BY DEF DisplayInv, Tty!DisplayRight, Same, Shows, Above, LastLine, CursorIs, Line
<1>. QED BY <1>2, <1>3, <1>4, PTL

-------------------------------------------------------------------------------
(* The partitions of a device with any tables on it.                        *)
CONSTANTS Size, Wrap, MaxDepth, Disks
VARIABLES tables, stack, partNr, found, access

Parts == INSTANCE Partition

\* The calls of the scan, and what was found lies on the device.
ScanTypeOK ==
  /\ tables \in Disks /\ partNr \in Nat
  /\ stack \in Seq([sector : Nat, primary : Nat, next : Nat \ {0}])
  /\ found \in Seq([nr : Nat, start : Nat, size : Nat])
  /\ \A i \in DOMAIN found : found[i].start + found[i].size <= Size
  /\ \A a \in access : a.sector < Size

\* The partitions on the device among the entries before the n-th.
FoundBefore(n) ==
  {[start |-> tables[0][i].offset, size |-> tables[0][i].size] :
     i \in {i \in DOMAIN tables[0] :
              /\ i < n /\ tables[0][i].type = "data" /\ tables[0][i].size > 0
              /\ tables[0][i].offset + tables[0][i].size <= Size}}

\* Without extended partitions there is one call, which has found those before
\* the entry it is at.
ScanInv ==
  0 \in DOMAIN tables /\ Parts!Used(0, "extended") = {} =>
    \/ stack = <<>> /\ Parts!Found = FoundBefore(Len(tables[0]) + 1)
    \/ Len(stack) = 1 /\ stack[1].sector = 0 /\ Parts!Found = FoundBefore(stack[1].next)

TablesInv == ScanTypeOK /\ ScanInv

\* The comparison of found_partition, in words, is the one in numbers.
LEMMA FitsInNumbers ==
  ASSUME Parts!PartitionAssumption, NEW start \in 0..Wrap - 1, NEW size \in 0..Wrap - 1
  PROVE  Parts!Fits(start, size) <=> start < Size /\ start + size <= Size
<1>1. CASE start + size < Wrap
  <2>1. (start + size) % Wrap = start + size
    BY <1>1, SMT DEF Parts!PartitionAssumption
  <2>. QED BY <2>1, <1>1 DEF Parts!Fits, Parts!PartitionAssumption
<1>2. CASE start + size >= Wrap
  <2>1. (start + size) % Wrap = start + size - Wrap
    BY <1>2, SMT DEF Parts!PartitionAssumption
  <2>. QED BY <2>1, <1>2 DEF Parts!Fits, Parts!PartitionAssumption
<1>. QED BY <1>1, <1>2 DEF Parts!PartitionAssumption

\* The call on top, and the stack below it and with it advanced.
LEMMA OnTop ==
  ASSUME ScanTypeOK, stack # <<>>
  PROVE  /\ Parts!Top \in [sector : Nat, primary : Nat, next : Nat \ {0}]
         /\ Parts!Callers \in Seq([sector : Nat, primary : Nat, next : Nat \ {0}])
         /\ Parts!Advanced \in Seq([sector : Nat, primary : Nat, next : Nat \ {0}])
         /\ Len(stack) = 1 => /\ Parts!Top = stack[1] /\ Parts!Callers = <<>>
                              /\ Len(Parts!Advanced) = 1 /\ Parts!Advanced[1] = [Parts!Top EXCEPT !.next = @ + 1]
<1>. DEFINE ScanCalls == [sector : Nat, primary : Nat, next : Nat \ {0}]
<1>1. stack \in Seq(ScanCalls) /\ Len(stack) \in Nat /\ Len(stack) > 0
  BY EmptySeq, LenProperties DEF ScanTypeOK
<1>. HIDE DEF ScanCalls
<1>2. Parts!Top \in ScanCalls
  BY <1>1, ElementOfSeq DEF Parts!Top
<1>3. Parts!Callers \in Seq(ScanCalls) /\ Len(Parts!Callers) = Len(stack) - 1
  <2>1. \A i \in 1..Len(stack) - 1 : stack[i] \in ScanCalls
    BY <1>1, ElementOfSeq
  <2>2. Len(stack) - 1 \in Nat
    BY <1>1
  <2>3. PICK n \in Nat : n = Len(stack) - 1
    BY <2>2
  <2>4. SubSeq(stack, 1, n) \in Seq(ScanCalls) /\ Len(SubSeq(stack, 1, n)) = IF 1 <= n THEN n - 1 + 1 ELSE 0
    BY <2>1, <2>3, SubSeqProperties
  <2>5. Len(SubSeq(stack, 1, n)) = n
    BY <2>4, <2>3
  <2>. QED BY <2>3, <2>4, <2>5 DEF Parts!Callers
<1>4. [Parts!Top EXCEPT !.next = @ + 1] \in ScanCalls
  BY <1>2 DEF ScanCalls
<1>5. Parts!Advanced \in Seq(ScanCalls)
  BY <1>3, <1>4, AppendProperties DEF Parts!Advanced
<1>6. ASSUME Len(stack) = 1
      PROVE  /\ Parts!Top = stack[1] /\ Parts!Callers = <<>>
             /\ Len(Parts!Advanced) = 1 /\ Parts!Advanced[1] = [Parts!Top EXCEPT !.next = @ + 1]
  <2>1. Parts!Callers = <<>>
    BY <1>3, <1>6, EmptySeq
  <2>2. Parts!Advanced = <<[Parts!Top EXCEPT !.next = @ + 1]>>
    BY <2>1 DEF Parts!Advanced
  <2>. QED BY <2>1, <2>2, <1>6 DEF Parts!Top
<1>. QED BY <1>2, <1>3, <1>5, <1>6 DEF ScanCalls

\* The entry a call is at.
LEMMA AtEntryIs ==
  ASSUME Parts!PartitionAssumption, ScanTypeOK, NEW type, Parts!AtEntry(type)
  PROVE  /\ stack # <<>> /\ 0 \in DOMAIN tables /\ tables[0] \in Seq(Parts!EntryType)
         /\ Parts!Entry = tables[0][Parts!Top.next] /\ Parts!Top.next \in DOMAIN tables[0]
         /\ Parts!Entry \in Parts!EntryType
         /\ type = IF Parts!Entry.size = 0 THEN "none" ELSE Parts!Entry.type
<1>1. stack # <<>> /\ 0 \in DOMAIN tables /\ Parts!Top.next <= Len(tables[0])
  BY DEF Parts!AtEntry, Parts!Signed, Parts!TableRead
<1>2. tables[0] \in Seq(Parts!EntryType)
  BY <1>1 DEF Parts!PartitionAssumption, ScanTypeOK
<1>3. Parts!Top.next \in 1..Len(tables[0])
  BY <1>1, <1>2, OnTop
<1>4. DOMAIN tables[0] = 1..Len(tables[0])
  BY <1>2, LenProperties
<1>5. Parts!Entry = tables[0][Parts!Top.next] /\ Parts!Entry \in Parts!EntryType
  BY <1>2, <1>3, ElementOfSeq DEF Parts!Entry, Parts!TableRead
<1>6. type = IF Parts!Entry.size = 0 \/ Parts!Entry.type = "none" THEN "none" ELSE Parts!Entry.type
  BY DEF Parts!AtEntry, Parts!Entry
<1>. QED BY <1>1, <1>2, <1>3, <1>4, <1>5, <1>6

\* What one more entry adds.
LEMMA FoundNext ==
  ASSUME NEW i \in Nat, tables[0] \in Seq(Parts!EntryType), i \in DOMAIN tables[0]
  PROVE  FoundBefore(i + 1) =
           IF /\ tables[0][i].type = "data" /\ tables[0][i].size > 0
              /\ tables[0][i].offset + tables[0][i].size <= Size
           THEN FoundBefore(i) \cup {[start |-> tables[0][i].offset, size |-> tables[0][i].size]}
           ELSE FoundBefore(i)
<1>. DEFINE In(n) == {j \in DOMAIN tables[0] :
              /\ j < n /\ tables[0][j].type = "data" /\ tables[0][j].size > 0
              /\ tables[0][j].offset + tables[0][j].size <= Size}
            As(j) == [start |-> tables[0][j].offset, size |-> tables[0][j].size]
<1>1. DOMAIN tables[0] \subseteq Nat
  BY LenProperties
<1>2. In(i + 1) = IF /\ tables[0][i].type = "data" /\ tables[0][i].size > 0
                     /\ tables[0][i].offset + tables[0][i].size <= Size
                  THEN In(i) \cup {i} ELSE In(i)
  BY <1>1
<1>3. \A n : FoundBefore(n) = {As(j) : j \in In(n)}
  BY DEF FoundBefore
<1>. HIDE DEF In, As
<1>4. {As(j) : j \in In(i) \cup {i}} = {As(j) : j \in In(i)} \cup {As(i)}
  OBVIOUS
<1>. QED BY <1>2, <1>3, <1>4 DEF As

LEMMA EndKeeps ==
  ASSUME Parts!PartitionAssumption, TablesInv, Parts!Return
  PROVE  TablesInv'
<1>1. ScanTypeOK'
  BY OnTop DEF TablesInv, ScanTypeOK, Parts!Return
<1>2. ScanInv'
  <2>1. SUFFICES ASSUME 0 \in DOMAIN tables, Parts!Used(0, "extended") = {}
                 PROVE  stack' = <<>> /\ Parts!Found = FoundBefore(Len(tables[0]) + 1)
    BY DEF Parts!Return, ScanInv, Parts!Found, FoundBefore, Parts!Used
  <2>2. Len(stack) = 1 /\ stack[1].sector = 0 /\ Parts!Found = FoundBefore(stack[1].next)
    BY <2>1, EmptySeq DEF TablesInv, ScanInv, Parts!Return
  <2>3. Parts!Top = stack[1] /\ Parts!Callers = <<>> /\ Parts!Top.next \in Nat
    BY <2>2, OnTop DEF TablesInv, Parts!Return
  <2>4. stack[1].next > Len(tables[0])
    BY <2>1, <2>2, <2>3 DEF Parts!Return, Parts!Signed, Parts!TableRead, Parts!PartitionAssumption
  <2>5. tables[0] \in Seq(Parts!EntryType)
    BY <2>1 DEF Parts!PartitionAssumption, TablesInv, ScanTypeOK
  <2>6. DOMAIN tables[0] = 1..Len(tables[0]) /\ Len(tables[0]) \in Nat
    BY <2>5, LenProperties
  <2>7. FoundBefore(stack[1].next) = FoundBefore(Len(tables[0]) + 1)
    BY <2>3, <2>4, <2>6 DEF FoundBefore
  <2>. QED BY <2>2, <2>3, <2>7 DEF Parts!Return
<1>. QED BY <1>1, <1>2 DEF TablesInv

\* An entry without a partition on the device leaves what was found.
LEMMA SkipKeeps ==
  ASSUME Parts!PartitionAssumption, TablesInv, Parts!SkipEmpty
  PROVE  TablesInv'
<1>0. Parts!AtEntry("none") /\ stack' = Parts!Advanced /\ UNCHANGED <<tables, partNr, found, access>>
  BY DEF Parts!SkipEmpty
<1>a. ScanTypeOK /\ stack # <<>>
  BY <1>0 DEF TablesInv, Parts!AtEntry
<1>1. ScanTypeOK'
  BY <1>0, <1>a, OnTop DEF ScanTypeOK
<1>2. ScanInv'
  <2>1. SUFFICES ASSUME 0 \in DOMAIN tables, Parts!Used(0, "extended") = {}
                 PROVE  Len(stack') = 1 /\ stack'[1].sector = 0 /\ Parts!Found = FoundBefore(stack'[1].next)
    BY <1>0 DEF ScanInv, Parts!Found, FoundBefore, Parts!Used
  <2>2. Len(stack) = 1 /\ stack[1].sector = 0 /\ Parts!Found = FoundBefore(stack[1].next)
    BY <2>1, <1>a DEF TablesInv, ScanInv
  <2>3. /\ Parts!Top = stack[1] /\ Len(Parts!Advanced) = 1 /\ Parts!Advanced[1] = [Parts!Top EXCEPT !.next = @ + 1]
        /\ Parts!Top \in [sector : Nat, primary : Nat, next : Nat \ {0}]
    BY <2>2, <1>a, OnTop
  <2>4. Parts!Entry = tables[0][Parts!Top.next] /\ Parts!Top.next \in DOMAIN tables[0] /\ tables[0] \in Seq(Parts!EntryType)
        /\ (Parts!Entry.size = 0 \/ Parts!Entry.type = "none")
    BY <1>0, <1>a, AtEntryIs
  <2>5. FoundBefore(Parts!Top.next + 1) = FoundBefore(Parts!Top.next)
    <3>1. ~(tables[0][Parts!Top.next].type = "data" /\ tables[0][Parts!Top.next].size > 0)
      BY <2>4
    <3>2. Parts!Top.next \in Nat
      BY <2>3
    <3>. QED BY <3>1, <3>2, <2>4, FoundNext
  <2>6. stack'[1].sector = 0 /\ stack'[1].next = Parts!Top.next + 1
    BY <1>0, <2>2, <2>3
  <2>. QED BY <1>0, <2>2, <2>3, <2>5, <2>6
<1>. QED BY <1>1, <1>2 DEF TablesInv

LEMMA ExtendedKeeps ==
  ASSUME Parts!PartitionAssumption, TablesInv, Parts!FollowExtended
  PROVE  TablesInv'
<1>. DEFINE ScanCalls == [sector : Nat, primary : Nat, next : Nat \ {0}]
<1>0. Parts!AtEntry("extended") /\ UNCHANGED <<tables, partNr, found, access>>
  BY DEF Parts!FollowExtended
<1>a. ScanTypeOK /\ stack # <<>>
  BY <1>0 DEF TablesInv, Parts!AtEntry
<1>1. /\ 0 \in DOMAIN tables /\ Parts!Top.next \in DOMAIN tables[0] /\ Parts!Entry = tables[0][Parts!Top.next]
      /\ Parts!Entry \in Parts!EntryType /\ Parts!Entry.type = "extended" /\ Parts!Entry.size > 0
  <2>1. 0 \in DOMAIN tables /\ Parts!Top.next \in DOMAIN tables[0] /\ Parts!Entry = tables[0][Parts!Top.next]
        /\ Parts!Entry \in Parts!EntryType /\ "extended" = IF Parts!Entry.size = 0 THEN "none" ELSE Parts!Entry.type
    BY <1>0, <1>a, AtEntryIs
  <2>. QED BY <2>1 DEF Parts!EntryType
<1>2. Parts!Used(0, "extended") # {}
  BY <1>1 DEF Parts!Used
<1>3. stack' \in Seq(ScanCalls)
  <2>1. Parts!Top \in ScanCalls /\ Parts!Advanced \in Seq(ScanCalls)
    BY <1>a, OnTop
  <2>2. (Parts!Entry.offset + Parts!Top.primary) % Wrap \in Nat /\ Parts!Entry.offset \in Nat
    BY <1>1, <2>1 DEF Parts!EntryType, Parts!PartitionAssumption
  <2>3. Parts!Call(Parts!Entry.offset, Parts!Entry.offset) \in ScanCalls
        /\ Parts!Call((Parts!Entry.offset + Parts!Top.primary) % Wrap, Parts!Top.primary) \in ScanCalls
    BY <2>1, <2>2 DEF Parts!Call
  <2>4. PICK c \in ScanCalls : stack' = Append(Parts!Advanced, c)
    BY <2>3 DEF Parts!FollowExtended
  <2>. QED BY <2>1, <2>4, AppendProperties
<1>4. ScanTypeOK'
  BY <1>0, <1>a, <1>3 DEF ScanTypeOK
<1>. QED BY <1>0, <1>2, <1>4 DEF TablesInv, ScanInv, Parts!Used

LEMMA FoundKeeps ==
  ASSUME Parts!PartitionAssumption, TablesInv, Parts!FoundPartition
  PROVE  TablesInv'
<1>. DEFINE start == (Parts!Entry.offset + Parts!Top.sector) % Wrap
            p == [nr |-> partNr + 1, start |-> start, size |-> Parts!Entry.size]
<1>0. /\ Parts!AtEntry("data") /\ partNr' = partNr + 1 /\ stack' = Parts!Advanced /\ UNCHANGED <<tables, access>>
      /\ found' = IF ~Parts!Fits(start, Parts!Entry.size) THEN found ELSE Append(found, p)
  BY DEF Parts!FoundPartition
<1>a. ScanTypeOK /\ stack # <<>>
  BY <1>0 DEF TablesInv, Parts!AtEntry
<1>1. /\ 0 \in DOMAIN tables /\ Parts!Top.next \in DOMAIN tables[0] /\ Parts!Entry = tables[0][Parts!Top.next]
      /\ Parts!Entry \in Parts!EntryType /\ Parts!Entry.type = "data" /\ Parts!Entry.size > 0 /\ tables[0] \in Seq(Parts!EntryType)
  <2>1. 0 \in DOMAIN tables /\ Parts!Top.next \in DOMAIN tables[0] /\ Parts!Entry = tables[0][Parts!Top.next]
        /\ tables[0] \in Seq(Parts!EntryType)
        /\ Parts!Entry \in Parts!EntryType /\ "data" = IF Parts!Entry.size = 0 THEN "none" ELSE Parts!Entry.type
    BY <1>0, <1>a, AtEntryIs
  <2>. QED BY <2>1 DEF Parts!EntryType
<1>2. Parts!Top \in [sector : Nat, primary : Nat, next : Nat \ {0}] /\ Parts!Advanced \in Seq([sector : Nat, primary : Nat, next : Nat \ {0}])
  BY <1>a, OnTop
<1>3. start \in 0..Wrap - 1 /\ Parts!Entry.offset \in 0..Wrap - 1 /\ Parts!Entry.size \in 0..Wrap - 1
  <2>1. Parts!Entry.offset \in 0..Wrap - 1 /\ Parts!Entry.size \in 0..Wrap - 1
    BY <1>1 DEF Parts!EntryType
  <2>2. Parts!Top.sector \in Nat /\ Wrap \in Nat /\ Wrap > 0
    BY <1>2, <2>1 DEF Parts!PartitionAssumption
  <2>3. PICK n \in Nat : n = Parts!Entry.offset + Parts!Top.sector
    BY <2>1, <2>2
  <2>4. n % Wrap \in 0..Wrap - 1
    BY <2>2
  <2>. QED BY <2>1, <2>3, <2>4
<1>. HIDE DEF start
<1>4. Parts!Fits(start, Parts!Entry.size) <=> start + Parts!Entry.size <= Size
  <2>1. Parts!Fits(start, Parts!Entry.size) <=> start < Size /\ start + Parts!Entry.size <= Size
    BY <1>3, FitsInNumbers
  <2>. QED BY <2>1, <1>1, <1>3 DEF Parts!PartitionAssumption
<1>5. p \in [nr : Nat, start : Nat, size : Nat]
  BY <1>3, <1>a DEF ScanTypeOK
<1>6. /\ found \in Seq([nr : Nat, start : Nat, size : Nat])
      /\ Append(found, p) \in Seq([nr : Nat, start : Nat, size : Nat])
      /\ DOMAIN found = 1..Len(found) /\ Len(found) \in Nat
      /\ DOMAIN Append(found, p) = 1..Len(found) + 1
      /\ \A i \in 1..Len(found) : Append(found, p)[i] = found[i]
      /\ Append(found, p)[Len(found) + 1] = p
  <2>1. found \in Seq([nr : Nat, start : Nat, size : Nat])
    BY <1>a DEF ScanTypeOK
  <2>2. DOMAIN found = 1..Len(found) /\ Len(found) \in Nat
    BY <2>1, LenProperties
  <2>. HIDE DEF p
  <2>3. /\ Append(found, p) \in Seq([nr : Nat, start : Nat, size : Nat])
        /\ Len(Append(found, p)) = Len(found) + 1
        /\ \A i \in 1..Len(found) : Append(found, p)[i] = found[i]
        /\ Append(found, p)[Len(found) + 1] = p
    BY <2>1, <1>5, AppendProperties
  <2>4. DOMAIN Append(found, p) = 1..Len(Append(found, p))
    BY <2>3, LenProperties
  <2>. QED BY <2>1, <2>2, <2>3, <2>4
<1>7. \A i \in DOMAIN found' : found'[i].start + found'[i].size <= Size
  <2>1. \A i \in DOMAIN found : found[i].start + found[i].size <= Size
    BY <1>a DEF ScanTypeOK
  <2>2. CASE ~Parts!Fits(start, Parts!Entry.size)
    BY <2>1, <2>2, <1>0
  <2>3. CASE Parts!Fits(start, Parts!Entry.size)
    <3>1. p.start + p.size <= Size
      BY <2>3, <1>4
    <3>2. found' = Append(found, p)
      BY <2>3, <1>0
    <3>3. SUFFICES ASSUME NEW i \in DOMAIN Append(found, p)
                   PROVE  Append(found, p)[i].start + Append(found, p)[i].size <= Size
      BY <3>2
    <3>. HIDE DEF p
    <3>4. i \in 1..Len(found) \/ i = Len(found) + 1
      BY <1>6
    <3>5. CASE i \in 1..Len(found)
      BY <3>5, <2>1, <1>6
    <3>6. CASE i = Len(found) + 1
      BY <3>6, <3>1, <1>6
    <3>. QED BY <3>4, <3>5, <3>6
  <2>. QED BY <2>2, <2>3
<1>8. ScanTypeOK'
  <2>1. found' \in Seq([nr : Nat, start : Nat, size : Nat])
    BY <1>0, <1>6
  <2>2. partNr' \in Nat /\ tables' \in Disks /\ access' = access
        /\ stack' \in Seq([sector : Nat, primary : Nat, next : Nat \ {0}])
    BY <1>0, <1>2, <1>a DEF ScanTypeOK
  <2>. QED BY <2>1, <2>2, <1>7, <1>a DEF ScanTypeOK
<1>9. ScanInv'
  <2>1. SUFFICES ASSUME 0 \in DOMAIN tables, Parts!Used(0, "extended") = {}
                 PROVE  Len(stack') = 1 /\ stack'[1].sector = 0 /\ Parts!Found' = FoundBefore(stack'[1].next)
    BY <1>0 DEF ScanInv, FoundBefore, Parts!Used
  <2>2. Len(stack) = 1 /\ stack[1].sector = 0 /\ Parts!Found = FoundBefore(stack[1].next)
    BY <2>1, <1>a DEF TablesInv, ScanInv
  <2>3. Parts!Top = stack[1] /\ Len(Parts!Advanced) = 1 /\ Parts!Advanced[1] = [Parts!Top EXCEPT !.next = @ + 1]
    BY <2>2, <1>a, OnTop
  <2>4. stack'[1].sector = 0 /\ stack'[1].next = Parts!Top.next + 1 /\ Len(stack') = 1
    BY <1>0, <1>2, <2>2, <2>3
  <2>5. start = Parts!Entry.offset
    <3>1. Parts!Top.sector = 0
      BY <2>2, <2>3
    <3>2. Parts!Entry.offset + 0 = Parts!Entry.offset /\ Parts!Entry.offset % Wrap = Parts!Entry.offset
      BY <1>3 DEF Parts!PartitionAssumption
    <3>. QED BY <3>1, <3>2 DEF start
  <2>6. Parts!Found' = IF start + Parts!Entry.size <= Size
                 THEN Parts!Found \cup {[start |-> start, size |-> Parts!Entry.size]} ELSE Parts!Found
    <3>1. CASE ~Parts!Fits(start, Parts!Entry.size)
      BY <3>1, <1>0, <1>4 DEF Parts!Found
    <3>2. CASE Parts!Fits(start, Parts!Entry.size)
      <4>1. found' = Append(found, p)
        BY <3>2, <1>0
      <4>2. p.start = start /\ p.size = Parts!Entry.size
        OBVIOUS
      <4>. HIDE DEF p
      <4>3. Parts!Found' = {[start |-> Append(found, p)[i].start, size |-> Append(found, p)[i].size] : i \in 1..Len(found) + 1}
        BY <4>1, <1>6 DEF Parts!Found
      <4>4. Parts!Found = {[start |-> found[i].start, size |-> found[i].size] : i \in 1..Len(found)}
        BY <1>6 DEF Parts!Found
      <4>5. 1..Len(found) + 1 = 1..Len(found) \cup {Len(found) + 1}
        BY <1>6
      <4>6. Parts!Found' = Parts!Found \cup {[start |-> start, size |-> Parts!Entry.size]}
        BY <4>2, <4>3, <4>4, <4>5, <1>6
      <4>. QED BY <4>6, <3>2, <1>4
    <3>. QED BY <3>1, <3>2
  <2>7. FoundBefore(Parts!Top.next + 1) =
          IF Parts!Entry.offset + Parts!Entry.size <= Size
          THEN FoundBefore(Parts!Top.next) \cup {[start |-> Parts!Entry.offset, size |-> Parts!Entry.size]}
          ELSE FoundBefore(Parts!Top.next)
    BY <1>1, <1>2, FoundNext
  <2>. QED BY <2>2, <2>3, <2>4, <2>5, <2>6, <2>7
<1>. QED BY <1>8, <1>9 DEF TablesInv

LEMMA SameScan ==
  ASSUME ScanInv, UNCHANGED <<tables, stack, found>>
  PROVE  ScanInv'
<1>1. Parts!Found' = Parts!Found /\ \A n \in Nat : FoundBefore(n)' = FoundBefore(n)
  BY DEF Parts!Found, FoundBefore
<1>2. Parts!Used(0, "extended")' = Parts!Used(0, "extended")
  BY DEF Parts!Used
<1>3. FoundBefore(Len(tables[0]) + 1)' = FoundBefore(Len(tables[0]) + 1)
  BY DEF FoundBefore
<1>4. FoundBefore(stack[1].next)' = FoundBefore(stack[1].next)
  BY DEF FoundBefore
<1>. QED BY <1>1, <1>2, <1>3, <1>4 DEF ScanInv

LEMMA AccessKeeps ==
  ASSUME Parts!PartitionAssumption, TablesInv, NEW i \in 1..Len(found), NEW sector \in 0..found[i].size - 1,
         Parts!Access(found[i], sector)
  PROVE  TablesInv'
<1>1. found[i] \in [nr : Nat, start : Nat, size : Nat] /\ i \in DOMAIN found
  BY ElementOfSeq, LenProperties DEF TablesInv, ScanTypeOK
<1>2. found[i].start + found[i].size <= Size
  BY <1>1 DEF TablesInv, ScanTypeOK
<1>3. found[i].start + sector \in 0..Wrap - 1 /\ found[i].start + sector < Size
  BY <1>1, <1>2 DEF Parts!PartitionAssumption
<1>4. (found[i].start + sector) % Wrap < Size
  BY <1>3, SMT DEF Parts!PartitionAssumption
<1>5. \A a \in access' : a.sector < Size
  BY <1>4 DEF Parts!Access
<1>6. UNCHANGED <<tables, stack, partNr, found>>
  BY DEF Parts!Access
<1>7. ScanTypeOK'
  BY <1>5, <1>6 DEF TablesInv, ScanTypeOK
<1>8. ScanInv'
  BY <1>6, SameScan DEF TablesInv
<1>. QED BY <1>7, <1>8 DEF TablesInv

\* However offset and size add up, no access through a partition leaves the
\* device; and the scan of a disk without extended partitions finds those that
\* lie on the device, and no others.
THEOREM AccessesStayOnDevice == Parts!PartitionAssumption => (Parts!Spec => []Parts!AccessOnDevice)
<1>1. SUFFICES ASSUME Parts!PartitionAssumption PROVE Parts!Spec => []Parts!AccessOnDevice
  OBVIOUS
<1>2. Parts!Init => TablesInv
  <2>1. SUFFICES ASSUME Parts!Init PROVE TablesInv
    OBVIOUS
  <2>2. ScanTypeOK
    BY <1>1, <2>1 DEF Parts!Init, ScanTypeOK, Parts!Call, Parts!PartitionAssumption
  <2>3. ASSUME 0 \in DOMAIN tables PROVE Parts!Found = FoundBefore(1)
    <3>1. Parts!Found = {}
      BY <2>1 DEF Parts!Init, Parts!Found
    <3>2. DOMAIN tables[0] \subseteq Nat \ {0}
      BY <1>1, <2>2, <2>3, LenProperties DEF ScanTypeOK, Parts!PartitionAssumption
    <3>3. FoundBefore(1) = {}
      BY <3>2 DEF FoundBefore
    <3>. QED BY <3>1, <3>3
  <2>4. Len(stack) = 1 /\ stack[1].sector = 0 /\ stack[1].next = 1
    BY <2>1 DEF Parts!Init, Parts!Call
  <2>. QED BY <2>2, <2>3, <2>4 DEF TablesInv, ScanInv
<1>3. TablesInv /\ [Parts!Next]_(Parts!vars) => TablesInv'
  <2>1. SUFFICES ASSUME TablesInv, [Parts!Next]_(Parts!vars) PROVE TablesInv'
    OBVIOUS
  <2>2. CASE UNCHANGED Parts!vars
    <3>1. UNCHANGED <<tables, stack, partNr, found, access>>
      BY <2>2 DEF Parts!vars
    <3>2. ScanTypeOK'
      BY <2>1, <3>1 DEF TablesInv, ScanTypeOK
    <3>. QED BY <2>1, <3>1, <3>2, SameScan DEF TablesInv
  <2>3. CASE Parts!Next
    BY <1>1, <2>1, <2>3, EndKeeps, SkipKeeps, ExtendedKeeps, FoundKeeps, AccessKeeps DEF Parts!Next
  <2>. QED BY <2>1, <2>2, <2>3
<1>4. TablesInv => Parts!AccessOnDevice
  <2>1. SUFFICES ASSUME TablesInv, stack = <<>>, 0 \in DOMAIN tables, Parts!Used(0, "extended") = {}
                 PROVE  Parts!Found = {p \in Parts!PartitionsOf(0) : p.start + p.size <= Size}
    BY DEF TablesInv, ScanTypeOK, Parts!AccessOnDevice
  <2>2. Parts!Found = FoundBefore(Len(tables[0]) + 1)
    BY <2>1 DEF TablesInv, ScanInv
  <2>3. tables[0] \in Seq(Parts!EntryType)
    BY <1>1, <2>1 DEF Parts!PartitionAssumption, TablesInv, ScanTypeOK
  <2>4. /\ DOMAIN tables[0] = 1..Len(tables[0]) /\ Len(tables[0]) \in Nat
        /\ \A i \in DOMAIN tables[0] : tables[0][i] \in Parts!EntryType
    BY <2>3, LenProperties, ElementOfSeq
  <2>5. \A i \in DOMAIN tables[0] : 0 + tables[0][i].offset = tables[0][i].offset
    BY <2>4 DEF Parts!EntryType
  <2>6. Parts!PartitionsOf(0) = {[start |-> tables[0][i].offset, size |-> tables[0][i].size] :
          i \in {i \in DOMAIN tables[0] : tables[0][i].type = "data" /\ tables[0][i].size > 0}}
    BY <2>5 DEF Parts!PartitionsOf, Parts!Used
  <2>7. FoundBefore(Len(tables[0]) + 1) =
          {[start |-> tables[0][i].offset, size |-> tables[0][i].size] :
             i \in {i \in DOMAIN tables[0] :
                      /\ tables[0][i].type = "data" /\ tables[0][i].size > 0
                      /\ tables[0][i].offset + tables[0][i].size <= Size}}
    BY <2>4 DEF FoundBefore
  <2>. QED BY <2>2, <2>6, <2>7
<1>. QED BY <1>2, <1>3, <1>4, PTL DEF Parts!Spec

-------------------------------------------------------------------------------
(* The timer: a tick count of any width, any threads, delays and speeds.    *)
CONSTANTS
  WordValues, MaxTicks, TimerFreq, Scale, Speeds, FirstLoops, RefineBits, LoopWrap, Times,
  PitHz, PitMin, PitWrap
VARIABLES high, low, speed, loopsPerTick, phase, want, start, seen, began

Timer == INSTANCE Clock WITH Half <- WordValues, pc <- phase

\* A thread that is out has nothing left over; one that sleeps has read the
\* count after it began, and what it has read of it half is still true.
ClockInv ==
  /\ high \in Nat /\ low \in 0..WordValues - 1
  /\ phase \in [Thread -> {"out", "sleep", "half", "test", "woken"}]
  /\ want \in [Thread -> Nat] /\ seen \in [Thread -> Nat] /\ began \in [Thread -> Nat]
  /\ start \in [Thread -> Nat \cup {Timer!NoTime}]
  /\ \A t \in Thread :
       /\ began[t] <= Timer!ticks
       /\ phase[t] = "out" => start[t] = Timer!NoTime
       /\ start[t] # Timer!NoTime => start[t] >= began[t]
       /\ phase[t] = "half" => seen[t] = low
       /\ phase[t] = "test" => began[t] <= seen[t] /\ seen[t] <= Timer!ticks
       /\ phase[t] = "woken" => want[t] <= Timer!ticks - began[t]

\* The count is a number, and the handler's carry makes it the next one.
LEMMA TicksType ==
  ASSUME Timer!ClockAssumption, high \in Nat, low \in 0..WordValues - 1
  PROVE  Timer!ticks \in Nat /\ Timer!ticks = high * WordValues + low
<1>1. WordValues \in Nat /\ high * WordValues \in Nat
  BY DEF Timer!ClockAssumption
<1>. QED BY <1>1 DEF Timer!ticks

LEMMA TickIs ==
  ASSUME Timer!ClockAssumption, high \in Nat, low \in 0..WordValues - 1, Timer!Tick
  PROVE  high' \in Nat /\ low' \in 0..WordValues - 1 /\ Timer!ticks' = Timer!ticks + 1
<1>1. WordValues \in Nat \ {0} /\ high * WordValues \in Nat
  BY DEF Timer!ClockAssumption
<1>2. low' = (low + 1) % WordValues /\ high' = IF low' = 0 THEN high + 1 ELSE high
  BY DEF Timer!Tick
<1>3. CASE low + 1 < WordValues
  <2>1. low' = low + 1 /\ high' = high
    BY <1>1, <1>2, <1>3
  <2>. QED BY <2>1, <1>1, <1>3 DEF Timer!ticks
<1>4. CASE low + 1 = WordValues
  <2>1. WordValues % WordValues = 0
    BY <1>1
  <2>2. low' = 0 /\ high' = high + 1
    BY <1>2, <1>4, <2>1
  <2>3. (high + 1) * WordValues = high * WordValues + WordValues
    BY <1>1
  <2>. QED BY <2>2, <2>3, <1>1, <1>4 DEF Timer!ticks
<1>. QED BY <1>1, <1>3, <1>4

\* Steps that leave the count alone keep what is said of the other threads.
LEMMA SameTicks ==
  ASSUME UNCHANGED <<high, low>>
  PROVE  Timer!ticks' = Timer!ticks
BY DEF Timer!ticks

LEMMA TickKeeps ==
  ASSUME Timer!ClockAssumption, ClockInv, Timer!Tick
  PROVE  ClockInv'
<1>1. Timer!ticks \in Nat /\ Timer!ticks' = Timer!ticks + 1 /\ high' \in Nat /\ low' \in 0..WordValues - 1
  BY TicksType, TickIs DEF ClockInv
<1>2. UNCHANGED <<phase, want, start, seen, began>> /\ \A t \in Thread : phase[t] # "half"
  BY DEF Timer!Tick, Timer!InterruptsOn
<1>3. ASSUME NEW t \in Thread
      PROVE  /\ began[t] <= Timer!ticks'
             /\ phase[t] = "test" => began[t] <= seen[t] /\ seen[t] <= Timer!ticks'
             /\ phase[t] = "woken" => want[t] <= Timer!ticks' - began[t]
  <2>1. began[t] \in Nat /\ seen[t] \in Nat /\ want[t] \in Nat
    BY DEF ClockInv
  <2>. QED BY <2>1, <1>1 DEF ClockInv
<1>. QED BY <1>1, <1>2, <1>3 DEF ClockInv

LEMMA SleepKeeps ==
  ASSUME Timer!ClockAssumption, ClockInv, NEW t \in Thread, NEW d \in Times, Timer!Sleep(t, d[1], d[2])
  PROVE  ClockInv'
<1>. DEFINE n == (d[1] * TimerFreq) \div d[2]
<1>1. /\ n > 0 /\ phase[t] = "out" /\ UNCHANGED <<high, low, start, seen>>
      /\ phase' = [phase EXCEPT ![t] = "sleep"] /\ want' = [want EXCEPT ![t] = n]
      /\ began' = [began EXCEPT ![t] = Timer!ticks]
  BY DEF Timer!Sleep
<1>2. n \in Nat
  <2>1. d[1] \in Nat /\ d[2] \in Nat \ {0} /\ TimerFreq \in Nat
    BY DEF Timer!ClockAssumption
  <2>2. d[1] * TimerFreq \in Nat
    BY <2>1
  <2>. QED BY <2>1, <2>2
<1>. HIDE DEF n
<1>3. Timer!ticks \in Nat /\ Timer!ticks' = Timer!ticks
  BY <1>1, TicksType, SameTicks DEF ClockInv
<1>4. /\ phase' \in [Thread -> {"out", "sleep", "half", "test", "woken"}]
      /\ want' \in [Thread -> Nat] /\ began' \in [Thread -> Nat]
  BY <1>1, <1>2, <1>3 DEF ClockInv
<1>5. ASSUME NEW u \in Thread
      PROVE  /\ began'[u] <= Timer!ticks /\ phase'[u] = "out" => start[u] = Timer!NoTime
             /\ start[u] # Timer!NoTime => start[u] >= began'[u]
             /\ phase'[u] = "half" => seen[u] = low
             /\ phase'[u] = "test" => began'[u] <= seen[u] /\ seen[u] <= Timer!ticks
             /\ phase'[u] = "woken" => want'[u] <= Timer!ticks - began'[u]
  <2>1. CASE u = t
    BY <2>1, <1>1, <1>3 DEF ClockInv
  <2>2. CASE u # t
    <3>1. phase'[u] = phase[u] /\ want'[u] = want[u] /\ began'[u] = began[u]
      BY <2>2, <1>1 DEF ClockInv
    <3>. QED BY <3>1 DEF ClockInv
  <2>. QED BY <2>1, <2>2
<1>. QED BY <1>1, <1>3, <1>4, <1>5 DEF ClockInv

LEMMA LoadLowKeeps ==
  ASSUME Timer!ClockAssumption, ClockInv, NEW t \in Thread, Timer!LoadLow(t)
  PROVE  ClockInv'
<1>1. /\ phase[t] = "sleep" /\ UNCHANGED <<high, low, want, start, began>>
      /\ phase' = [phase EXCEPT ![t] = "half"] /\ seen' = [seen EXCEPT ![t] = low]
  BY DEF Timer!LoadLow
<1>3. Timer!ticks' = Timer!ticks
  BY <1>1, SameTicks
<1>4. /\ phase' \in [Thread -> {"out", "sleep", "half", "test", "woken"}] /\ seen' \in [Thread -> Nat]
  BY <1>1 DEF ClockInv, Timer!ClockAssumption
<1>5. ASSUME NEW u \in Thread
      PROVE  /\ phase'[u] = "out" => start[u] = Timer!NoTime
             /\ phase'[u] = "half" => seen'[u] = low
             /\ phase'[u] = "test" => began[u] <= seen'[u] /\ seen'[u] <= Timer!ticks
             /\ phase'[u] = "woken" => want[u] <= Timer!ticks - began[u]
  BY <1>1 DEF ClockInv
<1>. QED BY <1>1, <1>3, <1>4, <1>5 DEF ClockInv

\* The second load completes the count of this moment.
LEMMA LoadHighKeeps ==
  ASSUME Timer!ClockAssumption, ClockInv, NEW t \in Thread, Timer!LoadHigh(t)
  PROVE  ClockInv'
<1>1. /\ phase[t] = "half" /\ UNCHANGED <<high, low, want, start, began>>
      /\ phase' = [phase EXCEPT ![t] = "test"] /\ seen' = [seen EXCEPT ![t] = high * WordValues + @]
  BY DEF Timer!LoadHigh, ClockInv
<1>2. Timer!ticks \in Nat /\ Timer!ticks' = Timer!ticks /\ Timer!ticks = high * WordValues + seen[t]
  BY <1>1, SameTicks, TicksType DEF ClockInv
<1>3. seen' = [seen EXCEPT ![t] = Timer!ticks]
  BY <1>1, <1>2
<1>4. /\ phase' \in [Thread -> {"out", "sleep", "half", "test", "woken"}] /\ seen' \in [Thread -> Nat]
  BY <1>1, <1>2, <1>3 DEF ClockInv
<1>5. ASSUME NEW u \in Thread
      PROVE  /\ phase'[u] = "out" => start[u] = Timer!NoTime
             /\ phase'[u] = "half" => seen'[u] = low
             /\ phase'[u] = "test" => began[u] <= seen'[u] /\ seen'[u] <= Timer!ticks
             /\ phase'[u] = "woken" => want[u] <= Timer!ticks - began[u]
  BY <1>1, <1>2, <1>3 DEF ClockInv
<1>. QED BY <1>1, <1>2, <1>4, <1>5 DEF ClockInv

\* A sleep is over when what was read is far enough from its start, which is no
\* earlier than its beginning.
LEMMA TestKeeps ==
  ASSUME Timer!ClockAssumption, ClockInv, NEW t \in Thread, Timer!Test(t)
  PROVE  ClockInv'
<1>. DEFINE from == IF start[t] = Timer!NoTime THEN seen[t] ELSE start[t]
            over == start[t] # Timer!NoTime /\ seen[t] - from >= want[t]
<1>1. /\ phase[t] = "test" /\ UNCHANGED <<high, low, want, seen, began>>
      /\ start' = [start EXCEPT ![t] = from]
      /\ phase' = [phase EXCEPT ![t] = IF over THEN "woken" ELSE "sleep"]
  BY DEF Timer!Test
<1>2. Timer!ticks \in Nat /\ Timer!ticks' = Timer!ticks
  BY <1>1, SameTicks, TicksType DEF ClockInv
<1>3. /\ seen[t] \in Nat /\ began[t] \in Nat /\ want[t] \in Nat /\ began[t] <= seen[t] /\ seen[t] <= Timer!ticks
      /\ start[t] \in Nat \cup {Timer!NoTime}
  BY <1>1 DEF ClockInv
<1>4. from \in Nat /\ from >= began[t]
  BY <1>3 DEF ClockInv
<1>5. over => want[t] <= Timer!ticks - began[t]
  <2>1. SUFFICES ASSUME seen[t] - from >= want[t] PROVE want[t] <= Timer!ticks - began[t]
    OBVIOUS
  <2>. HIDE DEF from
  <2>. QED BY <2>1, <1>2, <1>3, <1>4
<1>. HIDE DEF from, over
<1>6. start' \in [Thread -> Nat \cup {Timer!NoTime}] /\ phase' \in [Thread -> {"out", "sleep", "half", "test", "woken"}]
  BY <1>1, <1>4 DEF ClockInv
<1>7. ASSUME NEW u \in Thread
      PROVE  /\ phase'[u] = "out" => start'[u] = Timer!NoTime
             /\ start'[u] # Timer!NoTime => start'[u] >= began[u]
             /\ phase'[u] = "half" => seen[u] = low
             /\ phase'[u] = "test" => began[u] <= seen[u] /\ seen[u] <= Timer!ticks
             /\ phase'[u] = "woken" => want[u] <= Timer!ticks - began[u]
  <2>1. CASE u = t
    <3>1. start'[t] = from /\ phase'[t] = IF over THEN "woken" ELSE "sleep"
      BY <1>1 DEF ClockInv
    <3>. QED BY <2>1, <3>1, <1>4, <1>5
  <2>2. CASE u # t
    <3>1. start'[u] = start[u] /\ phase'[u] = phase[u]
      BY <2>2, <1>1 DEF ClockInv
    <3>. QED BY <3>1 DEF ClockInv
  <2>. QED BY <2>1, <2>2
<1>. QED BY <1>1, <1>2, <1>6, <1>7 DEF ClockInv

LEMMA WakeKeeps ==
  ASSUME Timer!ClockAssumption, ClockInv, NEW t \in Thread, Timer!Return(t)
  PROVE  ClockInv'
<1>1. /\ UNCHANGED <<high, low>> /\ phase' = [phase EXCEPT ![t] = "out"]
      /\ want' = [want EXCEPT ![t] = 0] /\ start' = [start EXCEPT ![t] = Timer!NoTime]
      /\ seen' = [seen EXCEPT ![t] = 0] /\ began' = [began EXCEPT ![t] = 0]
  BY DEF Timer!Return
<1>2. Timer!ticks \in Nat /\ Timer!ticks' = Timer!ticks
  BY <1>1, SameTicks, TicksType DEF ClockInv
<1>3. /\ phase' \in [Thread -> {"out", "sleep", "half", "test", "woken"}]
      /\ want' \in [Thread -> Nat] /\ seen' \in [Thread -> Nat] /\ began' \in [Thread -> Nat]
      /\ start' \in [Thread -> Nat \cup {Timer!NoTime}]
  BY <1>1 DEF ClockInv
<1>4. ASSUME NEW u \in Thread
      PROVE  /\ began'[u] <= Timer!ticks
             /\ phase'[u] = "out" => start'[u] = Timer!NoTime
             /\ start'[u] # Timer!NoTime => start'[u] >= began'[u]
             /\ phase'[u] = "half" => seen'[u] = low
             /\ phase'[u] = "test" => began'[u] <= seen'[u] /\ seen'[u] <= Timer!ticks
             /\ phase'[u] = "woken" => want'[u] <= Timer!ticks - began'[u]
  <2>1. CASE u = t
    BY <2>1, <1>1, <1>2 DEF ClockInv
  <2>2. CASE u # t
    <3>1. /\ start'[u] = start[u] /\ phase'[u] = phase[u] /\ want'[u] = want[u]
          /\ seen'[u] = seen[u] /\ began'[u] = began[u]
      BY <2>2, <1>1 DEF ClockInv
    <3>. QED BY <3>1 DEF ClockInv
  <2>. QED BY <2>1, <2>2
<1>. QED BY <1>1, <1>2, <1>3, <1>4 DEF ClockInv

\* However the two loads of the tick count, the handler's carry and the yields
\* of other threads fall, no thread wakes before the ticks it asked for.
THEOREM SleepersWakeInTime == Timer!ClockAssumption => (Timer!Spec => []Timer!WakesInTime)
<1>1. SUFFICES ASSUME Timer!ClockAssumption PROVE Timer!Spec => []Timer!WakesInTime
  OBVIOUS
<1>2. Timer!Init => ClockInv
  <2>1. SUFFICES ASSUME Timer!Init PROVE ClockInv
    OBVIOUS
  <2>2. high \in Nat /\ low \in 0..WordValues - 1 /\ Timer!ticks = 0
    BY <1>1, <2>1 DEF Timer!Init, Timer!ClockAssumption, Timer!ticks
  <2>. QED BY <2>1, <2>2 DEF Timer!Init, ClockInv
<1>3. ClockInv /\ [Timer!Next]_(Timer!vars) => ClockInv'
  <2>1. SUFFICES ASSUME ClockInv, [Timer!Next]_(Timer!vars) PROVE ClockInv'
    OBVIOUS
  <2>2. CASE Timer!Calibrate \/ UNCHANGED Timer!vars
    <3>1. UNCHANGED <<high, low, phase, want, start, seen, began>>
      BY <2>2 DEF Timer!Calibrate, Timer!vars
    <3>. QED BY <2>1, <3>1, SameTicks DEF ClockInv
  <2>3. CASE Timer!Tick
    BY <1>1, <2>1, <2>3, TickKeeps
  <2>4. CASE \E t \in Thread : Timer!Step(t) \/ \E d \in Times : Timer!Sleep(t, d[1], d[2])
    BY <1>1, <2>1, <2>4, SleepKeeps, LoadLowKeeps, LoadHighKeeps, TestKeeps, WakeKeeps DEF Timer!Step
  <2>. QED BY <2>1, <2>2, <2>3, <2>4 DEF Timer!Next
<1>4. ClockInv => Timer!WakesInTime
  <2>1. SUFFICES ASSUME ClockInv, NEW t \in Thread, phase[t] = "woken" PROVE Timer!ticks - began[t] >= want[t]
    BY DEF Timer!WakesInTime
  <2>2. Timer!ticks \in Nat /\ began[t] \in Nat /\ want[t] \in Nat /\ want[t] <= Timer!ticks - began[t]
    BY <1>1, <2>1, TicksType DEF ClockInv
  <2>. QED BY <2>2
<1>. QED BY <1>2, <1>3, <1>4, PTL DEF Timer!Spec

\* Quotient and rest.
LEMMA Divided ==
  ASSUME NEW a \in Nat, NEW b \in Nat \ {0}
  PROVE  \E q \in Nat, m \in 0..b - 1 : q = a \div b /\ m = a % b /\ a = q * b + m
<1>1. a \div b \in Nat /\ a % b \in 0..b - 1 /\ a = (a \div b) * b + (a % b)
  BY SMT
<1>. QED BY <1>1

\* Two roundings, of a by b and of q * f by m, lose little.
LEMMA TwoRoundings ==
  ASSUME NEW a \in Nat, NEW b \in Nat \ {0}, NEW f \in Nat \ {0}, NEW m \in Nat \ {0},
         NEW q \in Nat, NEW r \in 0..b - 1, a = q * b + r,
         NEW n \in Nat, NEW s \in 0..m - 1, q * f = n * m + s
  PROVE  n * (m * b) <= a * f /\ n * (m * b) > a * f - b * f - m * b
<1>1. a * f = (q * f) * b + r * f
  BY SMT
<1>2. (q * f) * b = (n * m) * b + s * b
  <2>1. (n * m + s) * b = (n * m) * b + s * b
    BY SMT
  <2>. QED BY <2>1
<1>3. n * (m * b) = (n * m) * b
  BY SMT
<1>4. r * f \in Nat /\ r * f <= b * f - f
  <2>1. r * f \in Nat /\ (b - 1) * f = b * f - f /\ r <= b - 1
    BY SMT
  <2>2. r * f <= (b - 1) * f
    BY <2>1, SMT
  <2>. QED BY <2>1, <2>2
<1>5. s * b \in Nat /\ s * b <= m * b - b
  <2>1. s * b \in Nat /\ (m - 1) * b = m * b - b /\ s <= m - 1
    BY SMT
  <2>2. s * b <= (m - 1) * b
    BY <2>1, SMT
  <2>. QED BY <2>1, <2>2
<1>6. /\ a * f \in Nat /\ b * f \in Nat /\ m * b \in Nat /\ (n * m) * b \in Nat /\ f \in Nat /\ f > 0
      /\ b \in Nat /\ b > 0
  BY SMT
<1>7. a * f = (n * m) * b + s * b + r * f
  BY <1>1, <1>2
<1>. HIDE <1>1, <1>2
<1>. QED BY <1>3, <1>4, <1>5, <1>6, <1>7

(* A delay scaled down before it can overflow is short by its rounding      *)
(* only, whatever the calibration came to.                                  *)
THEOREM DelaysAreRight == Timer!ClockAssumption /\ loopsPerTick \in Nat => Timer!DelayRight
<1>1. SUFFICES ASSUME Timer!ClockAssumption, loopsPerTick \in Nat, NEW d \in Times
               PROVE  /\ Timer!Loops(d[1], d[2]) * d[2] <= loopsPerTick * d[1] * TimerFreq
                      /\ Timer!Loops(d[1], d[2]) * d[2]
                           > loopsPerTick * d[1] * TimerFreq - Scale * TimerFreq - d[2]
  BY DEF Timer!DelayRight
<1>2. /\ d[1] \in Nat /\ d[2] \in Nat \ {0} /\ d[2] % Scale = 0
      /\ Scale \in Nat \ {0} /\ TimerFreq \in Nat \ {0}
  BY <1>1 DEF Timer!ClockAssumption
<1>3. PICK a \in Nat : a = loopsPerTick * d[1]
  BY <1>1, <1>2
<1>4. PICK m \in Nat \ {0} : m = d[2] \div Scale /\ d[2] = m * Scale
  <2>1. PICK q \in Nat, r \in 0..Scale - 1 : q = d[2] \div Scale /\ r = d[2] % Scale /\ d[2] = q * Scale + r
    BY <1>2, Divided
  <2>2. d[2] = q * Scale /\ q # 0
    BY <2>1, <1>2
  <2>. QED BY <2>1, <2>2
<1>5. PICK q \in Nat, r \in 0..Scale - 1 : q = a \div Scale /\ r = a % Scale /\ a = q * Scale + r
  BY <1>2, Divided
<1>6. PICK n \in Nat, s \in 0..m - 1 : n = (q * TimerFreq) \div m /\ q * TimerFreq = n * m + s
  <2>1. PICK b \in Nat : b = q * TimerFreq
    BY <1>2
  <2>2. \E n \in Nat, s \in 0..m - 1 : n = b \div m /\ s = b % m /\ b = n * m + s
    BY Divided
  <2>. QED BY <2>1, <2>2, Zenon
<1>7. Timer!Loops(d[1], d[2]) = n
  BY <1>3, <1>4, <1>5, <1>6 DEF Timer!Loops
<1>8. n * (m * Scale) <= a * TimerFreq /\ n * (m * Scale) > a * TimerFreq - Scale * TimerFreq - m * Scale
  BY <1>2, <1>5, <1>6, TwoRoundings
<1>9. /\ Timer!Loops(d[1], d[2]) * d[2] = n * (m * Scale)
      /\ loopsPerTick * d[1] * TimerFreq = a * TimerFreq
  BY <1>3, <1>4, <1>7, Zenon
<1>. QED BY <1>4, <1>8, <1>9, Zenon

(* The count of every frequency the timer can have is the nearest and fits  *)
(* its register.                                                            *)
THEOREM PitCountsAreNearest == Timer!ClockAssumption => Timer!PitRight
<1>1. SUFFICES ASSUME Timer!ClockAssumption, NEW f \in PitMin..PitHz
               PROVE  Timer!PitCount(f) \in 1..PitWrap - 1 /\ 2 * (Timer!PitCount(f) * f - PitHz) \in -f..f
  BY DEF Timer!PitRight
<1>2. /\ PitHz \in Nat \ {0} /\ PitMin \in Nat \ {0} /\ PitWrap \in Nat
      /\ PitHz + PitMin < PitMin * PitWrap /\ f \in Nat \ {0}
  BY <1>1 DEF Timer!ClockAssumption
<1>3. PICK h \in Nat, o \in 0..1 : h = f \div 2 /\ f = h * 2 + o
  BY <1>2, Divided
<1>4. PICK c \in Nat, s \in 0..f - 1 : c = (PitHz + h) \div f /\ PitHz + h = c * f + s
  BY <1>2, Divided
<1>5. Timer!PitCount(f) = c
  BY <1>1, <1>2, <1>3, <1>4 DEF Timer!PitCount
<1>6. c * f \in Nat
  BY <1>2, <1>4
<1>7. 2 * (c * f - PitHz) \in -f..f
  BY <1>2, <1>3, <1>4, <1>6
<1>8. c # 0
  BY <1>1, <1>2, <1>3, <1>4
<1>9. c < PitWrap
  <2>1. SUFFICES ASSUME c >= PitWrap PROVE FALSE
    BY <1>2, <1>4
  <2>2. PitWrap * f \in Nat /\ PitWrap * f <= c * f
    BY <2>1, <1>2, <1>4
  <2>3. (PitWrap - 1) * PitMin <= (PitWrap - 1) * f
    BY <1>1, <1>2
  <2>4. (PitWrap - 1) * PitMin = PitMin * PitWrap - PitMin /\ (PitWrap - 1) * f = PitWrap * f - f
    BY <1>2
  <2>5. PitMin * PitWrap \in Nat
    BY <1>2
  <2>. QED BY <2>2, <2>3, <2>4, <2>5, <1>2, <1>3, <1>4, <1>6
<1>. QED BY <1>2, <1>4, <1>5, <1>7, <1>8, <1>9
===============================================================================
