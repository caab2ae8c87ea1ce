---------------------------------- MODULE Ide ----------------------------------
(***************************************************************************)
(* devices/ide.c: one channel with two disks, its lock, the completion     *)
(* semaphore its interrupt handler ups, and programmed I/O.  The disks are *)
(* modelled from how the driver uses them: a command or a sector of data   *)
(* makes a disk busy, a disk that has data for the driver or has stored    *)
(* what it got raises the channel's interrupt, and reading the status      *)
(* register takes the interrupt back.  Spurious interrupts may come while  *)
(* one is expected, which the driver never stops to be.  Disks answer      *)
(* before the driver's time-outs.                                          *)
(***************************************************************************)
EXTENDS Naturals, FiniteSets

CONSTANTS
  Thread, NoThread, Disk, Sector, Data, Blank,
  MaxSpurious   \* bound: spurious interrupts

Place == Disk \X Sector
Call == [op : {"read"}, at : Place, data : {Blank}] \cup [op : {"write"}, at : Place, data : Data]
NoCall == [op |-> "none"]

\* What every instance must satisfy.
IdeAssumption == NoThread \notin Thread

VARIABLES
  owner,      \* the holder of the channel's lock
  expecting,  \* expecting_interrupt
  sema,       \* the value of completion_wait
  pc, call, got,  \* of each thread: where it is, what it called, what it read
  selected, target, \* the channel's registers: the disk, the sector
  state,      \* of each disk: idle, or what it is doing
  latch,      \* of each disk: the place and the data of its command
  media,      \* what is stored
  irq,        \* the interrupt line
  spurious    \* spurious interrupts so far

driver == <<owner, expecting, sema, pc, call, got>>
device == <<selected, target, state, latch, media, irq, spurious>>
vars == <<driver, device>>

NoLatch == [at |-> CHOOSE p \in Place : TRUE, data |-> Blank]

Init ==
  /\ owner = NoThread /\ expecting = FALSE /\ sema = 0
  /\ pc = [t \in Thread |-> "out"] /\ call = [t \in Thread |-> NoCall]
  /\ got = [t \in Thread |-> Blank]
  /\ selected \in Disk /\ target \in Sector
  /\ state = [d \in Disk |-> "idle"] /\ latch = [d \in Disk |-> NoLatch]
  /\ media = [p \in Place |-> Blank] /\ irq = FALSE /\ spurious = 0

Goto(t, from, to) == pc[t] = from /\ pc' = [pc EXCEPT ![t] = to]
Busy(d) == state[d] \in {"reading", "readying", "storing"}  \* STA_BSY
Drq(d) == state[d] \in {"hasData", "wantsData"}             \* STA_DRQ

\* block_read or block_write.
Begin(t, c) ==
  /\ Goto(t, "out", "lock")
  /\ call' = [call EXCEPT ![t] = c]
  /\ UNCHANGED <<owner, expecting, sema, got, device>>

\* lock_acquire.
Acquire(t) ==
  /\ owner = NoThread /\ owner' = t /\ Goto(t, "lock", "idle1")
  /\ UNCHANGED <<expecting, sema, call, got, device>>

\* Mutant: a disk that is busy is selected and commanded all the same.
WaitIdleNot(t) ==
  /\ Goto(t, "idle1", "select") \/ Goto(t, "idle2", "command")
  /\ irq' = FALSE
  /\ UNCHANGED <<owner, expecting, sema, call, got, selected, target, state, latch, media, spurious>>

\* wait_until_idle, before and after select_device: it reads the status
\* register of the selected disk, and with it takes an interrupt back.
WaitIdle(t) ==
  /\ Goto(t, "idle1", "select") \/ Goto(t, "idle2", "command")
  /\ ~Busy(selected) /\ ~Drq(selected)
  /\ irq' = FALSE
  /\ UNCHANGED <<owner, expecting, sema, call, got, selected, target, state, latch, media, spurious>>

\* It reads the register, and takes interrupts back, while it waits.
ReadStatus(t) ==
  /\ pc[t] \in {"idle1", "idle2"} /\ irq /\ irq' = FALSE
  /\ UNCHANGED <<driver, selected, target, state, latch, media, spurious>>

\* select_device.
Select(t) ==
  /\ Goto(t, "select", "idle2")
  /\ selected' = call[t].at[1]
  /\ UNCHANGED <<owner, expecting, sema, call, got, target, state, latch, media, irq, spurious>>

\* The rest of select_sector, and issue_pio_command; a disk that is busy takes
\* no command.
Issue(t) ==
  /\ Goto(t, "command", IF call[t].op = "read" THEN "down" ELSE "poll")
  /\ expecting' = TRUE
  /\ target' = call[t].at[2]
  /\ IF Busy(selected) THEN UNCHANGED <<state, latch>>
     ELSE /\ state' = [state EXCEPT ![selected] =
                         IF call[t].op = "read" THEN "reading" ELSE "readying"]
          /\ latch' = [latch EXCEPT ![selected] = [at |-> <<selected, target'>>, data |-> Blank]]
  /\ UNCHANGED <<owner, sema, call, got, selected, media, irq, spurious>>

\* sema_down of completion_wait: before the data of a read, after those of a
\* write.
Down(t) ==
  /\ sema > 0 /\ sema' = sema - 1
  /\ Goto(t, "down", IF call[t].op = "read" THEN "poll" ELSE "unlock")
  /\ UNCHANGED <<owner, expecting, call, got, device>>

\* Mutant: ide_read trusts the interrupt and does not wait.
PollNot(t) ==
  /\ Goto(t, "poll", "transfer")
  /\ UNCHANGED <<owner, expecting, sema, call, got, device>>

\* wait_while_busy reads the alternate status, which leaves interrupts alone,
\* until the disk is not busy; when it then wants no transfer the kernel panics.
Poll(t) ==
  /\ ~Busy(selected)
  /\ Goto(t, "poll", IF Drq(selected) THEN "transfer" ELSE "panicked")
  /\ UNCHANGED <<owner, expecting, sema, call, got, device>>

\* input_sector: the sector, or nothing if the disk has none to give.
Input(t) ==
  /\ call[t].op = "read" /\ Goto(t, "transfer", "unlock")
  /\ got' = [got EXCEPT ![t] = IF Drq(selected) THEN media[latch[selected].at] ELSE Blank]
  /\ state' = [state EXCEPT ![selected] = IF Drq(selected) THEN "idle" ELSE @]
  /\ UNCHANGED <<owner, expecting, sema, call, selected, target, latch, media, irq, spurious>>

\* output_sector.
Output(t) ==
  /\ call[t].op = "write" /\ Goto(t, "transfer", "down")
  /\ latch' = [latch EXCEPT ![selected].data = call[t].data]
  /\ state' = [state EXCEPT ![selected] = "storing"]
  /\ UNCHANGED <<owner, expecting, sema, call, got, selected, target, media, irq, spurious>>

\* lock_release, and the return.
Release(t) ==
  /\ Goto(t, "unlock", "out")
  /\ owner' = NoThread
  /\ call' = [call EXCEPT ![t] = NoCall] /\ got' = [got EXCEPT ![t] = Blank]
  /\ UNCHANGED <<expecting, sema, device>>

\* interrupt_handler: reads the status register, ups the semaphore.
Handler ==
  /\ irq /\ irq' = FALSE
  /\ sema' = IF expecting THEN sema + 1 ELSE sema
  /\ UNCHANGED <<owner, expecting, pc, call, got, selected, target, state, latch, media, spurious>>

\* The disk: it has the sector that was asked for, it wants the data of a write,
\* it has stored them.
DiskReads(d) ==
  /\ state[d] = "reading" /\ state' = [state EXCEPT ![d] = "hasData"] /\ irq' = TRUE
  /\ UNCHANGED <<driver, selected, target, latch, media, spurious>>
DiskReadies(d) ==
  /\ state[d] = "readying" /\ state' = [state EXCEPT ![d] = "wantsData"]
  /\ UNCHANGED <<driver, selected, target, latch, media, irq, spurious>>
DiskStores(d) ==
  /\ state[d] = "storing" /\ state' = [state EXCEPT ![d] = "idle"] /\ irq' = TRUE
  /\ media' = [media EXCEPT ![latch[d].at] = latch[d].data]
  /\ UNCHANGED <<driver, selected, target, latch, spurious>>

Spurious ==
  /\ spurious < MaxSpurious /\ spurious' = spurious + 1 /\ irq' = TRUE
  /\ UNCHANGED <<driver, selected, target, state, latch, media>>

Step(t) ==
  \/ Acquire(t) \/ WaitIdle(t) \/ ReadStatus(t) \/ Select(t) \/ Issue(t) \/ Down(t) \/ Poll(t)
  \/ Input(t) \/ Output(t) \/ Release(t)
DiskStep(d) == DiskReads(d) \/ DiskReadies(d) \/ DiskStores(d)

Next ==
  /\ \A t \in Thread : pc[t] # "panicked"
  /\ \/ \E t \in Thread : Step(t) \/ \E c \in Call : Begin(t, c)
     \/ \E d \in Disk : DiskStep(d)
     \/ Handler \/ Spurious

Spec == Init /\ [][Next]_vars
-------------------------------------------------------------------------------
TypeOK ==
  /\ owner \in Thread \cup {NoThread} /\ sema \in 0..Cardinality(Thread) + MaxSpurious
  /\ got \in [Thread -> Data \cup {Blank}] /\ media \in [Place -> Data \cup {Blank}]
  /\ \A d \in Disk : state[d] \in {"idle", "reading", "hasData", "readying", "wantsData", "storing"}

\* A sector that the disk has but has not stored counts as written.
Content ==
  [p \in Place |-> IF state[p[1]] = "storing" /\ latch[p[1]].at = p THEN latch[p[1]].data
                   ELSE media[p]]
CallOf(t) ==
  IF pc[t] = "out" THEN [op |-> "none"]
  ELSE IF pc[t] = "unlock" \/ (pc[t] = "down" /\ call[t].op = "write")
  THEN [op |-> "done", got |-> got[t]]
  ELSE IF call[t].op = "read" THEN [op |-> "read", at |-> call[t].at] ELSE call[t]

Abstract == INSTANCE AbstractDisk WITH content <- Content, call <- [t \in Thread |-> CallOf(t)]

\* Threads that share a channel see one disk each: what a read returns is what
\* the last write of that sector on that disk left, although interrupts may be
\* late, spurious, or belong to a command before.
ImplementsDisk == Abstract!Spec

\* A call that has the channel returns and the kernel does not panic: no interrupt
\* that a thread waits for is lost, for the status register is read only between
\* commands, and a write that a stray interrupt let go early has ended before the
\* next command.
CallReturns == \A t \in Thread : pc[t] = "idle1" ~> pc[t] = "out"
=============================================================================
