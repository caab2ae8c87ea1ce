------------------------------- MODULE MCDevices -------------------------------
(* Small instances of what lies under the file system side by side, of      *)
(* which a behaviour runs one: four threads on one lock, a holder, a        *)
(* sleeper, a woken one and a barger; the interrupt queue with two readers, *)
(* a writer and the handlers; the IDE channel with two threads, two disks   *)
(* and a stray interrupt; disks of eight sectors with partition tables; two *)
(* files in four sectors; the timer with two threads that sleep.            *)
EXTENDS Lock, Integers, TLC
CONSTANTS
  Parts,   \* the instances that run
  t1, t2, t3, t4, none, b1, b2, d1, d2, s1
Threads == {t1, t2, t3, t4}

VARIABLES
  part,
  buf, head, tail, waiter, owner, queue, place, got, \* of the queue
  lockOwner, expecting, sema, at, call, data,
  selected, target, state, latch, media, irq, spurious,  \* of the channel
  tables, stack, partNr, found, access,              \* of the partitions
  disk, result,                                      \* of the files
  high, low, speed, loopsPerTick, phase, want, start, seen, began  \* of the timer

queueVars == <<buf, head, tail, waiter, owner, queue, place, got>>
ideVars == <<lockOwner, expecting, sema, at, call, data,
             selected, target, state, latch, media, irq, spurious>>
partitionVars == <<tables, stack, partNr, found, access>>
fileVars == <<disk, result>>
clockVars == <<high, low, speed, loopsPerTick, phase, want, start, seen, began>>
mcVars == <<part, vars, queueVars, ideVars, partitionVars, fileVars, clockVars>>

Keys == INSTANCE Intq WITH
  Reader <- {t1, t2}, Writer <- {t3}, Handler <- {"putc", "getc"}, NoThread <- none,
  Byte <- {b1, b2}, BufSize <- 3, pc <- place
ASSUME KeysAssumption == Keys!IntqAssumption

Channel == INSTANCE Ide WITH
  Thread <- {t1, t2}, NoThread <- none, Disk <- {d1, d2}, Sector <- {s1},
  Data <- {b1, b2}, Blank <- none, MaxSpurious <- 1,
  owner <- lockOwner, pc <- at, got <- data
ASSUME ChannelAssumption == Channel!IdeAssumption

(* Tables of two entries, some with partitions beyond the end of the device *)
(* or of the word, some extended, and a disk without a table.               *)
Entry(t, o, s) == [type |-> t, offset |-> o, size |-> s]
Entries == {Entry("none", 0, 0), Entry("data", 1, 2), Entry("data", 3, 5), Entry("data", 6, 3),
            Entry("data", 4, 12), Entry("data", 9, 1)}
NoTable == 3 :> <<>>
DisksOfEntries ==
  {0 :> <<a, b>> : a, b \in Entries} \cup {NoTable}
  \cup {(0 :> <<a, Entry("extended", o, 4)>>) @@ (o :> <<Entry("data", 1, 1), b>>) :
          a \in Entries, o \in {3, 5}, b \in {Entry("none", 0, 0), Entry("extended", 2, 2)}}

Device == INSTANCE Partition WITH
  Size <- 8, Wrap <- 16, MaxDepth <- 4, Disks <- DisksOfEntries
ASSUME DeviceAssumption == Device!PartitionAssumption

\* Buffers that end within a sector, at its end and beyond the file.
Files == INSTANCE FileData WITH
  Block <- 2, Inode <- {[start |-> 0, length |-> 5], [start |-> 3, length |-> 2]},
  Buffer <- {<<1>>, <<0, 1, 1>>, <<1, 0, 0, 1, 0, 1>>}, Offset <- {0, 1, 2, 4, 6}, SectorCnt <- 4

\* A slow machine and a fast one, delays of no tick, of one and of two.
Clocks == INSTANCE Clock WITH
  Thread <- {t1, t2}, Half <- 2, MaxTicks <- 3, TimerFreq <- 4, Scale <- 10, Speeds <- {11, 200},
  FirstLoops <- 8, RefineBits <- 3, LoopWrap <- 256,
  Times <- {<<1, 10>>, <<3, 10>>, <<5, 10>>, <<5, 100>>, <<1, 100>>},
  PitHz <- 200, PitMin <- 4, PitWrap <- 64, pc <- phase
ASSUME ClocksAssumption == Clocks!ClockAssumption

\* What does not run has one initial state.
MCInit ==
  /\ part \in Parts
  /\ part = "partitions" \/ tables = NoTable
  /\ Init /\ Keys!Init /\ Channel!Init /\ Device!Init /\ Files!Init /\ Clocks!Init
  /\ part # "ide" => selected = d1 /\ target = s1
  /\ part # "intq" => got = b1 /\ \A i \in DOMAIN buf : buf[i] = b1
  /\ part # "clock" => speed = 11

LockPart(A) ==
  part = "lock" /\ A /\ UNCHANGED <<part, queueVars, ideVars, partitionVars, fileVars, clockVars>>
IntqPart(A) ==
  part = "intq" /\ A /\ UNCHANGED <<part, vars, ideVars, partitionVars, fileVars, clockVars>>
IdePart(A) ==
  part = "ide" /\ A /\ UNCHANGED <<part, vars, queueVars, partitionVars, fileVars, clockVars>>
ClockPart(A) ==
  part = "clock" /\ A /\ UNCHANGED <<part, vars, queueVars, ideVars, partitionVars, fileVars>>

MCNext ==
  \/ LockPart(Next) \/ IntqPart(Keys!Next) \/ IdePart(Channel!Next) \/ ClockPart(Clocks!Next)
  \/ part = "partitions" /\ Device!Next
       /\ UNCHANGED <<part, vars, queueVars, ideVars, fileVars, clockVars>>
  \/ part = "files" /\ Files!Next
       /\ UNCHANGED <<part, vars, queueVars, ideVars, partitionVars, clockVars>>

(* The fairness of Lock; threads that hold the channel get the CPU, the     *)
(* disks answer, and an interrupt that stays up is handled; and that of     *)
(* Clock.                                                                   *)
MCSpec ==
  /\ MCInit /\ [][MCNext]_mcVars
  /\ \A t \in Thread : WF_mcVars(LockPart(pc[t] # "out" /\ Step(t)))
  /\ \A t \in {t1, t2} : WF_mcVars(IdePart(Channel!Step(t)))
  /\ \A d \in {d1, d2} : WF_mcVars(IdePart(Channel!DiskStep(d)))
  /\ WF_mcVars(IdePart(Channel!Handler))
  /\ \A t \in {t1, t2} : SF_mcVars(ClockPart(Clocks!Step(t)))
  /\ SF_mcVars(ClockPart(Clocks!Tick))

\* The properties of modules Intq, Ide, Partition, FileData and Clock.
NoSleepWithWork == Keys!NoSleepWithWork
WaitAssertion == Keys!WaitAssertion
ImplementsFifo == Keys!ImplementsFifo
DiskRight == Channel!ImplementsDisk /\ Channel!CallReturns
AccessOnDevice == Device!AccessOnDevice
FoundAsDescribed == Device!FoundAsDescribed
ImplementsFiles == Files!ImplementsFiles
TimerRight == Clocks!TimerRight
=============================================================================
