---------------------------------- MODULE Console ----------------------------------
(***************************************************************************)
(* The console: lib/kernel/console.c on top of devices/serial.c, with the  *)
(* queues of serial.c and input.c, debug_panic and the flush at shutdown.  *)
(* Threads print lines and a line may interrupt itself with another; an    *)
(* interrupt handler prints as well.  Who has interrupts off runs alone.   *)
(* Module Intq has the queues in detail: here they are sequences, and a    *)
(* thread that sleeps in intq_putc is at "full".  Each byte is its number. *)
(* External: the UART, which holds a byte each way, and the keyboard.      *)
(***************************************************************************)
EXTENDS Naturals, Sequences, SequencesExt

CONSTANTS
  Thread, Main,
  Handler,           \* an interrupt handler that prints
  TxSize, RxSize,    \* what txq and the input buffer hold
  MaxPut, MaxLine, MaxNest, MaxLevel,   \* bounds: a call starts while put < MaxPut
  None

Printer == Thread \cup {Handler}

\* Bytes are numbers, and None is none of them.
ConsoleAssumption ==
  /\ Main \in Thread /\ Handler \notin Thread /\ None \notin Printer \cup Nat
  /\ TxSize \in Nat \ {0} /\ RxSize \in Nat \ {0} /\ {MaxLine, MaxNest} \subseteq Nat

VARIABLES
  stage,   \* main: "off" until thread_start, "on", "queue" in serial_init_queue, "done"
  mode,    \* of the serial port
  lock, depth,   \* the console lock's holder, and console_lock_depth
  level,   \* of panics; use_console_lock is level = 0
  off,     \* who has interrupts off
  pc,
  left,    \* of each printer: the characters left in each call, the innermost last
  txq,
  rxq,     \* the number of keys in the input buffer
  ier,     \* the interrupts the UART may raise
  thr, rbr,      \* its byte to send and whether it has one received
  put, wired     \* the last byte printed and the last one sent
vars == <<stage, mode, lock, depth, level, off, pc, left, txq, rxq, ier, thr, rbr, put, wired>>
printing == <<stage, lock, depth, level, left, put>>

\* After console_init: interrupts are off until thread_start.
Init ==
  /\ stage = "off" /\ mode = "UNINIT" /\ lock = None /\ depth = 0 /\ level = 0 /\ off = Main
  /\ pc = [t \in Printer |-> "out"] /\ left = [t \in Printer |-> <<>>]
  /\ txq = <<>> /\ rxq = 0 /\ ier = {} /\ thr = None /\ rbr = FALSE /\ put = 0 /\ wired = 0

MayRun(t) == off \in {None, t}
IntrOff(t) == t = Handler \/ stage = "off" \/ level > 0   \* old_level of serial_putc
Full == Len(txq) = TxSize
Goto(t, l) == pc' = [pc EXCEPT ![t] = l]

\* signal of txq's not_full: whoever sleeps there tests again.
Signal == pc' = [u \in Printer |-> IF pc[u] = "full" THEN "print" ELSE pc[u]]

\* Mutant: the transmit interrupt stays off.
WriteIerRecvOnly(tx, rx) == IF rx < RxSize THEN {"recv"} ELSE {}

\* write_ier.
WriteIer(tx, rx) ==
  (IF tx # <<>> THEN {"xmit"} ELSE {}) \cup (IF rx < RxSize THEN {"recv"} ELSE {})
-------------------------------------------------------------------------------
(* main: thread_start and serial_init_queue. *)
Start ==
  /\ stage = "off" /\ pc[Main] = "out" /\ stage' = "on" /\ off' = None
  /\ UNCHANGED <<mode, lock, depth, level, pc, left, txq, rxq, ier, thr, rbr, put, wired>>
InitQueue ==
  /\ stage = "on" /\ pc[Main] = "out" /\ off = None /\ stage' = "queue" /\ mode' = "QUEUE"
  /\ UNCHANGED <<lock, depth, level, off, pc, left, txq, rxq, ier, thr, rbr, put, wired>>
EnableInterrupts ==
  /\ stage = "queue" /\ off = None /\ stage' = "done" /\ ier' = WriteIer(txq, rxq)
  /\ UNCHANGED <<mode, lock, depth, level, off, pc, left, txq, rxq, thr, rbr, put, wired>>

(* Printing. *)

\* A call of printf, puts, putbuf or putchar, up to acquire_console.
Call(t, n) ==
  /\ MayRun(t) /\ pc[t] = "out" /\ level = 0 /\ put < MaxPut
  /\ stage # "off" \/ t = Main
  /\ t = Main => stage # "queue"
  /\ left' = [left EXCEPT ![t] = <<n>>]
  /\ IF t = Handler THEN off' = t /\ Goto(t, "print") ELSE off' = off /\ Goto(t, "lock")
  /\ UNCHANGED <<stage, mode, lock, depth, level, txq, rxq, ier, thr, rbr, put, wired>>

\* lock_acquire of acquire_console.
Acquire(t) ==
  /\ MayRun(t) /\ pc[t] = "lock" /\ lock = None /\ lock' = t /\ Goto(t, "print")
  /\ UNCHANGED <<stage, mode, depth, level, off, left, txq, rxq, ier, thr, rbr, put, wired>>

\* A call in the middle of a call of the same thread: acquire_console counts.
Nest(t) ==
  /\ MayRun(t) /\ pc[t] = "print" /\ lock = t /\ level = 0
  /\ Len(left[t]) < MaxNest /\ put < MaxPut
  /\ depth' = depth + 1 /\ left' = [left EXCEPT ![t] = Append(@, 1)]
  /\ UNCHANGED <<stage, mode, lock, level, off, pc, txq, rxq, ier, thr, rbr, put, wired>>

Printed(t) == [left EXCEPT ![t][Len(left[t])] = @ - 1]

\* serial_putc, up to its end or to the point where it sleeps or polls.
Putc(t) ==
  /\ MayRun(t) /\ pc[t] = "print" /\ Last(left[t]) > 0
  /\ UNCHANGED <<stage, lock, depth, level, rxq, thr, rbr, wired>>
  /\ \/ /\ mode # "QUEUE" /\ mode' = "POLL" /\ off' = t /\ Goto(t, "poll")
        /\ UNCHANGED <<left, txq, ier, put>>
     \/ /\ mode = "QUEUE" /\ Full /\ Goto(t, IF IntrOff(t) THEN "poll" ELSE "full")
        /\ UNCHANGED <<mode, off, left, txq, ier, put>>
     \/ /\ mode = "QUEUE" /\ ~Full /\ txq' = Append(txq, put + 1)
        /\ put' = put + 1 /\ left' = Printed(t) /\ ier' = WriteIer(txq', rxq)
        /\ UNCHANGED <<mode, off, pc>>

\* Mutant: with a full queue the new byte is polled out, not the oldest.
PolledNewest(t) ==
  /\ pc[t] = "poll" /\ thr = None /\ thr' = put + 1
  /\ UNCHANGED <<txq, ier>>
  /\ put' = put + 1 /\ left' = Printed(t) /\ Goto(t, "print")
  /\ off' = IF IntrOff(t) THEN off ELSE None
  /\ UNCHANGED <<stage, mode, lock, depth, level, rxq, rbr, wired>>

\* putc_poll finds the port ready, and serial_putc ends.
Polled(t) ==
  /\ pc[t] = "poll" /\ thr = None
  /\ IF mode = "QUEUE"
     THEN /\ thr' = Head(txq) /\ txq' = Append(Tail(txq), put + 1) /\ ier' = WriteIer(txq', rxq)
     ELSE thr' = put + 1 /\ UNCHANGED <<txq, ier>>
  /\ put' = put + 1 /\ left' = Printed(t) /\ off' = IF IntrOff(t) THEN off ELSE None
  /\ pc' = [u \in Printer |->
               IF u = t \/ (mode = "QUEUE" /\ pc[u] = "full") THEN "print" ELSE pc[u]]
  /\ UNCHANGED <<stage, mode, lock, depth, level, rxq, rbr, wired>>

\* Mutant: the lock is released whatever the depth is.
ReleaseAlways(t) == lock' = None /\ depth' = depth

\* release_console.
Release(t) ==
  IF t = Handler \/ level > 0 THEN UNCHANGED <<lock, depth>>
  ELSE IF depth > 0 THEN depth' = depth - 1 /\ lock' = lock
  ELSE lock' = None /\ depth' = depth

\* The end of a call; a panic goes on to serial_flush.
Return(t) ==
  /\ MayRun(t) /\ pc[t] = "print" /\ Last(left[t]) = 0
  /\ left' = [left EXCEPT ![t] = Front(@)] /\ Release(t)
  /\ Goto(t, IF level > 0 THEN "flush" ELSE IF Len(left[t]) > 1 THEN "print" ELSE "out")
  /\ off' = IF t = Handler /\ level = 0 THEN None ELSE off
  /\ UNCHANGED <<stage, mode, level, txq, rxq, ier, thr, rbr, put, wired>>

\* Mutant: a panic goes on using the console lock.
PanicLocked(t) ==
  /\ MayRun(t) /\ pc[t] \in {"out", "print"} /\ level = 0 /\ level' = 1
  /\ stage # "off" \/ t = Main
  /\ off' = t /\ left' = [left EXCEPT ![t] = <<1>>]
  /\ Goto(t, IF t # Handler /\ lock # t THEN "lock" ELSE "print")
  /\ UNCHANGED <<stage, mode, lock, depth, txq, rxq, ier, thr, rbr, put, wired>>

\* debug_panic, also out of a panic: the third one prints nothing.
Panic(t) ==
  /\ MayRun(t) /\ pc[t] \in {"out", "print", "flush"} /\ level < MaxLevel
  /\ (t = Handler => pc[t] # "out") /\ (stage # "off" \/ t = Main)
  /\ level' = level + 1 /\ off' = t
  /\ left' = [left EXCEPT ![t] = IF level' < 3 THEN <<1>> ELSE <<0>>] /\ Goto(t, "print")
  /\ UNCHANGED <<stage, mode, lock, depth, txq, rxq, ier, thr, rbr, put, wired>>

\* shutdown_power_off after its last printf; the disks it lets go of are left out.
Shutdown(t) ==
  /\ MayRun(t) /\ t \in Thread /\ pc[t] = "out" /\ stage = "done"
  /\ off' = t /\ Goto(t, "flush")
  /\ UNCHANGED <<printing, mode, txq, rxq, ier, thr, rbr, wired>>

(* The end of serial_flush, which sets interrupts as they were: a panic    *)
(* has them off and stops; shutdown_power_off has them on, and goes on to  *)
(* cut the power while others may run and print.  (What shutdown prints    *)
(* out of a panic is left out: how is SHUTDOWN_NONE.)                      *)
Flushed(t) ==
  /\ IF level > 0 THEN off' = off /\ Goto(t, "down") ELSE off' = None /\ Goto(t, "cut")
  /\ UNCHANGED <<txq, thr>>

\* Mutants: a byte is sent whether the port is ready or not; nothing is sent.
FlushBlind(t) ==
  /\ pc[t] = "flush" /\ UNCHANGED <<printing, mode, rxq, ier, rbr, wired>>
  /\ IF txq = <<>> THEN Flushed(t)
     ELSE off' = off /\ thr' = Head(txq) /\ txq' = Tail(txq) /\ Signal
FlushNothing(t) ==
  /\ pc[t] = "flush" /\ UNCHANGED <<printing, mode, rxq, ier, rbr, wired>>
  /\ Flushed(t)

\* serial_flush, byte by byte.
Flush(t) ==
  /\ pc[t] = "flush" /\ UNCHANGED <<printing, mode, rxq, ier, rbr, wired>>
  /\ \/ txq = <<>> /\ Flushed(t)
     \/ txq # <<>> /\ thr = None /\ thr' = Head(txq) /\ txq' = Tail(txq) /\ off' = off /\ Signal

\* shutdown_power_off tells the machine to go off, or halts it.
PowerOff(t) ==
  /\ MayRun(t) /\ pc[t] = "cut" /\ off' = t /\ Goto(t, "down")
  /\ UNCHANGED <<printing, mode, txq, rxq, ier, thr, rbr, wired>>
-------------------------------------------------------------------------------
(* Interrupts, input and the hardware. *)

\* serial_interrupt.
SerialInterrupt ==
  /\ off = None
  /\ ("recv" \in ier /\ rbr) \/ ("xmit" \in ier /\ thr = None)
  /\ IF rbr /\ rxq < RxSize THEN rxq' = rxq + 1 /\ rbr' = FALSE ELSE UNCHANGED <<rxq, rbr>>
  /\ IF txq # <<>> /\ thr = None
     THEN thr' = Head(txq) /\ txq' = Tail(txq) /\ Signal ELSE UNCHANGED <<thr, txq, pc>>
  /\ ier' = WriteIer(txq', rxq')
  /\ UNCHANGED <<printing, mode, off, put, wired>>

\* Mutant: taking a key does not tell the port.
NotifyNot == ier' = ier

\* serial_notify.
Notify == ier' = IF mode = "QUEUE" THEN WriteIer(txq, rxq') ELSE ier

\* keyboard_interrupt with room for the key; input_getc with a key to get.
Key ==
  /\ off = None /\ rxq < RxSize /\ rxq' = rxq + 1 /\ Notify
  /\ UNCHANGED <<printing, mode, off, pc, txq, thr, rbr, wired>>
GetKey ==
  /\ off = None /\ rxq > 0 /\ rxq' = rxq - 1 /\ Notify
  /\ UNCHANGED <<printing, mode, off, pc, txq, thr, rbr, wired>>

Transmit ==
  /\ thr # None /\ wired' = thr /\ thr' = None
  /\ UNCHANGED <<printing, mode, off, pc, txq, rxq, ier, rbr>>
Receive ==
  /\ mode # "UNINIT" /\ ~rbr /\ rbr' = TRUE
  /\ UNCHANGED <<printing, mode, off, pc, txq, rxq, ier, thr, wired>>

Goes(t) == Acquire(t) \/ Putc(t) \/ Polled(t) \/ Return(t) \/ Flush(t) \/ PowerOff(t)

Next ==
  \/ Start \/ InitQueue \/ EnableInterrupts
  \/ \E t \in Printer : Goes(t) \/ Panic(t)
  \/ \E t \in Thread : Nest(t) \/ Shutdown(t) \/ \E n \in 1..MaxLine : Call(t, n)
  \/ Call(Handler, 1)
  \/ SerialInterrupt \/ Key \/ GetKey \/ Transmit \/ Receive

\* A print that has begun goes on, an interrupt that stays up is handled, and
\* the port sends.
Fairness ==
  /\ \A t \in Printer : WF_vars(Goes(t))
  /\ WF_vars(Start) /\ WF_vars(InitQueue) /\ WF_vars(EnableInterrupts)
  /\ WF_vars(SerialInterrupt) /\ WF_vars(Transmit)

Spec == Init /\ [][Next]_vars /\ Fairness
-------------------------------------------------------------------------------
\* serial.c: by polling or by interrupts, across the change of mode, from
\* threads, handlers and panics, bytes reach the line in the order they were
\* printed, none lost and none twice.
OutputInOrder ==
  (IF thr = None THEN <<>> ELSE <<thr>>) \o txq = [i \in 1..put - wired |-> wired + i]

\* serial.c:159: whenever it could be raised, the transmit interrupt is on while
\* there is something to send, and the receive interrupt just while there is
\* room.  Only serial_flush leaves the transmit interrupt on with an empty queue.
IerExact ==
  stage = "done" /\ off = None =>
    /\ "recv" \in ier <=> rxq < RxSize
    /\ txq # <<>> => "xmit" \in ier
    /\ "xmit" \in ier => txq # <<>> \/ \E t \in Thread : pc[t] = "cut"

\* console.c:33: while a thread prints, or sleeps in the middle of it, the
\* console is its own, through all of the calls it is in; then it is free.
LinesWhole ==
  level = 0 =>
    /\ \A t \in Thread : pc[t] \in {"print", "full", "poll"} => lock = t
    /\ lock # None => pc[lock] \in {"print", "full", "poll"}
    /\ depth = IF lock = None THEN 0 ELSE Len(left[lock]) - 1

\* A thread sleeps for room only while there is none.
NoSleepWithRoom == level = 0 /\ off = None => \A t \in Thread : pc[t] = "full" => Full

\* All of these at every moment.
Safe == OutputInOrder /\ IerExact /\ LinesWhole /\ NoSleepWithRoom

(* Every byte that is printed is sent (put stops at MaxPut, so wired       *)
(* catches up), unless the power goes off first: what others print after   *)
(* shutdown_power_off's serial_flush may be lost, but what was printed     *)
(* before a flush is sent, as is all of a panic.  A panic and a shutdown   *)
(* come to their end whoever holds the console; and a byte received is     *)
(* taken as soon as there is room.                                         *)
Stopped == \E t \in Printer : pc[t] = "down"
EverythingSent == put > wired ~> (put = wired \/ (level = 0 /\ Stopped))
FlushedSent == (put = MaxPut /\ \E t \in Printer : pc[t] = "flush") ~> wired = MaxPut
StopEnds == (level > 0 \/ \E t \in Thread : pc[t] \in {"flush", "cut"}) ~> Stopped
KeysTaken == rbr ~> (~rbr \/ rxq = RxSize \/ Stopped)

ConsoleRight == []Safe /\ EverythingSent /\ FlushedSent /\ StopEnds /\ KeysTaken
=============================================================================
