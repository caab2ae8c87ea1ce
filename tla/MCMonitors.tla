------------------------------- MODULE MCMonitors ------------------------------
(* Small instances of what is built on locks side by side, of which a       *)
(* behaviour runs one: the readers-writers lock with four threads that come *)
(* in either role every time; the console with main, another thread and a   *)
(* handler, lines of up to two bytes, a queue of two and a panic that may   *)
(* panic twice more.                                                        *)
EXTENDS RwLock
CONSTANTS
  Parts,   \* the instances that run
  t1, t2, t3, t4, none, handler
Threads == {t1, t2, t3, t4}

VARIABLES
  part,
  stage, mode, owner, depth, level, off, at, left,
  txq, rxq, ier, thr, rbr, put, wired                \* of the console

consoleVars == <<stage, mode, owner, depth, level, off, at, left,
                 txq, rxq, ier, thr, rbr, put, wired>>
mcVars == <<part, vars, consoleVars>>

Port == INSTANCE Console WITH
  Thread <- {t1, t2}, Main <- t1, Handler <- handler, None <- none, TxSize <- 2, RxSize <- 1,
  MaxPut <- 3, MaxLine <- 2, MaxNest <- 2, MaxLevel <- 3, lock <- owner, pc <- at

\* What the theorems about the console assume.
ASSUME PortAssumption == Port!ConsoleAssumption

MCInit == part \in Parts /\ Init /\ Port!Init

RwLockPart(A) == part = "rw_lock" /\ A /\ UNCHANGED <<part, consoleVars>>
ConsolePart(A) == part = "console" /\ A /\ UNCHANGED <<part, vars>>
MCNext == RwLockPart(Next) \/ ConsolePart(Port!Next)

\* The fairness of RwLock and Console.
MCSpec ==
  /\ MCInit /\ [][MCNext]_mcVars
  /\ WF_mcVars(RwLockPart(\E t \in Threads : LockGuard(t)))
  /\ WF_mcVars(RwLockPart(\E t \in Threads : Guarded(t)))
  /\ \A t \in Threads : WF_mcVars(RwLockPart(Leave(t)))
  /\ \A t \in {t1, t2, handler} : WF_mcVars(ConsolePart(Port!Goes(t)))
  /\ WF_mcVars(ConsolePart(Port!Start)) /\ WF_mcVars(ConsolePart(Port!InitQueue))
  /\ WF_mcVars(ConsolePart(Port!EnableInterrupts))
  /\ WF_mcVars(ConsolePart(Port!SerialInterrupt)) /\ WF_mcVars(ConsolePart(Port!Transmit))

\* The property of module Console.
ConsoleRight == Port!ConsoleRight
=============================================================================
