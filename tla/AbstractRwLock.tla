---------------------------- MODULE AbstractRwLock ----------------------------
(* What a "writer-centric readers-writers lock" (threads/synch.c) is: any   *)
(* number of readers or one writer inside, and no reader goes in while a    *)
(* writer waits.                                                            *)
CONSTANT Thread

VARIABLES readers, writers, waitingWriters

vars == <<readers, writers, waitingWriters>>

Init == readers = {} /\ writers = {} /\ waitingWriters = {}

WriterWaits(t) ==
  /\ readers \cup writers # {}
  /\ waitingWriters' = waitingWriters \cup {t}
  /\ UNCHANGED <<readers, writers>>

ReaderEnters(t) ==
  /\ writers = {} /\ waitingWriters = {}
  /\ readers' = readers \cup {t}
  /\ UNCHANGED <<writers, waitingWriters>>

WriterEnters(t) ==
  /\ readers = {} /\ writers = {}
  /\ writers' = {t}
  /\ waitingWriters' = waitingWriters \ {t}
  /\ UNCHANGED readers

Leaves(t) ==
  /\ t \in readers \cup writers
  /\ readers' = readers \ {t} /\ writers' = writers \ {t}
  /\ UNCHANGED waitingWriters

Next == \E t \in Thread :
  WriterWaits(t) \/ ReaderEnters(t) \/ WriterEnters(t) \/ Leaves(t)

Spec == Init /\ [][Next]_vars
=============================================================================
