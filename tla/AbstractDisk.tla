------------------------------ MODULE AbstractDisk ------------------------------
(***************************************************************************)
(* What block.h promises of a device: any thread may read and write, and   *)
(* each call takes effect at one moment between its start and its return.  *)
(***************************************************************************)
CONSTANTS Thread, Place, Data, Blank

VARIABLES
  content,  \* of each sector of each disk
  call      \* of each thread: what it has called, and whether it took effect

Idle == [op |-> "none"]

Init == content = [p \in Place |-> Blank] /\ call = [t \in Thread |-> Idle]

Begin(t, c) ==
  /\ call[t] = Idle /\ call' = [call EXCEPT ![t] = c]
  /\ UNCHANGED content

\* A read takes effect: the caller has the data.
Read(t) ==
  /\ call[t].op = "read"
  /\ call' = [call EXCEPT ![t] = [op |-> "done", got |-> content[call[t].at]]]
  /\ UNCHANGED content

Write(t) ==
  /\ call[t].op = "write"
  /\ content' = [content EXCEPT ![call[t].at] = call[t].data]
  /\ call' = [call EXCEPT ![t] = [op |-> "done", got |-> Blank]]

Return(t) ==
  /\ call[t].op = "done" /\ call' = [call EXCEPT ![t] = Idle]
  /\ UNCHANGED content

Next ==
  \E t \in Thread :
    \/ \E p \in Place : Begin(t, [op |-> "read", at |-> p])
    \/ \E p \in Place, d \in Data : Begin(t, [op |-> "write", at |-> p, data |-> d])
    \/ Read(t) \/ Write(t) \/ Return(t)

Spec == Init /\ [][Next]_<<content, call>>
=============================================================================
