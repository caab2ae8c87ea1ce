------------------------------- MODULE AbstractFile -------------------------------
(***************************************************************************)
(* What file_read_at and file_write_at promise: a file is its bytes, and a *)
(* call takes or changes the part of what was asked that lies within the   *)
(* file, or a prefix of it when memory runs out.                           *)
(***************************************************************************)
EXTENDS Integers, Sequences

CONSTANTS Buffer, Offset

VARIABLES
  bytes,   \* the contents of each file
  result   \* of the last call: the count, the data read, and whether memory ran out

Within(f, size, ofs) ==
  IF ofs >= Len(bytes[f]) THEN 0 ELSE IF size < Len(bytes[f]) - ofs THEN size ELSE Len(bytes[f]) - ofs

\* The counts a call may return.
Count(f, size, ofs, outOfMemory) ==
  IF outOfMemory THEN 0..Within(f, size, ofs) ELSE {Within(f, size, ofs)}

Read(f, size, ofs, n, out) ==
  /\ result' = [n |-> n, data |-> SubSeq(bytes[f], ofs + 1, ofs + n), out |-> out]
  /\ UNCHANGED bytes

Write(f, buffer, ofs, n, out) ==
  /\ bytes' = [bytes EXCEPT ![f] = [i \in 1..Len(@) |->
                 IF i \in ofs + 1..ofs + n THEN buffer[i - ofs] ELSE @[i]]]
  /\ result' = [n |-> n, data |-> <<>>, out |-> out]

Init ==
  /\ \A f \in DOMAIN bytes : \A i \in 1..Len(bytes[f]) : bytes[f][i] = 0
  /\ result = [n |-> 0, data |-> <<>>, out |-> FALSE]

Next ==
  \E f \in DOMAIN bytes, ofs \in Offset, out \in BOOLEAN, buffer \in Buffer :
    \E n \in Count(f, Len(buffer), ofs, out) :
      Write(f, buffer, ofs, n, out) \/ Read(f, Len(buffer), ofs, n, out)

Spec == Init /\ [][Next]_<<bytes, result>>
=============================================================================
