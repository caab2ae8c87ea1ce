---------------------------- MODULE AbstractFileSys ----------------------------
(***************************************************************************)
(* What filesys.h and file.h promise.  A name leads to a file, a file has  *)
(* contents, a file lives while a name or an open file leads to it, and a  *)
(* crash closes what is open and touches nothing that has a name.          *)
(***************************************************************************)
EXTENDS Integers, Sequences

CONSTANTS Name, Handle, Ino, Data, Zero, MaxLen, None

VARIABLES
  entry,   \* of each name: the file it leads to, or None
  file,    \* of each inode number: the contents of the file, or None
  open,    \* of each handle: the file it has open, or None
  denies   \* the handles through which writing is denied

vars == <<entry, file, open, denies>>

Init ==
  /\ entry = [n \in Name |-> None] /\ file = [i \in Ino |-> None]
  /\ open = [h \in Handle |-> None] /\ denies = {}

Create(n, i, len) ==
  /\ entry[n] = None /\ file[i] = None
  /\ entry' = [entry EXCEPT ![n] = i]
  /\ file' = [file EXCEPT ![i] = [k \in 1..len |-> Zero]]
  /\ UNCHANGED <<open, denies>>

Open(h, n) ==
  /\ open[h] = None /\ entry[n] # None
  /\ open' = [open EXCEPT ![h] = entry[n]]
  /\ UNCHANGED <<entry, file, denies>>

Reopen(h, g) ==
  /\ open[h] = None /\ open[g] # None
  /\ open' = [open EXCEPT ![h] = open[g]]
  /\ UNCHANGED <<entry, file, denies>>

\* Files no name and no handle leads to are gone.
Collect(e, o) ==
  file' = [i \in Ino |-> IF (\E n \in Name : e[n] = i) \/ (\E h \in Handle : o[h] = i)
                         THEN file[i] ELSE None]

Close(h) ==
  /\ open[h] # None
  /\ open' = [open EXCEPT ![h] = None] /\ denies' = denies \ {h}
  /\ Collect(entry, open') /\ UNCHANGED entry

Remove(n) ==
  /\ entry[n] # None
  /\ entry' = [entry EXCEPT ![n] = None]
  /\ Collect(entry', open) /\ UNCHANGED <<open, denies>>

Write(h, k, d) ==
  /\ open[h] # None /\ k \in DOMAIN file[open[h]]
  /\ ~ \E g \in denies : open[g] = open[h]
  /\ file' = [file EXCEPT ![open[h]][k] = d]
  /\ UNCHANGED <<entry, open, denies>>

Deny(h) == open[h] # None /\ denies' = denies \cup {h} /\ UNCHANGED <<entry, file, open>>
Allow(h) == denies' = denies \ {h} /\ UNCHANGED <<entry, file, open>>

Crash ==
  /\ open' = [h \in Handle |-> None] /\ denies' = {}
  /\ Collect(entry, open') /\ UNCHANGED entry

Next ==
  \/ \E n \in Name, i \in Ino, len \in 0..MaxLen : Create(n, i, len)
  \/ \E n \in Name : Remove(n)
  \/ \E h \in Handle :
       \/ \E n \in Name : Open(h, n)
       \/ \E g \in Handle : Reopen(h, g)
       \/ \E k \in 1..MaxLen, d \in Data : Write(h, k, d)
       \/ Close(h) \/ Deny(h) \/ Allow(h)
  \/ Crash

Spec == Init /\ [][Next]_vars
=============================================================================
