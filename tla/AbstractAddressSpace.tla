------------------------- MODULE AbstractAddressSpace --------------------------
(* What page directories are for: each is a map from user pages to frames,  *)
(* and an access by the CPU is to what the active one says at that moment.  *)
CONSTANTS PageDirs, UPage, Frame, None

VARIABLES
  space,   \* of each directory: None, or of each page what is known of it
  active,  \* the directory in use, or None for the kernel's own
  last     \* where an access that was the last step went, else None
vars == <<space, active, last>>

Init == space = [pd \in PageDirs |-> None] /\ active = None /\ last = None

Present(pd, u) == space[pd] # None /\ space[pd][u] # None /\ space[pd][u].p
InUse == {space[x[1]][x[2]].frame : x \in {y \in PageDirs \X UPage : Present(y[1], y[2])}}

Create(pd) ==
  /\ space[pd] = None /\ space' = [space EXCEPT ![pd] = [u \in UPage |-> None]]
  /\ last' = None /\ UNCHANGED active
Destroy(pd) ==
  /\ space[pd] # None /\ active # pd /\ space' = [space EXCEPT ![pd] = None]
  /\ last' = None /\ UNCHANGED active
Install(pd, u, f, w) ==
  /\ space[pd] # None /\ ~Present(pd, u) /\ f \notin InUse
  /\ space' = [space EXCEPT ![pd][u] = [frame |-> f, p |-> TRUE, w |-> w, a |-> FALSE, d |-> FALSE]]
  /\ last' = None /\ UNCHANGED active
Drop(pd, u) ==
  /\ Present(pd, u) /\ space' = [space EXCEPT ![pd][u].p = FALSE]
  /\ last' = None /\ UNCHANGED active
Mark(pd, u, bit, value) ==
  /\ space[pd] # None /\ space[pd][u] # None
  /\ space' = [space EXCEPT ![pd][u] =
                 IF bit = "accessed" THEN [@ EXCEPT !.a = value] ELSE [@ EXCEPT !.d = value]]
  /\ last' = None /\ UNCHANGED active
Activate(pd) ==
  /\ (pd # None => space[pd] # None) /\ active' = pd /\ last' = None /\ UNCHANGED space

Access(u, write) ==
  /\ active # None /\ UNCHANGED active
  /\ IF Present(active, u) /\ (write => space[active][u].w)
     THEN /\ last' = space[active][u].frame
          /\ space' = [space EXCEPT ![active][u].a = TRUE, ![active][u].d = @ \/ write]
     ELSE last' = None /\ UNCHANGED space

\* Anything else, such as what the CPU caches.
Unseen == last' = None /\ UNCHANGED <<space, active>>

Next ==
  \/ Unseen
  \/ \E pd \in PageDirs :
       \/ Create(pd) \/ Destroy(pd)
       \/ \E u \in UPage :
            \/ Drop(pd, u)
            \/ \E f \in Frame, w \in BOOLEAN : Install(pd, u, f, w)
            \/ \E bit \in {"accessed", "dirty"}, value \in BOOLEAN : Mark(pd, u, bit, value)
  \/ \E pd \in PageDirs \cup {None} : Activate(pd)
  \/ \E u \in UPage, write \in BOOLEAN : Access(u, write)

Spec == Init /\ [][Next]_vars
=============================================================================
