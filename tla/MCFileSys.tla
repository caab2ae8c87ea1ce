------------------------------- MODULE MCFileSys -------------------------------
(* Three names, one of them invalid, two open files, two directory slots.  *)
EXTENDS FileSys, TLC
CONSTANTS n1, n2, bad, h1, h2
Names == {n1, n2, bad}
ValidNames == {n1, n2}
Handles == {h1, h2}
Harmless == {"dir", "map1", "map2", "map3", "disk", "scan", "write"}
Symmetry == Permutations(ValidNames) \cup Permutations(Handles)
DuringAdd == {"addscan"}
=============================================================================
