------------------------------- MODULE AbstractTable -------------------------------
(***************************************************************************)
(* What lib/kernel/hash.h promises: a set of elements of which no two are  *)
(* equal, and calls that return the equal element they found.              *)
(***************************************************************************)
EXTENDS FiniteSets

CONSTANTS Elem, Key, Null

VARIABLES
  elems,   \* the elements in the table
  cnt,     \* what hash_size says
  result   \* what the last call returned

Equal(e) == {x \in elems : Key[x] = Key[e]}
Found(e) == IF Equal(e) = {} THEN Null ELSE CHOOSE x \in Equal(e) : TRUE

Init == elems = {} /\ cnt = 0 /\ result = Null

Find(e) == result' = Found(e) /\ UNCHANGED <<elems, cnt>>
Becomes(S) == elems' = S /\ cnt' = Cardinality(S)
Insert(e) ==
  Becomes(IF Equal(e) = {} THEN elems \cup {e} ELSE elems) /\ result' = Found(e)
Replace(e) == Becomes((elems \ Equal(e)) \cup {e}) /\ result' = Found(e)
Delete(e) == Becomes(elems \ Equal(e)) /\ result' = Found(e)
Clear == Becomes({}) /\ UNCHANGED result

Next == Clear \/ \E e \in Elem : Find(e) \/ Insert(e) \/ Replace(e) \/ Delete(e)
Spec == Init /\ [][Next]_<<elems, cnt, result>>
=============================================================================
