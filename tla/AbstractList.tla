------------------------------ MODULE AbstractList -------------------------------
(***************************************************************************)
(* What lib/kernel/list.h promises: each list is a sequence of elements,   *)
(* and no element is in two places.                                        *)
(***************************************************************************)
EXTENDS Integers, Sequences
Seqs == INSTANCE SequencesExt

CONSTANTS Elem, ListName, Key

VARIABLE contents   \* of each list: its elements

Used == UNION {Seqs!ToSet(contents[l]) : l \in ListName}
Before(s, i) == SubSeq(s, 1, i - 1)
From(s, i) == SubSeq(s, i, Len(s))
Put(s, i, t) == Before(s, i) \o t \o From(s, i)

Init == contents = [l \in ListName |-> <<>>]

Insert(l, i, e) ==
  e \notin Used /\ contents' = [contents EXCEPT ![l] = Put(@, i, <<e>>)]

Remove(l, i) == contents' = [contents EXCEPT ![l] = Before(@, i) \o From(@, i + 1)]

\* The elements from i on, up to j, go to place k of list m, counted without them.
Move(l, i, j, m, k) ==
  LET moved == SubSeq(contents[l], i, j)
      rest == [contents EXCEPT ![l] = Before(@, i) \o From(@, j + 1)]
  IN  k <= Len(rest[m]) + 1 /\ contents' = [rest EXCEPT ![m] = Put(@, k, moved)]

Reverse(l) == contents' = [contents EXCEPT ![l] = Seqs!Reverse(@)]

\* In the order of the keys, and where keys are equal as it was.
Sorted(s) ==
  LET order == Seqs!SetToSortSeq(1..Len(s), LAMBDA i, j :
                 Key[s[i]] < Key[s[j]] \/ (Key[s[i]] = Key[s[j]] /\ i < j))
  IN  [i \in 1..Len(s) |-> s[order[i]]]
Sort(l) == contents' = [contents EXCEPT ![l] = Sorted(@)]

\* The first of each group of equal neighbours stays; the others go to the end
\* of list d, or nowhere.
First(s, i) == i = 1 \/ Key[s[i - 1]] # Key[s[i]]
Chosen(s, P(_)) == Seqs!FoldLeft(LAMBDA t, i : IF P(i) THEN Append(t, s[i]) ELSE t, <<>>,
                                 [i \in 1..Len(s) |-> i])
Unique(l, d) ==
  LET s == contents[l]
      kept == Chosen(s, LAMBDA i : First(s, i))
      out == Chosen(s, LAMBDA i : ~First(s, i))
  IN  contents' = [m \in ListName |-> IF m = l THEN kept
                                      ELSE IF m = d THEN contents[m] \o out ELSE contents[m]]

Next ==
  \E l \in ListName :
    \/ \E i \in 1..Len(contents[l]) + 1, e \in Elem : Insert(l, i, e)
    \/ \E i \in 1..Len(contents[l]) : Remove(l, i)
    \/ \E i, j \in 1..Len(contents[l]), m \in ListName :
         i <= j /\ \E k \in 1..Len(contents[m]) + 1 : Move(l, i, j, m, k)
    \/ Reverse(l) \/ Sort(l)
    \/ \E d \in ListName : Unique(l, d)
    \/ Unique(l, l)

Spec == Init /\ [][Next]_contents
=============================================================================
