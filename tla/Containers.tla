------------------------------- MODULE Containers -------------------------------
(***************************************************************************)
(* lib/kernel/list.c and lib/kernel/hash.c.  The doubly linked lists (and  *)
(* hw-list/list.c, the same code) pointer by pointer: elements belong to   *)
(* the caller, and each list has a head and a tail that are no elements;   *)
(* the pointers of an element in no list are not looked at by the code,    *)
(* and are Null here.  The hash table: buckets of elements whose number    *)
(* follows the number of elements by powers of two, when memory allows;    *)
(* its buckets are such lists, here as sequences.  A call is one step:     *)
(* whoever shares a list or a table between threads locks it.              *)
(***************************************************************************)
EXTENDS Integers, Sequences, FiniteSets
Seqs == INSTANCE SequencesExt

CONSTANTS
  ListElem, ListName,
  ListKey,     \* what less compares, of each element of a list
  HashElem,
  HashKey,     \* and of a table
  HashOf,      \* what hash returns; equal elements have the same
  MinBuckets,  \* 4 in the code
  BestElems,   \* BEST_ELEMS_PER_BUCKET, 2 in the code
  Null

VARIABLES
  links,    \* the pointers of the lists: [prev, next], functions of Node
  buckets,  \* of the table, from 0 to bucket_cnt - 1
  elemCnt, result
tableVars == <<buckets, elemCnt, result>>

Head_(l) == [end |-> "head", list |-> l]
Tail_(l) == [end |-> "tail", list |-> l]
Heads == {Head_(l) : l \in ListName}
Tails == {Tail_(l) : l \in ListName}
Node == ListElem \cup Heads \cup Tails

\* list_init.
ListInit ==
  links = [prev |-> [n \in Node |-> IF n \in Tails THEN Head_(n.list) ELSE Null],
           next |-> [n \in Node |-> IF n \in Heads THEN Tail_(n.list) ELSE Null]]

IsInterior(h, n) == n # Null /\ h.prev[n] # Null /\ h.next[n] # Null
IsTail(h, n) == n # Null /\ h.prev[n] # Null /\ h.next[n] = Null
Begin(h, l) == h.next[Head_(l)]
Less(a, b) == ListKey[a] < ListKey[b]

SetNext(h, n, m) == [h EXCEPT !.next[n] = m]
SetPrev(h, n, m) == [h EXCEPT !.prev[n] = m]
Link(h, a, b) == SetPrev(SetNext(h, a, b), b, a)

\* list_insert.
Inserted(h, before, e) == Link(Link(h, h.prev[before], e), e, before)

\* list_remove.
Removed(h, e) == SetPrev(SetNext(Link(h, h.prev[e], h.next[e]), e, Null), e, Null)

\* Mutant: the gap is closed forwards only.
SplicedHalf(h, before, first, end) ==
  LET last == h.prev[end]
      cut == SetNext(h, h.prev[first], end)
  IN  IF first = end THEN h
      ELSE Link(Link(cut, cut.prev[before], first), last, before)

\* list_splice of the elements from first up to end, which is not one of them.
Spliced(h, before, first, end) ==
  LET last == h.prev[end]
      cut == Link(h, h.prev[first], end)
  IN  IF first = end THEN h
      ELSE Link(Link(cut, cut.prev[before], first), last, before)

\* list_reverse: swap the pointers of each element, then those of the ends.
RECURSIVE SwappedFrom(_, _, _)
SwappedFrom(h, n, l) ==
  IF n = Tail_(l) THEN h
  ELSE SwappedFrom(SetNext(SetPrev(h, n, h.next[n]), n, h.prev[n]), h.next[n], l)

Reversed(h, l) ==
  LET s == SwappedFrom(h, Begin(h, l), l)
      first == h.prev[Tail_(l)]
      last == h.next[Head_(l)]
      t == SetPrev(SetNext(s, Head_(l), first), Tail_(l), last)
  IN  IF Begin(h, l) = Tail_(l) THEN h
      ELSE SetNext(SetPrev(t, first, t.next[last]), last, t.prev[first])

\* find_end_of_run.
RECURSIVE EndOfRun(_, _, _)
EndOfRun(h, a, b) ==
  LET n == h.next[a] IN
  IF n = b \/ Less(n, a) THEN n ELSE EndOfRun(h, n, b)

\* Mutant: of equal elements the one of the second run goes first.
RECURSIVE MergeUnstable(_, _, _, _)
MergeUnstable(h, a0, a1b0, b1) ==
  IF a0 = a1b0 \/ a1b0 = b1 THEN h
  ELSE IF Less(a0, a1b0) THEN MergeUnstable(h, h.next[a0], a1b0, b1)
  ELSE LET n == h.next[a1b0] IN MergeUnstable(Spliced(h, a0, a1b0, n), a0, n, b1)

\* inplace_merge.
RECURSIVE Merge(_, _, _, _)
Merge(h, a0, a1b0, b1) ==
  IF a0 = a1b0 \/ a1b0 = b1 THEN h
  ELSE IF ~Less(a1b0, a0) THEN Merge(h, h.next[a0], a1b0, b1)
  ELSE LET n == h.next[a1b0] IN Merge(Spliced(h, a0, a1b0, n), a0, n, b1)

\* One pass of list_sort from a0 on, which has put out runs; and the passes.
RECURSIVE Pass(_, _, _, _)
Pass(h, l, a0, runs) ==
  IF a0 = Tail_(l) THEN [h |-> h, runs |-> runs]
  ELSE LET a1b0 == EndOfRun(h, a0, Tail_(l))
           b1 == EndOfRun(h, a1b0, Tail_(l))
       IN  IF a1b0 = Tail_(l) THEN [h |-> h, runs |-> runs + 1]
           ELSE Pass(Merge(h, a0, a1b0, b1), l, b1, runs + 1)

RECURSIVE SortedLinks(_, _)
SortedLinks(h, l) ==
  LET p == Pass(h, l, Begin(h, l), 0) IN IF p.runs > 1 THEN SortedLinks(p.h, l) ELSE p.h

\* The place list_insert_ordered finds.
RECURSIVE PlaceFor(_, _, _, _)
PlaceFor(h, e, n, l) ==
  IF n = Tail_(l) THEN n ELSE IF Less(e, n) THEN n ELSE PlaceFor(h, e, h.next[n], l)

\* list_unique from element n on; d is the list of duplicates, or Null.
RECURSIVE UniqueFrom(_, _, _, _)
UniqueFrom(h, n, l, d) ==
  LET next == h.next[n] IN
  IF next = Tail_(l) THEN h
  ELSE IF Less(n, next) \/ Less(next, n) THEN UniqueFrom(h, next, l, d)
  ELSE UniqueFrom(IF d = Null THEN Removed(h, next)
                  ELSE Inserted(Removed(h, next), Tail_(d), next), n, l, d)

\* The elements of a list in the order of next, no more than there are.
RECURSIVE Walk(_, _, _)
Walk(n, l, max) ==
  IF n = Tail_(l) \/ max = 0 THEN <<>> ELSE <<n>> \o Walk(links.next[n], l, max - 1)
Contents(l) == Walk(Begin(links, l), l, Cardinality(ListElem))
\* list_max and list_min: the best so far is replaced by a better one.
Best(s, Better(_, _)) == Seqs!FoldLeft(LAMBDA b, e : IF Better(e, b) THEN e ELSE b, s[1], s)
ListMax(l) == Best(Contents(l), LAMBDA a, b : Less(b, a))
ListMin(l) == Best(Contents(l), LAMBDA a, b : Less(a, b))
InList(l) == Seqs!ToSet(Contents(l))
Unlisted == {e \in ListElem : links.next[e] = Null}
Sorted(l) == \A i \in 1..Len(Contents(l)) - 1 : ~Less(Contents(l)[i + 1], Contents(l)[i])

ListInsert(before, e) == links' = Inserted(links, before, e)
PushFront(l, e) == ListInsert(Begin(links, l), e)
PushBack(l, e) == ListInsert(Tail_(l), e)
ListRemove(e) == links' = Removed(links, e)
PopFront(l) == Begin(links, l) # Tail_(l) /\ ListRemove(Begin(links, l))
PopBack(l) == Begin(links, l) # Tail_(l) /\ ListRemove(links.prev[Tail_(l)])
InsertOrdered(l, e) == Sorted(l) /\ ListInsert(PlaceFor(links, e, Begin(links, l), l), e)

\* Elements i to j - 1 of list l go before a node that is none of them.
Splice(l, i, j, before) ==
  LET s == Append(Contents(l), Tail_(l)) IN
  /\ before \notin {s[k] : k \in i..j - 1}
  /\ links' = Spliced(links, before, s[i], s[j])

Reverse(l) == links' = Reversed(links, l)
Sort(l) == links' = SortedLinks(links, l)
Unique(l, d) ==
  /\ d # l
  /\ links' = IF Begin(links, l) = Tail_(l) THEN links
              ELSE UniqueFrom(links, Begin(links, l), l, d)

ListNext ==
  \/ \E l \in ListName, e \in Unlisted : PushFront(l, e) \/ PushBack(l, e) \/ InsertOrdered(l, e)
  \/ \E before \in ListElem \ Unlisted, e \in Unlisted : ListInsert(before, e)
  \/ \E e \in ListElem \ Unlisted : ListRemove(e)
  \/ \E l \in ListName :
       \/ PopFront(l) \/ PopBack(l) \/ Reverse(l) \/ Sort(l)
       \/ \E d \in ListName \cup {Null} : Unique(l, d)
       \/ \E i, j \in 1..Len(Contents(l)) + 1 : i <= j /\
            \E before \in (ListElem \ Unlisted) \cup Tails : Splice(l, i, j, before)
-------------------------------------------------------------------------------
Empty(n) == [b \in 0..n - 1 |-> <<>>]

\* hash_init.
HashInit == buckets = Empty(MinBuckets) /\ elemCnt = 0 /\ result = Null

BucketCnt(bs) == Cardinality(DOMAIN bs)
FindBucket(bs, e) == HashOf[e] % BucketCnt(bs)

\* find_elem: the first equal element of the bucket.
FindElem(bs, e) ==
  LET s == bs[FindBucket(bs, e)]
      at == {i \in 1..Len(s) : HashKey[s[i]] = HashKey[e]}
  IN  IF at = {} THEN Null ELSE s[CHOOSE i \in at : \A j \in at : i <= j]

\* list_push_front into the bucket an element belongs in, of bs.
Pushed(bs, e) == [bs EXCEPT ![FindBucket(bs, e)] = <<e>> \o @]

\* turn_off_least_1bit, is_power_of_2.
Powers == {2^k : k \in 0..10}
TurnOffLeast1Bit(x) == x - (CHOOSE p \in Powers : x % p = 0 /\ (x \div p) % 2 = 1)
Rounded[x \in Nat] == IF x \in Powers THEN x ELSE Rounded[TurnOffLeast1Bit(x)]

\* The number of buckets rehash wants for n elements.
Wanted(n) ==
  Rounded[IF n \div BestElems < MinBuckets THEN MinBuckets ELSE n \div BestElems]

\* The elements in the order of hash_first and hash_next: by bucket.
Iteration(bs) == Seqs!FlattenSeq([i \in 1..BucketCnt(bs) |-> bs[i - 1]])

\* Mutant: the lists of the old buckets become new ones as they are.
RehashBuckets(bs, n, memory) ==
  IF Wanted(n) = BucketCnt(bs) \/ ~memory THEN bs
  ELSE [b \in 0..Wanted(n) - 1 |-> IF b \in DOMAIN bs THEN bs[b] ELSE <<>>]

\* rehash of a table with n elements; memory: new buckets can be had.
Rehash(bs, n, memory) ==
  IF Wanted(n) = BucketCnt(bs) \/ ~memory THEN bs
  ELSE Seqs!FoldLeft(Pushed, Empty(Wanted(n)), Iteration(bs))

\* insert_elem and remove_elem.
Without(bs, e) == [bs EXCEPT ![FindBucket(bs, e)] = SelectSeq(@, LAMBDA x : x # e)]

Becomes(bs, n, memory) == buckets' = Rehash(bs, n, memory) /\ elemCnt' = n

\* hash_insert of an element that is not in the table.
HashInsert(e, memory) ==
  LET old == FindElem(buckets, e) IN
  /\ IF old = Null THEN Becomes(Pushed(buckets, e), elemCnt + 1, memory)
     ELSE Becomes(buckets, elemCnt, memory)
  /\ result' = old

\* hash_replace.
HashReplace(e, memory) ==
  LET old == FindElem(buckets, e) IN
  /\ IF old = Null THEN Becomes(Pushed(buckets, e), elemCnt + 1, memory)
     ELSE Becomes(Pushed(Without(buckets, old), e), elemCnt, memory)
  /\ result' = old

\* hash_delete.
HashDelete(e, memory) ==
  LET found == FindElem(buckets, e) IN
  /\ IF found = Null THEN UNCHANGED <<buckets, elemCnt>>
     ELSE Becomes(Without(buckets, found), elemCnt - 1, memory)
  /\ result' = found

\* hash_find.
HashFind(e) == result' = FindElem(buckets, e) /\ UNCHANGED <<buckets, elemCnt>>

\* hash_clear: the buckets are emptied and stay as many.
HashClear == buckets' = Empty(BucketCnt(buckets)) /\ elemCnt' = 0 /\ UNCHANGED result

InTable == Seqs!ToSet(Iteration(buckets))

HashNext ==
  \/ HashClear
  \/ \E e \in HashElem, memory \in BOOLEAN :
       \/ e \notin InTable /\ (HashInsert(e, memory) \/ HashReplace(e, memory))
       \/ HashDelete(e, memory) \/ HashFind(e)

Init == ListInit /\ HashInit

Next ==
  \/ ListNext /\ UNCHANGED tableVars
  \/ HashNext /\ UNCHANGED links

Spec == Init /\ [][Next]_<<links, tableVars>>
-------------------------------------------------------------------------------
\* list.c:4-32: both chains of each list go from one end to the other over the
\* same elements, and no element is linked into two lists.
WellLinked ==
  /\ \A l \in ListName : links.prev[Head_(l)] = Null /\ links.next[Tail_(l)] = Null
  /\ \A n \in ListElem : (links.prev[n] = Null) <=> (links.next[n] = Null)
  /\ \A n \in Node : links.next[n] # Null => links.prev[links.next[n]] = n
  /\ \A n \in ListElem \ Unlisted : \E l \in ListName : n \in InList(l)

\* list.c:411 and list.c:427: of several maxima, or minima, the earliest.
EarliestBest ==
  \A l \in ListName : Contents(l) # <<>> =>
    LET s == Contents(l)
        at(e) == CHOOSE i \in 1..Len(s) : s[i] = e
    IN  /\ \A i \in 1..Len(s) : ListKey[s[i]] < ListKey[ListMax(l)] \/
                                (ListKey[s[i]] = ListKey[ListMax(l)] /\ i >= at(ListMax(l)))
        /\ \A i \in 1..Len(s) : ListKey[s[i]] > ListKey[ListMin(l)] \/
                                (ListKey[s[i]] = ListKey[ListMin(l)] /\ i >= at(ListMin(l)))

\* Pointer for pointer the calls do what they promise of sequences; list_sort is
\* stable, list_insert_ordered keeps the order, list_unique the first of each group.
Sequences_ == INSTANCE AbstractList WITH
  Elem <- ListElem, Key <- ListKey, contents <- [l \in ListName |-> Contents(l)]
ImplementsSequences == Sequences_!Spec

\* list_insert_ordered leaves the list in order, the new element after its equals.
OrderKept ==
  [][\A l \in ListName, e \in Unlisted :
       InsertOrdered(l, e) =>
         LET s == Contents(l)' IN
         \A i \in 1..Len(s) - 1 : Less(s[i], s[i + 1]) \/
                                  (ListKey[s[i]] = ListKey[s[i + 1]] /\ s[i] # e)]_links

\* All of it together: list.c:4-32's two chains, list_max and list_min of
\* list.c:411, and what list.h says of every call.
ListsCorrect == [](WellLinked /\ EarliestBest) /\ ImplementsSequences /\ OrderKept

\* hash.c:81-132: through every growing, shrinking and failure to do so, an
\* element that is in the table is found in the bucket where it is looked for,
\* no two are equal, and hash_size counts them.
Table == INSTANCE AbstractTable WITH
  Elem <- HashElem, Key <- HashKey, elems <- InTable, cnt <- elemCnt
ImplementsTable == Table!Spec

ContainersRight == ListsCorrect /\ ImplementsTable
=============================================================================
