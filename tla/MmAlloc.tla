------------------------------- MODULE MmAlloc --------------------------------
(***************************************************************************)
(* hw-memory/mm_alloc/mm_alloc.c: a first-fit allocator over sbrk.  The    *)
(* heap is a doubly linked list of blocks in address order, a header of    *)
(* Header bytes before each payload; a block is named by the address of    *)
(* its header.  sbrk hands out Limit bytes and then fails.                 *)
(***************************************************************************)
EXTENDS Naturals

CONSTANTS
  Header,      \* sizeof(Block)
  Size,        \* sizes that are asked for
  Limit,       \* bytes sbrk can give
  ClientSpares \* the client never frees the last block while the block before
               \* it is free

\* A call for no bytes does nothing.
MmAllocAssumption == Header \in Nat \ {0} /\ Size \subseteq Nat \ {0} /\ Limit \in Nat

Null == 0
Failed == Limit + Header + 1  \* (void *) -1

VARIABLES
  heap,  \* hdr: the headers ever written; base, end; top: sbrk(0); first
  live   \* what the client holds: block -> size it asked for

vars == <<heap, live>>

Init ==
  /\ heap = [hdr |-> [a \in {} |-> Null], base |-> Null, end |-> Null,
             top |-> 1, first |-> TRUE]
  /\ live = [a \in {} |-> 0]

\* The header x is written at b.
Write(h, b, x) ==
  [h EXCEPT !.hdr = [a \in DOMAIN h.hdr \cup {b} |-> IF a = b THEN x ELSE h.hdr[a]]]
Block(size, free, next, prev) ==
  [size |-> size, free |-> free, next |-> next, prev |-> prev]
SetPrev(h, b, p) ==
  IF b = Null THEN h ELSE [h EXCEPT !.hdr[b].prev = p]

\* The list from base: the i-th block, Null past the end.
Chain(h) ==
  LET walk[i \in 0..Limit] ==
        IF i = 0 THEN h.base
        ELSE IF walk[i - 1] = Null THEN Null ELSE h.hdr[walk[i - 1]].next
  IN  walk
Blocks(h) == {Chain(h)[i] : i \in 0..Limit} \ {Null}

\* Mutant: a block fits whatever its size.
FitsAnySize(h, b, size) == h.hdr[b].free

\* Mutant: a block fits whether it is free or not.
FitsTaken(h, b, size) == h.hdr[b].size >= size

Fits(h, b, size) == h.hdr[b].free /\ h.hdr[b].size >= size
\* The first block of the list that fits.
FirstFit(h, size) ==
  LET c == Chain(h)
      i == CHOOSE i \in 0..Limit :
             /\ c[i] # Null /\ Fits(h, c[i], size)
             /\ \A j \in 0..i - 1 : ~Fits(h, c[j], size)
  IN  c[i]

\* Mutant: the rest is split off without its header.
SplitWide(h, b, size) ==
  LET x == h.hdr[b]
      new == b + Header + size
      f == Write(h, b, Block(size, FALSE, new, x.prev))
      g == SetPrev(Write(f, new, Block(x.size - size, TRUE, x.next, b)), x.next, new)
  IN  IF x.next = Null THEN [g EXCEPT !.end = new] ELSE g

\* Mutant: the block after the rest keeps its old predecessor.
SplitHalfLinked(h, b, size) ==
  LET x == h.hdr[b]
      new == b + Header + size
      f == Write(h, b, Block(size, FALSE, new, x.prev))
      g == Write(f, new, Block(x.size - Header - size, TRUE, x.next, b))
  IN  IF x.next = Null THEN [g EXCEPT !.end = new] ELSE g

\* The block is taken and the rest becomes a block of its own, ...
Split(h, b, size) ==
  LET x == h.hdr[b]
      new == b + Header + size
      f == Write(h, b, Block(size, FALSE, new, x.prev))
      g == SetPrev(Write(f, new, Block(x.size - Header - size, TRUE, x.next, b)), x.next, new)
  IN  IF x.next = Null THEN [g EXCEPT !.end = new] ELSE g

\* ... or taken whole when the rest could not hold a header.
Take(h, b, size) ==
  IF h.hdr[b].size - size >= Header
  THEN Split(h, b, size)
  ELSE [h EXCEPT !.hdr[b].free = FALSE]

\* A new block from sbrk, at the end of the list.
Extend(h, size) ==
  LET new == h.top
      g == [h EXCEPT !.top = new + size + Header, !.end = new, !.first = FALSE]
  IN  IF h.first
      THEN [Write(g, new, Block(size, FALSE, Null, Null)) EXCEPT !.base = new]
      ELSE Write([g EXCEPT !.hdr[h.end].next = new],
                 new, Block(size, FALSE, Null, h.end))

SbrkFails(h, size) == h.top + size + Header > Limit + 1

\* mm_malloc: the heap after the call and the block returned.
MallocIn(h, size) ==
  CASE ~h.first /\ \E b \in Blocks(h) : Fits(h, b, size) ->
         LET b == FirstFit(h, size) IN [heap |-> Take(h, b, size), block |-> b]
    [] ~SbrkFails(h, size) /\ (h.first \/ \A b \in Blocks(h) : ~Fits(h, b, size)) ->
         [heap |-> Extend(h, size), block |-> h.top]
    [] OTHER ->
         [heap |-> [h EXCEPT !.first = FALSE,
                             !.base = IF h.first THEN Failed ELSE @],
          block |-> Null]

\* Block c has been merged into another: its header is forgotten, unless end
\* still points to it.
Merged(h, c) ==
  IF h.end = c THEN h
  ELSE [h EXCEPT !.hdr = [a \in DOMAIN h.hdr \ {c} |-> h.hdr[a]]]

\* Block b takes in the block c after it.
Absorbed(h, b, c) ==
  LET x == h.hdr[b]
      y == h.hdr[c]
  IN  SetPrev([h EXCEPT !.hdr[b] = Block(x.size + Header + y.size, x.free, y.next, x.prev)],
              y.next, b)

\* mm_free, second half: b absorbs the block after it if that is free.
AbsorbNext(h, b) ==
  LET n == h.hdr[b].next
      g == Absorbed(h, b, n)
  IN  IF n = Null \/ ~h.hdr[n].free THEN h
      ELSE Merged(IF h.hdr[n].next = Null THEN [g EXCEPT !.end = b] ELSE g, n)

\* Mutant: a free block is not merged with a free predecessor.
FreeForward(h, b) == AbsorbNext([h EXCEPT !.hdr[b].free = TRUE], b)

\* mm_free: b is merged into a free predecessor (end is left alone), then the
\* result with a free successor.
FreeIn(h, b) ==
  LET p == h.hdr[b].prev
      freed == [h EXCEPT !.hdr[b].free = TRUE]
  IN  IF p # Null /\ h.hdr[p].free THEN AbsorbNext(Merged(Absorbed(freed, p, b), b), p)
      ELSE AbsorbNext(freed, b)

Holds(b, size) == [a \in DOMAIN live \cup {b} |-> IF a = b THEN size ELSE live[a]]
Without(b) == [a \in DOMAIN live \ {b} |-> live[a]]
Spared(b) ==
  LET x == heap.hdr[b] IN
  ~(ClientSpares /\ x.next = Null /\ x.prev # Null /\ heap.hdr[x.prev].free)

Malloc(size) ==
  LET r == MallocIn(heap, size) IN
  /\ heap.base # Failed
  /\ heap' = r.heap
  /\ live' = IF r.block = Null THEN live ELSE Holds(r.block, size)

Free(b) == Spared(b) /\ heap' = FreeIn(heap, b) /\ live' = Without(b)

\* mm_realloc counts what freeing the block would leave: the block with its free
\* neighbours.
IfWeFree(b) ==
  LET x == heap.hdr[b]
      Gain(c) == IF c # Null /\ heap.hdr[c].free
                 THEN heap.hdr[c].size + Header ELSE 0
  IN  x.size + Gain(x.prev) + Gain(x.next)

Moved(b, r, size) ==
  [a \in (DOMAIN live \ {b}) \cup {r} |-> IF a = r THEN size ELSE live[a]]

\* mm_realloc where there is room: free first, allocate in what that leaves.
ReallocInPlace(b, size) ==
  LET r == MallocIn(FreeIn(heap, b), size) IN
  /\ Spared(b) /\ IfWeFree(b) >= size
  /\ heap' = r.heap /\ live' = Moved(b, r.block, size)

\* mm_realloc where there is none: allocate first; a failure changes nothing.
ReallocByMoving(b, size) ==
  LET r == MallocIn(heap, size) IN
  /\ Spared(b) /\ IfWeFree(b) < size
  /\ IF r.block = Null THEN heap' = r.heap /\ UNCHANGED live
     ELSE heap' = FreeIn(r.heap, b) /\ live' = Moved(b, r.block, size)

Next ==
  \/ \E size \in Size : Malloc(size)
  \/ \E b \in DOMAIN live :
       \/ Free(b)
       \/ \E size \in Size : ReallocInPlace(b, size) \/ ReallocByMoving(b, size)

Spec == Init /\ [][Next]_vars
-------------------------------------------------------------------------------
TypeOK ==
  /\ heap.top \in 1..Limit + 1 /\ heap.first \in BOOLEAN
  /\ {heap.base, heap.end} \subseteq DOMAIN heap.hdr \cup {Null, Failed}
  /\ \A a \in DOMAIN heap.hdr :
       /\ a \in 1..Limit /\ heap.hdr[a].size \in 0..Limit
       /\ heap.hdr[a].free \in BOOLEAN
       /\ {heap.hdr[a].next, heap.hdr[a].prev} \subseteq DOMAIN heap.hdr \cup {Null}
  /\ DOMAIN live \subseteq DOMAIN heap.hdr

After(b) == b + Header + heap.hdr[b].size

\* The list tiles the memory from sbrk: its pointers lead to headers that were
\* written, each block ends where the next begins, and the last one at the
\* break; no byte is lost, none belongs to two blocks.
BlocksTile ==
  /\ TypeOK
  /\ heap.base \notin {Null, Failed} =>
       /\ heap.base = 1
       /\ \A b \in Blocks(heap) :
            After(b) = IF heap.hdr[b].next = Null THEN heap.top ELSE heap.hdr[b].next

\* The list reads the same from both ends, and end is its last block.
ListsAgree ==
  heap.base \notin {Null, Failed} =>
    /\ heap.end \in Blocks(heap) /\ heap.hdr[heap.end].next = Null
    /\ \A b \in Blocks(heap) :
         heap.hdr[b].next # Null => heap.hdr[heap.hdr[b].next].prev = b

\* A block the client holds is in the list, taken, and as large as it asked for;
\* all other blocks are free.
LiveBlocksHeld ==
  heap.base # Failed =>
    /\ DOMAIN live = {b \in Blocks(heap) : ~heap.hdr[b].free}
    /\ \A b \in DOMAIN live : heap.hdr[b].size >= live[b]

\* mm_free leaves no two free neighbours.
Coalesced ==
  heap.base # Failed =>
    \A b \in Blocks(heap) :
      heap.hdr[b].free /\ heap.hdr[b].next # Null => ~heap.hdr[heap.hdr[b].next].free

\* The list of blocks is what mm_malloc and mm_free take it for.
HeapExact == BlocksTile /\ ListsAgree /\ LiveBlocksHeld /\ Coalesced

\* mm_malloc and mm_free leave every other block the client holds as it is; in
\* particular no block is handed out twice.
HeldUntouched ==
  [][ (\E size \in Size : Malloc(size)) \/ (\E b \in DOMAIN live : Free(b)) =>
        \A b \in DOMAIN live \cap DOMAIN live' :
          live'[b] = live[b] /\ heap'.hdr[b].size = heap.hdr[b].size ]_vars

\* Both, over any sequence of calls.
HeapRight == []HeapExact /\ HeldUntouched
=============================================================================
