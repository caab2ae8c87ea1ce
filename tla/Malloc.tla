--------------------------------- MODULE Malloc ---------------------------------
(***************************************************************************)
(* The kernel's block allocator, threads/malloc.c.  Requests are rounded   *)
(* up to a power of two; a descriptor for each size carves pages, called   *)
(* arenas, into blocks; larger requests get pages of their own.  What a    *)
(* call does to a descriptor is one step, for it holds the descriptor's    *)
(* lock meanwhile; a realloc is two, and others may run between them.      *)
(* The page allocator is seen from here: the first group of free pages.    *)
(***************************************************************************)
EXTENDS Integers, Sequences, FiniteSets
Sets == INSTANCE FiniteSetsExt
Seqs == INSTANCE SequencesExt

CONSTANTS
  User,      \* whoever keeps one block at a time
  PageCnt, PGSIZE, Header, MinBlock, \* sizes, in bytes, of the pool and its parts
  Wrap,      \* size_t counts modulo Wrap
  Request, Factor,  \* bounds: the sizes asked of malloc, the factors of calloc
  None

Page == 0..PageCnt - 1

\* malloc_init: the block sizes that have a descriptor.
BlockSize == {MinBlock * 2^k : k \in {j \in 0..PGSIZE : MinBlock * 2^j < PGSIZE \div 2}}
BlocksPerArena(d) == (PGSIZE - Header) \div d

DescFor(size) == {d \in BlockSize : d >= size}
Block == [page : Page, idx : Nat]
BlockAt(page, i) == [page |-> page, idx |-> i]   \* arena_to_block
ArenaBlocks(page, d) == [i \in 1..BlocksPerArena(d) |-> BlockAt(page, i - 1)]

VARIABLES
  arena,     \* of each page: the header at its start, or None
  freeList,  \* of each descriptor: its free blocks
  taken,     \* the pages the page allocator has given out
  held,      \* of each user: the block it has, or None
  asked,     \* of each user: the bytes it asked for when it got the block
  moving     \* of each user: the new block while realloc copies to it, or None

vars == <<arena, freeList, taken, held, asked, moving>>

\* What every instance must satisfy: a header takes at most half a page, so that
\* an arena has a block; what is asked for is any number of size_t.
MallocAssumption ==
  /\ PageCnt \in Nat /\ PGSIZE \in Nat \ {0} /\ Header \in Nat
  /\ 2 * Header <= PGSIZE /\ \A d \in BlockSize : d \in Nat \ {0}
  /\ None \notin Block \cup BlockSize \cup [desc : BlockSize \cup {None}, freeCnt : Nat]
  /\ Wrap \in Nat \ {0}
  /\ Request \subseteq 0..Wrap - 1 /\ Factor \subseteq 0..Wrap - 1

Init ==
  /\ arena = [p \in Page |-> None] /\ freeList = [d \in BlockSize |-> <<>>]
  /\ taken = {} /\ held = [u \in User |-> None]
  /\ asked = [u \in User |-> 0] /\ moving = [u \in User |-> None]

\* palloc_get_multiple of cnt pages: where they may start.
Group(cnt) == {p \in Page : p + cnt <= PageCnt /\ p..p + cnt - 1 \cap taken = {}}

\* What malloc leaves: the block, or None, and the state of the allocator.
Result(b, a, f, t) == [block |-> b, arena |-> a, freeList |-> f, taken |-> t]
Failed == Result(None, arena, freeList, taken)

\* A request too big for the descriptors: pages of its own, the size in the
\* header.  The sum and the rounding are those of size_t and may wrap, which gives
\* too few pages, or none, which palloc_get_multiple refuses.
BigBlock(size) ==
  LET pages == ((((size + Header) % Wrap) + PGSIZE - 1) % Wrap) \div PGSIZE
      p == Sets!Min(Group(pages))
  IN  IF pages = 0 \/ Group(pages) = {} THEN Failed
      ELSE Result(BlockAt(p, 0), [arena EXCEPT ![p] = [desc |-> None, freeCnt |-> pages]],
                  freeList, taken \cup p..p + pages - 1)

\* The first block of the descriptor's list, for which a new arena is made when
\* the list is empty.
SmallBlock(d) ==
  LET new == freeList[d] = <<>>
      p == Sets!Min(Group(1))
      list == IF new THEN ArenaBlocks(p, d) ELSE freeList[d]
      home == list[1].page
      made == IF new THEN [arena EXCEPT ![p] = [desc |-> d, freeCnt |-> BlocksPerArena(d)]]
              ELSE arena
  IN  IF new /\ Group(1) = {} THEN Failed
      ELSE Result(list[1], [made EXCEPT ![home].freeCnt = @ - 1],
                  [freeList EXCEPT ![d] = Tail(list)], IF new THEN taken \cup {p} ELSE taken)

\* Mutant: the smallest descriptor is chosen by "greater", not "at least".
GetOff(size) ==
  IF size = 0 THEN Failed
  ELSE IF {d \in BlockSize : 2 * d > size} = {} THEN BigBlock(size)
  ELSE SmallBlock(Sets!Min({d \in BlockSize : 2 * d > size}))

\* malloc.
Get(size) ==
  IF size = 0 THEN Failed
  ELSE IF DescFor(size) = {} THEN BigBlock(size)
  ELSE SmallBlock(Sets!Min(DescFor(size)))

Apply(r) == arena' = r.arena /\ freeList' = r.freeList /\ taken' = r.taken

MallocBlock(u, size) ==
  /\ held[u] = None
  /\ LET r == Get(size)
     IN  /\ Apply(r) /\ held' = [held EXCEPT ![u] = r.block]
         /\ asked' = [asked EXCEPT ![u] = IF r.block = None THEN 0 ELSE size]
  /\ UNCHANGED moving

\* calloc: the product is one of size_t, and tested.
Calloc(u, a, b) ==
  LET size == (a * b) % Wrap IN
  /\ held[u] = None /\ size >= a /\ size >= b
  /\ LET r == Get(size)
     IN  /\ Apply(r) /\ held' = [held EXCEPT ![u] = r.block]
         /\ asked' = [asked EXCEPT ![u] = IF r.block = None THEN 0 ELSE a * b]
  /\ UNCHANGED moving

\* The list without the blocks of a page: the j-th that stays is the one with j
\* that stay up to it.
Without(list, page) ==
  LET stay == {i \in 1..Len(list) : list[i].page # page}
  IN  [j \in 1..Cardinality(stay) |->
         list[CHOOSE i \in stay : Cardinality({k \in stay : k <= i}) = j]]

\* Mutant: the blocks of an unused arena stay on the free list.
PutKeepsBlocks(b) ==
  LET d == arena[b.page].desc
      list == <<b>> \o freeList[d]
      cnt == arena[b.page].freeCnt + 1
  IN  IF d = None
      THEN Result(None, [arena EXCEPT ![b.page] = None], freeList,
                  taken \ (b.page..b.page + arena[b.page].freeCnt - 1))
      ELSE IF cnt >= BlocksPerArena(d)
      THEN Result(None, [arena EXCEPT ![b.page] = None],
                  [freeList EXCEPT ![d] = list], taken \ {b.page})
      ELSE Result(None, [arena EXCEPT ![b.page].freeCnt = cnt],
                  [freeList EXCEPT ![d] = list], taken)

\* free: back to the front of the list, and when the whole arena is unused its
\* blocks leave the list and the page goes back; a big block goes back as it is.
Put(b) ==
  LET d == arena[b.page].desc
      list == <<b>> \o freeList[d]
      cnt == arena[b.page].freeCnt + 1
  IN  IF d = None
      THEN Result(None, [arena EXCEPT ![b.page] = None], freeList,
                  taken \ (b.page..b.page + arena[b.page].freeCnt - 1))
      ELSE IF cnt >= BlocksPerArena(d)
      THEN Result(None, [arena EXCEPT ![b.page] = None],
                  [freeList EXCEPT ![d] = Without(list, b.page)],
                  taken \ {b.page})
      ELSE Result(None, [arena EXCEPT ![b.page].freeCnt = cnt],
                  [freeList EXCEPT ![d] = list], taken)

Free(u) ==
  /\ held[u] # None /\ moving[u] = None
  /\ Apply(Put(held[u])) /\ held' = [held EXCEPT ![u] = None]
  /\ asked' = [asked EXCEPT ![u] = 0] /\ UNCHANGED moving

\* realloc of a block to a size that is not 0: first a new block, ...
ReallocGet(u, size) ==
  /\ held[u] # None /\ moving[u] = None /\ size > 0
  /\ LET r == Get(size)
     IN  /\ Apply(r) /\ moving' = [moving EXCEPT ![u] = r.block]
         /\ asked' = [asked EXCEPT ![u] = IF r.block = None THEN @ ELSE size]
  /\ UNCHANGED held

\* ... and, the contents copied, the old one goes.
ReallocPut(u) ==
  /\ moving[u] # None
  /\ Apply(Put(held[u]))
  /\ held' = [held EXCEPT ![u] = moving[u]] /\ moving' = [moving EXCEPT ![u] = None]
  /\ UNCHANGED asked

Next ==
  \E u \in User :
    \/ \E size \in Request : MallocBlock(u, size) \/ ReallocGet(u, size)
    \/ \E a, b \in Factor : Calloc(u, a, b)
    \/ Free(u) \/ ReallocPut(u)

Spec == Init /\ [][Next]_vars
-------------------------------------------------------------------------------
TypeOK ==
  /\ taken \subseteq Page /\ \A d \in BlockSize : freeList[d] \in Seq(Block)
  /\ \A u \in User : {held[u], moving[u]} \subseteq Block \cup {None}

\* block_size: the bytes from a block to the end of what was allocated with it.
SizeOf(b) ==
  IF arena[b.page].desc = None THEN PGSIZE * arena[b.page].freeCnt - Header
  ELSE arena[b.page].desc

\* The bytes of a block.
Span(b) ==
  LET from == b.page * PGSIZE + Header + b.idx *
                (IF arena[b.page].desc = None THEN 0 ELSE arena[b.page].desc)
  IN  from..from + SizeOf(b) - 1

InUse == {b \in {held[u] : u \in User} \cup {moving[u] : u \in User} : b # None}

\* Nobody's block overlaps another's, the header of an arena or a page that was
\* given back, and a block that is free lies in an arena of its descriptor: what
\* block_to_arena asserts of every pointer it meets.
BlocksDisjoint ==
  /\ \A u, v \in User : u # v =>
       {held[u], moving[u]} \cap {held[v], moving[v]} \subseteq {None}
  /\ \A b \in InUse : b.page \in taken /\ arena[b.page] # None
  /\ \A b, c \in InUse : b # c => Span(b) \cap Span(c) = {}
  /\ \A b \in InUse, d \in BlockSize : b \notin Seqs!ToSet(freeList[d])
  /\ \A b \in InUse, p \in Page : arena[p] # None =>
       Span(b) \cap (p * PGSIZE..p * PGSIZE + Header - 1) = {}

\* A descriptor's list holds each block of its arenas that nobody has, once;
\* free_cnt counts them; and no page is kept for an arena without a block in use.
ArenaExact ==
  /\ \A d \in BlockSize :
       /\ Seqs!IsInjective(freeList[d])
       /\ Seqs!ToSet(freeList[d]) =
            UNION {Seqs!ToSet(ArenaBlocks(p, d)) \ InUse :
                     p \in {q \in Page : arena[q] # None /\ arena[q].desc = d}}
  /\ \A p \in Page : arena[p] # None /\ arena[p].desc # None =>
       LET used == Cardinality({b \in InUse : b.page = p})
       IN  used > 0 /\ arena[p].freeCnt = BlocksPerArena(arena[p].desc) - used
  /\ taken = UNION {p..p + (IF arena[p].desc = None THEN arena[p].freeCnt ELSE 1) - 1 :
                      p \in {q \in Page : arena[q] # None}}

\* The bytes a block for n of them is sure to have.  Where n, with the header and
\* rounded up, is no number of size_t, malloc.c:100 may take pages for a few bytes,
\* and calloc, whose test at malloc.c:152 not every product fails, asks for a few.
Owed(n) == IF n + Header + PGSIZE <= Wrap THEN n ELSE 0

\* malloc.c:81 and malloc.c:150: a block has at least the bytes asked for, the
\* product of calloc's arguments included, unless their number wraps.
BlockFits ==
  \A u \in User : LET b == IF moving[u] # None THEN moving[u] ELSE held[u]
                  IN  b # None => SizeOf(b) >= Owed(asked[u])

\* Blocks are apart and large enough, and none is lost or listed twice.
MallocExact == BlocksDisjoint /\ ArenaExact /\ BlockFits
=============================================================================
