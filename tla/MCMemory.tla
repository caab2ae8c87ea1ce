-------------------------------- MODULE MCMemory --------------------------------
(* Small instances of allocators and data structures side by side, of which *)
(* a behaviour runs one: the page allocator with three threads on three     *)
(* pages; the kernel's malloc with two users on three pages; sbrk with      *)
(* pages of four bytes; mm_malloc with headers of two bytes in a heap of    *)
(* 17; two lists of five elements; a hash table of six.                     *)
EXTENDS Palloc, TLC
CONSTANTS
  Parts,        \* the instances that run
  Faults,       \* whether sbrk meets failures and sums it has no answer to
  ClientSpares, \* whether clients keep clear of the known error of mm_free
  t1, t2, t3, e1, e2, e3, e4, e5, e6
Threads == {t1, t2, t3}
Elements == {e1, e2, e3, e4, e5}

VARIABLES
  part,
  arena, freeList, taken, held, asked, moving,   \* of malloc
  brk, mapped, free, outside, lost, tables, call, result, \* of sbrk
  heap, live,                                    \* of mm_malloc
  links,                                         \* of the lists
  buckets, elemCnt, equal                        \* of the table

mallocVars == <<arena, freeList, taken, held, asked, moving>>
sbrkVars == <<brk, mapped, free, outside, lost, tables, call, result>>
mmVars == <<heap, live>>
hashVars == <<buckets, elemCnt, equal>>
mcVars == <<part, vars, mallocVars, sbrkVars, mmVars, links, hashVars>>

\* Requests for none, a block of the larger descriptor, more than a descriptor has,
\* and as much as wraps with a header; of the products, 144 wraps and is let pass.
Kernel == INSTANCE Malloc WITH
  User <- {t1, t2}, PageCnt <- 3, PGSIZE <- 16, Header <- 8, MinBlock <- 2, Wrap <- 128,
  Request <- {0, 3, 9, 127}, Factor <- {1, 2, 12, 100}, None <- NoThread
ASSUME KernelAssumption == Kernel!MallocAssumption

Break == INSTANCE Sbrk WITH
  PageSize <- 4, Start <- 12, Space <- 64, Pool <- 3, BreakBound <- 20,
  TableSpan <- 3, TableFails <- Faults,
  Increment <- {-6, -4, 0, 2, 4, 10} \cup (IF Faults THEN {-18} ELSE {}),
  taken <- outside
ASSUME BreakAssumption == Break!SbrkAssumption

User == INSTANCE MmAlloc WITH Header <- 2, Size <- {1, 2, 4}, Limit <- 17
ASSUME UserAssumption == User!MmAllocAssumption

\* Equal elements; in the table also different ones that share a bucket of two or
\* four.
Lib == INSTANCE Containers WITH
  ListElem <- Elements, ListName <- {"a", "b"}, Null <- NoThread,
  ListKey <- e1 :> 1 @@ e2 :> 1 @@ e3 :> 2 @@ e4 :> 2 @@ e5 :> 3,
  HashElem <- Elements \cup {e6}, MinBuckets <- 2, BestElems <- 1,
  HashKey <- e1 :> 1 @@ e2 :> 1 @@ e3 :> 3 @@ e4 :> 4 @@ e5 :> 5 @@ e6 :> 6,
  HashOf <- e1 :> 1 @@ e2 :> 1 @@ e3 :> 1 @@ e4 :> 2 @@ e5 :> 5 @@ e6 :> 7,
  result <- equal

MCInit ==
  /\ part \in Parts
  /\ Init /\ Kernel!Init /\ Break!Init /\ User!Init /\ Lib!Init

PallocPart(A) ==
  part = "palloc" /\ A /\ UNCHANGED <<part, mallocVars, sbrkVars, mmVars, links, hashVars>>

MCNext ==
  \/ PallocPart(Next)
  \/ part = "malloc" /\ Kernel!Next /\ UNCHANGED <<part, vars, sbrkVars, mmVars, links, hashVars>>
  \/ part = "sbrk" /\ Break!Next /\ UNCHANGED <<part, vars, mallocVars, mmVars, links, hashVars>>
  \/ part = "mm_malloc" /\ User!Next
       /\ UNCHANGED <<part, vars, mallocVars, sbrkVars, links, hashVars>>
  \/ part = "lists" /\ Lib!ListNext /\ UNCHANGED <<part, vars, mallocVars, sbrkVars, mmVars, hashVars>>
  \/ part = "table" /\ Lib!HashNext /\ UNCHANGED <<part, vars, mallocVars, sbrkVars, mmVars, links>>

\* A thread goes on with a call of the page allocator it has begun.
MCSpec == MCInit /\ [][MCNext]_mcVars /\ \A t \in Thread : WF_mcVars(PallocPart(Step(t)))

\* The properties of modules Malloc, Sbrk, MmAlloc and Containers.
MallocExact == Kernel!MallocExact
BreakRight == Break!BreakRight
HeapMapped == Break!HeapMapped
HeapRight == User!HeapRight
LiveBlocksHeld == User!LiveBlocksHeld
ContainersRight == Lib!ContainersRight
=============================================================================
