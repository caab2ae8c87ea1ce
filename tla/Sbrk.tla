--------------------------------- MODULE Sbrk ---------------------------------
(***************************************************************************)
(* The sbrk system call of the memory homework                             *)
(* (hw-memory/pintos/src/userprog/syscall.c): the heap of one process,     *)
(* pages taken from and given back to the user pool that other processes   *)
(* use too.  Addresses are unsigned and wrap at Space.                     *)
(***************************************************************************)
EXTENDS Integers, FiniteSets

CONSTANTS
  PageSize, Start,  \* start_of_heap, page aligned
  Space,            \* 2^w, for addresses of w bits
  Pool,             \* pages of the user pool
  TableSpan,        \* pages that one page table maps
  TableFails,       \* whether the kernel pool may have no page for a page table
  Increment,        \* arguments of sbrk
  BreakBound        \* bound: alloc is not called with a break above it

VARIABLES
  brk,      \* segment_break
  mapped,   \* the heap pages that are mapped, each "zero" or "data"
  free,     \* pages free in the pool
  taken,    \* pages the rest of the system has taken
  lost,     \* pages that alloc obtained and did not map
  tables,   \* the page tables of the process
  call,     \* the call of alloc under way, if there is one
  result    \* what the last call returned

vars == <<brk, mapped, free, taken, lost, tables, call, result>>

\* The heap starts at a page, and no argument of alloc carries the break past the
\* end of the address space; one of dealloc may carry it below zero.
SbrkAssumption ==
  /\ PageSize \in Nat \ {0} /\ Space \in Nat /\ Pool \in Nat /\ BreakBound \in Nat
  /\ Start \in 0..Space - 1 /\ Start % PageSize = 0
  /\ TableSpan \in Nat \ {0} /\ TableFails \in BOOLEAN
  /\ Increment \subseteq -(Space - 1)..Space - 1 - BreakBound

PageNo(a) == a \div PageSize
RoundUp(a) == ((a + PageSize - 1) \div PageSize) * PageSize
Wrap(a) == a % Space
Positive(n) == IF n > 0 THEN n ELSE 0
TableOf(p) == p \div TableSpan

Idle == [phase |-> "idle", inc |-> 0, got |-> 0]

\* The program was loaded right below the heap.
Init ==
  /\ brk = Start /\ mapped = [p \in {} |-> "zero"] /\ tables = {TableOf(PageNo(Start) - 1)}
  /\ free = Pool /\ taken = 0 /\ lost = 0 /\ call = Idle /\ result = Start

\* palloc_get_page and pagedir_set_page, whose failure, for want of a page table,
\* alloc does not look at.
SetPage(p) ==
  /\ free > 0 /\ free' = free - 1
  /\ \/ /\ mapped' = [q \in DOMAIN mapped \cup {p} |-> IF q = p THEN "zero" ELSE mapped[q]]
        /\ tables' = tables \cup {TableOf(p)} /\ lost' = lost
     \/ /\ TableFails /\ TableOf(p) \notin tables
        /\ lost' = lost + 1 /\ UNCHANGED <<mapped, tables>>

\* pagedir_get_page, pagedir_clear_page and palloc_free_page, of pages of which
\* those that are not mapped are skipped (palloc_free_page of NULL).
GiveBack(S) ==
  /\ mapped' = [p \in DOMAIN mapped \ S |-> mapped[p]]
  /\ free' = free + Cardinality(S \cap DOMAIN mapped)
  /\ UNCHANGED <<lost, tables>>

\* The pages above the one that holds the break, as many as alloc wants.
Base == PageNo(RoundUp(brk + 1))
Wanted == PageNo(Wrap(brk + call.inc)) - PageNo(brk)

\* Mutant: a call that fails gives back the first page of the heap, not its own.
FirstPageAlways == {PageNo(Start)}

\* The page at the start of an empty heap, which alloc obtains first.
FirstPage == IF brk = Start THEN {PageNo(Start)} ELSE {}

AllocStart(inc) ==
  /\ call = Idle /\ inc > 0 /\ brk <= BreakBound
  /\ IF brk = Start /\ free = 0
     THEN result' = -1 /\ UNCHANGED <<mapped, free, lost, tables, call>>
     ELSE /\ IF brk = Start THEN SetPage(PageNo(Start)) ELSE UNCHANGED <<mapped, free, lost, tables>>
          /\ call' = [phase |-> "grow", inc |-> inc, got |-> 0] /\ UNCHANGED result
  /\ UNCHANGED <<brk, taken>>

\* One turn of the loop; when the pool is dry, the first page goes back.
AllocGrow ==
  /\ call.phase = "grow" /\ call.got < Wanted
  /\ \/ SetPage(Base + call.got) /\ call' = [call EXCEPT !.got = call.got + 1]
     \/ free = 0 /\ GiveBack(FirstPage) /\ call' = [call EXCEPT !.phase = "undo"]
  /\ UNCHANGED <<brk, taken, result>>

\* Mutant: ptalloc is not moved back before the loop.
UndoneFromNext == {Base + call.got}

\* One turn of the loop that gives the others back, the last one first.
Undone == {Base + call.got - 1}

AllocUndo ==
  /\ call.phase = "undo"
  /\ IF call.got > 0
     THEN GiveBack(Undone) /\ call' = [call EXCEPT !.got = call.got - 1] /\ UNCHANGED result
     ELSE result' = -1 /\ call' = Idle /\ UNCHANGED <<mapped, free, lost, tables>>
  /\ UNCHANGED <<brk, taken>>

AllocDone ==
  /\ call.phase = "grow" /\ call.got = Wanted
  /\ brk' = Wrap(brk + call.inc) /\ result' = brk /\ call' = Idle
  /\ UNCHANGED <<mapped, free, taken, lost, tables>>

\* Mutant: the page that holds the new break goes too.
ShrunkTooFar(inc) ==
  {PageNo(brk) - i : i \in 0..PageNo(brk) - PageNo(Wrap(brk + inc))}

\* Mutant: the page of an aligned break stays mapped.
ShrunkUnaligned(inc) ==
  LET gone == PageNo(brk) - PageNo(Wrap(brk + inc))
  IN  {PageNo(brk) - i : i \in 1..gone}

\* dealloc: the pages from the one of the old break down to the one above the
\* new break, and the new break's own page when the break is page aligned.
Shrunk(inc) ==
  LET new == Wrap(brk + inc)
      gone == Positive(PageNo(brk) - PageNo(new))
  IN  {PageNo(brk) - i : i \in 0..gone - 1}
        \cup (IF new % PageSize = 0 THEN {PageNo(brk) - gone} ELSE {})

Dealloc(inc) ==
  /\ call = Idle /\ inc < 0
  /\ IF Wrap(brk + inc) < Start
     THEN result' = -1 /\ UNCHANGED <<brk, mapped, free, lost, tables>>
     ELSE GiveBack(Shrunk(inc)) /\ brk' = Wrap(brk + inc) /\ result' = brk
  /\ UNCHANGED <<taken, call>>

Query ==
  /\ call = Idle /\ 0 \in Increment /\ result' = brk
  /\ UNCHANGED <<brk, mapped, free, taken, lost, tables, call>>

\* The process writes to a page of its heap.
Write(p) ==
  /\ call = Idle /\ p \in DOMAIN mapped
  /\ mapped' = [mapped EXCEPT ![p] = "data"]
  /\ UNCHANGED <<brk, free, taken, lost, tables, call, result>>

\* Other processes come and go, also while alloc runs.
Others ==
  /\ \/ free > 0 /\ free' = free - 1 /\ taken' = taken + 1
     \/ taken > 0 /\ free' = free + 1 /\ taken' = taken - 1
  /\ UNCHANGED <<brk, mapped, lost, tables, call, result>>

SbrkCall ==
  \/ Query \/ AllocGrow \/ AllocUndo \/ AllocDone
  \/ \E inc \in Increment : AllocStart(inc) \/ Dealloc(inc)

Next == SbrkCall \/ (\E p \in DOMAIN mapped : Write(p)) \/ Others

Spec == Init /\ [][Next]_vars
-------------------------------------------------------------------------------
TypeOK ==
  /\ brk \in Start..Space - 1 /\ result \in -1..Space - 1
  /\ free \in 0..Pool /\ taken \in 0..Pool /\ lost \in 0..Pool
  /\ \A p \in DOMAIN mapped : mapped[p] \in {"zero", "data"}
  /\ call.phase \in {"idle", "grow", "undo"} /\ call.inc \in Increment \cup {0}
  /\ call.got \in 0..PageNo(Space)

\* No page of the pool is lost or counted twice, at any point of alloc and dealloc,
\* also while alloc takes its pages back: those in the pool, with others and in the
\* heap add up, but for the ones whose pagedir_set_page failed.
PoolExact == TypeOK /\ free + taken + lost + Cardinality(DOMAIN mapped) = Pool

\* Between calls nothing is mapped below the heap or above the page that holds the
\* break, whether the calls before succeeded or failed, and nothing in an empty heap.
NothingBeyondBreak ==
  call = Idle =>
    /\ \A p \in DOMAIN mapped : PageNo(Start) <= p /\ p <= PageNo(brk)
    /\ brk = Start => DOMAIN mapped = {}

\* Each page is where it belongs: in the pool, with others, or in the heap.
PagesExact == PoolExact /\ NothingBeyondBreak

\* dealloc whose sum falls below zero, comes round to a page boundary above the break
\* and takes the page of the old break (syscall.c:190-199).
WrappedAway(p) == call = Idle /\ brk' > brk /\ p = PageNo(brk)

\* No step of sbrk unmaps or zeroes a page with a byte below the old and the new
\* break, the page that holds the break included, but for one case: WrappedAway.
DataKept ==
  [][ SbrkCall => \A p \in DOMAIN mapped :
        p * PageSize < brk /\ p * PageSize < brk' /\ ~WrappedAway(p)
          => p \in DOMAIN mapped' /\ mapped'[p] = mapped[p] ]_vars

\* A call that lowers the break leaves no page without a byte below it.
ShrunkAway == [][ brk' < brk => \A p \in DOMAIN mapped' : p * PageSize < brk' ]_vars

\* "Make sure that the necessary memory is allocated" (sbrk-counter.c:44): every
\* byte between the start of the heap and the break is mapped.
HeapMapped == \A a \in Start..brk - 1 : PageNo(a) \in DOMAIN mapped

\* No page and no byte of the heap is lost, whatever the order of the calls.
BreakRight == []PagesExact /\ DataKept /\ ShrunkAway
=============================================================================
