---------------------------------- MODULE Loader ----------------------------------
(***************************************************************************)
(* How an ELF executable gets into memory: load of userprog/process.c from *)
(* the program headers on, with validate_segment, load_segment,            *)
(* setup_stack and install_page, in the arithmetic of 32-bit words.  A     *)
(* header, a page and the stack are a step each.                           *)
(* External: what the linker writes into a program header (a bound).       *)
(***************************************************************************)
EXTENDS Integers, Sequences, FiniteSets

CONSTANTS
  PGSIZE, PhysBase, \* in bytes
  Wrap,      \* words count modulo Wrap
  Pool,      \* the pages of the user pool
  Programs   \* bound: the executables, [length, headers], with headers
             \* [type, offset, vaddr, filesz, memsz, writable]

VARIABLES
  file,     \* the executable
  next,     \* the header to look at
  segment,  \* what load_segment has still to do: [ofs, upage, read, zero, writable]
  pages,    \* the pages of the process: [bytes, writable] of each page mapped
  free,     \* the pages left in the user pool
  status    \* "headers", "segment", "loaded" or "failed"
vars == <<file, next, segment, pages, free, status>>

NoSegment == [ofs |-> 0, upage |-> 0, read |-> 0, zero |-> 0, writable |-> FALSE]

Init ==
  /\ file \in Programs /\ next = 1 /\ segment = NoSegment
  /\ pages = <<>> /\ free = Pool /\ status = "headers"

Word(n) == n % Wrap
PgOfs(a) == a % PGSIZE
PgRound(a) == a - PgOfs(a)
RoundUp(n) == Word(PGSIZE * ((n + PGSIZE - 1) \div PGSIZE))
Phdr == file.headers[next]

\* Mutant: a segment may end anywhere.
ValidateSegmentStart(h) ==
  /\ PgOfs(h.offset) = PgOfs(h.vaddr) /\ h.offset <= file.length
  /\ h.memsz >= h.filesz /\ h.memsz # 0 /\ h.vaddr < PhysBase /\ h.vaddr >= PGSIZE

ValidateSegment(h) ==
  /\ PgOfs(h.offset) = PgOfs(h.vaddr)
  /\ h.offset <= file.length
  /\ h.memsz >= h.filesz /\ h.memsz # 0
  /\ h.vaddr < PhysBase /\ Word(h.vaddr + h.memsz) < PhysBase
  /\ Word(h.vaddr + h.memsz) >= h.vaddr
  /\ h.vaddr >= PGSIZE

\* Mutant: what is read from the file begins at the segment, not at its page.
SegmentOfOffset(h) ==
  LET read == h.filesz
  IN  [ofs |-> PgRound(h.offset), upage |-> PgRound(h.vaddr), read |-> read,
       zero |-> RoundUp(PgOfs(h.vaddr) + h.memsz) - read, writable |-> h.writable]

\* The arguments of load_segment for a header.
SegmentOf(h) ==
  LET read == IF h.filesz > 0 THEN PgOfs(h.vaddr) + h.filesz ELSE 0
  IN  [ofs |-> PgRound(h.offset), upage |-> PgRound(h.vaddr), read |-> read,
       zero |-> RoundUp(PgOfs(h.vaddr) + h.memsz) - read, writable |-> h.writable]

Fail == status' = "failed" /\ UNCHANGED <<file, next, segment>>

\* The file cannot be opened, its ELF header is not one of an i386 executable,
\* or a program header lies beyond the end of the file.
Unreadable == status = "headers" /\ Fail /\ UNCHANGED <<pages, free>>

\* The switch on the type of the next header.
LoadHeader ==
  /\ status = "headers" /\ next <= Len(file.headers)
  /\ UNCHANGED <<pages, free>>
  /\ \/ Phdr.type = "ignored" /\ next' = next + 1 /\ UNCHANGED <<file, segment, status>>
     \/ Phdr.type = "dynamic" /\ Fail
     \/ Phdr.type = "load" /\ ~ValidateSegment(Phdr) /\ Fail
     \/ /\ Phdr.type = "load" /\ ValidateSegment(Phdr)
        /\ segment' = SegmentOf(Phdr) /\ next' = next + 1 /\ status' = "segment"
        /\ UNCHANGED file

\* A byte is known by where in the file it is from; one that is zero is from
\* Nowhere.
Nowhere == Wrap
Filled(s, read) == [i \in 0..PGSIZE - 1 |-> IF i < read THEN s.ofs + i ELSE Nowhere]

\* One round of load_segment: a page of the pool, filled from the file and
\* mapped, or freed again; installed: pagedir_set_page has memory for its table.
LoadPage(installed) ==
  LET read == IF segment.read < PGSIZE THEN segment.read ELSE PGSIZE
      page == segment.upage \div PGSIZE
      short == segment.ofs + read > file.length /\ read > 0
  IN  /\ status = "segment" /\ (segment.read > 0 \/ segment.zero > 0)
      /\ IF free = 0 \/ short \/ page \in DOMAIN pages \/ ~installed
         THEN Fail /\ UNCHANGED <<pages, free>>
         ELSE /\ pages' = [p \in DOMAIN pages \cup {page} |->
                IF p = page THEN [bytes |-> Filled(segment, read), writable |-> segment.writable]
                ELSE pages[p]]
              /\ free' = free - 1
              /\ segment' = [segment EXCEPT !.read = @ - read, !.zero = @ - (PGSIZE - read),
                                            !.ofs = @ + read, !.upage = Word(@ + PGSIZE)]
              /\ UNCHANGED <<file, next, status>>

SegmentDone ==
  /\ status = "segment" /\ segment.read = 0 /\ segment.zero = 0
  /\ status' = "headers" /\ UNCHANGED <<file, next, segment, pages, free>>

\* setup_stack, once the headers are done.
SetupStack(installed) ==
  LET top == PhysBase \div PGSIZE - 1 IN
  /\ status = "headers" /\ next > Len(file.headers)
  /\ IF free = 0 \/ top \in DOMAIN pages \/ ~installed
     THEN Fail /\ UNCHANGED <<pages, free>>
     ELSE /\ pages' = [p \in DOMAIN pages \cup {top} |->
                IF p = top THEN [bytes |-> [i \in 0..PGSIZE - 1 |-> Nowhere], writable |-> TRUE]
                ELSE pages[p]]
          /\ free' = free - 1 /\ status' = "loaded" /\ UNCHANGED <<file, next, segment>>

Next ==
  \/ Unreadable \/ LoadHeader \/ SegmentDone
  \/ \E installed \in BOOLEAN : LoadPage(installed) \/ SetupStack(installed)

Spec == Init /\ [][Next]_vars /\ WF_vars(Next)
-------------------------------------------------------------------------------
Loadable == {i \in 1..Len(file.headers) : file.headers[i].type = "load"}
Byte(a) == pages[a \div PGSIZE].bytes[a % PGSIZE]

\* process.c:365-407: a program that is loaded has each of its segments at its
\* address, the first filesz bytes from the file and the rest of memsz zero,
\* with the rights its header asks for, and nothing is mapped at page 0 or in
\* the kernel's part, whatever the sums of the header's fields come to.
SegmentsInPlace ==
  /\ \A p \in DOMAIN pages : p > 0 /\ p < PhysBase \div PGSIZE
  /\ status = "loaded" =>
       \A i \in Loadable :
         LET h == file.headers[i] IN
         /\ \A k \in 0..h.memsz - 1 : (h.vaddr + k) \div PGSIZE \in DOMAIN pages
         /\ \A k \in 0..h.filesz - 1 : Byte(h.vaddr + k) = h.offset + k
         /\ \A k \in h.filesz..h.memsz - 1 : Byte(h.vaddr + k) = Nowhere
         /\ pages[h.vaddr \div PGSIZE].writable = h.writable

\* The pages of a segment, in numbers without bound.
PagesOf(h) == h.vaddr \div PGSIZE..(h.vaddr + h.memsz - 1) \div PGSIZE
\* What the loader has to take: segments of the file, within user memory, that
\* share no page with each other or with the stack.
Acceptable ==
  /\ \A i \in 1..Len(file.headers) : file.headers[i].type # "dynamic"
  /\ \A i \in Loadable :
       LET h == file.headers[i] IN
       /\ h.offset % PGSIZE = h.vaddr % PGSIZE /\ h.filesz <= h.memsz /\ h.memsz > 0
       /\ h.offset <= file.length /\ (h.filesz > 0 => h.offset + h.filesz <= file.length)
       /\ h.vaddr >= PGSIZE /\ h.vaddr + h.memsz <= PhysBase - PGSIZE
  /\ \A i, j \in Loadable : i # j => PagesOf(file.headers[i]) \cap PagesOf(file.headers[j]) = {}

\* process.c:439-454: each page of the pool is free or mapped, those of a load
\* that failed half-way included.
PagesAccounted == free + Cardinality(DOMAIN pages) = Pool

\* process.c:298-346: a load ends, with a program that is acceptable in its place
\* or with a failure, and the pages are accounted for on the way.
LoadsRight ==
  /\ [](SegmentsInPlace /\ PagesAccounted /\ (status = "loaded" => Acceptable))
  /\ <>(status \in {"loaded", "failed"})
=============================================================================
