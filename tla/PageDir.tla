---------------------------------- MODULE PageDir ----------------------------------
(***************************************************************************)
(* Page directories and page tables, userprog/pagedir.c and threads/pte.h, *)
(* with the pages they are made of and the CPU's translation cache, which  *)
(* the code has to flush.  The callers are those of this kernel: a frame   *)
(* of the user pool is mapped (install_page, alloc of the sbrk system      *)
(* call), or unmapped and freed; a directory is destroyed when another is  *)
(* active (process_exit).                                                  *)
(* External: the translation of addresses by the CPU, its cache, and the   *)
(* accessed and dirty bits it sets.                                        *)
(***************************************************************************)
EXTENDS Naturals, FiniteSets

CONSTANTS
  KPool, UPool,    \* the pages of the kernel's and of the user pool
  TableNo, Index,  \* pd_no and pt_no of a user address
  UPage,           \* bound: the user pages in use, of TableNo \X Index
  ReadOnly,        \* bound: of these the ones a read-only segment fills
  None

VARIABLES
  mem,   \* of each page of the kernel pool: None, a directory or a table
  free,  \* the frames of the user pool that are free
  cr3,   \* the active directory, None for init_page_dir
  tlb,   \* the CPU's cache: of each user page, None or a translation
  last   \* where an access that was the last step went, else None
vars == <<mem, free, cr3, tlb, last>>

Entries == [frame : UPool \cup {None}, p : BOOLEAN, w : BOOLEAN, a : BOOLEAN, d : BOOLEAN]
Dirs == [pde : [TableNo -> KPool \cup {None}]]
Tables == [pte : [Index -> Entries]]
Translations == [frame : UPool, w : BOOLEAN, d : BOOLEAN]

\* The pools are finite, user pages are in range, and None is none of the data.
PageDirAssumption ==
  /\ IsFiniteSet(KPool) /\ IsFiniteSet(UPool) /\ IsFiniteSet(UPage)
  /\ UPage \subseteq TableNo \X Index
  /\ None \notin KPool \cup UPool \cup Dirs \cup Tables \cup Entries \cup Translations
  /\ None \notin [UPage -> Entries \cup {None}]

Zero == [frame |-> None, p |-> FALSE, w |-> FALSE, a |-> FALSE, d |-> FALSE]
Dir == [pde |-> [n \in TableNo |-> None]]
Table == [pte |-> [i \in Index |-> Zero]]
Flushed == [u \in UPage |-> None]

Init ==
  /\ mem = [k \in KPool |-> None] /\ free = UPool
  /\ cr3 = None /\ tlb = Flushed /\ last = None

PageDirs == {k \in KPool : mem[k] # None /\ DOMAIN mem[k] = {"pde"}}
FreeKernel == {k \in KPool : mem[k] = None}
Some(S) == CHOOSE x \in S : TRUE

\* lookup_page without create, and the entry it leads to.
HasTable(pd, u) == mem[pd].pde[u[1]] # None
Pte(pd, u) == IF HasTable(pd, u) THEN mem[mem[pd].pde[u[1]]].pte[u[2]] ELSE Zero
WithPte(m, pd, u, e) == [m EXCEPT ![m[pd].pde[u[1]]].pte[u[2]] = e]

\* lookup_page with create, when there is a page for the table.
WithTable(pd, u) ==
  IF HasTable(pd, u) THEN mem
  ELSE LET pt == Some(FreeKernel) IN [mem EXCEPT ![pt] = Table, ![pd].pde[u[1]] = pt]

\* Mutant: the cache is not flushed.
InvalidateNot(pd) == tlb' = tlb

\* invalidate_pagedir.
Invalidate(pd) == tlb' = IF cr3 = pd THEN Flushed ELSE tlb

\* pagedir_create.
Create ==
  /\ FreeKernel # {}
  /\ mem' = [mem EXCEPT ![Some(FreeKernel)] = Dir] /\ last' = None /\ UNCHANGED <<free, cr3, tlb>>

\* Mutant: entries that are not present give their frames back as well.
FramesEver(pd) == {Pte(pd, u).frame : u \in UPage} \ {None}

\* What pagedir_destroy frees: the frames of present entries, and the tables.
FramesOf(pd) == {Pte(pd, u).frame : u \in {v \in UPage : Pte(pd, v).p}}
TablesOf(pd) == {mem[pd].pde[n] : n \in TableNo} \ {None}

\* Mutant: the tables are not freed.
DestroyKeepsTables(pd) ==
  /\ cr3 # pd
  /\ mem' = [mem EXCEPT ![pd] = None]
  /\ free' = free \cup FramesOf(pd) /\ last' = None /\ UNCHANGED <<cr3, tlb>>

\* pagedir_destroy.
Destroy(pd) ==
  /\ cr3 # pd
  /\ mem' = [k \in KPool |-> IF k \in TablesOf(pd) \cup {pd} THEN None ELSE mem[k]]
  /\ free' = free \cup FramesOf(pd) /\ last' = None /\ UNCHANGED <<cr3, tlb>>

\* pte_create_user, and pagedir_set_page with a page for the table.
Entry(f, w) == [frame |-> f, p |-> TRUE, w |-> w, a |-> FALSE, d |-> FALSE]
SetPage(pd, u, f, w) == WithPte(WithTable(pd, u), pd, u, Entry(f, w))

\* install_page with a frame from palloc_get_page: pagedir_get_page, then
\* pagedir_set_page; when that has no page for a table, the frame goes back.
Install(pd, u, w) ==
  /\ free # {} /\ ~Pte(pd, u).p /\ (HasTable(pd, u) \/ FreeKernel # {})
  /\ mem' = SetPage(pd, u, Some(free), w)
  /\ free' = free \ {Some(free)} /\ last' = None /\ UNCHANGED <<cr3, tlb>>

\* pagedir_get_page, pagedir_clear_page, and the frame is freed.
Drop(pd, u) ==
  /\ Pte(pd, u).p
  /\ mem' = WithPte(mem, pd, u, [Pte(pd, u) EXCEPT !.p = FALSE])
  /\ Invalidate(pd)
  /\ free' = free \cup {Pte(pd, u).frame} /\ last' = None /\ UNCHANGED cr3

\* pagedir_set_accessed and pagedir_set_dirty, of any entry of a table there is;
\* only a bit that is cleared has to be forgotten by the cache.
Marked(e, bit, value) ==
  IF bit = "accessed" THEN [e EXCEPT !.a = value] ELSE [e EXCEPT !.d = value]
Mark(pd, u, bit, value) ==
  /\ HasTable(pd, u)
  /\ mem' = WithPte(mem, pd, u, Marked(Pte(pd, u), bit, value))
  /\ IF value THEN UNCHANGED tlb ELSE Invalidate(pd)
  /\ last' = None /\ UNCHANGED <<free, cr3>>

\* pagedir_activate; None is init_page_dir.
Activate(pd) == cr3' = pd /\ tlb' = Flushed /\ last' = None /\ UNCHANGED <<mem, free>>

\* The CPU reads or writes a user page: by the cached translation, or one that
\* it looks up, sets the accessed bit of and caches; a first write sets the
\* dirty bit.
Access(u, write) ==
  LET e == Pte(cr3, u)
      t == IF tlb[u] # None THEN tlb[u] ELSE [frame |-> e.frame, w |-> e.w, d |-> e.d]
      set == [e EXCEPT !.a = @ \/ tlb[u] = None, !.d = @ \/ (write /\ ~t.d)]
  IN  /\ cr3 # None /\ UNCHANGED <<free, cr3>>
      /\ IF (tlb[u] # None \/ e.p) /\ (write => t.w)
         THEN /\ last' = t.frame
              /\ mem' = IF HasTable(cr3, u) THEN WithPte(mem, cr3, u, set) ELSE mem
              /\ tlb' = [tlb EXCEPT ![u] = [t EXCEPT !.d = @ \/ write]]
         ELSE last' = None /\ UNCHANGED <<mem, tlb>>

Evict(u) == /\ tlb[u] # None /\ tlb' = [tlb EXCEPT ![u] = None]
            /\ last' = None /\ UNCHANGED <<mem, free, cr3>>

Next ==
  \/ Create
  \/ \E pd \in PageDirs :
       \/ Destroy(pd)
       \/ \E u \in UPage :
            \/ Drop(pd, u)
            \/ Install(pd, u, u \notin ReadOnly)
            \/ \E bit \in {"accessed", "dirty"}, value \in BOOLEAN : Mark(pd, u, bit, value)
  \/ \E pd \in PageDirs \cup {None} : Activate(pd)
  \/ \E u \in UPage : Evict(u) \/ \E write \in BOOLEAN : Access(u, write)

Spec == Init /\ [][Next]_vars
-------------------------------------------------------------------------------
\* pagedir.c:24: every table belongs to one directory and every page that is no
\* table and no directory is free; frames are free, or present at one place.
TablesExact ==
  /\ UNION {TablesOf(pd) : pd \in PageDirs} = {k \in KPool : mem[k] # None} \ PageDirs
  /\ \A pd, qd \in PageDirs, m, n \in TableNo :
       mem[pd].pde[m] # None /\ mem[pd].pde[m] = mem[qd].pde[n] => pd = qd /\ m = n
  /\ \A f \in UPool :
       Cardinality({x \in PageDirs \X UPage : Pte(x[1], x[2]).p /\ Pte(x[1], x[2]).frame = f})
         = IF f \in free THEN 0 ELSE 1

\* What a directory says of a page, None when no frame was ever mapped there.
Said(e) == IF e.frame = None THEN None ELSE e
Spaces ==
  [pd \in KPool |-> IF pd \in PageDirs THEN [u \in UPage |-> Said(Pte(pd, u))] ELSE None]

Space == INSTANCE AbstractAddressSpace WITH
  PageDirs <- KPool, Frame <- UPool, active <- cr3, space <- Spaces

\* pagedir.c:210-224: whatever the CPU has cached, an access goes where the
\* active directory says now, never to a frame that was unmapped, and accessed
\* and dirty tell of every access since they were last cleared.
ImplementsSpace == Space!Spec

\* Both: no page of a table or a process is lost, and translations are right.
TranslationRight == []TablesExact /\ ImplementsSpace
=============================================================================
