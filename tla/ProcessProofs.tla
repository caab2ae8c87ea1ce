---------------------------- MODULE ProcessProofs -----------------------------
(* Theorems about Process, for any set of processes.                        *)
EXTENDS Process, TLAPS

NameHeld == {"start", "pcb", "cleared", "load", "activate", "segments", "load_failed",
             "free_pcb_failed", "free_name_failed", "free_name"}
PcbHeld == {"pcb", "cleared", "load", "activate", "segments", "load_failed", "free_pcb_failed",
            "free_name", "user", "switch_pd", "destroy_pd", "unpublish", "free_pcb"}
Published == {"load", "activate", "segments", "load_failed", "free_name", "user", "switch_pd",
              "destroy_pd", "unpublish"}
Mapped == {"activate", "segments", "free_name", "user"}
Leaked == {"load_failed", "free_pcb_failed", "free_name_failed", "up_failed",
           "exit_failed", "failed"}
Done == {"exit", "exit_failed", "exited", "failed"}
MainLabel == {"ready", "wait_call", "wait", "blocked"}

(* Whose code each thread executes.                                        *)
LabelInv ==
  /\ \A t \in Threads : (pc[t] \in MainLabel <=> t = Main) /\ (pc[t] = "idle" <=> t = Idle)
  /\ pagedir[Main] = "null"

(* What process p holds at each point of its life.                         *)
HoldsInv(p) ==
  /\ <<"fn_copy", p>> \in memory => pc[p] \in NameHeld \cup {"none"}
  /\ <<"thread", p>> \in memory => pc[p] \notin {"none", "exited", "failed"}
  /\ <<"pcb", p>> \in memory <=> pc[p] \in PcbHeld
  /\ <<"pagedir", p>> \in memory \/ <<"pages", p>> \in memory =>
       pc[p] \in Mapped \cup Leaked \cup {"switch_pd", "destroy_pd"}
  /\ pc[p] \in Mapped \cup {"switch_pd", "destroy_pd"} => <<"pagedir", p>> \in memory

(* What a switch to process p finds.                                       *)
PcbInv(p) ==
  /\ p \in pcb <=> pc[p] \in Published
  /\ pc[p] \in Published \cup {"cleared"} => pagedir[p] # "garbage"
  /\ pc[p] \in Mapped => pagedir[p] = "set"
  /\ pagedir[p] = "set" => <<"pagedir", p>> \in memory /\ pc[p] \in Mapped \cup Leaked

(* The CPU has the directory of the running thread or the kernel's.        *)
CpuInv ==
  /\ esp0 = running
  /\ cr3 # Kernel => /\ cr3 = running /\ running \in Proc
                     /\ <<"pagedir", running>> \in memory /\ pc[running] # "destroy_pd"
  /\ pc[running] \in {"segments", "free_name", "user"} => cr3 = running

(* One process at a time: all but the child are done or not yet launched.  *)
WaitInv ==
  /\ \A p \in Proc : p # child => pc[p] \in Done \cup {"none"}
  /\ pc[Main] = "ready" => child = Idle \/ pc[child] \in Done
  /\ pc[Main] = "wait_call" => child \in Proc /\ pc[child] = "none"
  /\ temporary > 0 => child # Idle /\ pc[child] \in Done

PInv == TypeOK /\ LabelInv /\ CpuInv /\ WaitInv /\ \A p \in Proc : HoldsInv(p) /\ PcbInv(p)

LEMMA PInvImplies == PInv => AddressSpaceRight /\ MemoryExact
<1>. SUFFICES ASSUME PInv PROVE AddressSpaceRight /\ MemoryExact
  OBVIOUS
<1>1. ActiveDirectoryLive
  BY DEF PInv, CpuInv, ActiveDirectoryLive
<1>2. UserRunsAtHome
  BY DEF PInv, CpuInv, UserRunsAtHome
<1>3. PcbLive
  BY DEF PInv, HoldsInv, PcbInv, PcbLive, Published, PcbHeld
<1>4. MemoryReturned
  <2>1. ASSUME NEW p \in Proc, NEW w \in memory, w[2] = p
        PROVE  /\ pc[p] # "exited"
               /\ pc[p] = "failed" => w[1] \in {"pagedir", "pages"}
    <3>1. w = <<w[1], p>> /\ w[1] \in {"fn_copy", "thread", "pcb", "pagedir", "pages"}
      BY <2>1 DEF PInv, TypeOK
    <3>2. HoldsInv(p)
      BY DEF PInv
    <3>. QED BY <3>1, <3>2 DEF HoldsInv, NameHeld, PcbHeld, Mapped, Leaked
  <2>. QED BY <2>1 DEF MemoryReturned
<1>. QED BY <1>1, <1>2, <1>3, <1>4 DEF AddressSpaceRight, MemoryExact

LEMMA InitPInv == Init => PInv
<1>. SUFFICES ASSUME Init PROVE PInv
  OBVIOUS
<1>1. TypeOK
  BY ProcessAssumption DEF Init, TypeOK, Threads
<1>2. LabelInv
  BY ProcessAssumption DEF Init, LabelInv, Threads, MainLabel
<1>3. CpuInv
  BY ProcessAssumption DEF Init, CpuInv, Threads
<1>4. WaitInv
  BY ProcessAssumption DEF Init, WaitInv, Threads
<1>5. \A p \in Proc : HoldsInv(p)
  BY ProcessAssumption DEF Init, HoldsInv, Threads, PcbHeld, Mapped
<1>6. \A p \in Proc : PcbInv(p)
  BY ProcessAssumption DEF Init, PcbInv, Threads, Published, Mapped
<1>. QED BY <1>1, <1>2, <1>3, <1>4, <1>5, <1>6 DEF PInv

\* What belongs to whom after an allocation or a free.
LEMMA MemMember ==
  ASSUME NEW p, NEW what, NEW w, NEW q
  PROVE  <<w, q>> \in Mem(p, what) <=> q = p /\ w \in what
BY DEF Mem

LEMMA MemTypes ==
  ASSUME TypeOK, NEW p \in Proc,
         NEW what \in SUBSET {"fn_copy", "thread", "pcb", "pagedir", "pages"},
         \/ memory' = memory
         \/ memory' = memory \cup Mem(p, what)
         \/ memory' = memory \ Mem(p, what)
  PROVE  memory' \subseteq {"fn_copy", "thread", "pcb", "pagedir", "pages"} \X Proc
BY DEF TypeOK, Mem

(* A step of process p alone: the other processes and main find everything *)
(* as they left it.                                                        *)
LEMMA ProcAlone ==
  ASSUME PInv, TypeOK', NEW p \in Proc, running = p, pc[p] \notin Done \cup {"none"},
         pc' = [pc EXCEPT ![p] = pc'[p]], pc'[p] \notin MainLabel \cup {"idle"},
         UNCHANGED <<temporary, child>>,
         \A q \in Threads \ {p} : pagedir'[q] = pagedir[q] /\ (q \in pcb' <=> q \in pcb),
         \A q \in Proc \ {p} : \A w : <<w, q>> \in memory' <=> <<w, q>> \in memory,
         CpuInv', HoldsInv(p)', PcbInv(p)'
  PROVE  PInv'
<1>. USE DEF PInv
<1>1. /\ p \in Threads /\ p # Main /\ p # Idle
      /\ Main \in Threads /\ Idle \in Threads /\ Proc \subseteq Threads
  BY ProcessAssumption DEF Threads
<1>2. \A q \in Threads \ {p} : pc'[q] = pc[q]
  BY DEF TypeOK
<1>3. LabelInv'
  BY <1>1, <1>2 DEF LabelInv
<1>4. p = child
  BY DEF WaitInv
<1>5. WaitInv'
  BY <1>1, <1>2, <1>4 DEF WaitInv
<1>6. ASSUME NEW q \in Proc, q # p PROVE HoldsInv(q)' /\ PcbInv(q)'
  <2>1. HoldsInv(q)'
    BY <1>1, <1>2, <1>6 DEF HoldsInv
  <2>2. PcbInv(q)'
    BY <1>1, <1>2, <1>6 DEF PcbInv
  <2>. QED BY <2>1, <2>2
<1>7. \A q \in Proc : HoldsInv(q)' /\ PcbInv(q)'
  BY <1>6
<1>. QED BY <1>3, <1>5, <1>7

\* What Goto does to the labels, for a process.
LEMMA GotoFacts ==
  ASSUME TypeOK, LabelInv, NEW p \in Proc, NEW from, NEW to, Goto(p, from, to)
  PROVE  /\ p \in Threads /\ p # Main /\ p # Idle /\ running = p
         /\ pc[p] = from /\ pc'[p] = to /\ pc' = [pc EXCEPT ![p] = to]
         /\ pc' = [pc EXCEPT ![p] = pc'[p]]
         /\ \A q \in Threads \ {p} : pc'[q] = pc[q]
BY ProcessAssumption DEF Goto, TypeOK, Threads

\* What a change of one thread's pagedir does to the others.
LEMMA PagedirFacts ==
  ASSUME TypeOK, NEW p \in Threads, NEW v \in {"garbage", "null", "set"},
         pagedir' = [pagedir EXCEPT ![p] = v]
  PROVE  /\ pagedir' \in [Threads -> {"garbage", "null", "set"}]
         /\ pagedir'[p] = v /\ \A q \in Threads \ {p} : pagedir'[q] = pagedir[q]
BY DEF TypeOK

\* malloc returns a PCB that holds garbage, which nobody sees yet.
LEMMA MallocPcbPInv ==
  ASSUME PInv, NEW p \in Proc, MallocPcb(p)
  PROVE  PInv'
<1>. USE DEF PInv
<1>1. /\ p \in Threads /\ p # Main /\ p # Idle /\ running = p
      /\ pc[p] = "start" /\ pc'[p] = "pcb"
      /\ pc' = [pc EXCEPT ![p] = "pcb"] /\ pc' = [pc EXCEPT ![p] = pc'[p]]
      /\ \A q \in Threads \ {p} : pc'[q] = pc[q]
  BY GotoFacts DEF MallocPcb
<1>2. /\ memory' \subseteq {"fn_copy", "thread", "pcb", "pagedir", "pages"} \X Proc
      /\ \A w, q : <<w, q>> \in memory' <=>
           <<w, q>> \in memory \/ (q = p /\ w \in {"pcb"})
  BY MemMember, MemTypes DEF MallocPcb
<1>3. /\ pagedir' \in [Threads -> {"garbage", "null", "set"}]
      /\ pagedir'[p] = "garbage" /\ \A q \in Threads \ {p} : pagedir'[q] = pagedir[q]
  BY <1>1, PagedirFacts DEF MallocPcb
<1>4. TypeOK'
  BY <1>1, <1>2, <1>3 DEF TypeOK, MallocPcb, cpu
<1>5. CpuInv'
  BY <1>1, <1>2, <1>3 DEF CpuInv, MallocPcb, cpu
<1>6. HoldsInv(p)'
  BY <1>1, <1>2 DEF HoldsInv, NameHeld, PcbHeld, Mapped, Leaked
<1>7. PcbInv(p)'
  BY <1>1, <1>2, <1>3 DEF PcbInv, MallocPcb, Published, Mapped, Leaked
<1>. QED BY <1>1, <1>2, <1>3, <1>4, <1>5, <1>6, <1>7, ProcAlone
     DEF MallocPcb, Done, MainLabel

\* No PCB.
LEMMA MallocFailsPInv ==
  ASSUME PInv, NEW p \in Proc, MallocFails(p)
  PROVE  PInv'
<1>. USE DEF PInv
<1>1. /\ p \in Threads /\ p # Main /\ p # Idle /\ running = p
      /\ pc[p] = "start" /\ pc'[p] = "free_name_failed"
      /\ pc' = [pc EXCEPT ![p] = "free_name_failed"] /\ pc' = [pc EXCEPT ![p] = pc'[p]]
      /\ \A q \in Threads \ {p} : pc'[q] = pc[q]
  BY GotoFacts DEF MallocFails
<1>2. memory' = memory
  BY DEF MallocFails
<1>3. pagedir' = pagedir
  BY DEF MallocFails
<1>4. TypeOK'
  BY <1>1, <1>2, <1>3 DEF TypeOK, MallocFails, cpu
<1>5. CpuInv'
  BY <1>1, <1>2, <1>3 DEF CpuInv, MallocFails, cpu
<1>6. HoldsInv(p)'
  BY <1>1, <1>2 DEF HoldsInv, NameHeld, PcbHeld, Mapped, Leaked
<1>7. PcbInv(p)'
  BY <1>1, <1>2, <1>3 DEF PcbInv, MallocFails, Published, Mapped, Leaked
<1>. QED BY <1>1, <1>2, <1>3, <1>4, <1>5, <1>6, <1>7, ProcAlone
     DEF MallocFails, Done, MainLabel

\* The garbage goes before anybody can see it.
LEMMA ClearPagedirPInv ==
  ASSUME PInv, NEW p \in Proc, ClearPagedir(p)
  PROVE  PInv'
<1>. USE DEF PInv
<1>1. /\ p \in Threads /\ p # Main /\ p # Idle /\ running = p
      /\ pc[p] = "pcb" /\ pc'[p] = "cleared"
      /\ pc' = [pc EXCEPT ![p] = "cleared"] /\ pc' = [pc EXCEPT ![p] = pc'[p]]
      /\ \A q \in Threads \ {p} : pc'[q] = pc[q]
  BY GotoFacts DEF ClearPagedir
<1>2. memory' = memory
  BY DEF ClearPagedir
<1>3. /\ pagedir' \in [Threads -> {"garbage", "null", "set"}]
      /\ pagedir'[p] = "null" /\ \A q \in Threads \ {p} : pagedir'[q] = pagedir[q]
  BY <1>1, PagedirFacts DEF ClearPagedir
<1>4. TypeOK'
  BY <1>1, <1>2, <1>3 DEF TypeOK, ClearPagedir, cpu
<1>5. CpuInv'
  BY <1>1, <1>2, <1>3 DEF CpuInv, ClearPagedir, cpu
<1>6. HoldsInv(p)'
  BY <1>1, <1>2 DEF HoldsInv, NameHeld, PcbHeld, Mapped, Leaked
<1>7. PcbInv(p)'
  BY <1>1, <1>2, <1>3 DEF PcbInv, ClearPagedir, Published, Mapped, Leaked
<1>. QED BY <1>1, <1>2, <1>3, <1>4, <1>5, <1>6, <1>7, ProcAlone
     DEF ClearPagedir, Done, MainLabel

\* From here on a switch to p reads its pagedir.
LEMMA PublishPcbPInv ==
  ASSUME PInv, NEW p \in Proc, PublishPcb(p)
  PROVE  PInv'
<1>. USE DEF PInv
<1>1. /\ p \in Threads /\ p # Main /\ p # Idle /\ running = p
      /\ pc[p] = "cleared" /\ pc'[p] = "load"
      /\ pc' = [pc EXCEPT ![p] = "load"] /\ pc' = [pc EXCEPT ![p] = pc'[p]]
      /\ \A q \in Threads \ {p} : pc'[q] = pc[q]
  BY GotoFacts DEF PublishPcb
<1>2. memory' = memory
  BY DEF PublishPcb
<1>3. pagedir' = pagedir
  BY DEF PublishPcb
<1>4. TypeOK'
  BY <1>1, <1>2, <1>3 DEF TypeOK, PublishPcb, cpu
<1>5. CpuInv'
  BY <1>1, <1>2, <1>3 DEF CpuInv, PublishPcb, cpu
<1>6. HoldsInv(p)'
  BY <1>1, <1>2 DEF HoldsInv, NameHeld, PcbHeld, Mapped, Leaked
<1>7. PcbInv(p)'
  BY <1>1, <1>2, <1>3 DEF PcbInv, PublishPcb, Published, Mapped, Leaked
<1>. QED BY <1>1, <1>2, <1>3, <1>4, <1>5, <1>6, <1>7, ProcAlone
     DEF PublishPcb, Done, MainLabel

\* The directory exists, and a switch to p loads it.
LEMMA CreatePagedirPInv ==
  ASSUME PInv, NEW p \in Proc, CreatePagedir(p)
  PROVE  PInv'
<1>. USE DEF PInv
<1>1. /\ p \in Threads /\ p # Main /\ p # Idle /\ running = p
      /\ pc[p] = "load" /\ pc'[p] = "activate"
      /\ pc' = [pc EXCEPT ![p] = "activate"] /\ pc' = [pc EXCEPT ![p] = pc'[p]]
      /\ \A q \in Threads \ {p} : pc'[q] = pc[q]
  BY GotoFacts DEF CreatePagedir
<1>2. /\ memory' \subseteq {"fn_copy", "thread", "pcb", "pagedir", "pages"} \X Proc
      /\ \A w, q : <<w, q>> \in memory' <=>
           <<w, q>> \in memory \/ (q = p /\ w \in {"pagedir"})
  BY MemMember, MemTypes DEF CreatePagedir
<1>3. /\ pagedir' \in [Threads -> {"garbage", "null", "set"}]
      /\ pagedir'[p] = "set" /\ \A q \in Threads \ {p} : pagedir'[q] = pagedir[q]
  BY <1>1, PagedirFacts DEF CreatePagedir
<1>4. TypeOK'
  BY <1>1, <1>2, <1>3 DEF TypeOK, CreatePagedir, cpu
<1>5. CpuInv'
  BY <1>1, <1>2, <1>3 DEF CpuInv, CreatePagedir, cpu
<1>6. HoldsInv(p)'
  BY <1>1, <1>2 DEF HoldsInv, NameHeld, PcbHeld, Mapped, Leaked
<1>7. PcbInv(p)'
  BY <1>1, <1>2, <1>3 DEF PcbInv, CreatePagedir, Published, Mapped, Leaked
<1>. QED BY <1>1, <1>2, <1>3, <1>4, <1>5, <1>6, <1>7, ProcAlone
     DEF CreatePagedir, Done, MainLabel

\* p runs on its own directory.
LEMMA ActivatePInv ==
  ASSUME PInv, NEW p \in Proc, Activate(p)
  PROVE  PInv'
<1>. USE DEF PInv
<1>1. /\ p \in Threads /\ p # Main /\ p # Idle /\ running = p
      /\ pc[p] = "activate" /\ pc'[p] = "segments"
      /\ pc' = [pc EXCEPT ![p] = "segments"] /\ pc' = [pc EXCEPT ![p] = pc'[p]]
      /\ \A q \in Threads \ {p} : pc'[q] = pc[q]
  BY GotoFacts DEF Activate
<1>2. memory' = memory
  BY DEF Activate
<1>3. pagedir' = pagedir
  BY DEF Activate
<1>4. TypeOK'
  BY <1>1, <1>2, <1>3 DEF TypeOK, Activate, cpu, Directory
<1>5. CpuInv'
  BY <1>1, <1>2, ProcessAssumption
     DEF CpuInv, PcbInv, Activate, cpu, Mapped, Published, Directory
<1>6. HoldsInv(p)'
  BY <1>1, <1>2 DEF HoldsInv, NameHeld, PcbHeld, Mapped, Leaked
<1>7. PcbInv(p)'
  BY <1>1, <1>2, <1>3 DEF PcbInv, Activate, Published, Mapped, Leaked
<1>. QED BY <1>1, <1>2, <1>3, <1>4, <1>5, <1>6, <1>7, ProcAlone
     DEF Activate, Done, MainLabel

\* The pages of the program are p's.
LEMMA LoadSegmentsPInv ==
  ASSUME PInv, NEW p \in Proc, LoadSegments(p)
  PROVE  PInv'
<1>. USE DEF PInv
<1>1. /\ p \in Threads /\ p # Main /\ p # Idle /\ running = p
      /\ pc[p] = "segments" /\ pc'[p] = "free_name"
      /\ pc' = [pc EXCEPT ![p] = "free_name"] /\ pc' = [pc EXCEPT ![p] = pc'[p]]
      /\ \A q \in Threads \ {p} : pc'[q] = pc[q]
  BY GotoFacts DEF LoadSegments
<1>2. /\ memory' \subseteq {"fn_copy", "thread", "pcb", "pagedir", "pages"} \X Proc
      /\ \A w, q : <<w, q>> \in memory' <=>
           <<w, q>> \in memory \/ (q = p /\ w \in {"pages"})
  BY MemMember, MemTypes DEF LoadSegments
<1>3. pagedir' = pagedir
  BY DEF LoadSegments
<1>4. TypeOK'
  BY <1>1, <1>2, <1>3 DEF TypeOK, LoadSegments, cpu
<1>5. CpuInv'
  BY <1>1, <1>2, <1>3 DEF CpuInv, LoadSegments, cpu
<1>6. HoldsInv(p)'
  BY <1>1, <1>2 DEF HoldsInv, NameHeld, PcbHeld, Mapped, Leaked
<1>7. PcbInv(p)'
  BY <1>1, <1>2, <1>3 DEF PcbInv, LoadSegments, Published, Mapped, Leaked
<1>. QED BY <1>1, <1>2, <1>3, <1>4, <1>5, <1>6, <1>7, ProcAlone
     DEF LoadSegments, Done, MainLabel

\* After a failed load a switch to p finds no PCB.
LEMMA UnpublishFailedPInv ==
  ASSUME PInv, NEW p \in Proc, UnpublishFailed(p)
  PROVE  PInv'
<1>. USE DEF PInv
<1>1. /\ p \in Threads /\ p # Main /\ p # Idle /\ running = p
      /\ pc[p] = "load_failed" /\ pc'[p] = "free_pcb_failed"
      /\ pc' = [pc EXCEPT ![p] = "free_pcb_failed"] /\ pc' = [pc EXCEPT ![p] = pc'[p]]
      /\ \A q \in Threads \ {p} : pc'[q] = pc[q]
  BY GotoFacts DEF UnpublishFailed
<1>2. memory' = memory
  BY DEF UnpublishFailed
<1>3. pagedir' = pagedir
  BY DEF UnpublishFailed
<1>4. TypeOK'
  BY <1>1, <1>2, <1>3 DEF TypeOK, UnpublishFailed, cpu
<1>5. CpuInv'
  BY <1>1, <1>2, <1>3 DEF CpuInv, UnpublishFailed, cpu
<1>6. HoldsInv(p)'
  BY <1>1, <1>2 DEF HoldsInv, NameHeld, PcbHeld, Mapped, Leaked
<1>7. PcbInv(p)'
  BY <1>1, <1>2, <1>3 DEF PcbInv, UnpublishFailed, Published, Mapped, Leaked
<1>. QED BY <1>1, <1>2, <1>3, <1>4, <1>5, <1>6, <1>7, ProcAlone
     DEF UnpublishFailed, Done, MainLabel

\* The PCB goes after t->pcb.
LEMMA FreePcbFailedPInv ==
  ASSUME PInv, NEW p \in Proc, FreePcbFailed(p)
  PROVE  PInv'
<1>. USE DEF PInv
<1>1. /\ p \in Threads /\ p # Main /\ p # Idle /\ running = p
      /\ pc[p] = "free_pcb_failed" /\ pc'[p] = "free_name_failed"
      /\ pc' = [pc EXCEPT ![p] = "free_name_failed"] /\ pc' = [pc EXCEPT ![p] = pc'[p]]
      /\ \A q \in Threads \ {p} : pc'[q] = pc[q]
  BY GotoFacts DEF FreePcbFailed
<1>2. /\ memory' \subseteq {"fn_copy", "thread", "pcb", "pagedir", "pages"} \X Proc
      /\ \A w, q : <<w, q>> \in memory' <=>
           <<w, q>> \in memory /\ ~(q = p /\ w \in {"pcb"})
  BY MemMember, MemTypes DEF FreePcbFailed
<1>3. pagedir' = pagedir
  BY DEF FreePcbFailed
<1>4. TypeOK'
  BY <1>1, <1>2, <1>3 DEF TypeOK, FreePcbFailed, cpu
<1>5. CpuInv'
  BY <1>1, <1>2, <1>3 DEF CpuInv, FreePcbFailed, cpu
<1>6. HoldsInv(p)'
  BY <1>1, <1>2 DEF HoldsInv, NameHeld, PcbHeld, Mapped, Leaked
<1>7. PcbInv(p)'
  BY <1>1, <1>2, <1>3 DEF PcbInv, FreePcbFailed, Published, Mapped, Leaked
<1>. QED BY <1>1, <1>2, <1>3, <1>4, <1>5, <1>6, <1>7, ProcAlone
     DEF FreePcbFailed, Done, MainLabel

\* From here on a switch to p loads the kernel's directory.
LEMMA ExitClearsPagedirPInv ==
  ASSUME PInv, NEW p \in Proc, ExitClearsPagedir(p)
  PROVE  PInv'
<1>. USE DEF PInv
<1>1. /\ p \in Threads /\ p # Main /\ p # Idle /\ running = p
      /\ pc[p] = "user" /\ pc'[p] = "switch_pd"
      /\ pc' = [pc EXCEPT ![p] = "switch_pd"] /\ pc' = [pc EXCEPT ![p] = pc'[p]]
      /\ \A q \in Threads \ {p} : pc'[q] = pc[q]
  BY GotoFacts DEF ExitClearsPagedir
<1>2. memory' = memory
  BY DEF ExitClearsPagedir
<1>3. /\ pagedir' \in [Threads -> {"garbage", "null", "set"}]
      /\ pagedir'[p] = "null" /\ \A q \in Threads \ {p} : pagedir'[q] = pagedir[q]
  BY <1>1, PagedirFacts DEF ExitClearsPagedir
<1>4. TypeOK'
  BY <1>1, <1>2, <1>3 DEF TypeOK, ExitClearsPagedir, cpu
<1>5. CpuInv'
  BY <1>1, <1>2, <1>3 DEF CpuInv, ExitClearsPagedir, cpu
<1>6. HoldsInv(p)'
  BY <1>1, <1>2 DEF HoldsInv, NameHeld, PcbHeld, Mapped, Leaked
<1>7. PcbInv(p)'
  BY <1>1, <1>2, <1>3 DEF PcbInv, ExitClearsPagedir, Published, Mapped, Leaked
<1>. QED BY <1>1, <1>2, <1>3, <1>4, <1>5, <1>6, <1>7, ProcAlone
     DEF ExitClearsPagedir, Done, MainLabel

\* No CPU runs on the directory any more.
LEMMA ExitActivatesKernelPInv ==
  ASSUME PInv, NEW p \in Proc, ExitActivatesKernel(p)
  PROVE  PInv'
<1>. USE DEF PInv
<1>1. /\ p \in Threads /\ p # Main /\ p # Idle /\ running = p
      /\ pc[p] = "switch_pd" /\ pc'[p] = "destroy_pd"
      /\ pc' = [pc EXCEPT ![p] = "destroy_pd"] /\ pc' = [pc EXCEPT ![p] = pc'[p]]
      /\ \A q \in Threads \ {p} : pc'[q] = pc[q]
  BY GotoFacts DEF ExitActivatesKernel
<1>2. memory' = memory
  BY DEF ExitActivatesKernel
<1>3. pagedir' = pagedir
  BY DEF ExitActivatesKernel
<1>4. TypeOK'
  BY <1>1, <1>2, <1>3 DEF TypeOK, ExitActivatesKernel, cpu
<1>5. CpuInv'
  BY <1>1, <1>2, <1>3 DEF CpuInv, ExitActivatesKernel, cpu
<1>6. HoldsInv(p)'
  BY <1>1, <1>2 DEF HoldsInv, NameHeld, PcbHeld, Mapped, Leaked
<1>7. PcbInv(p)'
  BY <1>1, <1>2, <1>3 DEF PcbInv, ExitActivatesKernel, Published, Mapped, Leaked
<1>. QED BY <1>1, <1>2, <1>3, <1>4, <1>5, <1>6, <1>7, ProcAlone
     DEF ExitActivatesKernel, Done, MainLabel

\* Directory and pages go while no CPU runs on them.
LEMMA ExitDestroysPagedirPInv ==
  ASSUME PInv, NEW p \in Proc, ExitDestroysPagedir(p)
  PROVE  PInv'
<1>. USE DEF PInv
<1>1. /\ p \in Threads /\ p # Main /\ p # Idle /\ running = p
      /\ pc[p] = "destroy_pd" /\ pc'[p] = "unpublish"
      /\ pc' = [pc EXCEPT ![p] = "unpublish"] /\ pc' = [pc EXCEPT ![p] = pc'[p]]
      /\ \A q \in Threads \ {p} : pc'[q] = pc[q]
  BY GotoFacts DEF ExitDestroysPagedir
<1>2. /\ memory' \subseteq {"fn_copy", "thread", "pcb", "pagedir", "pages"} \X Proc
      /\ \A w, q : <<w, q>> \in memory' <=>
           <<w, q>> \in memory /\ ~(q = p /\ w \in {"pagedir", "pages"})
  BY MemMember, MemTypes DEF ExitDestroysPagedir
<1>3. pagedir' = pagedir
  BY DEF ExitDestroysPagedir
<1>4. TypeOK'
  BY <1>1, <1>2, <1>3 DEF TypeOK, ExitDestroysPagedir, cpu
<1>5. CpuInv'
  BY <1>1, <1>2, <1>3 DEF CpuInv, ExitDestroysPagedir, cpu
<1>6. HoldsInv(p)'
  BY <1>1, <1>2 DEF HoldsInv, NameHeld, PcbHeld, Mapped, Leaked
<1>7. PcbInv(p)'
  BY <1>1, <1>2, <1>3 DEF PcbInv, ExitDestroysPagedir, Published, Mapped, Leaked
<1>. QED BY <1>1, <1>2, <1>3, <1>4, <1>5, <1>6, <1>7, ProcAlone
     DEF ExitDestroysPagedir, Done, MainLabel

\* After the exit's unpublishing a switch to p finds no PCB.
LEMMA ExitUnpublishesPcbPInv ==
  ASSUME PInv, NEW p \in Proc, ExitUnpublishesPcb(p)
  PROVE  PInv'
<1>. USE DEF PInv
<1>1. /\ p \in Threads /\ p # Main /\ p # Idle /\ running = p
      /\ pc[p] = "unpublish" /\ pc'[p] = "free_pcb"
      /\ pc' = [pc EXCEPT ![p] = "free_pcb"] /\ pc' = [pc EXCEPT ![p] = pc'[p]]
      /\ \A q \in Threads \ {p} : pc'[q] = pc[q]
  BY GotoFacts DEF ExitUnpublishesPcb
<1>2. memory' = memory
  BY DEF ExitUnpublishesPcb
<1>3. pagedir' = pagedir
  BY DEF ExitUnpublishesPcb
<1>4. TypeOK'
  BY <1>1, <1>2, <1>3 DEF TypeOK, ExitUnpublishesPcb, cpu
<1>5. CpuInv'
  BY <1>1, <1>2, <1>3 DEF CpuInv, ExitUnpublishesPcb, cpu
<1>6. HoldsInv(p)'
  BY <1>1, <1>2 DEF HoldsInv, NameHeld, PcbHeld, Mapped, Leaked
<1>7. PcbInv(p)'
  BY <1>1, <1>2, <1>3 DEF PcbInv, ExitUnpublishesPcb, Published, Mapped, Leaked
<1>. QED BY <1>1, <1>2, <1>3, <1>4, <1>5, <1>6, <1>7, ProcAlone
     DEF ExitUnpublishesPcb, Done, MainLabel

\* The PCB goes after t->pcb.
LEMMA ExitFreesPcbPInv ==
  ASSUME PInv, NEW p \in Proc, ExitFreesPcb(p)
  PROVE  PInv'
<1>. USE DEF PInv
<1>1. /\ p \in Threads /\ p # Main /\ p # Idle /\ running = p
      /\ pc[p] = "free_pcb" /\ pc'[p] = "up"
      /\ pc' = [pc EXCEPT ![p] = "up"] /\ pc' = [pc EXCEPT ![p] = pc'[p]]
      /\ \A q \in Threads \ {p} : pc'[q] = pc[q]
  BY GotoFacts DEF ExitFreesPcb
<1>2. /\ memory' \subseteq {"fn_copy", "thread", "pcb", "pagedir", "pages"} \X Proc
      /\ \A w, q : <<w, q>> \in memory' <=>
           <<w, q>> \in memory /\ ~(q = p /\ w \in {"pcb"})
  BY MemMember, MemTypes DEF ExitFreesPcb
<1>3. pagedir' = pagedir
  BY DEF ExitFreesPcb
<1>4. TypeOK'
  BY <1>1, <1>2, <1>3 DEF TypeOK, ExitFreesPcb, cpu
<1>5. CpuInv'
  BY <1>1, <1>2, <1>3 DEF CpuInv, ExitFreesPcb, cpu
<1>6. HoldsInv(p)'
  BY <1>1, <1>2 DEF HoldsInv, NameHeld, PcbHeld, Mapped, Leaked
<1>7. PcbInv(p)'
  BY <1>1, <1>2, <1>3 DEF PcbInv, ExitFreesPcb, Published, Mapped, Leaked
<1>. QED BY <1>1, <1>2, <1>3, <1>4, <1>5, <1>6, <1>7, ProcAlone
     DEF ExitFreesPcb, Done, MainLabel

\* Something fails on the way: what the directory maps stays mapped.
LEMMA LoadFailsPInv ==
  ASSUME PInv, NEW p \in Proc, LoadFails(p)
  PROVE  PInv'
<1>. USE DEF PInv
<1>1. /\ p \in Threads /\ p # Main /\ p # Idle /\ running = p
      /\ pc[p] \in {"load", "segments"} /\ pc'[p] = "load_failed"
      /\ pc' = [pc EXCEPT ![p] = "load_failed"] /\ pc' = [pc EXCEPT ![p] = pc'[p]]
      /\ \A q \in Threads \ {p} : pc'[q] = pc[q]
  BY GotoFacts DEF LoadFails
<1>2. /\ memory' \subseteq {"fn_copy", "thread", "pcb", "pagedir", "pages"} \X Proc
      /\ \/ memory' = memory
         \/ \A w, q : <<w, q>> \in memory' <=> <<w, q>> \in memory \/ (q = p /\ w \in {"pages"})
  BY MemMember, MemTypes DEF LoadFails
<1>3. UNCHANGED <<running, cr3, esp0, pcb, pagedir, temporary, child>>
  BY DEF LoadFails, cpu
<1>4. TypeOK'
  BY <1>1, <1>2, <1>3 DEF TypeOK
<1>5. CpuInv'
  BY <1>1, <1>2, <1>3 DEF CpuInv
<1>6. HoldsInv(p)'
  BY <1>1, <1>2 DEF HoldsInv, NameHeld, PcbHeld, Mapped, Leaked
<1>7. PcbInv(p)'
  BY <1>1, <1>2, <1>3 DEF PcbInv, Published, Mapped, Leaked
<1>8. \A q \in Proc \ {p} : \A w : <<w, q>> \in memory' <=> <<w, q>> \in memory
  BY <1>2
<1>. QED BY <1>1, <1>3, <1>4, <1>5, <1>6, <1>7, <1>8, ProcAlone DEF Done, MainLabel

\* start_process frees the copy of the name, on both paths.
LEMMA FreeNamePInv ==
  ASSUME PInv, NEW p \in Proc, FreeName(p)
  PROVE  PInv'
<1>. USE DEF PInv
<1>1. /\ p \in Threads /\ p # Main /\ p # Idle /\ running = p
      /\ \/ pc[p] = "free_name" /\ pc'[p] = "user"
         \/ pc[p] = "free_name_failed" /\ pc'[p] = "up_failed"
      /\ pc' = [pc EXCEPT ![p] = pc'[p]]
      /\ \A q \in Threads \ {p} : pc'[q] = pc[q]
  BY GotoFacts DEF FreeName
<1>2. /\ memory' \subseteq {"fn_copy", "thread", "pcb", "pagedir", "pages"} \X Proc
      /\ \A w, q : <<w, q>> \in memory' <=>
           <<w, q>> \in memory /\ ~(q = p /\ w \in {"fn_copy"})
  BY MemMember, MemTypes DEF FreeName
<1>3. UNCHANGED <<running, cr3, esp0, pcb, pagedir, temporary, child>>
  BY DEF FreeName, cpu
<1>4. TypeOK'
  BY <1>1, <1>2, <1>3 DEF TypeOK
<1>5. CpuInv'
  BY <1>1, <1>2, <1>3 DEF CpuInv
<1>6. HoldsInv(p)'
  BY <1>1, <1>2 DEF HoldsInv, NameHeld, PcbHeld, Mapped, Leaked
<1>7. PcbInv(p)'
  BY <1>1, <1>2, <1>3 DEF PcbInv, Published, Mapped, Leaked
<1>. QED BY <1>1, <1>2, <1>3, <1>4, <1>5, <1>6, <1>7, ProcAlone DEF Done, MainLabel

(* A switch loads the directory of the thread switched to, whatever state   *)
(* that thread's PCB is in.                                                *)
LEMMA SwitchCpu ==
  ASSUME PInv, NEW t \in Threads, SwitchTo(t), pc'[t] = pc[t], UNCHANGED pcb,
         \A w : w \in {"pagedir"} => (<<w, t>> \in memory' <=> <<w, t>> \in memory)
  PROVE  CpuInv' /\ running' = t /\ esp0' = t /\ cr3' \in Proc \cup {Kernel, Wild}
<1>. USE DEF PInv
<1>1. /\ running' = t /\ esp0' = t
      /\ \/ t \notin pcb /\ cr3' = Kernel
         \/ t \in pcb /\ pagedir[t] = "set" /\ cr3' = t
         \/ t \in pcb /\ pagedir[t] = "null" /\ cr3' = Kernel
         \/ t \in pcb /\ pagedir[t] = "garbage" /\ cr3' = Wild
  BY DEF SwitchTo, Directory, TypeOK
<1>2. CASE t \in Proc
  <2>1. PcbInv(t) /\ HoldsInv(t)
    BY <1>2
  <2>2. t \in pcb => pagedir[t] # "garbage"
    BY <2>1 DEF PcbInv
  <2>3. pc[t] \in {"segments", "free_name", "user"} => t \in pcb /\ pagedir[t] = "set"
    BY <2>1 DEF PcbInv, Published, Mapped
  <2>4. pagedir[t] = "set" => <<"pagedir", t>> \in memory /\ pc[t] # "destroy_pd"
    BY <2>1 DEF PcbInv, Mapped, Leaked
  <2>. QED BY <1>1, <1>2, <2>2, <2>3, <2>4 DEF CpuInv
<1>3. CASE t \notin Proc
  <2>1. t \in {Main, Idle} /\ t \notin Proc
    BY <1>3 DEF Threads
  <2>2. t = Main => pagedir[t] = "null"
    BY DEF LabelInv
  <2>3. t = Idle => t \notin pcb
    BY ProcessAssumption DEF TypeOK
  <2>4. pc[t] \notin {"segments", "free_name", "user"}
    BY <2>1 DEF LabelInv, MainLabel
  <2>5. cr3' = Kernel
    BY <1>1, <2>1, <2>2, <2>3
  <2>. QED BY <1>1, <2>4, <2>5 DEF CpuInv
<1>. QED BY <1>2, <1>3

\* The timer: nothing but the CPU changes.
LEMMA PreemptPInv ==
  ASSUME PInv, NEW t \in Threads, Preempt(t)
  PROVE  PInv'
<1>. USE DEF PInv
<1>1. UNCHANGED <<pc, pcb, pagedir, memory, temporary, child>>
  BY DEF Preempt
<1>2. CpuInv' /\ running' = t /\ esp0' = t /\ cr3' \in Proc \cup {Kernel, Wild}
  BY <1>1, SwitchCpu DEF Preempt
<1>3. TypeOK'
  BY <1>1, <1>2 DEF TypeOK
<1>4. LabelInv' /\ WaitInv'
  BY <1>1 DEF LabelInv, WaitInv
<1>5. \A p \in Proc : HoldsInv(p)' /\ PcbInv(p)'
  BY <1>1 DEF HoldsInv, PcbInv
<1>. QED BY <1>2, <1>3, <1>4, <1>5

(* sema_up(&temporary): p is done, with nothing left but its thread, or what *)
(* a failed launch leaks; main, asleep or not, finds the semaphore raised.   *)
LEMMA SignalParentPInv ==
  ASSUME PInv, NEW p \in Proc, SignalParent(p)
  PROVE  PInv'
<1>. USE DEF PInv
<1>1. /\ p \in Threads /\ p # Main /\ p # Idle /\ running = p /\ Main # Idle
      /\ Main \in Threads /\ Idle \in Threads /\ Proc \subseteq Threads /\ Main \notin Proc
  BY ProcessAssumption DEF SignalParent, Threads
<1>2. /\ \/ pc[p] = "up" /\ pc'[p] = "exit"
         \/ pc[p] = "up_failed" /\ pc'[p] = "exit_failed"
      /\ \/ pc'[Main] = pc[Main]
         \/ pc[Main] = "blocked" /\ pc'[Main] = "wait"
      /\ \A q \in Threads \ {p, Main} : pc'[q] = pc[q]
  BY <1>1 DEF SignalParent, TypeOK
<1>3. /\ UNCHANGED <<running, cr3, esp0, pcb, pagedir, memory, child>>
      /\ temporary' = temporary + 1
  BY DEF SignalParent, cpu
<1>4. TypeOK'
  BY <1>1, <1>3 DEF SignalParent, TypeOK
<1>5. LabelInv'
  BY <1>1, <1>2, <1>3 DEF LabelInv, MainLabel
<1>6. CpuInv'
  BY <1>1, <1>2, <1>3 DEF CpuInv
<1>7. p = child
  BY <1>2 DEF WaitInv, Done
<1>8. WaitInv'
  <2>1. \A q \in Proc : q # child' => pc'[q] \in Done \cup {"none"}
    BY <1>1, <1>2, <1>3, <1>7 DEF WaitInv
  <2>2. pc'[Main] = "ready" => child' = Idle \/ pc'[child'] \in Done
    BY <1>2, <1>3, <1>7 DEF Done
  <2>3. pc'[Main] # "wait_call"
    BY <1>2, <1>7 DEF WaitInv
  <2>4. child' # Idle /\ pc'[child'] \in Done
    BY <1>1, <1>2, <1>3, <1>7 DEF Done
  <2>. QED BY <2>1, <2>2, <2>3, <2>4 DEF WaitInv
<1>9. ASSUME NEW q \in Proc PROVE HoldsInv(q)' /\ PcbInv(q)'
  <2>1. q # Main /\ (q # p => pc'[q] = pc[q])
    BY <1>1, <1>2
  <2>2. HoldsInv(q)'
    BY <2>1, <1>2, <1>3 DEF HoldsInv, NameHeld, PcbHeld, Mapped, Leaked
  <2>3. PcbInv(q)'
    BY <2>1, <1>2, <1>3 DEF PcbInv, Published, Mapped, Leaked
  <2>. QED BY <2>2, <2>3
<1>. QED BY <1>4, <1>5, <1>6, <1>8, <1>9

(* thread_exit: the next thread frees the page of the one that is gone.      *)
LEMMA ThreadExitPInv ==
  ASSUME PInv, NEW p \in Proc, ThreadExit(p)
  PROVE  PInv'
<1>. USE DEF PInv
<1>1. /\ p \in Threads /\ p # Main /\ p # Idle /\ running = p
      /\ Main \in Threads /\ Idle \in Threads /\ Proc \subseteq Threads
  BY ProcessAssumption DEF ThreadExit, Threads
<1>2. /\ pc[p] \in {"exit", "exit_failed"} /\ pc'[p] \in {"exited", "failed"}
      /\ pc[p] = "exit" <=> pc'[p] = "exited"
      /\ \A q \in Threads \ {p} : pc'[q] = pc[q]
      /\ pc' \in [Threads -> {pc[q] : q \in Threads} \cup {"exited", "failed"}]
  BY <1>1 DEF ThreadExit, TypeOK
<1>3. UNCHANGED <<pcb, pagedir, temporary, child>>
  BY DEF ThreadExit
<1>4. /\ memory' \subseteq {"fn_copy", "thread", "pcb", "pagedir", "pages"} \X Proc
      /\ \A w, q : <<w, q>> \in memory' <=>
           <<w, q>> \in memory /\ ~(q = p /\ w \in {"thread"})
  BY MemMember, MemTypes DEF ThreadExit
<1>5. PICK t \in Threads : SwitchTo(t)
  BY DEF ThreadExit
<1>6. t # p
  BY <1>1, <1>5 DEF SwitchTo
<1>7. CpuInv' /\ running' = t /\ esp0' = t /\ cr3' \in Proc \cup {Kernel, Wild}
  BY <1>2, <1>3, <1>4, <1>5, <1>6, SwitchCpu
<1>8. TypeOK'
  <2>1. pc' = [pc EXCEPT ![p] = IF pc[p] = "exit" THEN "exited" ELSE "failed"]
    BY DEF ThreadExit
  <2>. QED BY <1>1, <2>1, <1>3, <1>4, <1>7 DEF TypeOK
<1>9. LabelInv'
  BY <1>1, <1>2, <1>3 DEF LabelInv, MainLabel
<1>10. WaitInv'
  <2>1. \A q \in Threads : pc'[q] # pc[q] => q = p /\ pc[q] \in Done /\ pc'[q] \in Done
    BY <1>1, <1>2 DEF Done
  <2>2. child \in Threads /\ pc'[Main] = pc[Main]
    BY <1>1, <1>2 DEF TypeOK
  <2>3. \A q \in Proc : q # child' => pc'[q] \in Done \cup {"none"}
    BY <1>1, <1>3, <2>1 DEF WaitInv
  <2>4. pc[child] \in Done => pc'[child] \in Done
    BY <2>1, <2>2
  <2>5. pc[child] = "none" => pc'[child] = "none"
    BY <2>1, <2>2 DEF Done
  <2>. QED BY <1>3, <2>2, <2>3, <2>4, <2>5 DEF WaitInv
<1>11. ASSUME NEW q \in Proc PROVE HoldsInv(q)' /\ PcbInv(q)'
  <2>1. q \in Threads /\ (q # p => pc'[q] = pc[q])
    BY <1>1, <1>2
  <2>2. HoldsInv(q)'
    BY <2>1, <1>2, <1>4 DEF HoldsInv, NameHeld, PcbHeld, Mapped, Leaked
  <2>3. PcbInv(q)'
    BY <2>1, <1>2, <1>3, <1>4 DEF PcbInv, Published, Mapped, Leaked
  <2>. QED BY <2>2, <2>3
<1>. QED BY <1>7, <1>8, <1>9, <1>10, <1>11

\* process_execute: the child that main waited for last is done.
LEMMA ExecutePInv ==
  ASSUME PInv, NEW p \in Proc, Execute(p)
  PROVE  PInv'
<1>. USE DEF PInv
<1>1. /\ p \in Threads /\ p # Main /\ p # Idle /\ Main \in Threads /\ Idle \in Threads
      /\ Main # Idle /\ Proc \subseteq Threads /\ Main \notin Proc /\ Idle \notin Proc
  BY ProcessAssumption DEF Threads
<1>2. /\ running = Main /\ pc[Main] = "ready" /\ pc'[Main] = "wait_call" /\ pc[p] = "none"
      /\ pc' = [pc EXCEPT ![Main] = "wait_call"]
      /\ \A q \in Threads \ {Main} : pc'[q] = pc[q]
  BY <1>1 DEF Execute, Goto, TypeOK
<1>3. /\ memory' \subseteq {"fn_copy", "thread", "pcb", "pagedir", "pages"} \X Proc
      /\ \A w, q : <<w, q>> \in memory' <=>
           <<w, q>> \in memory \/ (q = p /\ w \in {"fn_copy"})
  BY MemMember, MemTypes DEF Execute
<1>4. UNCHANGED <<running, cr3, esp0, pcb, pagedir>> /\ temporary' = 0 /\ child' = p
  BY DEF Execute, cpu
<1>5. TypeOK'
  BY <1>1, <1>2, <1>3, <1>4 DEF TypeOK
<1>6. LabelInv'
  BY <1>1, <1>2, <1>4 DEF LabelInv, MainLabel
<1>7. CpuInv'
  BY <1>1, <1>2, <1>3, <1>4 DEF CpuInv
<1>8. WaitInv'
  BY <1>1, <1>2, <1>4 DEF WaitInv, Done
<1>9. ASSUME NEW q \in Proc PROVE HoldsInv(q)' /\ PcbInv(q)'
  <2>1. pc'[q] = pc[q]
    BY <1>1, <1>2
  <2>2. HoldsInv(q)'
    BY <2>1, <1>2, <1>3 DEF HoldsInv
  <2>3. PcbInv(q)'
    BY <2>1, <1>3, <1>4 DEF PcbInv
  <2>. QED BY <2>2, <2>3
<1>. QED BY <1>5, <1>6, <1>7, <1>8, <1>9

\* thread_create, and what process_execute does when it fails.
LEMMA CreatePInv ==
  ASSUME PInv, Create \/ CreateFailed
  PROVE  PInv'
<1>. USE DEF PInv
<1>1. /\ child \in Proc /\ child \in Threads /\ child # Main /\ child # Idle
      /\ Main \in Threads /\ Idle \in Threads
      /\ Main # Idle /\ Proc \subseteq Threads /\ Main \notin Proc /\ Idle \notin Proc
  BY ProcessAssumption DEF Create, CreateFailed, WaitInv, Threads
<1>2. /\ running = Main /\ pc[Main] = "wait_call" /\ pc'[Main] = "wait" /\ pc[child] = "none"
      /\ pc'[child] \in {"start", "failed"}
      /\ \A q \in Threads \ {Main, child} : pc'[q] = pc[q]
  BY <1>1 DEF Create, CreateFailed, TypeOK
<1>3. /\ memory' \subseteq {"fn_copy", "thread", "pcb", "pagedir", "pages"} \X Proc
      /\ \/ /\ pc'[child] = "start"
            /\ \A w, q : <<w, q>> \in memory' <=>
                 <<w, q>> \in memory \/ (q = child /\ w \in {"thread"})
         \/ /\ pc'[child] = "failed"
            /\ \A w, q : <<w, q>> \in memory' <=>
                 <<w, q>> \in memory /\ ~(q = child /\ w \in {"fn_copy"})
  BY <1>1, MemMember, MemTypes DEF Create, CreateFailed, TypeOK
<1>4. UNCHANGED <<running, cr3, esp0, pcb, pagedir, temporary, child>>
  BY DEF Create, CreateFailed, cpu
<1>5. TypeOK'
  BY <1>1, <1>3, <1>4 DEF TypeOK, Create, CreateFailed
<1>6. LabelInv'
  BY <1>1, <1>2, <1>4 DEF LabelInv, MainLabel
<1>7. CpuInv'
  BY <1>1, <1>2, <1>3, <1>4 DEF CpuInv
<1>8. WaitInv'
  BY <1>1, <1>2, <1>4 DEF WaitInv, Done, TypeOK
<1>9. ASSUME NEW q \in Proc PROVE HoldsInv(q)' /\ PcbInv(q)'
  <2>1. q \in Threads /\ (q # child => pc'[q] = pc[q])
    BY <1>1, <1>2
  <2>2. HoldsInv(q)'
    BY <2>1, <1>2, <1>3 DEF HoldsInv, NameHeld, PcbHeld, Mapped, Leaked
  <2>3. PcbInv(q)'
    BY <2>1, <1>2, <1>3, <1>4 DEF PcbInv, Published, Mapped, Leaked
  <2>. QED BY <2>2, <2>3
<1>. QED BY <1>5, <1>6, <1>7, <1>8, <1>9

\* sema_down(&temporary): main sleeps, or goes on with the semaphore lowered.
LEMMA WaitPInv ==
  ASSUME PInv, WaitBlocks \/ WaitReturns
  PROVE  PInv'
<1>. USE DEF PInv
<1>1. /\ Main \in Threads /\ Idle \in Threads /\ Main # Idle /\ Proc \subseteq Threads
      /\ Main \notin Proc /\ Idle \notin Proc
  BY ProcessAssumption DEF Threads
<1>2. /\ running = Main /\ pc[Main] = "wait"
      /\ \/ pc' = [pc EXCEPT ![Main] = "blocked"]
         \/ pc' = [pc EXCEPT ![Main] = "ready"] /\ temporary > 0
      /\ UNCHANGED <<pcb, pagedir, memory, child>>
  BY DEF WaitBlocks, WaitReturns, Goto
<1>3. /\ pc' \in [Threads -> {pc[q] : q \in Threads} \cup {"blocked", "ready"}]
      /\ pc'[Main] \in {"blocked", "ready"} /\ (pc'[Main] = "ready" => temporary > 0)
      /\ \A q \in Threads \ {Main} : pc'[q] = pc[q]
  BY <1>1, <1>2 DEF TypeOK
<1>4. CpuInv' /\ running' \in Threads /\ esp0' \in Threads /\ cr3' \in Proc \cup {Kernel, Wild}
  <2>1. CASE WaitBlocks
    <3>1. PICK t \in Threads : SwitchTo(t)
      BY <2>1 DEF WaitBlocks
    <3>2. t # Main
      BY <1>2, <3>1 DEF SwitchTo
    <3>3. CpuInv' /\ running' = t /\ esp0' = t /\ cr3' \in Proc \cup {Kernel, Wild}
      BY <1>2, <1>3, <3>1, <3>2, SwitchCpu
    <3>. QED BY <3>3
  <2>2. CASE WaitReturns
    <3>1. UNCHANGED <<running, cr3, esp0>>
      BY <2>2 DEF WaitReturns, cpu
    <3>. QED BY <1>1, <1>2, <1>3, <3>1 DEF CpuInv, TypeOK
  <2>. QED BY <2>1, <2>2
<1>5. temporary' \in Nat /\ (temporary' > 0 => temporary > 0)
  BY DEF WaitBlocks, WaitReturns, TypeOK
<1>6. TypeOK'
  BY <1>1, <1>2, <1>4, <1>5 DEF TypeOK
<1>7. LabelInv'
  BY <1>1, <1>2, <1>3 DEF LabelInv, MainLabel
<1>8. WaitInv'
  <2>1. \A q \in Proc : q # child' => pc'[q] \in Done \cup {"none"}
    BY <1>1, <1>2, <1>3 DEF WaitInv
  <2>2. child # Idle => child \in Proc /\ pc'[child'] = pc[child]
    BY <1>1, <1>2, <1>3 DEF TypeOK
  <2>3. temporary > 0 => child' # Idle /\ pc'[child'] \in Done
    BY <1>2, <2>2 DEF WaitInv
  <2>. QED BY <1>3, <1>5, <2>1, <2>3 DEF WaitInv
<1>9. ASSUME NEW q \in Proc PROVE HoldsInv(q)' /\ PcbInv(q)'
  <2>1. pc'[q] = pc[q]
    BY <1>1, <1>3
  <2>. QED BY <2>1, <1>2 DEF HoldsInv, PcbInv
<1>. QED BY <1>4, <1>6, <1>7, <1>8, <1>9

(* The inductive step: whatever main, a process or the timer does.          *)
LEMMA NextPInv == PInv /\ [Next]_vars => PInv'
<1>. SUFFICES ASSUME PInv, [Next]_vars PROVE PInv'
  OBVIOUS
<1>1. CASE MainStep
  BY <1>1, ExecutePInv, CreatePInv, WaitPInv DEF MainStep
<1>2. ASSUME NEW p \in Proc, ProcStep(p) PROVE PInv'
  BY <1>2, MallocPcbPInv, MallocFailsPInv, ClearPagedirPInv, PublishPcbPInv,
     CreatePagedirPInv, ActivatePInv, LoadSegmentsPInv, LoadFailsPInv,
     UnpublishFailedPInv, FreePcbFailedPInv, FreeNamePInv,
     ExitClearsPagedirPInv, ExitActivatesKernelPInv, ExitDestroysPagedirPInv,
     ExitUnpublishesPcbPInv, ExitFreesPcbPInv, SignalParentPInv, ThreadExitPInv
  DEF ProcStep
<1>3. ASSUME NEW t \in Threads, Preempt(t) PROVE PInv'
  BY <1>3, PreemptPInv
<1>4. CASE UNCHANGED vars
  <2>. USE <1>4 DEF vars, PInv
  <2>1. TypeOK' /\ LabelInv' /\ CpuInv' /\ WaitInv'
    BY DEF TypeOK, LabelInv, CpuInv, WaitInv
  <2>2. \A p \in Proc : HoldsInv(p)' /\ PcbInv(p)'
    BY DEF HoldsInv, PcbInv
  <2>. QED BY <2>1, <2>2
<1>. QED BY <1>1, <1>2, <1>3, <1>4 DEF Next

\* PInv holds between any two steps of process.c.
THEOREM Invariant == Spec => []PInv
<1>. QED BY InitPInv, NextPInv, PTL DEF Spec

(* Every variable stays in its type.                                        *)
THEOREM TypeCorrect == Spec => []TypeOK
<1>1. PInv => TypeOK
  BY DEF PInv
<1>. QED BY <1>1, Invariant, PTL

(* Between any two steps of process.c the timer may switch threads; whatever *)
(* it does, the CPU never runs on a page directory that was freed or that    *)
(* uninitialised memory names, and a process in user mode has its own        *)
(* directory loaded and its own kernel stack for the next interrupt: the     *)
(* order "t->pcb->pagedir = NULL, activate the kernel's, destroy" suffices.  *)
THEOREM RightAddressSpace == Spec => []AddressSpaceRight
<1>. QED BY PInvImplies, Invariant, PTL

(* A switch never reads a PCB that was freed, and a process that ran and     *)
(* exited has given back all it held, page for page; a launch that failed    *)
(* has given back all but its directory and the pages it had mapped.         *)
THEOREM NothingKept == Spec => []MemoryExact
<1>. QED BY PInvImplies, Invariant, PTL

(* process_wait returns only after the last sema_up of the child it waits    *)
(* for: the one semaphore that all launches share is raised by the child and *)
(* by nobody else, and at a time when the child's PCB is gone.               *)
THEOREM WaitForTheChild == Spec => WaitMeansDone
<1>1. ASSUME PInv, WaitReturns
      PROVE  pc[child] \in Done /\ child \notin pcb
  <2>1. child # Idle /\ pc[child] \in Done
    BY <1>1 DEF PInv, WaitInv, WaitReturns
  <2>2. child \in Proc
    BY <1>1, <2>1 DEF PInv, TypeOK
  <2>3. PcbInv(child)
    BY <1>1, <2>2 DEF PInv
  <2>. QED BY <2>1, <2>3 DEF PcbInv, Published, Done
<1>2. PInv /\ [Next]_vars => [WaitReturns => /\ pc[child] \in Done
                                            /\ child \notin pcb]_vars
  BY <1>1
<1>. QED BY <1>2, Invariant, PTL DEF Spec, WaitMeansDone, Done
===============================================================================
