------------------------------- MODULE Process --------------------------------
(***************************************************************************)
(* userprog/process.c: the life of user processes, launched one after the  *)
(* other by main (threads/init.c, run_task), with the page directory the   *)
(* CPU has loaded and the memory each process holds.  Interrupts are on,   *)
(* so the timer may switch threads between any two steps, and every switch *)
(* activates the directory of the thread switched to.                      *)
(* A fresh PCB from malloc holds garbage: a switch that reads its pagedir  *)
(* loads a wild directory.                                                 *)
(***************************************************************************)
EXTENDS Naturals, FiniteSets

CONSTANTS
  Proc,        \* processes main launches, each once
  Main, Idle,
  Kernel,      \* init_page_dir
  Wild         \* whatever uninitialised memory holds
ASSUME ProcessAssumption ==
  /\ Main \notin Proc /\ Idle \notin Proc \cup {Main}
  /\ Kernel \notin Proc /\ Wild \notin Proc \cup {Kernel}

Threads == Proc \cup {Main, Idle}

VARIABLES
  pc,         \* of each thread
  running, cr3,
  esp0,       \* tss->esp0: whose kernel stack an interrupt would use
  pcb,        \* threads whose t->pcb is not NULL
  pagedir,    \* pcb->pagedir: "garbage", "null" or "set"
  memory,     \* <<what, process>> for all that is allocated for a process
  temporary,  \* the semaphore's value
  child       \* the process main launched last

vars == <<pc, running, cr3, esp0, pcb, pagedir, memory, temporary, child>>
cpu == <<running, cr3, esp0>>

\* After userprog_init: main has a PCB from calloc, so a null pagedir.
Init ==
  /\ pc = [t \in Threads |->
             IF t = Main THEN "ready" ELSE IF t = Idle THEN "idle" ELSE "none"]
  /\ running = Main /\ cr3 = Kernel /\ esp0 = Main
  /\ pcb = {Main} /\ pagedir = [t \in Threads |-> "null"]
  /\ memory = {} /\ temporary = 0 /\ child = Idle

Mem(p, what) == {<<w, p>> : w \in what}
Goto(t, from, to) == running = t /\ pc[t] = from /\ pc' = [pc EXCEPT ![t] = to]
Runnable(t) == pc[t] \notin {"none", "blocked", "dying", "exited", "failed"}

\* process_activate: the directory of thread t.
Directory(t) ==
  IF t \notin pcb THEN Kernel
  ELSE CASE pagedir[t] = "set" -> t
         [] pagedir[t] = "null" -> Kernel
         [] OTHER -> Wild

\* Mutant: process_activate runs before the switch, for the old thread.
SwitchToLate(t) ==
  /\ Runnable(t) /\ t # running
  /\ running' = t /\ cr3' = Directory(running) /\ esp0' = running

\* schedule and thread_switch_tail: t runs in its own address space.
SwitchTo(t) ==
  /\ Runnable(t) /\ t # running
  /\ running' = t /\ cr3' = Directory(t) /\ esp0' = t

\* The timer preempts the running thread.
Preempt(t) ==
  /\ Runnable(running) /\ SwitchTo(t)
  /\ UNCHANGED <<pc, pcb, pagedir, memory, temporary, child>>
-------------------------------------------------------------------------------
(* main: process_wait(process_execute(task)) for one task after the other.  *)

\* process_execute: sema_init(&temporary, 0), the copy of the name and
\* thread_create.
Execute(p) ==
  /\ Goto(Main, "ready", "wait_call") /\ pc[p] = "none"
  /\ temporary' = 0 /\ child' = p
  /\ memory' = memory \cup Mem(p, {"fn_copy"})
  /\ UNCHANGED <<cpu, pcb, pagedir>>

Create ==
  /\ running = Main /\ pc[Main] = "wait_call" /\ pc[child] = "none"
  /\ pc' = [pc EXCEPT ![Main] = "wait", ![child] = "start"]
  /\ memory' = memory \cup Mem(child, {"thread"})
  /\ UNCHANGED <<cpu, pcb, pagedir, temporary, child>>

\* No page for the name or for the thread: TID_ERROR, which run_task hands to
\* process_wait all the same.
CreateFailed ==
  /\ running = Main /\ pc[Main] = "wait_call" /\ pc[child] = "none"
  /\ pc' = [pc EXCEPT ![Main] = "wait", ![child] = "failed"]
  /\ memory' = memory \ Mem(child, {"fn_copy"})
  /\ UNCHANGED <<cpu, pcb, pagedir, temporary, child>>

\* process_wait: sema_down(&temporary).
WaitBlocks ==
  /\ running = Main /\ pc[Main] = "wait" /\ temporary = 0
  /\ \E t \in Threads :
       /\ SwitchTo(t) /\ pc' = [pc EXCEPT ![Main] = "blocked"]
  /\ UNCHANGED <<pcb, pagedir, memory, temporary, child>>
\* Mutant: process_wait does not wait.
WaitReturnsAtOnce ==
  /\ Goto(Main, "wait", "ready")
  /\ temporary' = temporary - 1
  /\ UNCHANGED <<cpu, pcb, pagedir, memory, child>>

WaitReturns ==
  /\ Goto(Main, "wait", "ready") /\ temporary > 0
  /\ temporary' = temporary - 1
  /\ UNCHANGED <<cpu, pcb, pagedir, memory, child>>
-------------------------------------------------------------------------------
(* The process: start_process.                                             *)

MallocPcb(p) ==
  /\ Goto(p, "start", "pcb")
  /\ memory' = memory \cup Mem(p, {"pcb"})
  /\ pagedir' = [pagedir EXCEPT ![p] = "garbage"]
  /\ UNCHANGED <<cpu, pcb, temporary, child>>
MallocFails(p) ==
  /\ Goto(p, "start", "free_name_failed")
  /\ UNCHANGED <<cpu, pcb, pagedir, memory, temporary, child>>

\* Mutant: the PCB is published before its pagedir is cleared.
ClearPagedirLate(p) ==
  /\ Goto(p, "pcb", "cleared")
  /\ pcb' = pcb \cup {p}
  /\ UNCHANGED <<cpu, pagedir, memory, temporary, child>>

\* new_pcb->pagedir = NULL comes before t->pcb = new_pcb.
ClearPagedir(p) ==
  /\ Goto(p, "pcb", "cleared")
  /\ pagedir' = [pagedir EXCEPT ![p] = "null"]
  /\ UNCHANGED <<cpu, pcb, memory, temporary, child>>
PublishPcb(p) ==
  /\ Goto(p, "cleared", "load")
  /\ pcb' = pcb \cup {p}
  /\ UNCHANGED <<cpu, pagedir, memory, temporary, child>>

\* load: pagedir_create, then process_activate.
CreatePagedir(p) ==
  /\ Goto(p, "load", "activate")
  /\ memory' = memory \cup Mem(p, {"pagedir"})
  /\ pagedir' = [pagedir EXCEPT ![p] = "set"]
  /\ UNCHANGED <<cpu, pcb, temporary, child>>
Activate(p) ==
  /\ Goto(p, "activate", "segments")
  /\ cr3' = Directory(p) /\ esp0' = p
  /\ UNCHANGED <<running, pcb, pagedir, memory, temporary, child>>
\* The segments and the stack are loaded and mapped...
LoadSegments(p) ==
  /\ Goto(p, "segments", "free_name")
  /\ memory' = memory \cup Mem(p, {"pages"})
  /\ UNCHANGED <<cpu, pcb, pagedir, temporary, child>>
\* ... or something fails on the way, before or after some pages are mapped.
LoadFails(p) ==
  /\ Goto(p, "load", "load_failed") \/ Goto(p, "segments", "load_failed")
  /\ \/ UNCHANGED memory
     \/ pc[p] = "segments" /\ memory' = memory \cup Mem(p, {"pages"})
  /\ UNCHANGED <<cpu, pcb, pagedir, temporary, child>>
\* t->pcb = NULL, then free(pcb_to_free).
UnpublishFailed(p) ==
  /\ Goto(p, "load_failed", "free_pcb_failed")
  /\ pcb' = pcb \ {p}
  /\ UNCHANGED <<cpu, pagedir, memory, temporary, child>>
FreePcbFailed(p) ==
  /\ Goto(p, "free_pcb_failed", "free_name_failed")
  /\ memory' = memory \ Mem(p, {"pcb"})
  /\ UNCHANGED <<cpu, pcb, pagedir, temporary, child>>
\* Mutant: the end of a successful load is signalled on the same semaphore.
FreeNameSignals(p) ==
  /\ \/ Goto(p, "free_name", "user") /\ temporary' = temporary + 1
     \/ Goto(p, "free_name_failed", "up_failed") /\ UNCHANGED temporary
  /\ memory' = memory \ Mem(p, {"fn_copy"})
  /\ UNCHANGED <<cpu, pcb, pagedir, child>>

\* Mutant: a failed launch exits without sema_up.
FreeNameSilent(p) ==
  /\ Goto(p, "free_name", "user") \/ Goto(p, "free_name_failed", "exit_failed")
  /\ memory' = memory \ Mem(p, {"fn_copy"})
  /\ UNCHANGED <<cpu, pcb, pagedir, temporary, child>>

FreeName(p) ==
  /\ Goto(p, "free_name", "user") \/ Goto(p, "free_name_failed", "up_failed")
  /\ memory' = memory \ Mem(p, {"fn_copy"})
  /\ UNCHANGED <<cpu, pcb, pagedir, temporary, child>>
-------------------------------------------------------------------------------
(* process_exit, from the exit system call or an exception in user mode.    *)

\* Mutant: the directory is switched while the PCB still names it.
ClearBeforeSwitchLate(p) ==
  /\ Goto(p, "user", "switch_pd")
  /\ UNCHANGED <<cpu, pcb, pagedir, memory, temporary, child>>

ExitClearsPagedir(p) ==
  /\ Goto(p, "user", "switch_pd")
  /\ pagedir' = [pagedir EXCEPT ![p] = "null"]
  /\ UNCHANGED <<cpu, pcb, memory, temporary, child>>
ExitActivatesKernel(p) ==
  /\ Goto(p, "switch_pd", "destroy_pd")
  /\ cr3' = Kernel
  /\ UNCHANGED <<running, esp0, pcb, pagedir, memory, temporary, child>>

\* Mutant: the directory goes, the pages it maps stay.
DestroyPagedirOnly(p) ==
  /\ Goto(p, "destroy_pd", "unpublish")
  /\ memory' = memory \ Mem(p, {"pagedir"})
  /\ UNCHANGED <<cpu, pcb, pagedir, temporary, child>>

\* pagedir_destroy frees the pages, the page tables and the directory.
ExitDestroysPagedir(p) ==
  /\ Goto(p, "destroy_pd", "unpublish")
  /\ memory' = memory \ Mem(p, {"pagedir", "pages"})
  /\ UNCHANGED <<cpu, pcb, pagedir, temporary, child>>

\* Mutant: the PCB is freed while t->pcb still points to it.
UnpublishNothing(p) ==
  /\ Goto(p, "unpublish", "free_pcb")
  /\ UNCHANGED <<cpu, pcb, pagedir, memory, temporary, child>>

ExitUnpublishesPcb(p) ==
  /\ Goto(p, "unpublish", "free_pcb")
  /\ pcb' = pcb \ {p}
  /\ UNCHANGED <<cpu, pagedir, memory, temporary, child>>
ExitFreesPcb(p) ==
  /\ Goto(p, "free_pcb", "up")
  /\ memory' = memory \ Mem(p, {"pcb"})
  /\ UNCHANGED <<cpu, pcb, pagedir, temporary, child>>

\* sema_up(&temporary) wakes main if it sleeps there.
SignalParent(p) ==
  /\ running = p /\ pc[p] \in {"up", "up_failed"}
  /\ temporary' = temporary + 1
  /\ pc' = [pc EXCEPT ![p] = IF pc[p] = "up" THEN "exit" ELSE "exit_failed",
                      ![Main] = IF @ = "blocked" THEN "wait" ELSE @]
  /\ UNCHANGED <<cpu, pcb, pagedir, memory, child>>

\* thread_exit: the next thread to run frees the thread's page.
ThreadExit(p) ==
  /\ running = p /\ pc[p] \in {"exit", "exit_failed"}
  /\ \E t \in Threads : SwitchTo(t)
  /\ pc' = [pc EXCEPT ![p] = IF pc[p] = "exit" THEN "exited" ELSE "failed"]
  /\ memory' = memory \ Mem(p, {"thread"})
  /\ UNCHANGED <<pcb, pagedir, temporary, child>>

MainStep ==
  (\E p \in Proc : Execute(p)) \/ Create \/ CreateFailed \/ WaitBlocks \/ WaitReturns
ProcStep(p) ==
  \/ MallocPcb(p) \/ MallocFails(p) \/ ClearPagedir(p) \/ PublishPcb(p)
  \/ CreatePagedir(p) \/ Activate(p) \/ LoadSegments(p) \/ LoadFails(p)
  \/ UnpublishFailed(p) \/ FreePcbFailed(p) \/ FreeName(p)
  \/ ExitClearsPagedir(p) \/ ExitActivatesKernel(p) \/ ExitDestroysPagedir(p)
  \/ ExitUnpublishesPcb(p) \/ ExitFreesPcb(p) \/ SignalParent(p) \/ ThreadExit(p)

Next ==
  \/ MainStep
  \/ \E p \in Proc : ProcStep(p)
  \/ \E t \in Threads : Preempt(t)

Spec == Init /\ [][Next]_vars

\* Round robin: a thread that is runnable again and again gets the CPU and a
\* whole time slice; user programs end.
FairSpec ==
  /\ Spec
  /\ \A t \in Threads : SF_vars(Preempt(t))
  /\ SF_vars(MainStep) /\ \A p \in Proc : SF_vars(ProcStep(p))
-------------------------------------------------------------------------------
TypeOK ==
  /\ pc \in [Threads ->
       {"ready", "wait_call", "wait", "blocked", "idle", "none", "start", "pcb",
        "cleared", "load", "activate", "segments", "load_failed",
        "free_pcb_failed", "free_name_failed", "free_name", "up_failed", "user",
        "switch_pd", "destroy_pd", "unpublish", "free_pcb", "up", "exit",
        "exit_failed", "exited", "failed"}]
  /\ running \in Threads /\ esp0 \in Threads
  /\ cr3 \in Proc \cup {Kernel, Wild}
  /\ pcb \subseteq Proc \cup {Main}
  /\ pagedir \in [Threads -> {"garbage", "null", "set"}]
  /\ memory \subseteq {"fn_copy", "thread", "pcb", "pagedir", "pages"} \X Proc
  /\ temporary \in Nat /\ child \in Proc \cup {Idle}

\* "our active page directory will be one that's been freed" (process.c:163)
\* never happens: the CPU runs on a live directory at every instant.
ActiveDirectoryLive ==
  cr3 = Kernel \/ <<"pagedir", cr3>> \in memory

\* "the PCB is freed before t->pcb is set to NULL" (process.c:105, 172) never
\* happens: a context switch always finds a live PCB.
PcbLive == \A p \in Proc \cap pcb : <<"pcb", p>> \in memory

\* A process in user mode runs in its own address space, and an interrupt
\* there uses its own kernel stack.
UserRunsAtHome == pc[running] = "user" => cr3 = running /\ esp0 = running

\* Whatever the timer does, the CPU is in the right address space, a live one.
AddressSpaceRight == ActiveDirectoryLive /\ UserRunsAtHome

\* What a process that ran held is all given back, page for page; a launch that
\* failed gives back all but the directory and the pages mapped so far.
MemoryReturned ==
  \A p \in Proc :
    /\ pc[p] = "exited" => \A w \in memory : w[2] # p
    /\ pc[p] = "failed" => \A w \in memory : w[2] = p => w[1] \in {"pagedir", "pages"}

\* What is freed is not in use, and what is not in use is freed.
MemoryExact == PcbLive /\ MemoryReturned

\* process_wait returns only for a child that is done: out of user mode for
\* good, with its PCB gone.
WaitMeansDone ==
  [][ WaitReturns => /\ pc[child] \in {"exit", "exit_failed", "exited", "failed"}
                     /\ child \notin pcb ]_vars

\* process_wait returns for a child that was created, on every path of its
\* launch and of its exit.
WaitForChildEnds ==
  (pc[Main] = "wait" /\ pc[child] # "failed") ~> pc[Main] = "ready"

\* Both: process_wait returns, at the right moment.
WaitRight == WaitMeansDone /\ WaitForChildEnds

\* "If child_pid is invalid ... returns -1 immediately" (process.c:132):
\* process_wait always returns.
WaitEnds == pc[Main] = "wait" ~> pc[Main] = "ready"
=============================================================================
