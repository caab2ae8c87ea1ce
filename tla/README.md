# A verification project for the Pintos kernel and its companion programs

TLA+ models of the concurrent and stateful parts of this repository, TLC configurations
that check them on small instances, and TLAPS proofs of what matters most for every
instance. Paths below are relative to the repository; `K/` stands for
`proj-pregame/src/`. The kernel under `hw-memory/pintos` and the one of
`proj-filesys-eval` and its siblings are copies of it; where a copy adds something (the sbrk system
call), the model names that copy.

## The system

| Component | State it keeps | Operations | What is hard about it | Module |
|---|---|---|---|---|
| Threads, scheduler, semaphores (`K/threads/thread.c`, `synch.c`, `interrupt.c`, `K/devices/timer.c`) | ready list, all_list, running thread, idle_thread, status and tid of each thread, value and waiters of each semaphore | create, exit, block, unblock, yield, tick, sema_down, sema_try_down, sema_up | preemption anywhere interrupts are on; a thread is its page and the page is reused; one list element for every list | Scheduler |
| Locks (`synch.c`) | semaphore of value 1, holder | acquire, try_acquire, release | the holder is written outside the semaphore's atomic part; threads barge in | Lock, AbstractLock |
| Condition variables, readers-writers locks (`synch.c`) | four counters, two queues, the guard | rw_lock_acquire, rw_lock_release, cond_wait, cond_signal, cond_broadcast | conditions go stale between wake-up and run; wake-ups may be lost | RwLock, AbstractRwLock |
| Interrupt queue (`K/devices/intq.c`) | ring buffer, one waiter per side, lock | intq_getc, intq_putc from threads and handlers | handlers and threads share it; a test before a sleeping lock_acquire | Intq, AbstractFifo |
| Processes (`K/userprog/process.c`, `pagedir.c`) | PCB, page directory, memory, the semaphore `temporary`, CR3 and the TSS | execute, start, load, wait, exit, activate; create, destroy, map, unmap, mark | every switch reads the PCB and loads its directory; failures half-way; stale translations | Process, PageDir |
| Page allocator (`K/threads/palloc.c`, `K/lib/kernel/bitmap.c`) | bitmap of used pages, lock | get_multiple, free_multiple | frees clear bits without the lock | Palloc |
| sbrk (`hw-memory/pintos/src/userprog/syscall.c`) | break, mapped heap pages, page tables, pool | sbrk up, down, by zero | rounding at page boundaries, unsigned wrap, running dry half-way | Sbrk |
| User malloc (`hw-memory/mm_alloc/mm_alloc.c`) | doubly linked block list, `first`, `base`, `end` | mm_malloc, mm_free, mm_realloc | pointer surgery over long call sequences | MmAlloc |
| Kernel malloc (`K/threads/malloc.c`) | arenas, a free list per block size | malloc, calloc, realloc, free | an arena's page goes back with its last block, whose neighbours are all on a list; size arithmetic wraps | Malloc |
| ELF loader (`K/userprog/process.c`, `load`) | the process's pages, the user pool | validate_segment, load_segment, setup_stack | sums of header fields wrap; segments meet within a page; the pool runs dry | Loader |
| File system (`K/filesys/`) | free map in memory and on disk, the directory, open inodes with their counts, open files | create, open, reopen, read, write, deny, allow, remove, close | removal while open; a failing allocation in any step; a crash between any two block writes | FileSys, FileData, AbstractFileSys, AbstractFile |
| Tasks and archives (`K/filesys/fsutil.c`, `K/lib/ustar.c`, run_actions of `K/threads/init.c`) | the scratch device, the two static positions on it | extract, append, rm | an archive is read, copied and erased in steps, each of which may be the last; headers of any content | Archive |
| Keyboard and display (`K/devices/kbd.c`, `vga.c`) | shift keys, Caps Lock; frame buffer, cursor | a key goes down or up, a character is written, a beep | keys come up in any order; columns, tabs and scrolling at the margins | Terminal |
| Timer (`K/devices/timer.c`, `pit.c`) | the tick count, loops_per_tick | tick, timer_sleep, calibrate, delays | a count of two words; sleepers that miss their tick; products that would overflow | Clock |
| IDE driver (`K/devices/ide.c`) | channel lock, expecting_interrupt, completion semaphore, the disks' registers | ide_read, ide_write, interrupt_handler | stray and early interrupts; one channel, two disks | Ide, AbstractDisk |
| Partitions (`K/devices/partition.c`, `block.c`) | the partitions found | partition_scan, reads and writes through a partition | tables that point beyond the device or wrap; recursion | Partition |
| Containers (`K/lib/kernel/list.c`, `hash.c`) | links; buckets and their number | all that change a list or a table | pointer surgery; stability; resizes that fail | Containers, AbstractList, AbstractTable |
| Shell (`hw-shell/`) | processes, their descriptors, pipes; the words of a line | read a line, fork, exec, wait, redirect, tokenize | each stage is awaited before the next exists; who holds which pipe end | Shell |
| Parallel word count (`hw-list/pwords.c`, `word_count_p.c`) | one list, one mutex, the threads | add_word, create, join, sort | find and insert must be one step | WordCount |
| Console and serial port (`K/lib/kernel/console.c`, `K/devices/serial.c`, `input.c`, `lib/kernel/debug.c`) | console lock with its depth, the transmit queue, the UART's registers, the input buffer | printf, putchar, panic, flush, getc | polled and queued output of one port; a panic inside a print | Console |
| C library (`K/lib/arithmetic.c`, `stdlib.c`, `stdio.c`, `string.c`) | none but a tokenizer's position | 64-bit division, atoi, sort, search; printf, hex_dump, copies, tokens | estimates, boundaries, combinations of flags, terminators, overlap | Library |
| The rest of boot, real-time clock and speaker, HTTP server, map-reduce, gRPC, small exercises | | | sequential; port I/O; independent connections; stubs (`todo!()`) | not modelled |

How they interact: every blocking primitive is a semaphore, and a semaphore is a wait list
plus thread_block and thread_unblock with interrupts off (Scheduler). Locks, the monitors
behind readers-writers locks and pool->lock of palloc are built on it: Scheduler shows that the semaphore
works under the scheduler, Lock takes the semaphore's operations as atomic and shows that
the lock implements AbstractLock, and RwLock and Palloc take the lock as AbstractLock
describes it. Interrupt handlers meet threads in Scheduler (a device's sema_up) and in
Intq. Processes are scheduled threads whose switch also loads a page directory; their
memory comes from the page allocator. mm_alloc is a client of sbrk: MmAlloc takes from Sbrk
that the memory it gets is contiguous and that a failed call changes nothing. malloc
takes from Palloc that a page it gets is nobody else's.

The file system sits on one partition of one disk. Ide shows that block_read and
block_write are atomic to their callers, Partition that what a partition's caller asks for
lies on the device, and FileSys and FileData take the sector as their unit: FileSys says
which sector belongs to which file and in which order they are written, FileData which
bytes of a request come from which sector. Loader reads what FileData describes and
fills the pages that Process has as one allocation. Lists and hash tables are sequences
and sets in the modules that use them; Containers shows that they are.

## The modules

An action is the code between two points where something else can run. With interrupts off
that is everything up to the switch or to the re-enabling of interrupts; with interrupts on
it is one access to shared state.

**Scheduler** (1.3 million states, three pages besides the idle thread's). `status`,
`ready`, `running`, `allList`, `tid`, `nextTid`, `value` and `waiters` are the variables of
thread.c and synch.c; `pc`, `want`, `child` and `seen` are the control points and locals of
thread_create, allocate_tid, sema_down and idle. `Schedule` is schedule() with
thread_switch_tail: the next thread runs with a fresh slice and a dying predecessor's page
turns FREE, so that PallocThread may use it again. tid_lock appears as its semaphore.
`Init` is the state in which thread_start has created the idle thread and enabled
interrupts. The policies other than FIFO panic in the code and are left out.

**Lock**. `Down`, `SetHolder`, `ClearHolder`, `Up` and `TryDown` are the atomic parts of
lock_acquire, lock_release and lock_try_acquire. **AbstractLock** is the promise: one owner
at most, and a lock that is wanted and free does not stay free.

**RwLock**. What a thread does while it holds the guard is one action; cond_wait's queueing
and its release of the guard are one step because nothing can happen on the queues without
the guard. **AbstractRwLock** is the promise of a writer-centric lock: readers or one
writer, and no reader passes a waiting writer.

**Intq**. A call is atomic up to the point where it sleeps, because interrupts are off. A
failed ASSERT is the state "panicked", in which nothing moves. **AbstractFifo** is the
bounded queue it implements through the mapping `Contents`.

**Process**. One action per step of start_process, load, process_exit and process_wait that
touches the PCB, the directory, CR3, the memory or the semaphore; `memory` records every
allocation made for a process and `Preempt` may come between any two steps. A fresh PCB's
pagedir is garbage until it is cleared. The segments and the stack are one step that maps
everything or fails after mapping some.

**PageDir**. Pages of the kernel pool are directories, tables or free; one action per function
of pagedir.c, with install_page's two calls as one, since only the process itself changes its
directory. The CPU's cache is `tlb`: `Access` fills it and sets accessed and dirty bits, as the
processor manual the code quotes says, `Evict` empties an entry at any time, and
`Invalidate` empties it where the code reloads CR3. pagedir_clear_page and the functions that
set accessed and dirty bits have no caller in this tree yet; sbrk's dealloc in `hw-memory` calls the first.
**AbstractAddressSpace** has neither tables nor cache: a directory is a map, and an access
is to what the active one says at that moment.

**Palloc**. One pool: the scan reads one bit at a time under the lock, marking sets and
freeing clears one bit at a time, and freeing takes no lock. `Claim(t)` is the set of pages
that are a thread's, half-marked and half-cleared blocks included.

**Sbrk**. alloc takes a step per page, `AllocStart`, `AllocGrow` and `AllocDone`, and when the
pool runs dry `AllocUndo` gives the pages back one by one, from where the pointer stands; others
drain and fill the pool meanwhile. dealloc is one action, since only the process itself changes
its heap. `SetPage` is palloc_get_page with pagedir_set_page, whose failure for want of a page
table the code ignores: the page is then `lost`. `tables` are the process's page tables.

**MmAlloc**. The headers form a function from addresses to records; `Split`, `Extend`,
`Absorbed`, `AbsorbNext` and `FreeIn` make the code's pointer writes in the code's order. Payload
bytes are left out.

**Malloc**. `arena`, `freeList` and `taken` are the headers, the descriptors' lists and the
pages. A call holds its descriptor's lock and is one action; a realloc is two, `ReallocGet`
and `ReallocPut`, for others run while it copies. `held`, `asked` and `moving` are the
callers' side. Sizes are sums and products modulo `Wrap`, any number below which may be asked
for. `Without` is the list after free has
taken the blocks of an unused arena off it.

**Loader**. One action per header, per page and for the stack, in words that wrap. A byte
is the offset in the file it came from, so that a wrong page shows. `installed` is the
choice pagedir_set_page makes when it needs memory.

**FileSys**. This tree calls the file system from one thread at a time, so a call changes
memory in one action and leaves its block writes in `pending`, in the code's order; `Flush`
does the first of them and `Reboot` may come at any point, after which only the disk is
left. `fail` names the allocation that fails in a call (at most one, named at the actions);
`ignored` is a ghost that says whether it was one whose failure the code ignores;
`seen` is how far a directory search gets when its bounce buffer cannot be had.
**AbstractFileSys** has names, files and open files and no sectors: a name leads to one
file, a removed file lives as long as somebody has it open, nobody writes to a file that
is denied. **FileData** and **AbstractFile** say the same of the bytes within a file.

**Ide**. Threads, the handler and the two disks step separately; the disks are modelled
from the registers the driver reads (`external` in the map). **AbstractDisk** is one
atomic disk each. **Partition** follows the recursion with a stack of calls.

**Console**. A thread prints byte by byte under the console lock, whose depth the code counts
because a print may print; serial_putc queues the byte, or polls when the port is not in queue
mode or interrupts are off and the queue is full. The UART sends what is in its holding
register and interrupts as its interrupt-enable register says. A panic prints
without the lock, and shutdown flushes what is queued. serial_flush restores the caller's
interrupts: after the flush of shutdown_power_off others run and print until `PowerOff`,
and what they print may be lost; debug_panic has turned interrupts off itself
(debug.c:23), so they stay off after its flush.

**Containers** has the lists pointer by pointer and the table bucket by bucket; **AbstractList** is
sequences, with a stable sort, **AbstractTable** a set of elements no two of which are
equal. **WordCount** is one action per access to the list, the mutex or a thread's state.

**Library**. A call is chosen from the constant `Calls` and made; its result is what
the code's loops yield, written as folds and recursive operators, and the properties say
what it should be without them: a quotient by \div, a field by what the C standard says
of it, a token by the delimiters around it. A word has W bits, so that every pair of double
words can be tried.

**Archive**. The scratch device is a function from sectors to headers and data, the file
system one from names to bytes (FileSys has what is behind it). One action per sector read or
written, a panic wherever the code has one, and `Reboot` at any point, after which the device
and the files are what they were and the positions are 0. `log` is a ghost: what an extract has
promised and what was appended. An octal field is characters, since which fields the parser
takes is part of what is checked; a checksum is the sum of the fields the model has.

**Terminal** is two machines that share nothing. Keys are scancodes with their prefix, and a
key event is one interrupt; `held` is what is really down. `Shown` is the switch of vga_putc,
with the cursor register in its two halves. `paper` is a ghost: what has been written, on an
endless roll, of which the property asks that the frame buffer shows the last rows.

**Clock**. `high` and `low` are the words of the tick count, `LoadLow` and `LoadHigh` the two
loads of timer_ticks; `speed` is the number of loops in a tick, which the program can only
try. The delays and pit_configure_channel's count are operators, checked over `Times` and
all frequencies. Sleeps of less than a tick are busy waits, which change nothing.

**Shell**. A process is a record of its role (shell, child, executor, stage, command,
zombie), its descriptors and what it has still to wait for. fork copies the record;
a failed execv goes on as an executor, as the code does. A second machine of the module
(`line`, `parsed`) runs tokenize character by character, and the two redirections, of a
single command and of a pipeline, token by token, each against what the line says.

## The runs

Small subsystems that do not interact share a run: `part` is chosen at the start among
`Parts` and never changes, every step is one of that part's instance with the rest
unchanged, and what does not run has one initial state. A property of such a run is the
property of one part; in the others it holds since nothing of it moves. This adds the
state spaces up, it does not multiply them.

| Run | Instance | What it shows |
|---|---|---|
| kernel: threads | main, idle, 3 pages, slice 2, tids to 5, values to 2 | ready and wait lists are exact and disjoint and schedule() always finds a thread (OneList), no list, idle_thread or creator refers to a freed page (NoDanglingThread), tids of the living differ (UniqueTid), no sema_up is lost (NoLostWakeup), slices go round robin, and on the ready list and on each wait list nobody gets in front of a thread or leaves before one that was there first (RoundRobin) |
| kernel: library, numbers | words of 4 bits with every dividend and divisor of 8, texts of up to 4 characters, ints of 8 bits, arrays of up to 6 elements with equal keys | quotients are exact and no divide error occurs, atoi is right up to the lowest int, sorted arrays are permutations, a key is found if it is there (LibraryRight) |
| kernel: library, texts | every set of flags with widths, precisions and values around each other's boundaries; dumps of up to 11 bytes in lines of 4; all strings of up to 5 characters of two letters | a field is what its conversion says and the buffer holds what fits before its terminator; every byte is dumped in its place; copies stay within their size; tokens are what lies between delimiters (LibraryRight) |
| kernel: keyboard | 15 keys, the prefixed ones among them, 3 down at once, a buffer of 1 | the driver's shift keys are those that are down, and a key types what it should with them (TerminalRight) |
| kernel: display | 5 columns, 3 rows, tabs of 2, 6 characters and controls, 2 beeps at once, from the first row and the last | the screen shows the last rows of what was written and the cursor is behind it (TerminalRight) |
| kernel: archive | 7 sectors of 2 bytes, 2 names, 10 archives with odd headers among them, 4 tasks, a power failure anywhere | no file is in neither place, appended files are read back, an archive is extracted once (ArchiveRight) |
| monitors: rw_lock | 4 threads, either role each time | exclusion, exact counters and no lost wake-up (RwLockExact), AbstractRwLock is implemented, nobody is stuck once arrivals stop (NobodyStuck) |
| monitors: console | main, another thread and a handler, lines of up to 2 bytes, calls within calls, 3 bytes in all, a queue of 2, panics out of panics | bytes reach the line in the order they were printed, each once; interrupts are on exactly as there is work; lines are not mixed; all that is printed is sent, also by a panic, and at shutdown what was printed before the flush (ConsoleRight) |
| devices: lock | 4 threads | exclusion, an exact holder, wake-ups that arrive (LockExact); AbstractLock with its progress |
| devices: intq | 2 readers, 1 writer, handlers on both sides, ring of 3 | nobody sleeps while there is work, AbstractFifo is implemented |
| devices: ide | 2 threads, 2 disks, 1 sector each, 1 stray interrupt | AbstractDisk is implemented, a call that has the channel returns (DiskRight) |
| devices: partitions | 8 sectors, words of 16, tables of two entries within, across and beyond the device, extended ones, none | no access leaves the device; without extended partitions exactly those on the device are found (AccessOnDevice) |
| devices: files | sectors of 2 bytes, files of 5 and 2 bytes, 3 buffers at 5 offsets | reads and writes are those of a byte array that ends at the file's length (ImplementsFiles) |
| devices: clock | 2 sleepers, words of 2, 3 ticks, 2 speeds, delays of 0 to 2 ticks | nobody wakes before its tick or sleeps on after it, calibration and delays are right to their precision (TimerRight) |
| intq_assert (violated) | 2 readers, 1 writer, handlers | the ASSERT of wait fails: the queue was tested before lock_acquire slept |
| partition_table (violated) | the tables above | an extended partition's table is read from sector 0 |
| programs: process | 2 launches one after the other, every failure | the CPU never runs on freed tables and user mode is at home (AddressSpaceRight), a switch never reads a freed PCB and exits return all memory (MemoryExact), process_wait returns, and only for a child that is done (WaitRight) |
| programs: page directories | 4 pages for directories and tables, 1 frame that processes get in turn, 2 user pages in different tables, one read-only | every table belongs to one directory and every frame to one page (TablesExact), an access goes where the active directory says whatever the CPU has cached (TranslationRight) |
| programs: load | pages of 4, words of 32, pool of 5; 1,260 executables of one segment on and around every boundary, pairs that may share a page, other headers | a load ends, with each byte in its place or with a failure; nothing is mapped at page 0 or in the kernel (LoadsRight) |
| programs: shell | two lines, or a pipeline of three; pipes of 2 | no reader waits for a pipe nobody will close, no process is left and the prompt comes back when each stage fits into its pipe (ShellRight) |
| programs: line | words of up to 2 of 5 kinds of character; up to 5 tokens | tokens and redirections are what the line says, for lines without the known oddities that the module names (LineUnderstood) |
| programs: pwords | standard input, or 3 files | every word is counted once and printed in order, and the program ends (WordsCounted) |
| process_wait_failed (violated) | the process part | process_wait does not return when process_execute failed, against its comment |
| memory: palloc | 3 threads, 3 pages | no page has two owners, none is lost, the fill of a free stays at home, a scan ends |
| memory: malloc | 2 users, 3 pages of 16 bytes, requests of 0, 3, 9, 127, factors 1, 2, 12, 100, words of 128 | blocks are apart and inside their arenas, large enough unless the bytes asked for wrap, lists and counts are exact, unused arenas go back (MallocExact) |
| memory: sbrk | pages of 4 bytes, pool of 3, page tables of 3 pages that may fail, increments -18, -6, -4, 0, 2, 4, 10, addresses below 64 | the pool adds up at every step, nothing beyond the break stays mapped, no page with a byte below the break is unmapped or zeroed (BreakRight) |
| memory: mm_malloc | headers of 2, requests of 1, 2, 4, heap of 17 bytes | the list tiles the heap, reads the same both ways, is coalesced, and holds exactly what the client holds, which no other call touches (HeapRight) |
| memory: lists, table | 5 elements in two lists, with equal keys; 6 in a table of 2 or 4 buckets | AbstractList and AbstractTable are implemented, resizes that fail included (ContainersRight) |
| sbrk_hole (violated) | the sbrk part | after shrinking to a page boundary, growing leaves a hole below the break |
| mm_alloc_end (violated) | the mm_malloc part without ClientSpares | a block merged into its predecessor leaves `end` inside it and later blocks are lost to the list |
| filesys | 7 sectors, 2 valid names and an invalid one, 2 open files, 2 directory slots, files of up to 2 sectors | the disk is consistent at every point where the machine may stop, open inodes are exact (FilesConsistent), AbstractFileSys is implemented, and sectors leak, in memory or on the disk, only by a crash, by a create that fails after inode_create, and on the disk by an ignored failure to write the free map (LeakOnlyByFailure) |
| filesys_add (violated) | the same, with the bounce buffer of dir_add's search failing | the entry the search stopped at is overwritten |

Bounds. Four threads on a lock are a holder, a sleeper, a woken thread and one that barges
in; a fifth repeats one of these roles, and the proofs cover any number. Three pages are
the fewest in which two threads create a thread at the same time while a third page is
reused; tids up to 5 give each of them a successor, and values up to 2 let a semaphore be
upped twice before a sleeper runs. A ring of 3 has empty, full and a middle. Two launches
are enough for a switch between a dying and a new process and for a semaphore that is
initialised again. Three pages hold a block of two and one of one, or a hole between two; PagesHaveOneOwner
and its siblings are proved for any pool. Three pages of malloc hold arenas of both sizes and a block
of two pages. Seven sectors are the four that the format takes and three, so that the
second file of two sectors meets a full device, and two slots a full directory. Sectors of
two bytes have a first and a last byte, and a file of five ends within one. Pages of four
bytes and words of 32 let the sum of an address and a size wrap past 0. Three stages are the
fewest with a middle one; a pipe of two has a middle. A heap of 17 bytes holds up to five
blocks, so a block with both neighbours free and one beyond either occurs. The increments
of sbrk meet page boundaries and miss them, ask for more pages than there are, and go below the
start of the heap and below zero: from a break of 14, -18 comes round to 60, a page boundary.
Of malloc's sizes 127 wraps with a header, and of calloc's products 144, which the code lets
pass as 16, and 200 and 10000, which wrap to less than a factor. Ticks go to 3 so that
the low word of 2 values carries and a sleep of two ticks may start before or after it. Three
rows scroll with 3 newlines, and from the last row with one. BufSize, Limit,
Pool, BreakBound, MaxTid, MaxValue, MaxSpurious, MaxDepth, MaxLen, MaxPid, MaxTasks,
MaxHeld, MaxWritten and MaxTicks are the bounds
on counters; MaxTid, MaxValue, MaxSpurious, MaxDepth, BreakBound and those from MaxTasks on stop calls in guards,
and none of them hides a wrap the code could reach before it, save that BreakBound keeps alloc
from carrying a break that dealloc has left near the top of the address space past its end. Inputs are bounded by the sets whose comment says
"bound".

The mm_malloc part runs with `ClientSpares`: the client never frees the last block while the
block before it is free. Without that restriction the invariants do not hold, which is what
`mm_alloc_end` shows; the pair says that this is the only way in which they fail on this
instance. A first mm_malloc that fails ends the model (`base = Failed`), because the
code then dereferences (void *) -1. In the same way `filesys` lets every allocation fail but that
of dir_add's search, which `filesys_add` is about.

Deadlock is checked except where the system may really stop: in `devices` and `monitors`, after a panic,
a shutdown or when a scan has ended; in `programs`, when every task has run, a load or a shell has
ended, or main sleeps for ever.

Mutants. Each property has a variant of one mapped definition, next to it and marked
"Mutant", with a plausible bug under which TLC finds the property violated.

## Fairness

Lock: a thread that has begun an acquire or holds the lock takes its next step (weak
fairness of `Step` while its pc is not "out"), which FIFO scheduling with a timer gives
every ready thread; nobody need acquire. RwLock: a free guard is taken by somebody, its
holder runs, a thread inside leaves; NobodyStuck needs no particular thread to win the
guard. Ide: a thread that runs, a disk that has a command and a pending interrupt each go on (weak
fairness), as the hardware and the timer see to; nobody need win the channel, which is a
lock. Console: a print that has begun goes on, the UART sends, a pending interrupt is handled. Loader, Shell and WordCount: a process or thread of the host that can step does (weak fairness
per process). Process: round robin gives a runnable thread the CPU again and again (strong
fairness of `Preempt(t)`, because the CPU may leave the state in which t is switchable) and a
running thread makes progress; user programs end. Clock: strong fairness of the
timer interrupt, which stays pending while interrupts are off, and of a sleeper's steps, since
round robin comes back to it though others turn interrupts off in between. Palloc: a call that has begun goes on
(weak fairness per thread), and callers free what they hold. Scheduler states its fairness
claim without fairness, as the action property RoundRobin: the thread at the head of the
list gets the next slice, and whoever enters a list enters behind all who are on it.

## What is proved

All proofs hold for every value of the constants that meets the ASSUMEs named in the
modules (distinct model values, positive sizes).

* **SchedulerProofs**: `TypeCorrect`. The type of `running` rests on schedule() always
  finding a thread, so the inductive invariant `TInv` adds who runs the idle loop, that its
  page is never freed, that before it runs for the first time it is listed or running, and
  that a creator has a child. One lemma per group of actions; the lemmas about Schedule, Up
  and YieldCPU carry the argument. `EveryThreadOnOneList` and `NoThreadDangles` follow from
  `SInv`, which adds to `TInv` how a thread's status and its control point determine each other
  (`StatusInv`), that a page is created by at most one thread and that this thread lives
  (`FamilyInv`), and on which list each status puts a thread (`ListInv`). `TidsDiffer` adds
  `TidInv`: tid_lock excludes, and whoever is inside has read the next tid that nobody has.
  `NoWakeupIsLost` adds `WakeInv`: where somebody sleeps on a semaphore,
  its value is at most the number of threads that were woken from it and have not run since, which
  needs those threads to be counted, one by one, as sema_up wakes and sema_down resumes them. `FirstComeFirstServed` is the action property RoundRobin: each action appends to a list, takes its
head, or takes its head and appends it, and those three overtake nobody (`NoOvertaking`).
* **ProcessProofs**: `TypeCorrect`, and from the inductive `PInv` the properties
  `RightAddressSpace` (AddressSpaceRight), `NothingKept` (MemoryExact) and `WaitForTheChild` (the
  safety half of WaitRight). PInv says, per control point, what a PCB's pagedir is, what memory the
  process holds (`HoldsInv`, `PcbInv`), that CR3 is the running thread's directory or the kernel's
  (`CpuInv`), and that all processes but the child of the moment are done or not launched
  (`WaitInv`). The properties alone are not inductive: a PCB is published once its garbage
  pagedir has been cleared, and it is this order, kept by PcbInv, that makes a switch in the
  middle of start_process harmless.
* **PageDirProofs**: `TranslationIsRight`, and its two parts `PageDirImplementsSpaces`
  (AbstractAddressSpace, by a step mapping) and `PageTablesAreExact`. The inductive invariant
  `IInv` says how directories, tables and frames refer to each other (`StructInv`: an entry of
  a directory names a table, a table belongs to one entry of one directory; `FrameInv`: a
  present entry has a frame, a frame is mapped once and is in use) and that what the CPU's cache
  holds of a page is what the active directory says of it (`CacheRight`), which is why each
  change to the active directory has to reload CR3 before the next access. It is assumed
  that the pools are finite, that user pages are in range of a directory and that None is
  none of the data (`PageDirAssumption`). TLC found no reachable state outside `IInv` on the
  run's instance before it was proved.
* **DeviceProofs**, on five modules. Of Intq: `OneThreadWaits`, `NobodySleepsOnWork`
  (NoSleepWithWork) and `RingImplementsFifo`, from `RingInv`, which adds to the two invariants
  that the lock's list has exactly the threads asleep on it, once each, and that a
  registered waiter is asleep in its own wait, so that a signal wakes it and nobody else.
  They need NoThread not to be a thread (`IntqAssumption`). Of Ide: `DriverNeverPanics` and
  `DriverImplementsDisk` (AbstractDisk, by a step mapping). Its `IInv` says that only the
  selected disk of a channel does anything, what each control point of the thread that owns
  the channel implies of the disk's registers and of expecting_interrupt (`Use`), and that a
  disk which is storing stores on the sector its latch names; a stray interrupt changes none
  of this (`IdeAssumption`: NoThread is no thread).

  Of Terminal: `KeyboardIsRight` and `DisplayIsRight`, the two parts of TerminalRight. The
  keyboard's (`KeyInv`) is inductive with its types. It rests on the codes having seven
  bits, so that the eighth can say that a key is lifted and no two keys share one. The display's `DisplayInv` says that the frame buffer and the cursor are
  what the paper shows (`Same`, with `Above` the rows that have gone), with one
  lemma each for a new row, a character, a move and a clear screen; and that the two halves of
  the register make up the cursor, for which the screen must fit two bytes
  (`TerminalAssumption`).

  Of Partition: `AccessesStayOnDevice` (AccessOnDevice). `ScanInv` says that without extended
  partitions there is one call, which has found those of the entries before its own that lie on
  the device; `FitsInNumbers`, that the comparisons of found_partition in words are those in
  numbers, which they are because a device is smaller than a word can count
  (`PartitionAssumption`). Of Clock: `SleepersWakeInTime` (WakesInTime), `DelaysAreRight`
  (DelayRight) and `PitCountsAreNearest` (PitRight). `ClockInv` says that a thread's half-read
  count is still that of the ticks, since interrupts are off between the loads, and that what
  it has read lies between the start of its sleep and now. The delay's two divisions
  are bounded by `TwoRoundings`. `ClockAssumption` says that the machine does
  FirstLoops in a tick and that delays are given in multiples of Scale (the ASSERTs at
  timer.c:52 and 190), and that the register holds the count of the lowest frequency.
* **FileSysProofs**: `FilesStayConsistent` (FilesConsistent), `EntriesStay`, the action
  property EntriesErasedOnly, and `FilesImplementFileSys` (ImplementsFileSys), all as long as no allocation fails in dir_add's search
  ("addscan", the finding of filesys_add): that failure is the only one that loses an entry.
  The invariant `IInv` says of a call in progress what it makes of the directory and what it
  has still to write (`CallInv`): each write spares the sectors of every inode that a name
  or an open file leads to (`Spares`), an erased entry is the first write of all, and a new
  one the last, after its map, inode and data (`NewFile`). A block write and a crash at any
  point keep it, which is what FilesConsistent alone could not show. Each call has a
  lemma of its own; `OneInode` carries the counts of the open inodes. The refinement maps a
  create and a remove to the moment the directory write is on the disk, a write to the
  moment its sector is, every other block write to a stutter, and a crash at any point to a
  crash between calls. For it the invariant also says that a pending data write is to
  nobody's sector or to one of an open file that nobody denies (`Goes`), and that a new file's
  sectors will be zero; `Views` says what callers see of the disk, and each
  step has a lemma on its views (`OpenSeen`, `FlushErases`, ...). It is assumed that a
  device has some old data, that handles are finitely many and that None is nothing else
  (`FileSysAssumption`).
* **LockProofs**: `LockIsExact`, of which the parts are `LockExcludes`, `HolderIsAccurate`, `WakeupsArrive`, and
  `LockImplementsAbstractLock` (safety part). The invariant adds that the wait list
  holds only sleeping threads, once each; a step is mapped to Ask, Take, Give
  or a stutter.
* **RwLockProofs**: `RwLockIsExact`, of which the parts are `RwLockExcludes`, `CountersAreExact`, `RwWakeupsArrive` and
  `RwLockImplements`. The invariant says who holds the guard, that the queues hold only
  waiting threads of their role, once each, and the counters as cardinalities; what
  cond_signal and cond_broadcast do to a queue are lemmas of their own.

  Of Console: `ConsoleIsRight`, the safety part of ConsoleRight. The invariant `ConsoleInv`
  adds what the code relies on without saying so: who polls, flushes or is down has
  interrupts off, and a panic never gives the processor back (`OffInv`); a handler's calls do
  not nest, and who polls has a character to print (`CallInv`); who sleeps or polls for
  room finds the queue full (`RoomInv`); the UART's interrupts are exact from
  serial_init_queue to the flush (`IerInv`); and the bytes are numbered, first
  those at the port and then those of txq (`SentInv`). `ConsoleAssumption` says that main
  is a thread, the handler is none, and the queues have room for a byte.
* **MemoryProofs**, on four modules. Of Palloc: `PagesHaveOneOwner`, `BitmapIsExact` and
  `FillsStayHome`. The invariant `IInv` adds the bounds of a block and the key fact about the
  unlocked frees: what a scan has found clear stays clear, since only the holder of the lock
  sets bits. `ClaimsAfter` reduces each action to one of three changes: no claim, one page
  claimed with its bit, one page given up with its bit.

  Of Sbrk: `SbrkIsRight` (BreakRight), with its parts `SbrkPagesAreExact`, `SbrkKeepsData` and
  `SbrkShrinksAway`. The invariant `HeapInv` says that the pages add up to the pool (`BreakSum`),
  which pages a break allows to be mapped (`MappedInv`), and, during alloc, that those above
  the break's page are among the ones this call has got (`CallInv`), so that giving them back one by one
  leaves none of them and takes no other. It is assumed that the heap starts at a page and that no
  call carries the break past the end of the address space; one may carry it below zero, where
  it wraps (`SbrkAssumption`). Of such a call that ends on a page boundary above the break DataKept
  does not say that the page of the old break stays, for the code takes it
  (syscall.c:195-199): the exception is `WrappedAway`.

  Of Malloc: `MallocIsExact` (MallocExact), from `AllocInv`: the users' blocks are all different
  (`Apart`), and the store answers to them (`StoreInv`): the pages taken are those of the
  arenas, each of one (`PagesInv`); a block in use has an arena and an index in it
  (`UseInv`); a descriptor's list has, once each, exactly the blocks of its arenas that nobody
  uses (`ListInv`); and free_cnt counts them, with at least one in use (`CountInv`). That the
  bytes of blocks are apart follows from this by arithmetic (`SpanIs`, `SpansApart`), so no
  step has to speak of bytes. One lemma each says what malloc does for a big block, a listed
  block and a new arena, and free for a big block, the last block of an arena and another.
  That free takes an unused arena's blocks off the list depends on each being on it, which is
  ListInv with CountInv, and not on what MallocExact says alone of one moment.
  `MallocAssumption` says that a header takes at most half a page and that what is asked for is
  a number of size_t, whichever. For requests near SIZE_MAX malloc's sum wraps (malloc.c:100),
  and calloc lets products pass that wrap to more than either factor (malloc.c:152); the
  block is then too small. It is still apart from the others and goes back whole; only the
  part of MallocExact that speaks of sizes, `BlockFits`, excepts what wraps (`Owed`).

  Of MmAlloc: `HeapIsRight` (HeapRight). The invariant `MmInv` speaks of the headers as a set
  and not of the walk along the list: before the first call there are none; afterwards the
  blocks lie one after the other from base to the break, and each next and prev is the
  neighbour that the sizes give (`Tiles`), no two free ones are neighbours (`FreeRight`), and
  the others are the client's, large enough (`HeldBy`). That walking from base finds exactly
  this set is `BlocksAre`, by induction along the list and on addresses: the induction theorem
  of the library is out of the provers' reach, so `Inductive` proves induction for a set of
  numbers from the pigeonhole principle. One lemma each says what marking, splitting, merging
  and extending leave of `Tiles`. mm_realloc in place relies on more than the list being
  right: what mm_free leaves is one block as large as IfWeFree says, so that the allocation
  after it cannot fail (`FreeGood`); and one that moves, on the allocation not making the old
  block one that must not be freed (`Gives`). That the client never frees the last block
  behind a free one is assumed (`ClientSpares`), as in the run: without it HeapRight is false
  (the run mm_alloc_end). `MmAllocAssumption` says that a header and a request have
  at least a byte.

Only model-checked: the properties of the modules without a proof (`LibraryRight`,
`ArchiveRight`, `LineUnderstood`, `LoadsRight`, `ShellRight`, `WordsCounted`,
`ContainersRight`, the calibration of the timer and the cutting of files into
sectors); every
liveness property, including the progress of AbstractLock and that all that is printed is sent (liveness under fairness and
ENABLED are out of the prover's reach); and what recursive definitions compute, such
as a sort or a tokenizer. LeakOnlyByFailure has no proof yet.

## Where code and documentation disagree

Six runs are expected to fail, each against a sentence, an assertion or a test of the
repository: `intq_assert` (intq.c:73), `partition_table` (partition.c:31),
`process_wait_failed` (process.c:132), `sbrk_hole` (sbrk-counter.c:44), `mm_alloc_end`
(mm_alloc.h:4 and the test malloc-merge-1.c) and `filesys_add` (directory.c:135).

Three more were met in the C library, and the properties of Library leave them out:
umod64 and smod64 return 32 bits, so a remainder of 64 bits loses its upper half, against
arithmetic.c:113 and 126 (`DivisionRight` asks for remainders that fit); a `*` width
below zero sets the MINUS flag after parse_conversion has cleared ZERO for one (stdio.c:373 and
389), so that the field is padded on both sides (`ZerosAndMinus`); and memmove
returns the end of the block when it copies upwards, against "Returns DST" (string.c:24).

Two more are excepted by name in properties that hold otherwise. filesys.c:31 says that
filesys_done writes "any unwritten data to disk", and free-map.c:52 that free_map_close "Writes
the free map to disk and closes the free map file": it only closes it, so that a release whose
write failed, which free-map.c:40 ignores, leaves the sector marked on the disk for the next boot
(`ignored` in LeakOnlyByFailure). And malloc.c:81 promises "a new block of at least SIZE bytes",
which malloc.c:100 and 152 do not keep for sizes and products that wrap (`Owed` in BlockFits).

## What is not modelled

The HTTP server's connections share nothing; the map-reduce coordinator and worker and the
gRPC service are stubs; the rest of boot, the real-time clock, the speaker and the small
exercises are sequential or port I/O. `hw-memory/pintos` and the other copies of the kernel
hold every file of `K/` a second time, with the same code; the models stand for both and
their lines are counted once, so most of the repository's lines are copies, tests, and
sequential code rather than behaviour left out.

Inside the modelled parts: priorities (never read), the two pools of palloc as separate
instances, what a failed load leaves allocated beyond what MemoryExact allows it (process.c:109:
the code gives neither the directory nor the pages back), payload bytes in mm_alloc (so mm_realloc's copy of a size that a merge has changed,
mm_alloc.c:172, is not seen), an sbrk that grows a break which has wrapped to the top of the address space, a disk that does not answer in time (ide.c:394), the reset of the channels
at boot, two callers of the file system at once (no system call of this tree reaches it),
file positions and directory listing, the tasks ls and cat, %p and %f of printf and the string functions that are one loop and one test, the shell's built-in commands, its PATH search and
its terminal handling, and stages that write more than their pipe holds, for which the
shell never returns (shell.c:322).

## Plan

1. Proofs: ContainersRight, with the induction along lists that MemoryProofs uses for MmAlloc.
2. Two callers of the file system without a lock, once a tree has the system calls.
