-------------------------------- MODULE MCKernel -------------------------------
(* Small instances of the kernel and of its library side by side, of which  *)
(* a behaviour runs one: the scheduler with main, the idle thread and three *)
(* pages that threads are created in, die in and are created in again; one  *)
(* call of the library; the keyboard; the display; the tasks that move      *)
(* files by way of an archive.                                              *)
EXTENDS Scheduler, Integers, TLC

CONSTANTS
  Parts,   \* the instances that run
  idle, p1, p2, p3, main, none, client, started, tidLock

AllPages == {idle, p1, p2, p3}
Client == {client}
Symmetry == Permutations({p1, p2, p3})

VARIABLES
  part,
  call, result,                                       \* of the library
  held, mods, caps, capsHeld, input, last,            \* of the keyboard
  fb, cx, cy, cursor, beeping, paper, written,               \* of the display
  scratch, files, position, step, file, log, tasks    \* of the archive
callVars == <<call, result>>
keyVars == <<held, mods, caps, capsHeld, input, last>>
displayVars == <<fb, cx, cy, cursor, beeping, paper, written>>
archiveVars == <<scratch, files, position, step, file, log, tasks>>
terminalVars == <<keyVars, displayVars>>
mcVars == <<part, vars, callVars, terminalVars, archiveVars>>

(* Words of four bits, every dividend and divisor of eight; arrays of up to *)
(* six elements with equal keys, told apart by their tags.                  *)
Tagged(s) == [i \in DOMAIN s |-> [key |-> s[i], tag |-> i]]
UpTo(n, S) == UNION {[1..k -> S] : k \in 0..n}
InOrder(s) == \A i \in 1..Len(s) - 1 : s[i] <= s[i + 1]
StdlibCalls ==
  [kind : {"unsigned"}, n : 0..255, d : 1..255]
  \cup [kind : {"signed"}, n : -128..127, d : (-128..127) \ {0}]
  \cup [kind : {"atoi"}, text : UpTo(4, {" ", "-", "+", "1", "2", "7", "8"})]
  \cup {[kind |-> "sort", array |-> Tagged(s)] : s \in UpTo(6, 1..3)}
  \cup {[kind |-> "find", array |-> Tagged(s), key |-> k] :
           s \in {s \in UpTo(6, 1..3) : InOrder(s)}, k \in 0..4}

(* All combinations of flags with widths below, at and above what a value   *)
(* takes, at the ends of an int of twenty bits; strings of up to four       *)
(* characters in one memory.                                                *)
N == "nul"
Letters == {"a", "b"}
Fields ==
  [conv : {"d", "u", "o", "x"}, flags : SUBSET {"-", "+", " ", "#", "0", "'"},
   width : {-9, 0, 4, 9}, precision : {-1, 0, 5, 12}, bits : {8, 20},
   value : {-524288, -1000, 0, 8, 255, 65536}]
  \cup [conv : {"s", "c"}, flags : {{}, {"-"}, {"0"}}, width : {-3, 0, 2, 4},
        precision : {-1, 0, 1, 2}, string : {<<"a">>, <<"a", "b", "a">>}]
Strings(n) == [1..n -> Letters \cup {N}]
TextCalls ==
  [kind : {"printf"}, conversion : {c \in Fields : c.conv # "s"}, size : {3}]
  \cup [kind : {"printf"}, conversion : {c \in Fields : c.conv = "s"}, size : 0..5]
  \cup [kind : {"dump"}, ofs : 0..9, size : 0..11]
  \cup [kind : {"size"}, size : 0..700]
  \cup [kind : {"memmove"}, mem : {<<1, 2, 3, 4, 5>>}, dst : 1..3, src : 1..3, size : 0..3]
  \cup {[kind |-> "strlcpy", mem |-> s \o <<N, "a", "a", "a", "a">>, dst |-> 5, src |-> 1,
         size |-> n] : s \in Strings(3), n \in 0..4}
  \cup {[kind |-> "strlcat", mem |-> s \o <<N>> \o d \o <<N, "b", "a">>, dst |-> 5, src |-> 1,
         size |-> n] : s \in Strings(3), d \in Strings(2), n \in 0..5}
  \cup {[kind |-> "strstr", mem |-> s \o <<N>> \o d \o <<N>>, dst |-> 6, src |-> 1] :
           s \in Strings(4), d \in Strings(3)}
  \cup {[kind |-> "strtok", mem |-> s \o <<N>>, delimiters |-> d] :
           s \in Strings(5), d \in [1..3 -> SUBSET Letters]}

Lib == INSTANCE Library WITH
  Calls <- StdlibCalls \cup TextCalls, W <- 4, IntBits <- 8, BufLen <- 10, PerLine <- 4, Kilo <- 5

(* Every key that the driver tells apart, the shifts that a keyboard adds   *)
(* to its prefixed keys among them.  Tab stops on and beyond the last       *)
(* column, and a cursor register of two halves.                             *)
Keys == [prefix : {FALSE}, code : {2, 26, 28, 29, 30, 42, 54, 56, 58, 83}]
          \cup [prefix : {TRUE}, code : {28, 29, 42, 56, 83}]

Console == INSTANCE Terminal WITH
  Key <- Keys, MaxHeld <- 3, InputSize <- 1, Chars <- {"a", "b"}, Cols <- 5, Rows <- 3,
  Tab <- 2, Half <- 4, MaxWritten <- 6, Blank <- " "

\* What the theorems about the keyboard and the display assume.
ASSUME TerminalAssumption == Console!TerminalAssumption

(* Archives of two files and a directory, of a file without bytes, with     *)
(* prefixed names, with sizes that wrap, end early or do not end, and with  *)
(* a checksum that does not fit.                                            *)
A == <<97>>
B == <<98>>
Tasks == INSTANCE Archive WITH
  Block <- 2, Size <- 7, SizeLen <- 4, SumLen <- 4, MaxName <- 1, IntMax <- 255,
  UlongMax <- 511, Valid <- {A, B}, Archives <- {}, FilesAtFirst <- {}, MaxTasks <- 4, pc <- step

Regular == Tasks!Regular
Device(s) == [i \in 0..6 |-> IF i < Len(s) THEN s[i + 1] ELSE Tasks!Zeros]
Two(x, y) == Tasks!Data(<<x, y>>)
Sized(field) ==
  LET h == [Tasks!MakeHeader(A, Regular, 0) EXCEPT !.size = field]
  IN [h EXCEPT !.chksum = Tasks!OctalField(Tasks!Checksum(h), 4)]
OneFile == Device(<<Tasks!MakeHeader(A, Regular, 3), Two(1, 2), Two(3, 0)>>)
ScratchDevices ==
  {OneFile,
   Device(<<Tasks!MakeHeader(<<47>> \o A, Regular, 3), Two(1, 2), Two(3, 0),
            Tasks!MakeHeader(B, Tasks!Directory, 0),
            Tasks!MakeHeader(<<46, 46, 47>> \o B, Regular, 2), Two(1, 0)>>),
   Device(<<Tasks!MakeHeader(A, Regular, 0), Tasks!MakeHeader(A, Regular, 2), Two(0, 1),
            Two(1, 1), Two(1, 1), Two(1, 1), Two(1, 1)>>),
   Device(<<[Tasks!MakeHeader(A, Regular, 2) EXCEPT !.size = Tasks!OctalField(3, 4)], Two(1, 1)>>)}
  \cup {Device(<<Sized(f), Two(1, 1), Two(1, 2)>>) :
          f \in {<<52, 48, 48, 48, 0>>, <<48, 52, 48, 48, 0>>, <<51, 32, 48, 48, 0>>,
                 <<48, 48, 48, 48, 52>>, <<0, 0, 0, 0, 0>>, <<49, 54, 57, 48, 0>>}}

\* What does not run has one initial state.
MCInit ==
  /\ part \in Parts /\ Init
  /\ IF part = "library" THEN Lib!Init ELSE call = Lib!None /\ result = Lib!None
  /\ Console!KeyInit /\ Console!DisplayInit /\ (part # "display" => cy = 0)
  /\ scratch \in (IF part = "archive" THEN ScratchDevices ELSE {OneFile})
  /\ files \in (IF part = "archive" THEN {<<>>, B :> <<1, 2, 3>>} ELSE {<<>>})
  /\ Tasks!AtRest

MCNext ==
  \/ part = "threads" /\ Next /\ UNCHANGED <<part, callVars, terminalVars, archiveVars>>
  \/ part = "library" /\ Lib!Next /\ UNCHANGED <<part, vars, terminalVars, archiveVars>>
  \/ part = "keyboard" /\ Console!KeyNext
       /\ UNCHANGED <<part, vars, callVars, displayVars, archiveVars>>
  \/ part = "display" /\ Console!DisplayNext
       /\ UNCHANGED <<part, vars, callVars, keyVars, archiveVars>>
  \/ part = "archive" /\ Tasks!Next /\ UNCHANGED <<part, vars, callVars, terminalVars>>

MCSpec == MCInit /\ [][MCNext]_mcVars

\* The properties of modules Library, Terminal and Archive.
LibraryRight == part = "library" => Lib!LibraryRight
TerminalRight ==
  (part = "keyboard" => Console!KeyboardRight) /\ (part = "display" => Console!DisplayRight)
ArchiveRight == part = "archive" => Tasks!ArchiveRight
=============================================================================
