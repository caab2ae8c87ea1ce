------------------------------- MODULE MCProcess ------------------------------
(* Small instances of what has to do with programs side by side, of which   *)
(* a behaviour runs one: main launches two processes, one after the other;  *)
(* directories and tables take four pages and map two user pages to one frame;  *)
(* the loader gets executables of up to two segments in pages of four       *)
(* bytes; the shell runs an input of two lines, or one pipeline of three    *)
(* stages, with pipes of two bytes; it reads a line of words or of tokens;  *)
(* pwords counts the words of no file or of three.                          *)
EXTENDS Process, Integers, Sequences, TLC
CONSTANTS
  Parts,   \* the instances that run
  p1, p2, none
TwoProcs == {p1, p2}

VARIABLES
  part,
  mem, frames, dir, tlb, last,                    \* of the page directories
  file, next, segment, pages, free, status,       \* of the loader
  input, proc, data,                              \* of the shell
  line, parsed,                                   \* of its command line
  text, wclist, lock, at, todo, found, started, joined, printed   \* of pwords

dirVars == <<mem, frames, dir, tlb, last>>
loaderVars == <<file, next, segment, pages, free, status>>
shellVars == <<input, proc, data>>
lineVars == <<line, parsed>>
wordVars == <<text, wclist, lock, at, todo, found, started, joined, printed>>
mcVars == <<part, vars, dirVars, loaderVars, shellVars, lineVars, wordVars>>
-------------------------------------------------------------------------------
(* Two directories with a table each, which share a frame in turn; one page  *)
(* is read-only.                                                            *)
Pd == INSTANCE PageDir WITH
  KPool <- 1..4, UPool <- {11}, TableNo <- {0, 1}, Index <- {0},
  UPage <- {<<0, 0>>, <<1, 0>>}, ReadOnly <- {<<0, 0>>},
  None <- none, free <- frames, cr3 <- dir
ASSUME PagesAssumption == Pd!PageDirAssumption

(* Executables: one segment at and across every boundary there is, with     *)
(* sums that wrap; two that may share a page; and headers of other types.   *)
Header(t, o, v, f, m, w) ==
  [type |-> t, offset |-> o, vaddr |-> v, filesz |-> f, memsz |-> m, writable |-> w]
Single == {Header("load", o, v, f, m, TRUE) : o \in {0, 1, 2, 5, 9},
             v \in {1, 4, 5, 6, 9, 14, 17, 20, 21}, f \in {0, 3, 4, 8},
             m \in {0, 3, 5, 7, 12, 28, 31}}
Few == {Header("load", o, v, f, m, w) : o \in {0, 1, 4}, v \in {4, 5, 8}, f \in {0, 3, 5},
          m \in {3, 6}, w \in BOOLEAN}
Executables ==
  [length : {9},
   headers : {<<h>> : h \in Single}
             \cup {<<h, g>> : h \in Few, g \in {x \in Few : x.writable /\ x.memsz = 6}}
             \cup {<<Header("load", 0, 4, 3, 3, FALSE), Header(t, 0, 0, 0, 0, FALSE)>> :
                     t \in {"ignored", "dynamic"}}]

Elf == INSTANCE Loader WITH
  PGSIZE <- 4, PhysBase <- 24, Wrap <- 32, Pool <- 5, Programs <- Executables

(* Inputs: a line of one command and a pipeline of two, or one of three.    *)
Program(f, r, w) == [found |-> f, reads |-> r, writes |-> w]
Alone == {Program(f, TRUE, 1) : f \in {"yes", "no", "noexec"}}
Staged == {Program("yes", TRUE, 0), Program("yes", TRUE, 2), Program("yes", FALSE, 1),
           Program("yes", FALSE, 3), Program("no", FALSE, 0)}
Scripts == {<<<<a>>, <<b, c>>>> : a \in Alone, b, c \in Staged}
           \cup {<<<<b, c, d>>>> : b, c, d \in Staged}

(* Lines: one or two words of one or two characters, and up to five tokens. *)
Characters == {"x", "'", "double", "backslash", "space"}
WordsUpTo2 == UNION {[1..n -> Characters] : n \in 1..2}
Token(c, name) == [first |-> c, name |-> name]
Token_ == {Token("", "a"), Token("", "b"), Token("<", "<"), Token(">", ">"), Token("|", "|"),
           Token(">", ">>")}
TokensUpTo5 ==
  {t \in UNION {[1..n -> Token_] : n \in 1..5} :
     /\ t[1].first = "" /\ t[Len(t)].first = ""
     /\ \A i \in 1..Len(t) - 1 : t[i].first # "" => t[i + 1].first = ""}

Sh == INSTANCE Shell WITH
  MaxPid <- 9, Capacity <- 2, Inputs <- Scripts,
  WordsOfLines <- UNION {[1..n -> WordsUpTo2] : n \in 1..2}, TokenLists <- TokensUpTo5

(* Command lines: standard input alone; three files that share words, one   *)
(* of them empty or of one word repeated.                                   *)
Files == {<<>>, <<<<1, 2>>, <<2, 1>>, <<2, 3>>>>, <<<<1, 1>>, <<>>, <<1>>>>}
Pwords == INSTANCE WordCount WITH
  MaxFiles <- 3, Texts <- Files, StdinText <- <<3, 2, 3>>, NoThread <- none, pc <- at
-------------------------------------------------------------------------------
\* What does not run has one initial state.
Still(name, v, S) == part = name \/ v = (CHOOSE x \in S : TRUE)

MCInit ==
  /\ part \in Parts
  /\ Still("load", file, Executables) /\ Still("shell", input, Scripts)
  /\ part = "line" \/ line = [kind |-> "plain", value |-> <<<<"x">>>>]
  /\ Still("pwords", text, Files)
  /\ Init /\ Pd!Init /\ Elf!Init /\ Sh!Init /\ Sh!LineInit /\ Pwords!Init

ProcessPart(A) ==
  part = "process" /\ A /\ UNCHANGED <<part, dirVars, loaderVars, shellVars, lineVars, wordVars>>
PageDirPart(A) ==
  part = "pagedir" /\ A /\ UNCHANGED <<part, vars, loaderVars, shellVars, lineVars, wordVars>>
LoadPart(A) ==
  part = "load" /\ A /\ UNCHANGED <<part, vars, dirVars, shellVars, lineVars, wordVars>>
ShellPart(A) ==
  part = "shell" /\ A /\ UNCHANGED <<part, vars, dirVars, loaderVars, lineVars, wordVars>>
LinePart(A) ==
  part = "line" /\ A /\ UNCHANGED <<part, vars, dirVars, loaderVars, shellVars, wordVars>>
PwordsPart(A) ==
  part = "pwords" /\ A /\ UNCHANGED <<part, vars, dirVars, loaderVars, shellVars, lineVars>>

MCNext ==
  \/ ProcessPart(Next) \/ PageDirPart(Pd!Next) \/ LoadPart(Elf!Next) \/ ShellPart(Sh!Next)
  \/ LinePart(Sh!LineNext) \/ PwordsPart(Pwords!Next)

\* The fairness of each instance's own specification.
MCSpec ==
  /\ MCInit /\ [][MCNext]_mcVars
  /\ \A t \in Threads : SF_mcVars(ProcessPart(Preempt(t)))
  /\ SF_mcVars(ProcessPart(MainStep)) /\ \A p \in Proc : SF_mcVars(ProcessPart(ProcStep(p)))
  /\ WF_mcVars(LoadPart(Elf!Next))
  /\ \A p \in 0..9 : WF_mcVars(ShellPart(Sh!Step(p)))
  /\ WF_mcVars(PwordsPart(Pwords!MainStep)) /\ \A t \in 0..3 : WF_mcVars(PwordsPart(Pwords!Step(t)))

\* The properties of modules PageDir, Loader, Shell and WordCount.
TranslationRight == Pd!TranslationRight
LoadsRight == part = "load" => Elf!LoadsRight
ShellRight == []Sh!NobodyLeft /\ (part = "shell" => Sh!PromptReturns)
LineUnderstood == Sh!LineUnderstood
WordsCounted == part = "pwords" => Pwords!WordsCounted
=============================================================================
