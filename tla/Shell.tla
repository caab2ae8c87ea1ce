---------------------------------- MODULE Shell ----------------------------------
(***************************************************************************)
(* hw-shell/shell.c: the loop of main, which forks a child for each line   *)
(* and waits for it, and pipe_executer2, which runs a pipeline in that     *)
(* child: it makes every pipe, then forks one stage after the other and    *)
(* waits for each before it forks the next.  A child whose execv fails     *)
(* goes on in the code of its parent.                                      *)
(* External: processes, descriptors and pipes of the host, and commands,   *)
(* which read to the end of their input, or not at all, and write some     *)
(* bytes.  Each shell has the input from its line on in a buffer of its    *)
(* own, as with an input that is no terminal.  Commands are named by their *)
(* path, so what path_resolve does to PATH plays no part.                  *)
(* And how the shell reads a line: tokenize of hw-shell/tokenizer.c, and   *)
(* the redirections of shell.c, by redirect for a single command and by    *)
(* pipe_executer2 for the stages of a pipeline.  This is a machine of its  *)
(* own (line, parsed), which reads one line and is over.                   *)
(***************************************************************************)
EXTENDS Integers, Sequences, FiniteSets
Sets == INSTANCE FiniteSetsExt
Seqs == INSTANCE SequencesExt

CONSTANTS
  MaxPid,    \* bound: the processes there can be
  Capacity,  \* the bytes a pipe holds
  Inputs,    \* bound: the inputs, sequences of lines, which are sequences of
             \* commands [found, reads, writes]
  WordsOfLines,  \* bound: the words a line is written from
  TokenLists     \* bound: the token lists that are run

Pid == 0..MaxPid
Tty == [pipe |-> 0, end |-> "tty"]
ReadEnd(k) == [pipe |-> k, end |-> "r"]
WriteEnd(k) == [pipe |-> k, end |-> "w"]

VARIABLES
  input,  \* what the shell is given
  proc,   \* of each process: what it does and its descriptors
  data,   \* of each pipe: the bytes in it
  line,   \* what a line is: [kind, value]
  parsed  \* what comes of it
vars == <<input, proc, data>>

Line(p) == input[proc[p].line]
Tasks(p) == Len(Line(p))
Command(p) == Line(p)[proc[p].stage]
Holds(p, e) == e \in proc[p].table \cup {proc[p].in, proc[p].out}
Children(p) == {c \in Pid \ {p} : proc[c].role # "free" /\ proc[c].parent = p}
FreePid == Sets!Min({p \in Pid : proc[p].role = "free"})

Gone(p, role) == [proc[p] EXCEPT !.role = role, !.table = {}, !.in = Tty, !.out = Tty]
Blank == [role |-> "free", parent |-> 0, line |-> 0, stage |-> 1, waits |-> 0,
          table |-> {}, in |-> Tty, out |-> Tty, left |-> 0]

Init ==
  /\ input \in Inputs /\ data = <<>>
  /\ proc = [p \in Pid |-> [Blank EXCEPT !.role = IF p = 0 THEN "shell" ELSE "free"]]

\* fork: the child is a copy of its parent but for what it does next.
Forked(p, role, mine) ==
  [proc EXCEPT ![p] = mine,
               ![FreePid] = [mine EXCEPT !.role = role, !.parent = p, !.waits = 0,
                                         !.table = proc[p].table]]

\* main: the next line, which goes to a child.
ReadLine(p) ==
  /\ proc[p].role = "shell" /\ proc[p].waits = 0 /\ proc[p].line < Len(input)
  /\ proc' = Forked(p, "child", [proc[p] EXCEPT !.line = @ + 1, !.waits = 1])
  /\ UNCHANGED <<input, data>>

\* What execv leaves of p: a command, or the code that called it.
Executed(p, failed) ==
  IF Command(p).found = "yes"
  THEN [proc[p] EXCEPT !.role = "command", !.left = Command(p).writes] ELSE failed

\* The child of a line of one command.
StartSimple(p) ==
  /\ proc[p].role = "child" /\ Tasks(p) = 1
  /\ proc' = [proc EXCEPT ![p] = Executed(p, IF Command(p).found = "no" THEN Gone(p, "zombie")
                                             ELSE [proc[p] EXCEPT !.role = "shell"])]
  /\ UNCHANGED <<input, data>>

\* pipe_executer2 begins: all the pipes.
StartPipeline(p) ==
  LET pipes == 1..Tasks(p) - 1 IN
  /\ proc[p].role = "child" /\ Tasks(p) > 1
  /\ proc' = [proc EXCEPT ![p].role = "executor",
                          ![p].table = {ReadEnd(k) : k \in pipes} \cup {WriteEnd(k) : k \in pipes}]
  /\ data' = [k \in pipes |-> 0] /\ UNCHANGED input

\* Mutant: the executor keeps the writing end.
UnusedRead(p, k) ==
  IF k = 1 THEN {} ELSE {ReadEnd(k - 1)}

\* The ends the executor has no use for once stage k is forked.
Unused(p, k) ==
  IF k = 1 THEN {WriteEnd(1)}
  ELSE IF k = Tasks(p) THEN {ReadEnd(k - 1)} ELSE {ReadEnd(k - 1), WriteEnd(k)}

ForkStage(p) ==
  LET k == proc[p].stage IN
  /\ proc[p].role = "executor" /\ proc[p].waits = 0 /\ k <= Tasks(p)
  /\ proc' = Forked(p, "stage", [proc[p] EXCEPT !.waits = Tasks(p), !.table = @ \ Unused(p, k)])
  /\ UNCHANGED <<input, data>>

\* The stage gets its ends of the pipes as standard input and output; if its
\* execv fails it is an executor from the next stage on.
ExecStage(p) ==
  LET k == proc[p].stage
      in == IF k = 1 THEN proc[p].in ELSE ReadEnd(k - 1)
      out == IF k = Tasks(p) THEN proc[p].out ELSE WriteEnd(k)
      failed == [proc[p] EXCEPT !.role = "executor", !.stage = @ + 1]
  IN  /\ proc[p].role = "stage"
      /\ proc' = [proc EXCEPT ![p] = [Executed(p, failed) EXCEPT !.in = in, !.out = out]]
      /\ UNCHANGED <<input, data>>

\* Mutant: each call of wait wants a child of its own.
WaitForEach(p) ==
  LET dead == {c \in Children(p) : proc[c].role = "zombie"} IN
  /\ proc[p].waits > 0 /\ dead # {}
  /\ proc' = [proc EXCEPT ![p].waits = @ - 1, ![Sets!Min(dead)] = Blank,
                          ![p].stage = IF proc[p].waits = 1 /\ proc[p].role = "executor"
                                       THEN @ + 1 ELSE @]
  /\ UNCHANGED <<input, data>>

\* Mutant: a call of wait does not block.
WaitSkips(p) ==
  /\ proc[p].waits > 0
  /\ proc' = [proc EXCEPT ![p].waits = @ - 1,
                          ![p].stage = IF proc[p].waits = 1 /\ proc[p].role = "executor"
                                       THEN @ + 1 ELSE @]
  /\ UNCHANGED <<input, data>>

\* One call of wait: a child that is dead is reaped; without a child it fails.
Wait(p) ==
  LET dead == {c \in Children(p) : proc[c].role = "zombie"} IN
  /\ proc[p].waits > 0 /\ (Children(p) = {} \/ dead # {})
  /\ proc' = [q \in Pid |->
       IF q = p THEN [proc[p] EXCEPT !.waits = @ - 1,
                        !.stage = IF proc[p].waits = 1 /\ proc[p].role = "executor"
                                  THEN @ + 1 ELSE @]
       ELSE IF dead # {} /\ q = Sets!Min(dead) THEN Blank ELSE proc[q]]
  /\ UNCHANGED <<input, data>>

\* The end of the input, or of the pipeline.
Finish(p) ==
  /\ proc[p].waits = 0
  /\ \/ proc[p].role = "shell" /\ proc[p].line = Len(input)
     \/ proc[p].role = "executor" /\ proc[p].stage > Tasks(p)
  /\ proc' = [proc EXCEPT ![p] = Gone(p, "zombie")] /\ UNCHANGED <<input, data>>

\* A command reads, ...
Read(p) ==
  LET e == proc[p].in IN
  /\ proc[p].role = "command" /\ Command(p).reads /\ e # Tty /\ data[e.pipe] > 0
  /\ data' = [data EXCEPT ![e.pipe] = @ - 1] /\ UNCHANGED <<input, proc>>

AtEof(p) ==
  LET e == proc[p].in IN
  e # Tty => data[e.pipe] = 0 /\ \A q \in Pid : ~Holds(q, WriteEnd(e.pipe))

\* ... writes (somebody can always read: the executor, while the stage runs), ...
Write(p) ==
  LET e == proc[p].out IN
  /\ proc[p].role = "command" /\ proc[p].left > 0
  /\ \/ e = Tty /\ UNCHANGED data
     \/ e # Tty /\ data[e.pipe] < Capacity /\ data' = [data EXCEPT ![e.pipe] = @ + 1]
  /\ proc' = [proc EXCEPT ![p].left = @ - 1] /\ UNCHANGED input

\* ... and ends.
End(p) ==
  /\ proc[p].role = "command" /\ proc[p].left = 0 /\ (Command(p).reads => AtEof(p))
  /\ proc' = [proc EXCEPT ![p] = Gone(p, "zombie")] /\ UNCHANGED <<input, data>>

Step(p) ==
  \/ ReadLine(p) \/ StartSimple(p) \/ StartPipeline(p) \/ ForkStage(p) \/ ExecStage(p)
  \/ Wait(p) \/ Finish(p) \/ Read(p) \/ Write(p) \/ End(p)
Next == \E p \in Pid : Step(p)

\* The host runs every process.
Spec == Init /\ [][Next]_vars /\ \A p \in Pid : WF_vars(Step(p))
-------------------------------------------------------------------------------
(* How a line is read.                                                     *)
Squote == "'"
Dquote == "double"
Backslash == "backslash"
Space == "space"

lineVars == <<line, parsed>>

Take(s, c) == [s EXCEPT !.word = Append(@, c), !.esc = FALSE]
Flush(s) == IF s.word = <<>> THEN s ELSE [s EXCEPT !.words = Append(@, s.word), !.word = <<>>]
QuoteOf == [squote |-> Squote, dquote |-> Dquote]

\* Mutant: a backslash means itself between single quotes, as in other shells.
OneCharPosix(s, c) ==
  IF s.esc THEN Take(s, c)
  ELSE IF c = Backslash /\ s.mode # "squote" THEN [s EXCEPT !.esc = TRUE]
  ELSE IF s.mode # "normal"
       THEN IF c = QuoteOf[s.mode] THEN [s EXCEPT !.mode = "normal"] ELSE Take(s, c)
  ELSE IF c = Squote THEN [s EXCEPT !.mode = "squote"]
  ELSE IF c = Dquote THEN [s EXCEPT !.mode = "dquote"]
  ELSE IF c = Space THEN Flush(s) ELSE Take(s, c)

\* The body of tokenize's loop; esc: the character before was a backslash, which
\* takes its successor as it is, in each of the modes.
OneChar(s, c) ==
  IF s.esc THEN Take(s, c)
  ELSE IF c = Backslash THEN [s EXCEPT !.esc = TRUE]
  ELSE IF s.mode # "normal"
       THEN IF c = QuoteOf[s.mode] THEN [s EXCEPT !.mode = "normal"] ELSE Take(s, c)
  ELSE IF c = Squote THEN [s EXCEPT !.mode = "squote"]
  ELSE IF c = Dquote THEN [s EXCEPT !.mode = "dquote"]
  ELSE IF c = Space THEN Flush(s) ELSE Take(s, c)

Tokenize(chars) ==
  Flush(Seqs!FoldLeft(OneChar, [mode |-> "normal", esc |-> FALSE, word |-> <<>>, words |-> <<>>],
                      chars)).words

\* A token is [first, name]: its first character, if it is one that redirect
\* looks for, and the whole of it.
Operator(c) == [first |-> c, name |-> c]

\* Mutant: only the operator is taken out.
WithoutOperator(t, i) == [j \in 1..Len(t) - 1 |-> IF j < i THEN t[j] ELSE t[j + 1]]

\* The loop over tokens_set_token: the operator at i and its operand go.
WithoutPair(t, i) == [j \in 1..Len(t) - 2 |-> IF j < i THEN t[j] ELSE t[j + 2]]

\* redirect from index i on: the arguments, and the files opened last.
RECURSIVE RedirectFrom(_, _, _, _)
RedirectFrom(t, i, in, out) ==
  IF i > Len(t) THEN [args |-> t, in |-> in, out |-> out]
  ELSE IF t[i].first = ">" THEN RedirectFrom(WithoutPair(t, i), i, in, t[i + 1])
  ELSE IF t[i].first = "<" THEN RedirectFrom(WithoutPair(t, i), i, t[i + 1], out)
  ELSE RedirectFrom(t, i + 1, in, out)

\* The terminal, as a file.
TtyFile == Operator("tty")
Redirect(t) == RedirectFrom(t, 1, TtyFile, TtyFile)

\* The tokens of each stage of a pipeline.
Stages(t) ==
  Seqs!FoldLeft(LAMBDA ts, x : IF x = Operator("|") THEN Append(ts, <<>>)
                ELSE [ts EXCEPT ![Len(ts)] = Append(@, x)], <<<<>>>>, t)

\* input_index and output_index once stages 1 to k are parsed: the last place
\* of the operator, counted from 0, in the last stage that has one.
Index(stages, k, op) ==
  Seqs!FoldLeft(LAMBDA at, s : Seqs!FoldLeft(
      LAMBDA b, j : IF s[j] = op THEN j - 1 ELSE b, at, [j \in 1..Len(s) |-> j]),
    0, SubSeq(stages, 1, k))

\* Mutant: the file is taken to be where the operator is.
FileAt(s, at) == IF at < Len(s) THEN s[at + 1] ELSE Operator("unset")

\* The token after the operator; an index of an earlier stage may point to what
\* was never written.
Unset == Operator("unset")
Operand(s, at) == IF at + 2 <= Len(s) THEN s[at + 2] ELSE Unset

\* What stage k is run with by pipe_executer2.
StageRun(t, k) ==
  LET stages == Stages(t)
      s == stages[k]
      from == Index(stages, k, Operator("<"))
      to == Index(stages, k, Operator(">"))
  IN  IF k = 1 /\ from > 0
      THEN [args |-> SubSeq(s, 1, from), in |-> Operand(s, from), out |-> TtyFile]
      ELSE IF k = Len(stages) /\ to > 0
      THEN [args |-> SubSeq(s, 1, to), in |-> TtyFile, out |-> Operand(s, to)]
      ELSE [args |-> s, in |-> TtyFile, out |-> TtyFile]

\* Three ways to write words down: with a backslash before every character,
\* and between quotes, with one where the quote or a backslash is meant.
Escaped(word, special) ==
  Seqs!FoldLeft(LAMBDA cs, c : cs \o (IF c \in special THEN <<Backslash, c>> ELSE <<c>>), <<>>, word)
Specials == {Squote, Dquote, Backslash, Space}
Written(word, style) ==
  CASE style = "plain" -> Escaped(word, Specials)
    [] style = "squote" -> <<Squote>> \o Escaped(word, {Squote, Backslash}) \o <<Squote>>
    [] style = "dquote" -> <<Dquote>> \o Escaped(word, {Dquote, Backslash}) \o <<Dquote>>
Joined(words, style) ==
  Seqs!FoldLeft(LAMBDA cs, w : cs \o Written(w, style) \o <<Space>>, <<Space>>, words)

NoResult == <<>>
LineInit ==
  /\ line \in [kind : {"plain", "squote", "dquote"}, value : WordsOfLines]
              \cup [kind : {"tokens"}, value : TokenLists]
  /\ parsed = NoResult

ReadWords ==
  /\ line.kind # "tokens" /\ parsed = NoResult
  /\ parsed' = Tokenize(Joined(line.value, line.kind)) /\ UNCHANGED line

RunCommand ==
  /\ line.kind = "tokens" /\ parsed = NoResult /\ Len(Stages(line.value)) = 1
  /\ parsed' = <<Redirect(line.value)>> /\ UNCHANGED line

RunPipeline ==
  /\ line.kind = "tokens" /\ parsed = NoResult /\ Len(Stages(line.value)) > 1
  /\ parsed' = [k \in 1..Len(Stages(line.value)) |-> StageRun(line.value, k)] /\ UNCHANGED line

LineNext == ReadWords \/ RunCommand \/ RunPipeline
LineSpec == LineInit /\ [][LineNext]_lineVars
-------------------------------------------------------------------------------
\* What the pipelines are written for: the commands of a line but the last
\* exist, and what one writes fits into a pipe.
Ordinary(cs) ==
  \A k \in 1..Len(cs) - 1 : cs[k].found = "yes" /\ cs[k].writes <= Capacity
OrdinaryInput == \A i \in 1..Len(input) : Ordinary(input[i])

\* shell.c:310-319: when a stage reads a pipe, nobody has the other end: the
\* executor has closed it, the stages before are gone and those after were
\* forked without it.  A stage would wait for the end of its input for ever.
NoStrayWriter ==
  OrdinaryInput =>
    \A p, q \in Pid : proc[p].role = "command" /\ proc[p].in # Tty =>
                        ~Holds(q, WriteEnd(proc[p].in.pipe))

\* shell.c:322 and shell.c:399: the shell gets to the end of its input, with
\* nobody waiting for anybody, though each stage is over before the next begins.
PromptReturns == OrdinaryInput => <>(proc[0].role = "zombie")

\* Every process but the first is reaped by the one that forked it, whatever the
\* input: no process ends before its children.
ChildrenReaped ==
  \A p \in Pid : proc[p].role = "zombie" => Children(p) = {}

\* No process is left behind, by a pipe that stays open or by its parent.
NobodyLeft == NoStrayWriter /\ ChildrenReaped

\* tokenizer.c:46-89: words that are written down with quotes or backslashes
\* come back as they were, whatever characters are in them.
QuotingUndone == line.kind # "tokens" /\ parsed # NoResult => parsed = line.value

\* What a shell means by redirections: the pairs are no arguments, and the last
\* one of a direction counts.
IsOp(x, c) == x.first = c
Places(t, c) == {i \in 1..Len(t) : IsOp(t[i], c)}
LastFile(t, c) == IF Places(t, c) = {} THEN TtyFile
                  ELSE t[(CHOOSE i \in Places(t, c) : \A j \in Places(t, c) : j <= i) + 1]
Arguments(t) ==
  LET ops == Places(t, "<") \cup Places(t, ">")
      kept == {i \in 1..Len(t) : i \notin ops /\ i - 1 \notin ops}
  IN  Seqs!FoldLeft(LAMBDA a, i : IF i \in kept THEN Append(a, t[i]) ELSE a, <<>>,
                    [i \in 1..Len(t) |-> i])
Meant(t) == [args |-> Arguments(t), in |-> LastFile(t, "<"), out |-> LastFile(t, ">")]

\* Each operator stands after a command and before a plain word.
WellFormed(t) ==
  /\ t # <<>> /\ t[1].first = "" /\ t[Len(t)].first = ""
  /\ \A i \in 1..Len(t) - 1 : t[i].first # "" => t[i + 1].first = ""

\* The redirections that pipe_executer2 looks for: one at the end of the first
\* stage, one at the end of the last, spelt out.
WellPlaced(t) ==
  LET ss == Stages(t) IN
  /\ \A k \in 1..Len(ss) : WellFormed(ss[k])
  /\ \A k \in 1..Len(ss), i \in 1..Len(t) : i \in 1..Len(ss[k]) /\ ss[k][i].first # "" =>
       /\ i = Len(ss[k]) - 1 /\ ss[k][i].name = ss[k][i].first
       /\ k = (IF ss[k][i].first = "<" THEN 1 ELSE Len(ss))

\* shell.c:166 and shell.c:221: a command, or each stage of a pipeline, is run
\* with the arguments and the files that were meant, where tokens are shifted
\* under the loop that looks at them, and indices outlive the stage they are of.
RedirectionsMeant ==
  line.kind = "tokens" /\ parsed # NoResult =>
    LET t == line.value IN
    /\ Len(Stages(t)) = 1 /\ WellFormed(t) => parsed = <<Meant(t)>>
    /\ Len(Stages(t)) > 1 /\ WellPlaced(t) =>
         \A k \in 1..Len(Stages(t)) : parsed[k] = Meant(Stages(t)[k])

\* A line is run as it was meant.
LineUnderstood == QuotingUndone /\ RedirectionsMeant
=============================================================================
