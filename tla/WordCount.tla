-------------------------------- MODULE WordCount --------------------------------
(***************************************************************************)
(* hw-list/pwords.c and word_count_p.c: a thread for each file adds its    *)
(* words to one list under one mutex; main joins them all, sorts the list  *)
(* and prints it.                                                          *)
(* External: word_helpers, that is the loop of count_words, which adds one *)
(* word after another, and less_count, by count and then by word; the      *)
(* order of list_sort is the one checked in module Containers.             *)
(***************************************************************************)
EXTENDS Integers, Sequences, FiniteSets, TLC
Seqs == INSTANCE SequencesExt
Sets == INSTANCE FiniteSetsExt

CONSTANTS
  MaxFiles,  \* bound: the files of a command line
  Texts,     \* bound: the command lines, sequences of texts, a text being a
             \* sequence of words; the empty one is read from StdinText
  StdinText,
  NoThread

Thread == 0..MaxFiles   \* 0 is main, t reads the t-th file

VARIABLES
  text,    \* the words of each file of the command line
  wclist,  \* the list: [word, count]
  lock,    \* the thread that holds the mutex
  pc, todo, \* of each thread: where it is and the words it has still to add
  found,   \* of each thread: whether find_word has found its word
  started, joined, printed

vars == <<text, wclist, lock, pc, todo, found, started, joined, printed>>

Goto(t, label) == pc' = [pc EXCEPT ![t] = label]
Words(t) == IF t = 0 THEN StdinText ELSE IF t <= Len(text) THEN text[t] ELSE <<>>
Entry(w) == {i \in 1..Len(wclist) : wclist[i].word = w}

Init ==
  /\ text \in Texts /\ wclist = <<>> /\ lock = NoThread
  /\ pc = [t \in Thread |-> IF t # 0 THEN "new" ELSE IF text = <<>> THEN "count" ELSE "create"]
  /\ todo = [t \in Thread |-> Words(t)]
  /\ found = [t \in Thread |-> FALSE]
  /\ started = 0 /\ joined = 0 /\ printed = <<>>

\* main: one pthread_create after another.
Create ==
  /\ pc[0] = "create"
  /\ IF started < Len(text)
     THEN /\ started' = started + 1
          /\ Goto(started + 1, "count")
     ELSE Goto(0, "join") /\ UNCHANGED started
  /\ UNCHANGED <<text, wclist, lock, todo, found, joined, printed>>

\* Mutant: the mutex is not taken.
LockNever(t) ==
  /\ pc[t] = "count" /\ todo[t] # <<>> /\ Goto(t, "find")
  /\ UNCHANGED <<text, wclist, lock, todo, found, started, joined, printed>>

\* add_word, from lock to unlock.
Lock(t) ==
  /\ pc[t] = "count" /\ todo[t] # <<>> /\ lock = NoThread
  /\ lock' = t /\ Goto(t, "find")
  /\ UNCHANGED <<text, wclist, todo, found, started, joined, printed>>

Find(t) ==
  /\ pc[t] = "find"
  /\ found' = [found EXCEPT ![t] = Entry(todo[t][1]) # {}] /\ Goto(t, "add")
  /\ UNCHANGED <<text, wclist, lock, todo, started, joined, printed>>

Add(t) ==
  LET w == todo[t][1] IN
  /\ pc[t] = "add" /\ Goto(t, "unlock")
  /\ wclist' = IF found[t] THEN [wclist EXCEPT ![Sets!Min(Entry(w))].count = @ + 1]
               ELSE <<[word |-> w, count |-> 1]>> \o wclist
  /\ UNCHANGED <<text, lock, todo, found, started, joined, printed>>

\* Mutant: a word that was found is counted, and add_word returns.
UnlockIfNew(t) ==
  /\ pc[t] = "unlock"
  /\ lock' = IF found[t] THEN lock ELSE NoThread
  /\ todo' = [todo EXCEPT ![t] = Tail(@)] /\ Goto(t, "count")
  /\ UNCHANGED <<text, wclist, found, started, joined, printed>>

Unlock(t) ==
  /\ pc[t] = "unlock"
  /\ lock' = NoThread /\ todo' = [todo EXCEPT ![t] = Tail(@)] /\ Goto(t, "count")
  /\ UNCHANGED <<text, wclist, found, started, joined, printed>>

\* The end of the file: the thread returns, main goes on to sort.
Return(t) ==
  /\ pc[t] = "count" /\ todo[t] = <<>> /\ Goto(t, IF t = 0 THEN "sort" ELSE "over")
  /\ UNCHANGED <<text, wclist, lock, todo, found, started, joined, printed>>

\* Mutant: main joins the first thread only.
JoinOne ==
  /\ pc[0] = "join" /\ pc[1] = "over" /\ Goto(0, "sort")
  /\ UNCHANGED <<text, wclist, lock, todo, found, started, joined, printed>>

Join ==
  /\ pc[0] = "join"
  /\ IF joined < Len(text)
     THEN pc[joined + 1] = "over" /\ joined' = joined + 1 /\ UNCHANGED pc
     ELSE Goto(0, "sort") /\ UNCHANGED joined
  /\ UNCHANGED <<text, wclist, lock, todo, found, started, printed>>

LessCount(a, b) == a.count < b.count \/ (a.count = b.count /\ a.word < b.word)

SortAndPrint ==
  /\ pc[0] = "sort"
  /\ wclist' = SortSeq(wclist, LessCount) /\ printed' = wclist' /\ Goto(0, "exit")
  /\ UNCHANGED <<text, lock, todo, found, started, joined>>

Step(t) == Lock(t) \/ Find(t) \/ Add(t) \/ Unlock(t) \/ Return(t)
MainStep == Create \/ Join \/ SortAndPrint
Next == MainStep \/ \E t \in Thread : Step(t)

Spec == Init /\ [][Next]_vars /\ WF_vars(MainStep) /\ \A t \in Thread : WF_vars(Step(t))
-------------------------------------------------------------------------------
Readers == IF text = <<>> THEN {0} ELSE 1..Len(text)
Word == UNION {Seqs!ToSet(Words(t)) : t \in Readers}
Times(w, words) == Cardinality({i \in 1..Len(words) : words[i] = w})
Total(w) == Sets!MapThenSumSet(LAMBDA t : Times(w, Words(t)), Readers)

\* How often w is still to be added: what nobody has read, and what is being added.
Left(w) ==
  Sets!MapThenSumSet(LAMBDA t : Times(w, IF pc[t] = "unlock" THEN Tail(todo[t]) ELSE todo[t]),
                     Readers)

\* word_count_p.c:71-90: at any time the list has one entry for a word that was
\* added, with the number of times it was, whichever threads did it.
CountsExact ==
  \A w \in Word :
    IF Left(w) = Total(w) THEN Entry(w) = {}
    ELSE \E i \in Entry(w) : Entry(w) = {i} /\ wclist[i].count = Total(w) - Left(w)

\* pwords.c:84-91: what main prints has every word of every file, counted in
\* full, in the order of less_count, however the threads took turns.
PrintsTotals ==
  pc[0] = "exit" =>
    /\ \A w \in Word : [word |-> w, count |-> Total(w)] \in Seqs!ToSet(printed)
    /\ \A i \in 1..Len(printed) - 1 : LessCount(printed[i], printed[i + 1])

\* pwords.c:84: main gets to print, for each thread it joins ends, and what it
\* prints is right, as the list is at any time before.
WordsCounted == [](CountsExact /\ PrintsTotals) /\ <>(pc[0] = "exit")
=============================================================================
