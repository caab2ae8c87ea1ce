-------------------------------- MODULE Archive --------------------------------
(* The tasks of the kernel command line that move files between the scratch *)
(* device and the file system as a tar archive (filesys/fsutil.c,           *)
(* lib/ustar.c, run_actions of threads/init.c).  One action per task begun, *)
(* per sector read or written; the machine may be rebooted in between, and  *)
(* what is then left is the device and the files.                           *)
(*                                                                          *)
(* Characters are codes.  A call of the file system is one step, as module  *)
(* FileSys has it; the header's constant fields are left out.               *)
EXTENDS Naturals, Integers, SequencesExt
CONSTANTS
  Block,       \* bytes in a sector
  Size,        \* sectors of the scratch device
  SizeLen, SumLen,     \* digits of the size and of the checksum in a header
  MaxName,     \* longest name a header takes
  IntMax, UlongMax,    \* largest int and unsigned long
  Valid,       \* names the file system takes
  Archives,    \* what may be on the scratch device at first (bound)
  FilesAtFirst, \* what may be in the file system at first (bound)
  MaxTasks     \* tasks begun in a behaviour (bound)

VARIABLES
  scratch,     \* the scratch device
  files,       \* the file system: names to bytes
  position,    \* the static sector numbers of fsutil_extract and fsutil_append
  pc, file,    \* the step of the task that runs, and the file it is at
  log,         \* what was promised: files to extract, files appended (ghost)
  tasks        \* tasks begun (ghost, for the bound)

vars == <<scratch, files, position, pc, file, log, tasks>>

Nul == 0   Space == 32   Dot == 46   Slash == 47   Zero == 48
Regular == 48   Directory == 53

Data(bytes) == [type |-> "data", bytes |-> bytes]
Zeros == Data([i \in 1..Block |-> 0])
NoFile == [name |-> <<>>, left |-> 0]
Sum(s) == FoldLeft(LAMBDA a, b : a + b, 0, s)
-----------------------------------------------------------------------------
(* ustar.c.  The octal field of n in w digits, and the value of a field: an *)
(* overflow, an empty field and one that does not end are errors.           *)
OctalField(n, w) == Append([i \in 1..w |-> Zero + ((n \div 8 ^ (w - i)) % 8)], Nul)

Bad == -1
RECURSIVE ParseFrom(_, _, _)
ParseFrom(s, i, v) ==
  IF i > Len(s) THEN Bad
  ELSE IF s[i] \in Zero..Zero + 7
       THEN IF v > UlongMax \div 8 THEN Bad ELSE ParseFrom(s, i + 1, s[i] - Zero + v * 8)
       ELSE IF s[i] \in {Space, Nul} /\ i > 1 THEN v ELSE Bad
ParseOctalField(s) == ParseFrom(s, 1, 0)

\* Mutant: the checksum counts its own field.
ChecksumWhole(h) ==
  Sum(h.name) + Sum(h.size) + h.typeflag + h.magic + Sum(h.chksum)
\* The checksum takes its own field for spaces.
Checksum(h) ==
  Sum(h.name) + Sum(h.size) + h.typeflag + h.magic + Space * Len(h.chksum)

\* The name without leading "/", "./" and "../".
RECURSIVE Strip(_)
Strip(name) ==
  LET after == SelectInSeq(name, LAMBDA c : c = Slash) IN
  IF \E p \in {<<Slash>>, <<Dot, Slash>>, <<Dot, Dot, Slash>>} : IsPrefix(p, name)
  THEN Strip(SubSeq(name, after + 1, Len(name)))
  ELSE IF name \in {<<>>, <<Dot, Dot>>} THEN <<Dot>> ELSE name

MakeHeader(name, type, size) ==
  LET h == [type |-> "header", name |-> Strip(name), size |-> OctalField(size, SizeLen),
            typeflag |-> type, magic |-> 1, chksum |-> [i \in 1..SumLen + 1 |-> Nul]]
  IN [h EXCEPT !.chksum = OctalField(Checksum(h), SumLen)]

\* What ustar_parse_header says of a sector.
ParseHeader(s) ==
  IF s = Zeros THEN [kind |-> "eof"]
  ELSE IF \/ s.type = "data" \/ s.magic # 1
          \/ ParseOctalField(s.chksum) # Checksum(s)
          \/ s.typeflag \notin {Regular, Directory}
          \/ s.typeflag = Regular /\ ParseOctalField(s.size) \notin 0..IntMax
       THEN [kind |-> "error"]
  ELSE IF s.typeflag = Directory THEN [kind |-> "directory"]
  ELSE [kind |-> "file", name |-> Strip(s.name), size |-> ParseOctalField(s.size)]
-----------------------------------------------------------------------------
Sectors(n) == (n + Block - 1) \div Block
Smaller(a, b) == IF a < b THEN a ELSE b

(* The files of the archive that starts at sector s, up to its end, the     *)
(* end of the device or the first header that is refused.                   *)
RECURSIVE EntriesFrom(_)
EntriesFrom(s) ==
  IF s >= Size THEN <<>>
  ELSE LET p == ParseHeader(scratch[s]) IN
    CASE p.kind \in {"eof", "error"} -> <<>>
      [] p.kind = "directory" -> EntriesFrom(s + 1)
      [] p.kind = "file" ->
           LET next == s + 1 + Sectors(p.size) IN
           IF next > Size \/ \E i \in s + 1..next - 1 : scratch[i].type # "data" THEN <<>>
           ELSE <<[name |-> p.name,
                   bytes |-> [i \in 1..p.size |->
                     scratch[s + 1 + (i - 1) \div Block].bytes[1 + ((i - 1) % Block)]]]>>
                \o EntriesFrom(next)
Entries == EntriesFrom(0)

Nothing == [wanted |-> <<>>, done |-> FALSE, appended |-> <<>>]

AtRest ==
  /\ position = [extract |-> 0, append |-> 0]
  /\ pc = "idle" /\ file = NoFile /\ log = Nothing /\ tasks = 0

Init == scratch \in Archives /\ files \in FilesAtFirst /\ AtRest

\* A failed task is a panic: the kernel stops.
Panic == pc' = "panic" /\ UNCHANGED <<scratch, files, position, file, log>>

Write(s, data) == scratch' = [scratch EXCEPT ![s] = data]
-----------------------------------------------------------------------------
(* fsutil_extract.  A boot that has appended extracts no more, as the       *)
(* comment of fsutil_append asks.  A second extract of a boot goes on where *)
(* the first stopped, so that nothing is promised of it.                    *)
\* Mutant: the archive is erased before it is read.
StartByErasing ==
  /\ pc = "idle" /\ position.append = 0
  /\ pc' = "header" /\ Write(0, Zeros)
  /\ log' = [log EXCEPT !.wanted = Entries, !.appended = <<>>]
  /\ UNCHANGED <<files, position, file>>
StartExtract ==
  /\ pc = "idle" /\ position.append = 0
  /\ pc' = "header"
  /\ log' = IF position.extract # 0 THEN [log EXCEPT !.done = FALSE, !.appended = <<>>]
            ELSE [log EXCEPT !.wanted = IF log.done THEN @ ELSE Entries, !.appended = <<>>]
  /\ UNCHANGED <<scratch, files, position, file>>

(* A file is created at its full size, unless the name is taken or refused  *)
(* or the device is full.                                                   *)
ReadHeader ==
  /\ pc = "header"
  /\ IF position.extract >= Size THEN Panic
     ELSE LET p == ParseHeader(scratch[position.extract]) IN
       \/ p.kind = "error" /\ Panic
       \/ p.kind = "file" /\ Panic
       \/ /\ p.kind # "error"
          /\ position' = [position EXCEPT !.extract = @ + 1]
          /\ CASE p.kind = "eof" -> pc' = "erase" /\ UNCHANGED <<files, file>>
               [] p.kind = "directory" -> UNCHANGED <<pc, files, file>>
               [] p.kind = "file" ->
                    /\ p.name \in Valid \ DOMAIN files
                    /\ files' = files @@ (p.name :> [i \in 1..p.size |-> 0])
                    /\ file' = [name |-> p.name, left |-> p.size]
                    /\ pc' = IF p.size = 0 THEN "header" ELSE "copy"
          /\ UNCHANGED <<scratch, log>>

\* The bytes of the sector that belong to the file, at the file's position.
WithChunk(bytes, chunk, left) ==
  LET at == Len(bytes) - left IN
  [i \in DOMAIN bytes |-> IF i \in at + 1..at + Len(chunk) THEN chunk[i - at] ELSE bytes[i]]

\* A header read as data is some other bytes.
BytesOf(s) == IF s.type = "data" THEN s.bytes ELSE [i \in 1..Block |-> Slash]

Copy ==
  /\ pc = "copy"
  /\ IF position.extract >= Size THEN Panic
     ELSE LET n == Smaller(file.left, Block)
              chunk == SubSeq(BytesOf(scratch[position.extract]), 1, n) IN
          /\ files' = [files EXCEPT ![file.name] = WithChunk(@, chunk, file.left)]
          /\ file' = [file EXCEPT !.left = @ - n]
          /\ position' = [position EXCEPT !.extract = @ + 1]
          /\ pc' = IF file.left = n THEN "header" ELSE "copy"
          /\ UNCHANGED <<scratch, log>>

\* Mutant: only the second sector is erased.
EraseSecond ==
  /\ pc = "erase" /\ Write(1, Zeros) /\ pc' = "idle"
  /\ log' = [log EXCEPT !.done = TRUE]
  /\ UNCHANGED <<files, position, file>>
Erase ==
  \/ pc = "erase" /\ Write(0, Zeros) /\ pc' = "erase2" /\ UNCHANGED <<files, position, file, log>>
  \/ /\ pc = "erase2" /\ Write(1, Zeros) /\ pc' = "idle"
     /\ log' = [log EXCEPT !.done = TRUE]
     /\ UNCHANGED <<files, position, file>>
-----------------------------------------------------------------------------
\* fsutil_append, whose first call of a boot starts at sector 0.
StartAppend(n) ==
  /\ pc = "idle"
  /\ IF n \notin DOMAIN files \/ Len(Strip(n)) > MaxName THEN Panic
     ELSE /\ pc' = "begin" /\ file' = [name |-> n, left |-> Len(files[n])]
          /\ log' = IF position.append = 0 THEN Nothing ELSE log
          /\ UNCHANGED <<scratch, files, position>>

AppendHeader ==
  /\ pc = "begin"
  /\ IF position.append >= Size THEN Panic
     ELSE /\ Write(position.append, MakeHeader(file.name, Regular, file.left))
          /\ position' = [position EXCEPT !.append = @ + 1]
          /\ pc' = IF file.left = 0 THEN "end" ELSE "put"
          /\ UNCHANGED <<files, file, log>>

Put ==
  /\ pc = "put"
  /\ IF position.append >= Size THEN Panic
     ELSE LET n == Smaller(file.left, Block)
              at == Len(files[file.name]) - file.left IN
          /\ Write(position.append,
                   Data([i \in 1..Block |-> IF i <= n THEN files[file.name][at + i] ELSE 0]))
          /\ position' = [position EXCEPT !.append = @ + 1]
          /\ file' = [file EXCEPT !.left = @ - n]
          /\ pc' = IF file.left = n THEN "end" ELSE "put"
          /\ UNCHANGED <<files, log>>

\* Mutant: the end is not marked.
EndUnmarked ==
  /\ pc = "end" /\ pc' = "idle"
  /\ log' = [log EXCEPT !.appended =
               Append(@, [name |-> Strip(file.name), bytes |-> files[file.name]])]
  /\ UNCHANGED <<scratch, files, position, file>>
\* Mutant: the next file comes after the end.
EndPassed ==
  \/ pc = "end" /\ position.append + 2 >= Size /\ Panic
  \/ /\ pc = "end" /\ position.append + 2 < Size /\ Write(position.append, Zeros) /\ pc' = "idle"
     /\ position' = [position EXCEPT !.append = @ + 2]
     /\ log' = [log EXCEPT !.appended =
                  Append(@, [name |-> Strip(file.name), bytes |-> files[file.name]])]
     /\ UNCHANGED <<files, file>>
\* Two sectors of zeros, which the next call overwrites.
End ==
  \/ /\ pc = "end"
     /\ IF position.append >= Size THEN Panic
        ELSE Write(position.append, Zeros) /\ pc' = "end2" /\ UNCHANGED <<files, position, file, log>>
  \/ /\ pc = "end2"
     /\ IF position.append + 1 >= Size THEN Panic
        ELSE /\ Write(position.append + 1, Zeros) /\ pc' = "idle"
             /\ log' = [log EXCEPT !.appended =
                          Append(@, [name |-> Strip(file.name), bytes |-> files[file.name]])]
             /\ UNCHANGED <<files, position, file>>

\* fsutil_rm.  Nobody wants the file any more.
RemoveFile(n) ==
  /\ pc = "idle"
  /\ IF n \notin DOMAIN files THEN Panic
     ELSE /\ files' = [m \in DOMAIN files \ {n} |-> files[m]]
          /\ log' = [log EXCEPT !.wanted = SelectSeq(@, LAMBDA e : e.name # n)]
          /\ UNCHANGED <<scratch, position, pc, file>>

\* After a panic, a power failure or the last task the kernel boots again.
Reboot ==
  /\ position' = [extract |-> 0, append |-> 0] /\ pc' = "idle" /\ file' = NoFile
  /\ UNCHANGED <<scratch, files, log>>

\* run_actions: the tasks of the command line, one after the other.
RunAction ==
  /\ tasks < MaxTasks /\ tasks' = tasks + 1
  /\ StartExtract \/ \E n \in Valid : StartAppend(n) \/ RemoveFile(n)

Work == ReadHeader \/ Copy \/ Erase \/ AppendHeader \/ Put \/ End \/ Reboot

Next == RunAction \/ (Work /\ UNCHANGED tasks)

Spec == Init /\ [][Next]_vars
-----------------------------------------------------------------------------
(* A file that an archive promised is in the file system with its bytes, or *)
(* still in the archive, whenever the machine stops: the archive is erased  *)
(* only when all of it is extracted.                                        *)
NothingLost ==
  \A e \in Range(log.wanted) :
    \/ e.name \in DOMAIN files /\ files[e.name] = e.bytes
    \/ e \in Range(Entries)

(* What was appended before is read back from the archive, whatever becomes *)
(* of the append that runs; and between two appends the archive ends there. *)
AppendedStays ==
  /\ IsPrefix(log.appended, Entries)
  /\ pc = "idle" /\ position.append > 0 => Entries = log.appended

(* fsutil_extract is idempotent: once it has ended, the next boot's puts no *)
(* file back.                                                               *)
ExtractedOnce == log.done => pc # "copy"

(* The tasks that exchange files with the scratch device neither lose nor   *)
(* invent any (fsutil_extract, fsutil_append).                              *)
ArchiveRight == NothingLost /\ AppendedStays /\ ExtractedOnce
=============================================================================
