--------------------------------- MODULE FileData ---------------------------------
(***************************************************************************)
(* The bytes of files: inode_read_at and inode_write_at of filesys/inode.c *)
(* cut a request into pieces of sectors, whole ones directly and others    *)
(* through a bounce buffer.  Sectors, open counts and denied writes are in *)
(* module FileSys; one call runs at a time, as there.                      *)
(***************************************************************************)
EXTENDS Integers, Sequences

CONSTANTS
  Block,    \* BLOCK_SECTOR_SIZE
  Inode,    \* the files: [start, length]
  Buffer, Offset,  \* bounds: what is written, and where
  SectorCnt

Sector == 0..SectorCnt - 1
Least(S) == CHOOSE n \in S : \A m \in S : n <= m

VARIABLES
  disk,    \* the bytes of each sector
  result   \* of the last call: the count, the data read, and whether memory ran out
vars == <<disk, result>>

Init ==
  /\ disk = [s \in Sector |-> [i \in 0..Block - 1 |-> 0]]
  /\ result = [n |-> 0, data |-> <<>>, out |-> FALSE]

ByteToSector(f, pos) == f.start + (pos \div Block)

\* Mutant: the end of the file is not looked at.
ChunkBeyondEnd(f, size, ofs) == Least({size, Block - (ofs % Block)})

\* The bytes of the next piece of a request for size bytes: those that are left
\* of the request, of the file and of the sector; 0 or less at the end.
Chunk(f, size, ofs) == Least({size, f.length - ofs, Block - (ofs % Block)})

Whole(chunk, ofs) == ofs % Block = 0 /\ chunk = Block

\* inode_read_at, from piece to piece; memory: malloc gives a bounce buffer.
RECURSIVE ReadFrom(_, _, _, _, _)
ReadFrom(f, size, ofs, memory, data) ==
  LET chunk == Chunk(f, size, ofs)
      sector == disk[ByteToSector(f, ofs)]
      piece == [i \in 1..chunk |-> sector[(ofs % Block) + i - 1]]
  IN  IF size = 0 \/ chunk <= 0 THEN [n |-> Len(data), data |-> data, out |-> FALSE]
      ELSE IF ~Whole(chunk, ofs) /\ ~memory THEN [n |-> Len(data), data |-> data, out |-> TRUE]
      ELSE ReadFrom(f, size - chunk, ofs + chunk, memory, data \o piece)

\* Mutant: the bounce buffer is not read in first.
BounceZero(old, ofs, chunk) == [i \in 0..Block - 1 |-> 0]

\* What the bounce buffer holds before a piece is copied into it.
Bounce(old, ofs, chunk) ==
  IF ofs % Block > 0 \/ chunk < Block - (ofs % Block) THEN old ELSE [i \in 0..Block - 1 |-> 0]

\* inode_write_at, likewise.
RECURSIVE WriteFrom(_, _, _, _, _, _)
WriteFrom(d, f, buffer, done, ofs, memory) ==
  LET size == Len(buffer) - done
      chunk == Chunk(f, size, ofs)
      s == ByteToSector(f, ofs)
      from == ofs % Block
      new == [i \in 0..Block - 1 |-> IF i \in from..from + chunk - 1 THEN buffer[done + i - from + 1]
                                     ELSE Bounce(d[s], ofs, chunk)[i]]
      end(out) == [disk |-> d, result |-> [n |-> done, data |-> <<>>, out |-> out]]
  IN  IF size = 0 \/ chunk <= 0 THEN end(FALSE)
      ELSE IF ~Whole(chunk, ofs) /\ ~memory THEN end(TRUE)
      ELSE WriteFrom([d EXCEPT ![s] = new], f, buffer, done + chunk, ofs + chunk, memory)

Read(f, size, ofs, memory) ==
  result' = ReadFrom(f, size, ofs, memory, <<>>) /\ UNCHANGED disk

Write(f, buffer, ofs, memory) ==
  LET w == WriteFrom(disk, f, buffer, 0, ofs, memory) IN disk' = w.disk /\ result' = w.result

Next ==
  \E f \in Inode, buffer \in Buffer, ofs \in Offset, memory \in BOOLEAN :
    Read(f, Len(buffer), ofs, memory) \/ Write(f, buffer, ofs, memory)

Spec == Init /\ [][Next]_vars
-------------------------------------------------------------------------------
\* The bytes of file f, in order.
Bytes(f) == [i \in 1..f.length |-> disk[ByteToSector(f, i - 1)][(i - 1) % Block]]

\* inode.c:162 and inode.c:210: whatever the pieces, a call reads or writes the
\* bytes asked for, up to the end of the file, and no others: not those next to
\* them in the sector, and none of another file.
Files == INSTANCE AbstractFile WITH bytes <- [f \in Inode |-> Bytes(f)]
ImplementsFiles == Files!Spec

TypeOK == \A s \in Sector, i \in 0..Block - 1 : disk[s][i] \in Nat
=============================================================================
