--------------------------------- MODULE Partition ---------------------------------
(***************************************************************************)
(* The scan of a disk for partitions, devices/partition.c, entry by entry, *)
(* with the recursion into extended partitions as a stack, and the access  *)
(* to what it found through block_read and block_write.                    *)
(***************************************************************************)
EXTENDS Integers, Sequences

CONSTANTS
  Size,      \* the sectors of the device
  Wrap,      \* block_sector_t counts modulo Wrap
  MaxDepth,  \* bound: the depth of the recursion that is followed
  Disks      \* bound: the disks: of some sectors, the entries [type, offset, size]

\* The fields of an entry are words, and so is the size of a device.
EntryType ==
  [type : {"none", "data", "extended"}, offset : 0..Wrap - 1, size : 0..Wrap - 1]
PartitionAssumption ==
  /\ Size \in Nat \ {0} /\ Wrap \in Nat /\ Size < Wrap
  /\ \A d \in Disks : 0 \in DOMAIN d => d[0] \in Seq(EntryType)

VARIABLES
  tables,  \* the partition tables on the disk; other sectors have no signature
  stack,   \* the calls of read_partition_table: [sector, primary, next]
  partNr,  \* *part_nr
  found,   \* the partitions registered: [nr, start, size]
  access   \* the last sector asked of the disk through a partition
vars == <<tables, stack, partNr, found, access>>

Call(sector, primary) == [sector |-> sector, primary |-> primary, next |-> 1]

Init ==
  /\ tables \in Disks /\ stack = <<Call(0, 0)>>
  /\ partNr = 0 /\ found = <<>> /\ access = {}

Top == stack[Len(stack)]
Callers == SubSeq(stack, 1, Len(stack) - 1)
Advanced == Append(Callers, [Top EXCEPT !.next = @ + 1])

\* Mutant, and what the comment says: the table of the given sector.
TableOfSector(sector) == tables[sector]

\* The table a call parses: whatever its sector, block_read asks for sector 0.
TableRead(sector) == tables[0]
Signed(sector) == sector < Size /\ (0 \in DOMAIN tables)

\* The checks at the start of a call, or the end of its table.
Return ==
  /\ stack # <<>>
  /\ IF Signed(Top.sector) THEN Top.next > Len(TableRead(Top.sector)) ELSE TRUE
  /\ stack' = Callers /\ UNCHANGED <<tables, partNr, found, access>>

\* The next entry of the table of the call on top.
AtEntry(type) ==
  /\ stack # <<>> /\ Signed(Top.sector) /\ Top.next <= Len(TableRead(Top.sector))
  /\ LET e == TableRead(Top.sector)[Top.next]
     IN  type = (IF e.size = 0 \/ e.type = "none" THEN "none" ELSE e.type)
Entry == TableRead(Top.sector)[Top.next]

SkipEmpty == AtEntry("none") /\ stack' = Advanced /\ UNCHANGED <<tables, partNr, found, access>>

\* An offset in sector 0 is absolute, another one is from the primary extended
\* partition.
FollowExtended ==
  /\ AtEntry("extended") /\ Len(stack) < MaxDepth
  /\ LET base == (Entry.offset + Top.primary) % Wrap
     IN  stack' = Append(Advanced, IF Top.sector = 0 THEN Call(Entry.offset, Entry.offset)
                                   ELSE Call(base, Top.primary))
  /\ UNCHANGED <<tables, partNr, found, access>>

\* Mutant: the end of the partition is not compared with its start.
FitsNoWrap(start, size) == start < Size /\ (start + size) % Wrap <= Size

\* found_partition: the partition lies on the device, in the arithmetic of
\* block_sector_t.
Fits(start, size) ==
  LET end == (start + size) % Wrap IN start < Size /\ end >= start /\ end <= Size

FoundPartition ==
  LET start == (Entry.offset + Top.sector) % Wrap IN
  /\ AtEntry("data") /\ partNr' = partNr + 1
  /\ found' = IF ~Fits(start, Entry.size) THEN found
              ELSE Append(found, [nr |-> partNr', start |-> start, size |-> Entry.size])
  /\ stack' = Advanced /\ UNCHANGED <<tables, access>>

\* block_read or block_write of a partition: check_sector, then the sector of the
\* disk that it is.
Access(p, sector) ==
  /\ stack = <<>> /\ sector < p.size
  /\ access' = {[part |-> p.nr, sector |-> (p.start + sector) % Wrap]}
  /\ UNCHANGED <<tables, stack, partNr, found>>

Next ==
  \/ Return \/ SkipEmpty \/ FollowExtended \/ FoundPartition
  \/ \E i \in 1..Len(found) : \E sector \in 0..found[i].size - 1 : Access(found[i], sector)

Spec == Init /\ [][Next]_vars
-------------------------------------------------------------------------------
\* The entries of a table that are in use, and the partitions among them.
Used(sector, type) ==
  {tables[sector][i] : i \in {i \in DOMAIN tables[sector] :
                                tables[sector][i].type = type /\ tables[sector][i].size > 0}}
PartitionsOf(sector) ==
  {[start |-> sector + e.offset, size |-> e.size] : e \in Used(sector, "data")}
Found == {[start |-> found[i].start, size |-> found[i].size] : i \in DOMAIN found}

\* What the tables say: the partitions of sector 0, and those of the tables of
\* extended partitions, reached from one another.
Described[sector \in Nat, primary \in Nat, depth \in Nat] ==
  IF sector >= Size \/ sector \notin DOMAIN tables \/ depth = 0 THEN {}
  ELSE PartitionsOf(sector)
       \cup UNION {IF sector = 0 THEN Described[e.offset, e.offset, depth - 1]
                   ELSE Described[e.offset + primary, primary, depth - 1] :
                     e \in Used(sector, "extended")}

\* partition.c:134-139, block.c:81: no access through a partition leaves the
\* device, however offset and size add up, and the scan of a disk without
\* extended partitions finds those that lie on the device, and no others.
AccessOnDevice ==
  /\ \A a \in access : a.sector < Size
  /\ stack = <<>> /\ 0 \in DOMAIN tables /\ Used(0, "extended") = {} =>
       Found = {p \in PartitionsOf(0) : p.start + p.size <= Size}

\* partition.c:31: "Reads the partition table in the given SECTOR": what is found
\* is what the tables describe.
FoundAsDescribed ==
  Found \subseteq Described[0, 0, MaxDepth]
=============================================================================
