-------------------------------- MODULE FileSys --------------------------------
(***************************************************************************)
(* The file system of filesys/: one root directory of fixed size, inodes   *)
(* with one extent, and a free map kept in memory and in a file.  There is *)
(* no cache and no lock, and this kernel has one caller at a time, so that *)
(* a call changes memory at once and issues its block writes in order:     *)
(* they are "pending" until Flush puts them on the disk one by one, and    *)
(* the machine may crash between any two.                                  *)
(*                                                                         *)
(* The free map and the root directory fit in one sector each, and their   *)
(* own inodes, open within a call or for good, are not kept in "inodes".   *)
(***************************************************************************)
EXTENDS Integers, FiniteSets, Sequences
Sets == INSTANCE FiniteSetsExt
Seqs == INSTANCE SequencesExt

CONSTANTS
  Name,       \* the names callers use,
  Valid,      \* and those of them that are neither empty nor too long
  Handle,     \* struct file
  Data, Zero, \* what a data sector may hold, and what a new one holds
  SectorCnt,  \* block_size(fs_device)
  Entries,    \* slots of the root directory (16 in do_format)
  MaxLen,     \* bound: the sectors of a file
  FailingAllocs, \* the allocations that may fail: see the actions
  None

Sector == 0..SectorCnt - 1
Ino == Sector
Slot == 1..Entries
Address == 1..Cardinality(Handle) + 1   \* where an inode may be in memory
NoRoom == SectorCnt                 \* BITMAP_ERROR

\* struct inode with its on-disk part, and struct file.
Inode == [sector : Sector, openCnt : Nat, denyCnt : Nat, removed : BOOLEAN, start : Nat, len : Nat]
File == [at : Address, deny : BOOLEAN]

ASSUME FileSysAssumption ==
  /\ Valid \subseteq Name /\ Zero \in Data /\ Data # {Zero} /\ MaxLen \in Nat /\ IsFiniteSet(Handle)
  /\ Entries \in Nat \ {0} /\ SectorCnt \in Nat /\ SectorCnt >= 4
  /\ None \notin Name \cup Handle \cup Nat \cup Inode \cup File

VARIABLES
  disk,     \* of each sector: what it holds
  pending,  \* the block writes of the current call not done yet
  freeMap,  \* the bitmap in memory: the sectors marked in use
  inodes,   \* open_inodes: of each address, an inode or None
  handle,   \* of each handle: an open file or None
  ignored   \* whether the call before may have released a sector without writing the map

vars == <<disk, pending, freeMap, inodes, handle, ignored>>

Bits(map) == [kind |-> "map", bits |-> map]
DiskInode(start, len) == [kind |-> "inode", start |-> start, len |-> len]
Directory(slots) == [kind |-> "dir", slots |-> slots]
Bytes(d) == [kind |-> "data", bytes |-> d]
FreeEntry == [used |-> FALSE, name |-> None, sector |-> 0]  \* its name is not kept
BlockWrite(s, what) == [at |-> s, put |-> what]

Extent(start, len) == start..start + len - 1

\* bitmap_scan: the first group of len clear bits; a group of none is at 0.
FirstFit(map, len) ==
  LET fits == {s \in 0..SectorCnt - len : Extent(s, len) \cap map = {}}
  IN  IF fits = {} THEN NoRoom ELSE Sets!Min(fits)

\* do_format: the sectors that free_map_create and dir_create obtain.
MapSector == FirstFit({0, 1}, 1)
RootSector == FirstFit({0, 1, MapSector}, 1)
Reserved == {0, 1, MapSector, RootSector}

\* filesys_init(true) on a device full of old data, after do_format.
Init ==
  /\ disk = [s \in Sector |->
       CASE s = 0 -> DiskInode(MapSector, 1)
         [] s = 1 -> DiskInode(RootSector, 1)
         [] s = MapSector -> Bits(Reserved)
         [] s = RootSector ->
              Directory([i \in Slot |-> FreeEntry])
         [] OTHER -> Bytes(CHOOSE d \in Data : d # Zero)]
  /\ pending = <<>> /\ freeMap = Reserved
  /\ inodes = [a \in Address |-> None] /\ handle = [h \in Handle |-> None]
  /\ ignored = FALSE

Dir == disk[RootSector].slots
Idle == pending = <<>>    \* no call is in progress
-------------------------------------------------------------------------------
\* free_map_allocate: a failed write of the map to its file undoes the marks.
Allocate(map, len, writes) ==
  LET s == FirstFit(map, len)
      marked == map \cup Extent(s, len)
  IN  IF s = NoRoom \/ ~writes THEN [ok |-> FALSE, map |-> map, start |-> 0, out |-> <<>>]
      ELSE [ok |-> TRUE, map |-> marked, start |-> s,
            out |-> <<BlockWrite(MapSector, Bits(marked))>>]

\* Mutant: the map is written by the next allocation.
ReleaseInMemory(map, start, len, writes) == [map |-> map \ Extent(start, len), out |-> <<>>]

\* free_map_release: a failed write is ignored.
Release(map, start, len, writes) ==
  LET left == map \ Extent(start, len)
  IN  [map |-> left, out |-> IF writes THEN <<BlockWrite(MapSector, Bits(left))>> ELSE <<>>]

\* Mutant: the data sectors of a new file keep what they held.
InodeWritesNoZeros(s, start, len) == <<BlockWrite(s, DiskInode(start, len))>>

\* inode_create: the inode, then its data sectors, zeroed.
InodeWrites(s, start, len) ==
  <<BlockWrite(s, DiskInode(start, len))>>
    \o [k \in 1..len |-> BlockWrite(start + k - 1, Bytes(Zero))]

\* lookup, of which a failing allocation shows only the first "seen" entries.
Found(n, seen) == {i \in 1..seen : Dir[i].used /\ Dir[i].name = n}

\* dir_add: the first free slot of those seen, or the one after them.
FreeSlot(seen) ==
  LET free == {i \in 1..seen : ~Dir[i].used} IN IF free = {} THEN seen + 1 ELSE Sets!Min(free)

Scans(site) == IF site \in FailingAllocs THEN 0..Entries ELSE {Entries}

\* dir_add: the slot it writes, or 0 when it fails.
DirAdd(n, fail, seen, seen2) ==
  IF n \in Valid /\ Found(n, seen) = {} /\ FreeSlot(seen2) <= Entries /\ "write" \notin fail
  THEN FreeSlot(seen2) ELSE 0

PutEntry(i, e) == BlockWrite(RootSector, Directory([Dir EXCEPT ![i] = e]))

\* Mutant: the directory is written before the inode it leads to.
CreateDirFirst(n, len, fail, seen, seen2) ==
  LET a == Allocate(freeMap, 1, "map1" \notin fail)
      b == Allocate(a.map, len, "map2" \notin fail)
      i == DirAdd(n, fail, seen, seen2)
      e == [used |-> TRUE, name |-> n, sector |-> a.start]
  IN  /\ Idle /\ a.ok /\ b.ok /\ i # 0
      /\ freeMap' = b.map
      /\ pending' = <<PutEntry(i, e)>> \o a.out \o b.out \o InodeWrites(a.start, b.start, len)
      /\ ignored' = FALSE /\ UNCHANGED <<disk, inodes, handle>>

\* Mutant: a create that fails keeps the sector of the inode.
CreateKeepsSector(n, len, fail, seen, seen2) ==
  LET a == Allocate(freeMap, 1, "map1" \notin fail)
      b == Allocate(a.map, len, "map2" \notin fail)
      made == "disk" \notin fail /\ b.ok
      i == DirAdd(n, fail, seen, seen2)
      done == a.out \o (IF made THEN b.out \o InodeWrites(a.start, b.start, len) ELSE <<>>)
      e == [used |-> TRUE, name |-> n, sector |-> a.start]
  IN  /\ Idle /\ "dir" \notin fail /\ a.ok
      /\ freeMap' = IF made THEN b.map ELSE a.map
      /\ pending' = IF made /\ i # 0 THEN Append(done, PutEntry(i, e)) ELSE done
      /\ ignored' = FALSE /\ UNCHANGED <<disk, inodes, handle>>

\* filesys_create.  Its allocations: "dir" of dir_open_root, "map1" and "map2"
\* the bounce buffers of the bitmap's two writes and "map3" of the last,
\* "disk" the calloc of inode_create, "addscan" the bounce buffers of dir_add's
\* two searches and "write" that of its write.
Create(n, len, fail, seen, seen2) ==
  LET a == Allocate(freeMap, 1, "map1" \notin fail)
      b == Allocate(a.map, len, "map2" \notin fail)
      made == "disk" \notin fail /\ b.ok
      i == DirAdd(n, fail, seen, seen2)
      done == a.out \o (IF made THEN b.out \o InodeWrites(a.start, b.start, len) ELSE <<>>)
      e == [used |-> TRUE, name |-> n, sector |-> a.start]
      undo == Release(IF made THEN b.map ELSE a.map, a.start, 1, "map3" \notin fail)
  IN  /\ Idle /\ "dir" \notin fail /\ a.ok    \* else nothing has been done
      /\ IF made /\ i # 0
         THEN freeMap' = b.map /\ pending' = Append(done, PutEntry(i, e))
         ELSE freeMap' = undo.map /\ pending' = done \o undo.out
      /\ ignored' = ("map3" \in fail)
      /\ UNCHANGED <<disk, inodes, handle>>
-------------------------------------------------------------------------------
OpenAt(s) == {a \in Address : inodes[a] # None /\ inodes[a].sector = s}
FreeAddress == Sets!Min({a \in Address : inodes[a] = None})

NewInode(s) ==
  [sector |-> s, openCnt |-> 1, denyCnt |-> 0, removed |-> FALSE,
   start |-> disk[s].start, len |-> disk[s].len]

\* inode_open: the open inode of this sector, or a new one.
InodeOpen(s) ==
  IF OpenAt(s) # {}
  THEN LET a == Sets!Min(OpenAt(s)) IN [at |-> a, list |-> [inodes EXCEPT ![a].openCnt = @ + 1]]
  ELSE [at |-> FreeAddress, list |-> [inodes EXCEPT ![FreeAddress] = NewInode(s)]]

\* Mutant: the sectors of a removed file are released at once.
InodeCloseEager(list, a, fail) ==
  LET node == list[a]
      r1 == Release(freeMap, node.sector, 1, "map1" \notin fail)
      r2 == Release(r1.map, node.start, node.len, "map2" \notin fail)
  IN  [list |-> [list EXCEPT ![a] = IF node.openCnt > 1
                                    THEN [node EXCEPT !.openCnt = @ - 1] ELSE None],
       map |-> IF node.removed THEN r2.map ELSE freeMap,
       out |-> IF node.removed THEN r1.out \o r2.out ELSE <<>>]

\* Mutant: the data sectors of a removed file are not released.
InodeCloseKeepsData(list, a, fail) ==
  LET node == list[a]
      r1 == Release(freeMap, node.sector, 1, "map1" \notin fail)
  IN  IF node.openCnt > 1
      THEN [list |-> [list EXCEPT ![a].openCnt = @ - 1], map |-> freeMap, out |-> <<>>]
      ELSE [list |-> [list EXCEPT ![a] = None],
            map |-> IF node.removed THEN r1.map ELSE freeMap,
            out |-> IF node.removed THEN r1.out ELSE <<>>]

\* inode_close: the last one releases the sectors of a removed file.
InodeClose(list, a, fail) ==
  LET node == list[a]
      r1 == Release(freeMap, node.sector, 1, "map1" \notin fail)
      r2 == Release(r1.map, node.start, node.len, "map2" \notin fail)
  IN  IF node.openCnt > 1
      THEN [list |-> [list EXCEPT ![a].openCnt = @ - 1], map |-> freeMap, out |-> <<>>]
      ELSE [list |-> [list EXCEPT ![a] = None],
            map |-> IF node.removed THEN r2.map ELSE freeMap,
            out |-> IF node.removed THEN r1.out \o r2.out ELSE <<>>]

\* filesys_open; when an allocation fails, all that was opened is closed again.
Open(h, n, seen) ==
  /\ Idle /\ handle[h] = None /\ Found(n, seen) # {}
  /\ LET o == InodeOpen(Dir[Sets!Min(Found(n, seen))].sector)
     IN  /\ inodes' = o.list
         /\ handle' = [handle EXCEPT ![h] = [at |-> o.at, deny |-> FALSE]]
  /\ ignored' = FALSE /\ UNCHANGED <<disk, pending, freeMap>>

\* file_reopen.
Reopen(h, g) ==
  /\ Idle /\ handle[h] = None /\ handle[g] # None
  /\ inodes' = [inodes EXCEPT ![handle[g].at].openCnt = @ + 1]
  /\ handle' = [handle EXCEPT ![h] = [at |-> handle[g].at, deny |-> FALSE]]
  /\ ignored' = FALSE /\ UNCHANGED <<disk, pending, freeMap>>

\* inode_allow_write, for a file that has denied writing.
Allowed(f) ==
  IF f.deny THEN [inodes EXCEPT ![f.at].denyCnt = @ - 1] ELSE inodes

\* file_close.
Close(h, fail) ==
  /\ Idle /\ handle[h] # None
  /\ LET c == InodeClose(Allowed(handle[h]), handle[h].at, fail)
     IN  inodes' = c.list /\ freeMap' = c.map /\ pending' = c.out
  /\ handle' = [handle EXCEPT ![h] = None]
  /\ ignored' = (fail # {}) /\ UNCHANGED disk

\* filesys_remove: the entry is erased first, the inode is marked, and the
\* sectors are released now if nobody has the file open.
Remove(n, fail, seen) ==
  /\ Idle /\ Found(n, seen) # {}
  /\ LET i == Sets!Min(Found(n, seen))
         o == InodeOpen(Dir[i].sector)
         c == InodeClose([o.list EXCEPT ![o.at].removed = TRUE], o.at, fail)
     IN  /\ inodes' = c.list /\ freeMap' = c.map
         /\ pending' = <<PutEntry(i, FreeEntry)>> \o c.out
  /\ ignored' = (fail # {}) /\ UNCHANGED <<disk, handle>>

\* file_write_at of the k-th sector of the file.
Write(h, k, d) ==
  /\ Idle /\ handle[h] # None
  /\ LET node == inodes[handle[h].at]
     IN  /\ node.denyCnt = 0 /\ k <= node.len
         /\ pending' = <<BlockWrite(node.start + k - 1, Bytes(d))>>
  /\ ignored' = FALSE /\ UNCHANGED <<disk, freeMap, inodes, handle>>

\* file_deny_write and file_allow_write: once for each file.
Deny(h) ==
  /\ Idle /\ handle[h] # None /\ ~handle[h].deny
  /\ handle' = [handle EXCEPT ![h].deny = TRUE]
  /\ inodes' = [inodes EXCEPT ![handle[h].at].denyCnt = @ + 1]
  /\ ignored' = FALSE /\ UNCHANGED <<disk, pending, freeMap>>

Allow(h) ==
  /\ Idle /\ handle[h] # None /\ handle[h].deny
  /\ handle' = [handle EXCEPT ![h].deny = FALSE] /\ inodes' = Allowed(handle[h])
  /\ ignored' = FALSE /\ UNCHANGED <<disk, pending, freeMap>>

\* block_write.
Flush ==
  /\ ~Idle
  /\ disk' = [disk EXCEPT ![Head(pending).at] = Head(pending).put]
  /\ pending' = Tail(pending)
  /\ ignored' = FALSE /\ UNCHANGED <<freeMap, inodes, handle>>

\* The machine stops at any point and starts again: filesys_init(false).
Reboot ==
  /\ pending' = <<>> /\ freeMap' = disk[MapSector].bits
  /\ inodes' = [a \in Address |-> None] /\ handle' = [h \in Handle |-> None]
  /\ ignored' = FALSE /\ UNCHANGED disk

\* Bound: at most one allocation fails in a call.
Failures(sites) == {{}} \cup {{s} : s \in sites}

Creates ==
  \E n \in Name, len \in 0..MaxLen, fail \in Failures(FailingAllocs),
     seen, seen2 \in Scans("addscan") : Create(n, len, fail, seen, seen2)

Next ==
  \/ Creates
  \/ \E n \in Name, seen \in Scans("scan") :
       \/ \E fail \in Failures(FailingAllocs \cap {"map1", "map2"}) : Remove(n, fail, seen)
       \/ \E h \in Handle : Open(h, n, seen)
  \/ \E h \in Handle :
       \/ \E g \in Handle : Reopen(h, g)
       \/ \E fail \in Failures(FailingAllocs \cap {"map1", "map2"}) : Close(h, fail)
       \/ \E k \in 1..MaxLen, d \in Data : Write(h, k, d)
       \/ Deny(h) \/ Allow(h)
  \/ Flush \/ Reboot

Spec == Init /\ [][Next]_vars
-------------------------------------------------------------------------------
\* The sectors of the file whose inode is in sector s of d, its inode included.
SectorsOn(d, s) ==
  {s} \cup (IF d[s].kind = "inode" THEN Extent(d[s].start, d[s].len) ELSE {})

LinkedOn(d) == {d[RootSector].slots[i].sector : i \in {j \in Slot : d[RootSector].slots[j].used}}

\* At every point where the machine may stop, what the directory on the disk
\* leads to is an inode, is marked in the free map on the disk (and between calls
\* in memory), and belongs to one file: no file loses its sectors to another after a crash,
\* whichever writes had been done.
DiskConsistent ==
  /\ \A s \in LinkedOn(disk) :
       /\ disk[s].kind = "inode"
       /\ SectorsOn(disk, s) \subseteq disk[MapSector].bits
       /\ Idle => SectorsOn(disk, s) \subseteq freeMap
       /\ SectorsOn(disk, s) \cap Reserved = {}
       /\ \A k \in Extent(disk[s].start, disk[s].len) : disk[k].kind = "data"
  /\ \A i, j \in Slot : i # j /\ Dir[i].used /\ Dir[j].used =>
       /\ Dir[i].name # Dir[j].name
       /\ SectorsOn(disk, Dir[i].sector) \cap SectorsOn(disk, Dir[j].sector) = {}

\* A file is one inode however often it is opened, its counts are the open files
\* and those of them that deny writing (the ASSERTs of inode.c:274-282), and
\* until the last one closes the inode in memory says what the disk says and its
\* sectors stay marked, removed or not.
OpenInodes ==
  \A a \in Address : inodes[a] # None =>
    LET node == inodes[a]
        files == {h \in Handle : handle[h] # None /\ handle[h].at = a}
    IN  /\ node.openCnt = Cardinality(files) /\ files # {}
        /\ node.denyCnt = Cardinality({h \in files : handle[h].deny})
        /\ OpenAt(node.sector) = {a}
        /\ disk[node.sector] = DiskInode(node.start, node.len)
        /\ {node.sector} \cup Extent(node.start, node.len) \subseteq freeMap

\* On the disk and in memory nothing is lost, shared or forgotten.
FilesConsistent == DiskConsistent /\ OpenInodes

\* The disk once the writes of the current call are done.
Settled ==
  [s \in Sector |-> LET writes == {k \in DOMAIN pending : pending[k].at = s}
                    IN  IF writes = {} THEN disk[s] ELSE pending[Sets!Max(writes)].put]

\* The sectors something leads to, and those marked that nothing leads to: in memory,
\* and on the disk.
HeldOn(d) ==
  Reserved \cup UNION {SectorsOn(d, s) : s \in LinkedOn(d)}
    \cup UNION {{inodes[a].sector} \cup Extent(inodes[a].start, inodes[a].len) :
                  a \in {b \in Address : inodes[b] # None}}
Leaked ==
  LET d == Settled
      held == HeldOn(d)
  IN  [memory |-> freeMap \ held, disk |-> d[MapSector].bits \ held]

\* filesys_create that fails after inode_create: filesys.c:45 gives back the sector
\* of the inode alone, its data sectors stay marked.
LostByCreate ==
  IF Idle /\ pending' # <<>> /\ Seqs!Last(pending').at # RootSector
  THEN UNION {Extent(w.put.start, w.put.len) :
                w \in {v \in Seqs!ToSet(pending') : v.put.kind = "inode"}}
  ELSE {}

\* The machine stops within a call, or while a removed file is open.
Crash == Reboot /\ (~Idle \/ \E a \in Address : inodes[a] # None /\ inodes[a].removed)

\* No sector is lost, in memory and on the disk, also over an orderly shutdown and the
\* next boot, but by what the code leaves open: LostByCreate, a Crash, and on the disk
\* by a free-map write that fails and is ignored (free-map.c:40), since free_map_close
\* does not write the map again.
LeakOnlyByFailure ==
  [][ LET before == Leaked
          after == Leaked'
          spared == LostByCreate
      IN  /\ after.memory \subseteq before.memory \cup spared \/ Reboot
          /\ after.disk \subseteq before.disk \cup spared \/ ignored' \/ Crash ]_vars

\* What a reader or a writer can see of a file.
Contents(start, len) == [k \in 1..len |-> disk[start + k - 1].bytes]

\* Where a name leads, what each file holds, which file each handle has.
Leads ==
  [n \in Name |-> LET found == Found(n, Entries)
                  IN  IF found = {} THEN None ELSE Dir[Sets!Min(found)].sector]
Reads ==
  LET linked == LinkedOn(disk)
  IN  [s \in Ino |->
         LET at == OpenAt(s)
         IN  IF at # {} THEN Contents(inodes[Sets!Min(at)].start, inodes[Sets!Min(at)].len)
             ELSE IF s \in linked THEN Contents(disk[s].start, disk[s].len) ELSE None]
Opened == [h \in Handle |-> IF handle[h] = None THEN None ELSE inodes[handle[h].at].sector]
Denied == {h \in Handle : handle[h] # None /\ handle[h].deny}

Abstract == INSTANCE AbstractFileSys WITH
  entry <- Leads, file <- Reads, open <- Opened, denies <- Denied

\* The files behave as if there were no sectors: a name leads to one file, a new
\* file reads as zeros, a removed one lives on for those who have it open, a
\* write changes one file and none that denies it, a crash happens between calls.
ImplementsFileSys == Abstract!Spec

\* directory.c:135 "inode_read_at() will only return a short read at end of
\* file": so the slot dir_add writes is free, and no entry in use is lost but
\* to dir_remove, which clears in_use alone.
EntriesErasedOnly ==
  [][ \A i \in Slot : Dir[i].used => Dir'[i] \in {Dir[i], FreeEntry} ]_vars
=============================================================================
