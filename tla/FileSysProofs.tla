----------------------------- MODULE FileSysProofs -----------------------------
(***************************************************************************)
(* Theorems about FileSys, for any device, any names, handles and data,    *)
(* any number of directory slots and any length of files.                  *)
(***************************************************************************)
EXTENDS FileSys, TLAPS, FiniteSetTheorems, SequenceTheorems, WellFoundedInduction

Slots == [Slot -> [used : BOOLEAN, name : Name \cup {None}, sector : Sector]]
Block == [kind : {"map"}, bits : SUBSET Sector] \cup [kind : {"inode"}, start : Nat, len : Nat]
         \cup [kind : {"dir"}, slots : Slots] \cup [kind : {"data"}, bytes : Data]
Writes == [at : Sector, put : Block]

(* The types, and what stands at the two fixed places of the disk.         *)
TypeInv ==
  /\ disk \in [Sector -> Block]
  /\ disk[MapSector].kind = "map" /\ Reserved \subseteq disk[MapSector].bits
  /\ disk[RootSector].kind = "dir"
  /\ pending \in Seq(Writes)
  /\ freeMap \in SUBSET Sector /\ Reserved \subseteq freeMap
  /\ inodes \in [Address -> Inode \cup {None}]
  /\ handle \in [Handle -> File \cup {None}]

(* Every open file has its inode, every inode its files.                   *)
FilesAt(a) == {h \in Handle : handle[h] # None /\ handle[h].at = a}
Deniers(a) == {h \in FilesAt(a) : handle[h].deny}
OpenInv ==
  /\ \A h \in Handle : handle[h] # None => inodes[handle[h].at] # None
  /\ \A a \in Address : inodes[a] # None =>
       /\ inodes[a].openCnt = Cardinality(FilesAt(a)) /\ FilesAt(a) # {}
       /\ inodes[a].denyCnt = Cardinality(Deniers(a))
       /\ disk[inodes[a].sector] = DiskInode(inodes[a].start, inodes[a].len)
       /\ \A b \in Address : inodes[b] # None /\ inodes[b].sector = inodes[a].sector => a = b

(* The inodes that a name or an open file leads to: each has its own       *)
(* sectors, with data in them.                                             *)
OpenSectors == {inodes[a].sector : a \in {b \in Address : inodes[b] # None}}
Held == LinkedOn(disk) \cup OpenSectors
HeldInv ==
  /\ \A s \in Held :
       /\ disk[s].kind = "inode" /\ SectorsOn(disk, s) \subseteq Sector \ Reserved
       /\ \A k \in Extent(disk[s].start, disk[s].len) : disk[k].kind = "data"
  /\ \A s, r \in Held : s # r => SectorsOn(disk, s) \cap SectorsOn(disk, r) = {}

(* The directory on the disk: names and inodes differ, and the map on the  *)
(* disk has them.                                                          *)
DirInv ==
  /\ \A i, j \in Slot : i # j /\ Dir[i].used /\ Dir[j].used =>
       Dir[i].name # Dir[j].name /\ Dir[i].sector # Dir[j].sector
  /\ \A i \in Slot : Dir[i].used => Dir[i].name \in Name
  /\ \A s \in LinkedOn(disk) : SectorsOn(disk, s) \subseteq disk[MapSector].bits

(* What the call in progress makes of the directory, T, and what it has    *)
(* still to write, in terms of the entries that stay.                      *)
At(s) == {j \in DOMAIN pending : pending[j].at = s}
Stays(T, i) == Dir[i].used /\ T[i] = Dir[i]

\* A data sector that is written is nobody's, or one of an open file whose
\* writing nobody denies.
Written(h, s) ==
  /\ handle[h] # None /\ Deniers(handle[h].at) = {}
  /\ \E k \in 1..MaxLen : /\ k <= inodes[handle[h].at].len
                          /\ s = inodes[handle[h].at].start + k - 1
Goes(s) == (\A r \in Held : s \notin SectorsOn(disk, r)) \/ (\E h \in Handle : Written(h, s))

(* Each write spares what is held, and each map has what stays.            *)
Spares(T, w) ==
  /\ w.put.kind = "map" =>
       /\ w.at = MapSector /\ Reserved \subseteq w.put.bits
       /\ \A i \in Slot : Stays(T, i) => SectorsOn(disk, Dir[i].sector) \subseteq w.put.bits
  /\ w.put.kind = "dir" => w.at = RootSector
  /\ w.put.kind = "inode" => w.at \notin Reserved /\ \A s \in Held : w.at \notin SectorsOn(disk, s)
  /\ w.put.kind = "data" => w.at \notin Reserved /\ w.at \notin Held /\ Goes(w.at)

Erases(T) ==
  /\ \E i \in Slot : Dir[i].used /\ T = [Dir EXCEPT ![i] = FreeEntry]
  /\ At(RootSector) = {1} /\ pending[1].put.slots = T

(* A new file: when its entry is written, the last of all, the inode, the  *)
(* data and the map that has them are on the disk.                         *)
NewFile(s, start, len) ==
  /\ s \notin Extent(start, len)
  /\ {s} \cup Extent(start, len) \subseteq freeMap \ Reserved
  /\ \A r \in Held : SectorsOn(disk, r) \cap ({s} \cup Extent(start, len)) = {}
  /\ disk[s] = DiskInode(start, len) \/ At(s) # {}
  /\ \A j \in At(s) : pending[j].put = DiskInode(start, len)
  /\ \A k \in Extent(start, len) :
       /\ disk[k] = Bytes(Zero) \/ At(k) # {}
       /\ \A j \in At(k) : pending[j].put = Bytes(Zero)
  /\ At(MapSector) = {} => {s} \cup Extent(start, len) \subseteq disk[MapSector].bits
  /\ \A j \in At(MapSector) : (\A l \in At(MapSector) : l <= j) =>
       {s} \cup Extent(start, len) \subseteq pending[j].put.bits

Adds(T) ==
  /\ At(RootSector) = {Len(pending)} /\ pending[Len(pending)].put.slots = T
  /\ \E i \in Slot :
       /\ ~Dir[i].used /\ T = [Dir EXCEPT ![i] = T[i]] /\ T[i].used /\ T[i].name \in Name
       /\ \A j \in Slot : Dir[j].used => Dir[j].name # T[i].name
       /\ \E start \in Nat, len \in 0..MaxLen : NewFile(T[i].sector, start, len)

CallInv(T) ==
  /\ \A i \in Slot : Stays(T, i) => SectorsOn(disk, Dir[i].sector) \subseteq freeMap
  /\ \A s \in OpenSectors : SectorsOn(disk, s) \subseteq freeMap
  /\ \A a \in Address, i \in Slot :
       inodes[a] # None /\ inodes[a].removed /\ T[i].used => T[i].sector # inodes[a].sector
  /\ \A j \in DOMAIN pending : Spares(T, pending[j])
  /\ \/ At(RootSector) = {} /\ T = Dir
     \/ Erases(T)
     \/ Adds(T)

IInv ==
  /\ TypeInv /\ OpenInv /\ HeldInv /\ DirInv
  /\ \E T \in Slots : CallInv(T)

-------------------------------------------------------------------------------
(* Places on the disk.                                                     *)

LEMMA MinFact ==
  ASSUME NEW S \in SUBSET Nat, S # {}
  PROVE  Sets!Min(S) \in S /\ \A y \in S : Sets!Min(S) <= y
<1>1. \E x \in S : \A y \in S : ~(<<y, x>> \in OpToRel(<, Nat))
  BY NatLessThanWellFounded, WFMin
<1>2. \A x, y \in Nat : <<y, x>> \in OpToRel(<, Nat) <=> y < x
  BY DEF OpToRel
<1>3. \E x \in S : \A y \in S : x <= y
  <2>1. PICK x \in S : \A y \in S : ~(<<y, x>> \in OpToRel(<, Nat))
    BY <1>1
  <2>2. \A y \in S : ~(y < x)
    BY <1>2, <2>1
  <2>3. \A y \in S : x <= y
    BY <2>2
  <2>. QED BY <2>3
<1>. QED BY <1>3 DEF Sets!Min

LEMMA FirstFitFact ==
  ASSUME NEW map, NEW len \in Nat, FirstFit(map, len) # NoRoom
  PROVE  /\ FirstFit(map, len) \in 0..SectorCnt - len
         /\ Extent(FirstFit(map, len), len) \cap map = {}
<1>. DEFINE fits == {s \in 0..SectorCnt - len : Extent(s, len) \cap map = {}}
<1>1. fits \in SUBSET Nat /\ fits # {} /\ FirstFit(map, len) = Sets!Min(fits)
  BY FileSysAssumption DEF FirstFit
<1>2. Sets!Min(fits) \in fits
  BY <1>1, MinFact
<1>. QED BY <1>1, <1>2

LEMMA FirstFitFinds ==
  ASSUME NEW map, NEW x \in Nat, x < SectorCnt, x \notin map
  PROVE  FirstFit(map, 1) \in 0..x /\ FirstFit(map, 1) \notin map
<1>. DEFINE fits == {s \in 0..SectorCnt - 1 : Extent(s, 1) \cap map = {}}
<1>1. \A s \in Nat : Extent(s, 1) = {s}
  BY DEF Extent
<1>2. x \in fits /\ fits \in SUBSET Nat
  BY <1>1, FileSysAssumption
<1>3. FirstFit(map, 1) = Sets!Min(fits) /\ Sets!Min(fits) \in fits /\ Sets!Min(fits) <= x
  BY <1>2, MinFact DEF FirstFit
<1>. QED BY <1>1, <1>3

LEMMA Places ==
  /\ MapSector = 2 /\ RootSector = 3 /\ Reserved = 0..3 /\ Reserved \subseteq Sector
<1>1. MapSector = 2
  BY FirstFitFinds, FileSysAssumption DEF MapSector
<1>2. RootSector = 3
  BY <1>1, FirstFitFinds, FileSysAssumption DEF RootSector
<1>. QED BY <1>1, <1>2, FileSysAssumption DEF Reserved, Sector

\* A sector for an inode and an extent of data sectors.
Allocated(a, map, len) ==
  /\ a.start \in Nat /\ Extent(a.start, len) \subseteq Sector
  /\ Extent(a.start, len) \cap map = {} /\ a.map = map \cup Extent(a.start, len)
  /\ a.out = <<BlockWrite(MapSector, Bits(a.map))>>

LEMMA AllocateFact ==
  ASSUME NEW map \in SUBSET Sector, NEW len \in Nat, NEW writes \in BOOLEAN, Allocate(map, len, writes).ok
  PROVE  Allocated(Allocate(map, len, writes), map, len)
<1>1. FirstFit(map, len) # NoRoom /\ writes
  BY DEF Allocate
<1>2. /\ FirstFit(map, len) \in 0..SectorCnt - len
      /\ Extent(FirstFit(map, len), len) \cap map = {}
  BY <1>1, FirstFitFact
<1>3. Extent(FirstFit(map, len), len) \subseteq Sector
  BY <1>2, FileSysAssumption DEF Extent, Sector
<1>4. FirstFit(map, len) \in Nat
  BY <1>2
<1>. QED BY <1>1, <1>2, <1>3, <1>4 DEF Allocate, Allocated

LEMMA SectorsOfInode ==
  ASSUME NEW d, NEW s, d[s].kind = "inode"
  PROVE  SectorsOn(d, s) = {s} \cup Extent(d[s].start, d[s].len)
BY DEF SectorsOn

\* What an inode on the disk is, and what a slot may be.
DirOK ==
  /\ Dir \in Slots /\ \A i \in Slot : Dir[i].sector \in Sector /\ Dir[i].used \in BOOLEAN
  /\ \A i \in Slot : Dir[i].used => Dir[i].sector \in LinkedOn(disk)
  /\ \A s \in LinkedOn(disk) : \E i \in Slot : Dir[i].used /\ Dir[i].sector = s
  /\ LinkedOn(disk) \subseteq Sector /\ LinkedOn(disk) \subseteq Held

LEMMA DirFacts == TypeInv => DirOK
<1>. SUFFICES ASSUME TypeInv PROVE DirOK
  OBVIOUS
<1>1. RootSector \in Sector
  BY Places DEF Reserved
<1>2. disk[RootSector] \in Block /\ disk[RootSector].kind = "dir"
  BY <1>1 DEF TypeInv
<1>3. Dir \in Slots
  BY <1>2 DEF Block, Dir
<1>. QED BY <1>3 DEF DirOK, Slots, LinkedOn, Dir, Held

LEMMA DirFactsNext == TypeInv' => DirOK'
BY DirFacts, PTL

\* Between two calls all that is held is marked.
IdleInv ==
  /\ \A s \in Held : SectorsOn(disk, s) \subseteq freeMap
  /\ \A a \in Address, i \in Slot :
       inodes[a] # None /\ inodes[a].removed /\ Dir[i].used => Dir[i].sector # inodes[a].sector

LEMMA IdleFacts == IInv /\ Idle => IdleInv
<1>. SUFFICES ASSUME IInv, Idle PROVE IdleInv
  OBVIOUS
<1>1. PICK T \in Slots : CallInv(T)
  BY DEF IInv
<1>2. DOMAIN pending = {} /\ \A s : At(s) = {}
  BY DEF Idle, At
<1>3. T = Dir
  BY <1>1, <1>2 DEF CallInv, Erases, Adds
<1>4. \A s \in LinkedOn(disk) : SectorsOn(disk, s) \subseteq freeMap
  BY <1>1, <1>3, DirFacts DEF IInv, CallInv, Stays, DirOK
<1>. QED BY <1>1, <1>3, <1>4 DEF IdleInv, CallInv, Held

LEMMA BackToIdle ==
  ASSUME TypeInv', OpenInv', HeldInv', DirInv', pending' = <<>>, IdleInv'
  PROVE  IInv'
<1>1. Dir' \in Slots /\ \A i \in Slot : Dir'[i].used => Dir'[i].sector \in LinkedOn(disk')
  BY DirFactsNext DEF DirOK
<1>2. PICK T \in Slots : T = Dir'
  BY <1>1
<1>3. At(RootSector)' = {} /\ DOMAIN pending' = {}
  BY DEF At
<1>4. \A i \in Slot : Stays(T, i)' => SectorsOn(disk', Dir'[i].sector) \subseteq freeMap'
  BY <1>1 DEF Stays, IdleInv, Held
<1>5. CallInv(T)'
  BY <1>2, <1>3, <1>4 DEF CallInv, IdleInv, Held
<1>. QED BY <1>5 DEF IInv
-------------------------------------------------------------------------------
(* Files, inodes and their counts.                                         *)

LEMMA Counts ==
  ASSUME NEW S \in SUBSET Handle, NEW h \in Handle
  PROVE  /\ Cardinality(S) \in Nat /\ (S # {} => Cardinality(S) > 0)
         /\ h \notin S => Cardinality(S \cup {h}) = Cardinality(S) + 1
         /\ h \in S => Cardinality(S \ {h}) = Cardinality(S) - 1 /\ (S # {h} => Cardinality(S) > 1)
         /\ Cardinality(S) > 1 => S # {h}
<1>1. IsFiniteSet(S)
  BY FileSysAssumption, FS_Subset
<1>2. Cardinality(S) \in Nat /\ (S # {} => Cardinality(S) > 0)
  BY <1>1, FS_CardinalityType, FS_EmptySet
<1>3. h \notin S => Cardinality(S \cup {h}) = Cardinality(S) + 1
  BY <1>1, FS_AddElement
<1>4. h \in S => Cardinality(S \ {h}) = Cardinality(S) - 1
  BY <1>1, FS_RemoveElement
<1>5. ASSUME h \in S, S # {h} PROVE Cardinality(S) > 1
  <2>1. IsFiniteSet(S \ {h}) /\ S \ {h} # {}
    BY <1>1, <1>5, FS_RemoveElement
  <2>2. Cardinality(S \ {h}) \in Nat /\ Cardinality(S \ {h}) # 0
    BY <2>1, FS_CardinalityType, FS_EmptySet
  <2>. QED BY <1>2, <1>4, <1>5, <2>2
<1>6. Cardinality({h}) = 1
  BY FS_Singleton
<1>. QED BY <1>2, <1>3, <1>4, <1>5, <1>6

\* A handle becomes f: whose file it is.
Becomes(h, f) == h \in Handle /\ f \in File \cup {None} /\ handle' = [handle EXCEPT ![h] = f]

LEMMA BecomesFact ==
  ASSUME TypeInv, NEW h, NEW f, Becomes(h, f)
  PROVE  /\ handle \in [Handle -> File \cup {None}] /\ handle' \in [Handle -> File \cup {None}]
         /\ h \in Handle /\ handle'[h] = f /\ \A g \in Handle \ {h} : handle'[g] = handle[g]
BY DEF Becomes, TypeInv

LEMMA NotItsFile ==
  ASSUME TypeInv, NEW h, NEW f, Becomes(h, f), NEW a, f = None \/ f.at # a
  PROVE  FilesAt(a)' = FilesAt(a) \ {h} /\ Deniers(a)' = Deniers(a) \ {h}
BY BecomesFact DEF FilesAt, Deniers

LEMMA ItsFile ==
  ASSUME TypeInv, NEW h, NEW f, Becomes(h, f), NEW a, f # None, f.at = a
  PROVE  /\ FilesAt(a)' = FilesAt(a) \cup {h}
         /\ Deniers(a)' = IF f.deny THEN Deniers(a) \cup {h} ELSE Deniers(a) \ {h}
BY BecomesFact DEF FilesAt, Deniers

NoneIsNone == None \notin Inode /\ None \notin File

LEMMA NoneDiffers == NoneIsNone
BY FileSysAssumption DEF NoneIsNone

\* What the inode at a, of the files in S of which D deny writing, says.
Right(node, S, D) ==
  /\ node.openCnt = Cardinality(S) /\ S # {} /\ node.denyCnt = Cardinality(D)
  /\ disk[node.sector] = DiskInode(node.start, node.len)

Alone(a, node) == \A b \in Address \ {a} : inodes[b] # None => inodes[b].sector # node.sector

\* One inode becomes node, of which alone the files may change.
InodeBecomes(a, node) ==
  a \in Address /\ node \in Inode /\ inodes' = [inodes EXCEPT ![a] = node]

LEMMA OneInode ==
  ASSUME TypeInv, OpenInv, UNCHANGED disk, NEW h, NEW f, Becomes(h, f),
         NEW a, NEW node, InodeBecomes(a, node), f # None => f.at = a, handle[h] # None => handle[h].at = a,
         Right(node, FilesAt(a)', Deniers(a)'), Alone(a, node)
  PROVE  /\ OpenInv' /\ inodes' \in [Address -> Inode \cup {None}]
         /\ handle' \in [Handle -> File \cup {None}]
         /\ OpenSectors' \subseteq OpenSectors \cup {node.sector}
<1>1. inodes \in [Address -> Inode \cup {None}] /\ handle \in [Handle -> File \cup {None}]
  BY DEF TypeInv
<1>2. /\ inodes' \in [Address -> Inode \cup {None}] /\ inodes'[a] = node /\ node # None
      /\ \A b \in Address \ {a} : inodes'[b] = inodes[b]
  BY <1>1, NoneDiffers DEF NoneIsNone, InodeBecomes
<1>3. /\ handle' \in [Handle -> File \cup {None}]
      /\ \A b \in Address \ {a} : FilesAt(b)' = FilesAt(b) /\ Deniers(b)' = Deniers(b)
  <2>1. \A b \in Address \ {a} : h \notin FilesAt(b) /\ h \notin Deniers(b)
    BY DEF FilesAt, Deniers, Becomes
  <2>2. SUFFICES ASSUME NEW b \in Address \ {a}
        PROVE  FilesAt(b)' = FilesAt(b) /\ Deniers(b)' = Deniers(b)
    BY BecomesFact
  <2>3. f = None \/ f.at # b
    OBVIOUS
  <2>4. FilesAt(b)' = FilesAt(b) \ {h} /\ Deniers(b)' = Deniers(b) \ {h}
    BY <2>3, NotItsFile
  <2>. QED BY <2>1, <2>4
<1>4. \A g \in Handle : handle'[g] # None => handle'[g].at \in Address /\ inodes'[handle'[g].at] # None
  <2>1. SUFFICES ASSUME NEW g \in Handle, handle'[g] # None
        PROVE  handle'[g].at \in Address /\ inodes'[handle'[g].at] # None
    OBVIOUS
  <2>2. handle'[g].at \in Address
    BY <1>3, <2>1 DEF File
  <2>3. handle'[g].at # a => g # h /\ handle'[g] = handle[g]
    BY <1>1, <2>1 DEF Becomes
  <2>. QED BY <1>2, <2>1, <2>2, <2>3 DEF OpenInv
<1>8. a \in Address /\ node \in Inode
  BY DEF InodeBecomes
<1>5. ASSUME NEW b \in Address, inodes'[b] # None
      PROVE  /\ Right(inodes'[b], FilesAt(b)', Deniers(b)')
             /\ \A c \in Address : inodes'[c] # None /\ inodes'[c].sector = inodes'[b].sector => b = c
  <2>1. CASE b = a
    <3>1. inodes'[b] = node /\ Right(node, FilesAt(a)', Deniers(a)')
      BY <1>2, <2>1
    <3>2. \A c \in Address : inodes'[c] # None /\ inodes'[c].sector = inodes'[b].sector => b = c
      BY <1>2, <2>1 DEF Alone
    <3>. QED BY <2>1, <3>1, <3>2
  <2>2. CASE b # a
    <3>1. inodes'[b] = inodes[b] /\ inodes[b] # None
      BY <1>2, <1>5, <2>2
    <3>2. Right(inodes[b], FilesAt(b), Deniers(b))
      BY <3>1 DEF Right, OpenInv
    <3>3. \A c \in Address : inodes'[c] # None /\ inodes'[c].sector = inodes'[b].sector => b = c
      BY <1>2, <2>2, <3>1 DEF OpenInv, Alone
    <3>. QED BY <1>3, <2>2, <3>1, <3>2, <3>3
  <2>. QED BY <2>1, <2>2
<1>6. OpenInv'
  BY <1>4, <1>5 DEF OpenInv, Right
<1>7. OpenSectors' \subseteq OpenSectors \cup {node.sector}
  BY <1>2 DEF OpenSectors
<1>. QED BY <1>2, <1>3, <1>6, <1>7
-------------------------------------------------------------------------------
(* Calls that change no sector.                                            *)

\* The disk stays, and what is held does not grow.
LEMMA DiskKept ==
  ASSUME HeldInv, DirInv, UNCHANGED disk, OpenSectors' \subseteq Held
  PROVE  HeldInv' /\ DirInv' /\ Held' \subseteq Held /\ Dir' = Dir
<1>1. Dir' = Dir
  BY DEF Dir
<1>2. Held' \subseteq Held
  BY DEF Held
<1>. QED BY <1>1, <1>2 DEF HeldInv, DirInv

LEMMA OpenKept ==
  ASSUME OpenInv, UNCHANGED <<disk, inodes, handle>>
  PROVE  OpenInv' /\ OpenSectors' = OpenSectors
<1>1. \A a : FilesAt(a)' = FilesAt(a) /\ Deniers(a)' = Deniers(a)
  BY DEF FilesAt, Deniers
<1>2. OpenInv'
  BY <1>1 DEF OpenInv
<1>. QED BY <1>2 DEF OpenSectors

LEMMA MemoryOnly ==
  ASSUME IInv, Idle, UNCHANGED <<disk, pending, freeMap>>,
         inodes' \in [Address -> Inode \cup {None}], handle' \in [Handle -> File \cup {None}],
         OpenInv', OpenSectors' \subseteq Held,
         \A a \in Address : inodes'[a] # None /\ inodes'[a].removed =>
            inodes[a] # None /\ inodes[a].removed /\ inodes'[a].sector = inodes[a].sector
  PROVE  IInv'
<1>1. TypeInv'
  BY DEF IInv, TypeInv
<1>2. HeldInv' /\ DirInv' /\ Held' \subseteq Held /\ Dir' = Dir
  BY DiskKept DEF IInv
<1>3. IdleInv'
  BY <1>2, IdleFacts DEF IdleInv
<1>4. pending' = <<>>
  BY DEF Idle
<1>. QED BY <1>1, <1>2, <1>3, <1>4, BackToIdle

LEMMA OpenFacts ==
  ASSUME TypeInv, OpenInv, NEW h \in Handle, handle[h] # None
  PROVE  /\ handle[h] \in File /\ handle[h].at \in Address /\ handle[h].deny \in BOOLEAN
         /\ inodes[handle[h].at] \in Inode /\ inodes[handle[h].at] # None
         /\ h \in FilesAt(handle[h].at) /\ (h \in Deniers(handle[h].at) <=> handle[h].deny)
<1>1. handle[h] \in File /\ handle[h].at \in Address /\ handle[h].deny \in BOOLEAN
  BY DEF TypeInv, File
<1>. QED BY <1>1 DEF TypeInv, OpenInv, FilesAt, Deniers

\* A call that changes the counts of one open inode.
LEMMA SameInode ==
  ASSUME IInv, Idle, UNCHANGED <<disk, pending, freeMap>>, NEW h, NEW f, Becomes(h, f),
         NEW a, NEW node, InodeBecomes(a, node), inodes[a] # None,
         node.sector = inodes[a].sector, node.removed = inodes[a].removed,
         f # None => f.at = a, handle[h] # None => handle[h].at = a,
         Right(node, FilesAt(a)', Deniers(a)')
  PROVE  IInv'
<1>. USE DEF IInv
<1>1. Alone(a, node)
  BY DEF OpenInv, Alone, InodeBecomes
<1>2. /\ OpenInv' /\ inodes' \in [Address -> Inode \cup {None}]
      /\ handle' \in [Handle -> File \cup {None}]
      /\ OpenSectors' \subseteq OpenSectors \cup {node.sector}
  BY <1>1, OneInode
<1>3. node.sector \in OpenSectors
  BY DEF OpenSectors, InodeBecomes
<1>4. \A b \in Address : inodes'[b] # None /\ inodes'[b].removed =>
         inodes[b] # None /\ inodes[b].removed /\ inodes'[b].sector = inodes[b].sector
  BY DEF TypeInv, InodeBecomes
<1>5. OpenSectors' \subseteq Held
  BY <1>2, <1>3 DEF Held
<1>. QED BY <1>2, <1>4, <1>5, MemoryOnly

\* One more file of an open inode.
OpensOneMore(h, a) ==
  /\ handle' = [handle EXCEPT ![h] = [at |-> a, deny |-> FALSE]]
  /\ inodes' = [inodes EXCEPT ![a].openCnt = @ + 1]

LEMMA OneMoreFile ==
  ASSUME IInv, Idle, UNCHANGED <<disk, pending, freeMap>>, NEW h \in Handle, handle[h] = None,
         NEW a \in Address, inodes[a] # None, OpensOneMore(h, a)
  PROVE  IInv'
<1>. USE DEF IInv
<1>1. PICK f : f = [at |-> a, deny |-> FALSE]
  OBVIOUS
<1>2. PICK node : node = [inodes[a] EXCEPT !.openCnt = @ + 1]
  OBVIOUS
<1>3. inodes' = [inodes EXCEPT ![a] = node] /\ handle' = [handle EXCEPT ![h] = f]
  BY <1>1, <1>2 DEF OpensOneMore
<1>5. /\ inodes[a] \in Inode
      /\ f \in File /\ f.at = a /\ f.deny = FALSE /\ f # None /\ Becomes(h, f)
  <2>1. inodes[a] \in Inode
    BY DEF TypeInv
  <2>2. f \in File /\ f.at = a /\ f.deny = FALSE
    BY <1>1 DEF File
  <2>. QED BY <1>3, <2>1, <2>2, NoneDiffers DEF NoneIsNone, Becomes
<1>6. /\ node \in Inode /\ node.openCnt = inodes[a].openCnt + 1 /\ node.denyCnt = inodes[a].denyCnt
      /\ node.sector = inodes[a].sector /\ node.start = inodes[a].start /\ node.len = inodes[a].len
      /\ node.removed = inodes[a].removed
  BY <1>2, <1>5 DEF Inode
<1>7. FilesAt(a)' = FilesAt(a) \cup {h} /\ Deniers(a)' = Deniers(a) \ {h}
  BY <1>5, ItsFile
<1>8. h \notin FilesAt(a) /\ h \notin Deniers(a) /\ FilesAt(a) \in SUBSET Handle
  BY DEF FilesAt, Deniers
<1>9. Right(node, FilesAt(a)', Deniers(a)')
  <2>1. Right(inodes[a], FilesAt(a), Deniers(a))
    BY <1>5 DEF OpenInv, Right
  <2>2. Cardinality(FilesAt(a) \cup {h}) = Cardinality(FilesAt(a)) + 1
    BY <1>8, Counts
  <2>. QED BY <1>5, <1>6, <1>7, <1>8, <2>1, <2>2 DEF Right
<1>10. InodeBecomes(a, node)
  BY <1>3, <1>5, <1>6 DEF InodeBecomes
<1>. QED BY <1>5, <1>6, <1>9, <1>10, SameInode

LEMMA ReopenIInv ==
  ASSUME IInv, NEW h \in Handle, NEW g \in Handle, Reopen(h, g)
  PROVE  IInv'
<1>1. PICK a : a = handle[g].at
  OBVIOUS
<1>2. /\ Idle /\ handle[h] = None /\ handle[g] # None /\ UNCHANGED <<disk, pending, freeMap>>
      /\ OpensOneMore(h, a)
  BY <1>1 DEF Reopen, OpensOneMore
<1>3. a \in Address /\ inodes[a] # None
  BY <1>1, <1>2, OpenFacts DEF IInv
<1>. QED BY <1>2, <1>3, OneMoreFile

\* inode_deny_write and inode_allow_write change one count.
LEMMA DenyIInv ==
  ASSUME IInv, NEW h \in Handle, Deny(h)
  PROVE  IInv'
<1>. USE DEF IInv
<1>1. PICK a : a = handle[h].at
  OBVIOUS
<1>2. PICK f : f = [handle[h] EXCEPT !.deny = TRUE]
  OBVIOUS
<1>3. PICK node : node = [inodes[a] EXCEPT !.denyCnt = @ + 1]
  OBVIOUS
<1>4. /\ Idle /\ handle[h] # None /\ ~handle[h].deny /\ UNCHANGED <<disk, pending, freeMap>>
      /\ inodes' = [inodes EXCEPT ![a] = node] /\ handle' = [handle EXCEPT ![h] = f]
  BY <1>1, <1>2, <1>3 DEF Deny
<1>5. /\ a \in Address /\ inodes[a] \in Inode /\ inodes[a] # None /\ h \in FilesAt(a) /\ h \notin Deniers(a)
      /\ f \in File /\ f.at = a /\ f.deny /\ f # None /\ Becomes(h, f)
  <2>1. /\ a \in Address /\ inodes[a] \in Inode /\ inodes[a] # None
        /\ h \in FilesAt(a) /\ h \notin Deniers(a) /\ handle[h] \in File
    BY <1>1, <1>4, OpenFacts
  <2>2. f \in File /\ f.at = a /\ f.deny
    BY <1>1, <1>2, <2>1 DEF File
  <2>. QED BY <1>4, <2>1, <2>2, NoneDiffers DEF NoneIsNone, Becomes
<1>6. /\ node \in Inode /\ node.openCnt = inodes[a].openCnt /\ node.denyCnt = inodes[a].denyCnt + 1
      /\ node.sector = inodes[a].sector /\ node.start = inodes[a].start /\ node.len = inodes[a].len
      /\ node.removed = inodes[a].removed
  BY <1>3, <1>5 DEF Inode
<1>7. FilesAt(a)' = FilesAt(a) \cup {h} /\ Deniers(a)' = Deniers(a) \cup {h}
  BY <1>5, ItsFile
<1>8. FilesAt(a)' = FilesAt(a) /\ Deniers(a) \in SUBSET Handle
  BY <1>5, <1>7 DEF FilesAt, Deniers
<1>9. Right(node, FilesAt(a)', Deniers(a)')
  <2>1. Right(inodes[a], FilesAt(a), Deniers(a))
    BY <1>5 DEF OpenInv, Right
  <2>2. Cardinality(Deniers(a) \cup {h}) = Cardinality(Deniers(a)) + 1
    BY <1>5, <1>8, Counts
  <2>. QED BY <1>5, <1>6, <1>7, <1>8, <2>1, <2>2 DEF Right
<1>10. InodeBecomes(a, node)
  BY <1>4, <1>5, <1>6 DEF InodeBecomes
<1>. QED BY <1>1, <1>4, <1>5, <1>6, <1>9, <1>10, SameInode

LEMMA AllowIInv ==
  ASSUME IInv, NEW h \in Handle, Allow(h)
  PROVE  IInv'
<1>. USE DEF IInv
<1>1. PICK a : a = handle[h].at
  OBVIOUS
<1>2. PICK f : f = [handle[h] EXCEPT !.deny = FALSE]
  OBVIOUS
<1>3. PICK node : node = [inodes[a] EXCEPT !.denyCnt = @ - 1]
  OBVIOUS
<1>4. /\ Idle /\ handle[h] # None /\ handle[h].deny /\ UNCHANGED <<disk, pending, freeMap>>
      /\ inodes' = [inodes EXCEPT ![a] = node] /\ handle' = [handle EXCEPT ![h] = f]
  BY <1>1, <1>2, <1>3 DEF Allow, Allowed
<1>5. /\ a \in Address /\ inodes[a] \in Inode /\ inodes[a] # None /\ h \in FilesAt(a) /\ h \in Deniers(a)
      /\ f \in File /\ f.at = a /\ ~f.deny /\ f # None /\ Becomes(h, f)
  <2>1. /\ a \in Address /\ inodes[a] \in Inode /\ inodes[a] # None
        /\ h \in FilesAt(a) /\ h \in Deniers(a) /\ handle[h] \in File
    BY <1>1, <1>4, OpenFacts
  <2>2. f \in File /\ f.at = a /\ ~f.deny
    BY <1>1, <1>2, <2>1 DEF File
  <2>. QED BY <1>4, <2>1, <2>2, NoneDiffers DEF NoneIsNone, Becomes
<1>6. Deniers(a) \in SUBSET Handle
  BY DEF FilesAt, Deniers
<1>7. /\ Right(inodes[a], FilesAt(a), Deniers(a)) /\ Cardinality(Deniers(a)) \in Nat
      /\ Cardinality(Deniers(a)) > 0
      /\ Cardinality(Deniers(a) \ {h}) = Cardinality(Deniers(a)) - 1
  BY <1>5, <1>6, Counts DEF OpenInv, Right
<1>8. /\ node \in Inode /\ node.openCnt = inodes[a].openCnt /\ node.denyCnt = inodes[a].denyCnt - 1
      /\ node.sector = inodes[a].sector /\ node.start = inodes[a].start /\ node.len = inodes[a].len
      /\ node.removed = inodes[a].removed
  BY <1>3, <1>5, <1>7 DEF Inode, Right
<1>9. FilesAt(a)' = FilesAt(a) \cup {h} /\ Deniers(a)' = Deniers(a) \ {h}
  BY <1>5, ItsFile
<1>10. Right(node, FilesAt(a)', Deniers(a)')
  BY <1>5, <1>7, <1>8, <1>9 DEF Right
<1>11. InodeBecomes(a, node)
  BY <1>4, <1>5, <1>8 DEF InodeBecomes
<1>. QED BY <1>1, <1>4, <1>5, <1>8, <1>10, <1>11, SameInode
-------------------------------------------------------------------------------
(* inode_open: there is always room for one more.                          *)

LEMMA AddressFact == Address \subseteq Nat /\ IsFiniteSet(Address) /\ Cardinality(Address) = Cardinality(Handle) + 1
<1>1. Cardinality(Handle) \in Nat
  BY FileSysAssumption, FS_CardinalityType
<1>2. IsFiniteSet(Address) /\ Cardinality(Address) = Cardinality(Handle) + 1
  BY <1>1, FS_Interval DEF Address
<1>. QED BY <1>1, <1>2 DEF Address

\* An address that no file is at: there are fewer files than addresses.
LEMMA RoomForOne ==
  ASSUME TypeInv, OpenInv
  PROVE  FreeAddress \in Address /\ inodes[FreeAddress] = None
<1>1. \E a \in Address : inodes[a] = None
  <2>1. SUFFICES ASSUME \A a \in Address : inodes[a] # None PROVE FALSE
    OBVIOUS
  <2>. DEFINE f == [h \in Handle |-> IF handle[h] # None THEN handle[h].at ELSE 1]
  <2>2. f \in [Handle -> Address]
    <3>1. 1 \in Address
      BY AddressFact, FileSysAssumption, FS_CardinalityType DEF Address
    <3>. QED BY <3>1 DEF TypeInv, File
  <2>3. \A a \in Address : \E h \in Handle : f[h] = a
    <3>1. SUFFICES ASSUME NEW a \in Address PROVE \E h \in Handle : f[h] = a
      OBVIOUS
    <3>2. FilesAt(a) # {}
      BY <2>1 DEF OpenInv
    <3>. QED BY <3>2 DEF FilesAt
  <2>4. f \in Surjection(Handle, Address)
    BY <2>2, <2>3 DEF Surjection
  <2>5. Cardinality(Address) <= Cardinality(Handle)
    BY <2>4, FileSysAssumption, FS_Surjection
  <2>. QED BY <2>5, AddressFact, FileSysAssumption, FS_CardinalityType
<1>2. {a \in Address : inodes[a] = None} \in SUBSET Nat /\ {a \in Address : inodes[a] = None} # {}
  BY <1>1, AddressFact
<1>. QED BY <1>2, MinFact DEF FreeAddress

\* What inode_open finds in sector s.
LEMMA InodeOpened ==
  ASSUME TypeInv, OpenInv, HeldInv, NEW s, s \in Held
  PROVE  \/ \E a \in Address :
              /\ inodes[a] # None /\ inodes[a].sector = s
              /\ InodeOpen(s) = [at |-> a, list |-> [inodes EXCEPT ![a].openCnt = @ + 1]]
         \/ \E a \in Address :
              /\ inodes[a] = None /\ s \notin OpenSectors /\ NewInode(s) \in Inode
              /\ InodeOpen(s) = [at |-> a, list |-> [inodes EXCEPT ![a] = NewInode(s)]]
<1>1. CASE OpenAt(s) # {}
  <2>1. PICK a : a = Sets!Min(OpenAt(s))
    OBVIOUS
  <2>2. OpenAt(s) \in SUBSET Nat
    BY AddressFact DEF OpenAt
  <2>3. a \in OpenAt(s)
    BY <1>1, <2>1, <2>2, MinFact
  <2>4. InodeOpen(s) = [at |-> a, list |-> [inodes EXCEPT ![a].openCnt = @ + 1]]
    BY <1>1, <2>1 DEF InodeOpen
  <2>. QED BY <2>3, <2>4 DEF OpenAt
<1>2. CASE OpenAt(s) = {}
  <2>1. PICK a : a = FreeAddress
    OBVIOUS
  <2>2. InodeOpen(s) = [at |-> a, list |-> [inodes EXCEPT ![a] = NewInode(s)]]
    BY <1>2, <2>1 DEF InodeOpen
  <2>3. disk[s].kind = "inode" /\ s \in Sector
    BY DEF HeldInv, SectorsOn
  <2>4. disk[s].start \in Nat /\ disk[s].len \in Nat
    BY <2>3 DEF TypeInv, Block
  <2>5. NewInode(s) \in Inode
    BY <2>3, <2>4 DEF NewInode, Inode
  <2>6. s \notin OpenSectors
    BY <1>2 DEF OpenAt, OpenSectors
  <2>. QED BY <2>1, <2>2, <2>5, <2>6, RoomForOne
<1>. QED BY <1>1, <1>2

\* lookup: the entry found leads to something held.
LEMMA FoundFact ==
  ASSUME TypeInv, NEW n, NEW seen \in 0..Entries, Found(n, seen) # {}
  PROVE  /\ Sets!Min(Found(n, seen)) \in Slot /\ Dir[Sets!Min(Found(n, seen))].used
         /\ Dir[Sets!Min(Found(n, seen))].sector \in LinkedOn(disk)
         /\ Dir[Sets!Min(Found(n, seen))].sector \in Held
<1>1. Found(n, seen) \in SUBSET Nat /\ Found(n, seen) \subseteq Slot
  BY FileSysAssumption DEF Found, Slot
<1>2. Sets!Min(Found(n, seen)) \in Found(n, seen)
  BY <1>1, MinFact
<1>3. Sets!Min(Found(n, seen)) \in Slot /\ Dir[Sets!Min(Found(n, seen))].used
  BY <1>1, <1>2 DEF Found
<1>. QED BY <1>3, DirFacts DEF DirOK

LEMMA OpenIInv ==
  ASSUME IInv, NEW h \in Handle, NEW n, NEW seen \in 0..Entries, Open(h, n, seen)
  PROVE  IInv'
<1>. USE DEF IInv
<1>1. PICK s : s = Dir[Sets!Min(Found(n, seen))].sector
  OBVIOUS
<1>2. /\ Idle /\ handle[h] = None /\ Found(n, seen) # {} /\ UNCHANGED <<disk, pending, freeMap>>
      /\ inodes' = InodeOpen(s).list
      /\ handle' = [handle EXCEPT ![h] = [at |-> InodeOpen(s).at, deny |-> FALSE]]
  BY <1>1 DEF Open
<1>3. s \in Held
  BY <1>1, <1>2, FoundFact
<1>4. CASE \E a \in Address :
             /\ inodes[a] # None /\ inodes[a].sector = s
             /\ InodeOpen(s) = [at |-> a, list |-> [inodes EXCEPT ![a].openCnt = @ + 1]]
  <2>1. PICK a \in Address :
             /\ inodes[a] # None /\ inodes[a].sector = s
             /\ InodeOpen(s) = [at |-> a, list |-> [inodes EXCEPT ![a].openCnt = @ + 1]]
    BY <1>4
  <2>2. OpensOneMore(h, a)
    BY <1>2, <2>1 DEF OpensOneMore
  <2>. QED BY <1>2, <2>1, <2>2, OneMoreFile
<1>5. CASE \E a \in Address :
              /\ inodes[a] = None /\ s \notin OpenSectors /\ NewInode(s) \in Inode
              /\ InodeOpen(s) = [at |-> a, list |-> [inodes EXCEPT ![a] = NewInode(s)]]
  <2>1. PICK a \in Address :
              /\ inodes[a] = None /\ s \notin OpenSectors /\ NewInode(s) \in Inode
              /\ InodeOpen(s) = [at |-> a, list |-> [inodes EXCEPT ![a] = NewInode(s)]]
    BY <1>5
  <2>2. PICK f : f = [at |-> a, deny |-> FALSE]
    OBVIOUS
  <2>3. PICK node : node = NewInode(s)
    OBVIOUS
  <2>4. inodes' = [inodes EXCEPT ![a] = node] /\ handle' = [handle EXCEPT ![h] = f]
    BY <1>2, <2>1, <2>2, <2>3
  <2>5. f \in File /\ f.at = a /\ ~f.deny /\ f # None /\ Becomes(h, f) /\ InodeBecomes(a, node)
    <3>1. f \in File /\ f.at = a /\ ~f.deny
      BY <2>2 DEF File
    <3>. QED BY <2>1, <2>3, <2>4, <3>1, NoneDiffers DEF NoneIsNone, Becomes, InodeBecomes
  <2>6. /\ node.sector = s /\ node.openCnt = 1 /\ node.denyCnt = 0 /\ node.removed = FALSE
        /\ node.start = disk[s].start /\ node.len = disk[s].len
    BY <2>3 DEF NewInode
  <2>7. disk[s] = DiskInode(node.start, node.len)
    <3>1. disk[s].kind = "inode" /\ s \in Sector
      BY <1>3 DEF HeldInv, SectorsOn
    <3>2. disk[s] \in [kind : {"inode"}, start : Nat, len : Nat]
      BY <3>1 DEF TypeInv, Block
    <3>. QED BY <2>6, <3>2 DEF DiskInode
  <2>8. FilesAt(a)' = {h} /\ Deniers(a)' = {}
    <3>1. FilesAt(a) = {} /\ Deniers(a) = {}
      BY <2>1 DEF FilesAt, Deniers, OpenInv
    <3>. QED BY <2>5, <3>1, ItsFile
  <2>9. Right(node, FilesAt(a)', Deniers(a)') /\ Alone(a, node)
    <3>1. Cardinality({h}) = 1 /\ Cardinality({}) = 0
      BY FS_Singleton, FS_EmptySet
    <3>2. Alone(a, node)
      BY <2>1, <2>6 DEF Alone, OpenSectors
    <3>. QED BY <2>6, <2>7, <2>8, <3>1, <3>2 DEF Right
  <2>10. /\ OpenInv' /\ inodes' \in [Address -> Inode \cup {None}]
         /\ handle' \in [Handle -> File \cup {None}]
         /\ OpenSectors' \subseteq OpenSectors \cup {node.sector}
    BY <1>2, <2>5, <2>9, OneInode
  <2>11. \A b \in Address : inodes'[b] # None /\ inodes'[b].removed =>
            inodes[b] # None /\ inodes[b].removed /\ inodes'[b].sector = inodes[b].sector
    BY <2>5, <2>6 DEF TypeInv, InodeBecomes
  <2>12. OpenSectors' \subseteq Held
    BY <1>3, <2>6, <2>10 DEF Held
  <2>. QED BY <1>2, <2>10, <2>11, <2>12, MemoryOnly
<1>. QED BY <1>3, <1>4, <1>5, InodeOpened
-------------------------------------------------------------------------------
(* Calls that leave the directory alone.                                   *)

\* A write that spares all that is held.
Harmless(w) ==
  /\ w.put.kind # "dir"
  /\ w.put.kind = "map" =>
       /\ w.at = MapSector /\ Reserved \subseteq w.put.bits
       /\ \A s \in LinkedOn(disk) : SectorsOn(disk, s) \subseteq w.put.bits
  /\ w.put.kind = "inode" => w.at \notin Reserved /\ \A s \in Held : w.at \notin SectorsOn(disk, s)
  /\ w.put.kind = "data" => w.at \notin Reserved /\ w.at \notin Held /\ Goes(w.at)

LEMMA GoesKept ==
  ASSUME UNCHANGED <<disk, inodes, handle>>, Held' \subseteq Held, NEW s, Goes(s)
  PROVE  Goes(s)'
<1>1. \A a : Deniers(a)' = Deniers(a)
  BY DEF Deniers, FilesAt
<1>2. \A h : Written(h, s) => Written(h, s)'
  BY <1>1 DEF Written
<1>. QED BY <1>2 DEF Goes

LEMMA MapNotRoot == MapSector # RootSector /\ {0, 1, MapSector, RootSector} = Reserved
BY Places DEF Reserved

LEMMA NoDirWrite ==
  ASSUME TypeInv', OpenInv', HeldInv', DirInv', IdleInv',
         \A j \in DOMAIN pending' : Harmless(pending[j])'
  PROVE  IInv'
<1>1. Dir' \in Slots /\ \A i \in Slot : Dir'[i].used => Dir'[i].sector \in LinkedOn(disk')
  BY DirFactsNext DEF DirOK
<1>2. PICK T \in Slots : T = Dir'
  BY <1>1
<1>3. \A j \in DOMAIN pending' : Spares(T, pending[j])'
  <2>1. SUFFICES ASSUME NEW j \in DOMAIN pending' PROVE Spares(T, pending[j])'
    OBVIOUS
  <2>2. Harmless(pending[j])'
    BY <2>1
  <2>3. \A i \in Slot : Stays(T, i)' => Dir'[i].sector \in LinkedOn(disk')
    BY <1>1 DEF Stays
  <2>. QED BY <2>2, <2>3 DEF Spares, Harmless
<1>4. At(RootSector)' = {}
  <2>1. SUFFICES ASSUME NEW j \in DOMAIN pending', pending'[j].at = RootSector PROVE FALSE
    BY DEF At
  <2>2. pending'[j].put \in Block
    <3>1. pending' \in Seq(Writes)
      BY DEF TypeInv
    <3>2. pending'[j] \in Writes
      BY <2>1, <3>1
    <3>. QED BY <3>2 DEF Writes
  <2>3. pending'[j].put.kind \in {"map", "inode", "dir", "data"}
    BY <2>2 DEF Block
  <2>4. Harmless(pending[j])'
    BY <2>1
  <2>. QED BY <2>1, <2>3, <2>4, MapNotRoot DEF Harmless
<1>5. \A i \in Slot : Stays(T, i)' => SectorsOn(disk', Dir'[i].sector) \subseteq freeMap'
  BY <1>1 DEF Stays, IdleInv, Held
<1>6. CallInv(T)'
  BY <1>2, <1>3, <1>4, <1>5 DEF CallInv, IdleInv, Held
<1>. QED BY <1>6 DEF IInv

\* A write to a file goes to one of its own data sectors.
LEMMA WriteIInv ==
  ASSUME IInv, NEW h \in Handle, NEW k \in 1..MaxLen, NEW d \in Data, Write(h, k, d)
  PROVE  IInv'
<1>. USE DEF IInv
<1>1. PICK node : node = inodes[handle[h].at]
  OBVIOUS
<1>2. PICK w : w = BlockWrite(node.start + k - 1, Bytes(d))
  OBVIOUS
<1>3. /\ Idle /\ handle[h] # None /\ k <= node.len /\ pending' = <<w>>
      /\ UNCHANGED <<disk, freeMap, inodes, handle>>
  BY <1>1, <1>2 DEF Write
<1>4. node \in Inode /\ node.sector \in Held /\ disk[node.sector] = DiskInode(node.start, node.len)
  BY <1>1, <1>3, OpenFacts DEF OpenInv, Held, OpenSectors
<1>5. w.at = node.start + k - 1 /\ w.put = [kind |-> "data", bytes |-> d]
  BY <1>2 DEF BlockWrite, Bytes
<1>6. w.at \in Extent(node.start, node.len) /\ Extent(node.start, node.len) \subseteq SectorsOn(disk, node.sector)
  <2>1. node.start \in Nat /\ node.len \in Nat /\ k \in Nat /\ k >= 1
    BY <1>4, FileSysAssumption DEF Inode
  <2>2. w.at \in Extent(node.start, node.len)
    BY <1>3, <1>5, <2>1 DEF Extent
  <2>. QED BY <1>4, <2>2 DEF SectorsOn, DiskInode
<1>7. w.at \in Sector \ Reserved /\ disk[w.at].kind = "data"
  BY <1>4, <1>6 DEF HeldInv, DiskInode
<1>8. w.at \notin Held
  BY <1>7 DEF HeldInv
<1>9. w \in Writes /\ pending' \in Seq(Writes)
  BY <1>2, <1>3, <1>5, <1>7 DEF Writes, Block, BlockWrite, Bytes
<1>10. TypeInv' /\ OpenInv'
  BY <1>3, <1>9, OpenKept DEF TypeInv
<1>11. OpenSectors' = OpenSectors /\ OpenSectors \subseteq Held
  BY <1>3 DEF OpenSectors, Held
<1>12. HeldInv' /\ DirInv' /\ Held' \subseteq Held /\ Dir' = Dir
  BY <1>3, <1>11, DiskKept
<1>13. IdleInv'
  BY <1>3, <1>12, IdleFacts DEF IdleInv
<1>15. Goes(w.at)
  <2>1. inodes[handle[h].at].denyCnt = 0 /\ Deniers(handle[h].at) \in SUBSET Handle
    BY DEF Write, Deniers, FilesAt
  <2>2. Deniers(handle[h].at) = {}
    <3>1. PICK a \in Address : a = handle[h].at
      BY <1>3, OpenFacts
    <3>2. inodes[a] # None /\ inodes[a].denyCnt = 0 /\ Deniers(a) \in SUBSET Handle
      BY <1>3, <2>1, <3>1, OpenFacts
    <3>3. Cardinality(Deniers(a)) = 0
      BY <3>2 DEF OpenInv
    <3>4. \A S \in SUBSET Handle : S # {} => Cardinality(S) > 0
      BY Counts
    <3>. QED BY <3>1, <3>2, <3>3, <3>4
  <2>3. Written(h, w.at)
    BY <1>1, <1>3, <1>5, <2>2 DEF Written
  <2>. QED BY <2>3 DEF Goes
<1>16. Goes(w.at)'
  BY <1>3, <1>12, <1>15, GoesKept
<1>14. \A j \in DOMAIN pending' : Harmless(pending[j])'
  BY <1>3, <1>5, <1>7, <1>8, <1>12, <1>16 DEF Harmless
<1>. QED BY <1>10, <1>12, <1>13, <1>14, NoDirWrite

\* After a crash what the disk has is enough.
LEMMA RebootIInv ==
  ASSUME IInv, Reboot
  PROVE  IInv'
<1>. USE DEF IInv
<1>1. /\ pending' = <<>> /\ freeMap' = disk[MapSector].bits
      /\ inodes' = [a \in Address |-> None] /\ handle' = [h \in Handle |-> None] /\ disk' = disk
  BY DEF Reboot
<1>2. MapSector \in Sector
  BY Places DEF Reserved
<1>3. freeMap' \in SUBSET Sector
  <2>1. disk[MapSector] \in Block /\ disk[MapSector].kind = "map"
    BY <1>2 DEF TypeInv
  <2>2. disk[MapSector] \in [kind : {"map"}, bits : SUBSET Sector]
    BY <2>1 DEF Block
  <2>. QED BY <1>1, <2>2
<1>4. TypeInv' /\ OpenInv'
  <2>1. /\ inodes' \in [Address -> Inode \cup {None}] /\ handle' \in [Handle -> File \cup {None}]
        /\ pending' \in Seq(Writes) /\ Reserved \subseteq freeMap'
    BY <1>1 DEF TypeInv
  <2>2. TypeInv'
    BY <1>1, <1>3, <2>1 DEF TypeInv
  <2>3. OpenInv'
    BY <1>1 DEF OpenInv
  <2>. QED BY <2>2, <2>3
<1>5. OpenSectors' = {} /\ Held' = LinkedOn(disk)
  BY <1>1 DEF OpenSectors, Held
<1>6. HeldInv' /\ DirInv' /\ Dir' = Dir
  BY <1>1, <1>5, DiskKept
<1>7. IdleInv'
  BY <1>1, <1>5, <1>6 DEF IdleInv, DirInv
<1>8. DOMAIN pending' = {}
  BY <1>1
<1>. QED BY <1>4, <1>6, <1>7, <1>8, NoDirWrite
-------------------------------------------------------------------------------
(* inode_close and free_map_release.                                       *)

\* Writes of the map that keep what is in F marked.
MapWrites(out, F) ==
  /\ out \in Seq(Writes)
  /\ \A j \in DOMAIN out : /\ out[j].at = MapSector /\ out[j].put.kind = "map"
                           /\ F \subseteq out[j].put.bits

LEMMA MapWriteFact ==
  ASSUME NEW F, F \subseteq Sector
  PROVE  MapWrites(<<BlockWrite(MapSector, Bits(F))>>, F)
<1>1. MapSector \in Sector
  BY Places DEF Reserved
<1>. QED BY <1>1 DEF MapWrites, Writes, Block, BlockWrite, Bits

LEMMA NoMapWrite == ASSUME NEW F PROVE MapWrites(<<>>, F)
BY DEF MapWrites

LEMMA MoreMapWrites ==
  ASSUME NEW p, NEW q, NEW F, NEW G, MapWrites(p, F), MapWrites(q, G), G \subseteq F
  PROVE  MapWrites(p \o q, G)
<1>1. p \in Seq(Writes) /\ q \in Seq(Writes)
  BY DEF MapWrites
<1>2. p \o q \in Seq(Writes) /\ Len(p \o q) = Len(p) + Len(q)
  BY <1>1
<1>3. SUFFICES ASSUME NEW j \in 1..Len(p) + Len(q)
      PROVE  /\ (p \o q)[j].at = MapSector /\ (p \o q)[j].put.kind = "map"
             /\ G \subseteq (p \o q)[j].put.bits
  BY <1>2 DEF MapWrites
<1>4. CASE j <= Len(p)
  <2>1. (p \o q)[j] = p[j] /\ j \in DOMAIN p
    BY <1>1, <1>4
  <2>. QED BY <2>1 DEF MapWrites
<1>5. CASE j > Len(p)
  <2>1. (p \o q)[j] = q[j - Len(p)] /\ j - Len(p) \in DOMAIN q
    BY <1>1, <1>5
  <2>. QED BY <2>1 DEF MapWrites
<1>. QED BY <1>1, <1>4, <1>5

Released(r, F, gone) == r.map = F \ gone /\ MapWrites(r.out, F \ gone)

LEMMA ReleaseFact ==
  ASSUME NEW F \in SUBSET Sector, NEW start, NEW len, NEW writes
  PROVE  Released(Release(F, start, len, writes), F, Extent(start, len))
<1>1. F \ Extent(start, len) \subseteq Sector
  OBVIOUS
<1>. QED BY <1>1, MapWriteFact, NoMapWrite DEF Release, Released

\* The last close of an inode: of a removed one it releases the sectors.
Closed(c, list, a, node) ==
  /\ c.list = [list EXCEPT ![a] = None]
  /\ ~node.removed => c.map = freeMap /\ c.out = <<>>
  /\ node.removed => c.map = freeMap \ ({node.sector} \cup Extent(node.start, node.len))
  /\ MapWrites(c.out, c.map)

LEMMA LastClose ==
  ASSUME freeMap \subseteq Sector, NEW list, NEW a, NEW fail,
         list[a].sector \in Nat, ~(list[a].openCnt > 1)
  PROVE  Closed(InodeClose(list, a, fail), list, a, list[a])
<1>. DEFINE node == list[a]
            w1 == "map1" \notin fail
            w2 == "map2" \notin fail
            r1 == Release(freeMap, node.sector, 1, w1)
            r2 == Release(r1.map, node.start, node.len, w2)
<1>1. Released(r1, freeMap, Extent(node.sector, 1)) /\ freeMap \in SUBSET Sector
  BY ReleaseFact
<1>2. r1.map \in SUBSET Sector
  BY <1>1 DEF Released
<1>3. Released(r2, r1.map, Extent(node.start, node.len))
  BY <1>2, ReleaseFact
<1>4. Extent(node.sector, 1) = {node.sector}
  BY DEF Extent
<1>5. InodeClose(list, a, fail) =
        [list |-> [list EXCEPT ![a] = None],
         map |-> IF node.removed THEN r2.map ELSE freeMap,
         out |-> IF node.removed THEN r1.out \o r2.out ELSE <<>>]
  BY DEF InodeClose
<1>. HIDE DEF node, r1, r2
<1>6. /\ MapWrites(r1.out, r1.map) /\ MapWrites(r2.out, r2.map) /\ r2.map \subseteq r1.map
      /\ r2.map = freeMap \ ({node.sector} \cup Extent(node.start, node.len))
  BY <1>1, <1>3, <1>4 DEF Released
<1>9. MapWrites(r1.out \o r2.out, r2.map)
  BY <1>6, MoreMapWrites
<1>7. CASE node.removed
  BY <1>5, <1>6, <1>7, <1>9 DEF Closed, node
<1>8. CASE ~node.removed
  BY <1>5, <1>8, NoMapWrite DEF Closed, node
<1>. QED BY <1>7, <1>8

LEMMA CloseOneOfMany ==
  ASSUME IInv, NEW h \in Handle, NEW fail, Close(h, fail), inodes[handle[h].at].openCnt > 1
  PROVE  IInv'
<1>. USE DEF IInv
<1>1. PICK a : a = handle[h].at
  OBVIOUS
<1>17. PICK left : left = IF handle[h].deny THEN inodes[a].denyCnt - 1 ELSE inodes[a].denyCnt
  OBVIOUS
<1>2. PICK node : node = [inodes[a] EXCEPT !.openCnt = @ - 1, !.denyCnt = left]
  OBVIOUS
<1>3. Idle /\ handle[h] # None /\ disk' = disk /\ handle' = [handle EXCEPT ![h] = None]
  BY DEF Close
<1>4. /\ a \in Address /\ inodes[a] \in Inode /\ inodes[a] # None /\ handle[h] \in File
      /\ h \in FilesAt(a) /\ (h \in Deniers(a) <=> handle[h].deny)
  BY <1>1, <1>3, OpenFacts
<1>5. PICK list : list = Allowed(handle[h])
  OBVIOUS
<1>6. /\ list[a].openCnt = inodes[a].openCnt
      /\ [list EXCEPT ![a].openCnt = @ - 1] = [inodes EXCEPT ![a] = node]
  BY <1>1, <1>2, <1>4, <1>5, <1>17 DEF Allowed, TypeInv, Inode
<1>7. InodeClose(list, a, fail) = [list |-> [list EXCEPT ![a].openCnt = @ - 1], map |-> freeMap, out |-> <<>>]
  BY <1>1, <1>6 DEF InodeClose
<1>8. inodes' = [inodes EXCEPT ![a] = node] /\ UNCHANGED <<disk, pending, freeMap>>
  BY <1>1, <1>3, <1>5, <1>6, <1>7 DEF Close, Idle
<1>9. /\ Right(inodes[a], FilesAt(a), Deniers(a))
      /\ FilesAt(a) \in SUBSET Handle /\ Deniers(a) \in SUBSET Handle
  BY <1>4 DEF OpenInv, Right, FilesAt, Deniers
<1>10. /\ Cardinality(FilesAt(a) \ {h}) = inodes[a].openCnt - 1 /\ FilesAt(a) \ {h} # {}
  BY <1>1, <1>4, <1>9, Counts DEF Right
<1>11. left \in Nat /\ Cardinality(Deniers(a) \ {h}) = left
  <2>1. CASE handle[h].deny
    BY <1>4, <1>9, <1>17, <2>1, Counts DEF Right
  <2>2. CASE ~handle[h].deny
    <3>1. Deniers(a) \ {h} = Deniers(a)
      BY <1>4, <2>2
    <3>. QED BY <1>4, <1>9, <1>17, <2>2, <3>1 DEF Right, Inode
  <2>. QED BY <2>1, <2>2
<1>12. /\ node \in Inode /\ node.openCnt = inodes[a].openCnt - 1 /\ node.denyCnt = left
       /\ node.sector = inodes[a].sector /\ node.start = inodes[a].start /\ node.len = inodes[a].len
       /\ node.removed = inodes[a].removed
  <2>1. inodes[a].openCnt - 1 \in Nat
    BY <1>1, <1>4 DEF Inode
  <2>2. PICK opens \in Nat : opens = inodes[a].openCnt - 1
    BY <2>1
  <2>3. node = [inodes[a] EXCEPT !.openCnt = opens, !.denyCnt = left]
    BY <1>2, <2>2
  <2>. QED BY <1>4, <1>11, <2>2, <2>3 DEF Inode
<1>13. InodeBecomes(a, node) /\ Becomes(h, None)
  BY <1>3, <1>4, <1>8, <1>12 DEF InodeBecomes, Becomes
<1>14. FilesAt(a)' = FilesAt(a) \ {h} /\ Deniers(a)' = Deniers(a) \ {h}
  BY <1>13, NotItsFile
<1>15. Right(node, FilesAt(a)', Deniers(a)')
  BY <1>9, <1>10, <1>11, <1>12, <1>14 DEF Right
<1>. QED BY <1>1, <1>3, <1>4, <1>8, <1>12, <1>13, <1>15, SameInode

\* The last file of an inode goes, and the inode with it.
Gone(h, a) == inodes' = [inodes EXCEPT ![a] = None] /\ Becomes(h, None)

LEMMA LastFile ==
  ASSUME TypeInv, OpenInv, disk' = disk, NEW h, NEW a, handle[h] # None, a = handle[h].at,
         FilesAt(a) = {h}, Gone(h, a)
  PROVE  /\ OpenInv' /\ inodes' \in [Address -> Inode \cup {None}]
         /\ handle' \in [Handle -> File \cup {None}]
         /\ OpenSectors' = OpenSectors \ {inodes[a].sector}
<1>1. /\ inodes \in [Address -> Inode \cup {None}] /\ h \in Handle /\ handle'[h] = None
      /\ handle' \in [Handle -> File \cup {None}] /\ \A g \in Handle \ {h} : handle'[g] = handle[g]
  BY BecomesFact DEF TypeInv, Gone
<1>2. a \in Address /\ inodes[a] # None
  BY <1>1, OpenFacts
<1>3. /\ inodes' \in [Address -> Inode \cup {None}] /\ inodes'[a] = None
      /\ \A b \in Address \ {a} : inodes'[b] = inodes[b]
  BY <1>1, <1>2 DEF Gone
<1>4. OpenSectors' = OpenSectors \ {inodes[a].sector}
  <2>1. \A b \in Address \ {a} : inodes[b] # None => inodes[b].sector # inodes[a].sector
    BY <1>2 DEF OpenInv
  <2>. QED BY <1>2, <1>3, <2>1 DEF OpenSectors
<1>5. \A b \in Address \ {a} : FilesAt(b)' = FilesAt(b) /\ Deniers(b)' = Deniers(b)
  <2>1. SUFFICES ASSUME NEW b \in Address \ {a} PROVE FilesAt(b)' = FilesAt(b) /\ Deniers(b)' = Deniers(b)
    OBVIOUS
  <2>2. h \notin FilesAt(b) /\ h \notin Deniers(b)
    BY DEF FilesAt, Deniers
  <2>. QED BY <2>2, NotItsFile DEF Gone
<1>6. \A g \in Handle : handle'[g] # None => inodes'[handle'[g].at] # None
  <2>1. SUFFICES ASSUME NEW g \in Handle, handle'[g] # None PROVE inodes'[handle'[g].at] # None
    OBVIOUS
  <2>2. g # h /\ handle'[g] = handle[g]
    BY <1>1, <2>1
  <2>3. handle[g].at # a /\ handle[g].at \in Address
    BY <2>1, <2>2, OpenFacts DEF FilesAt
  <2>. QED BY <1>3, <2>1, <2>2, <2>3 DEF OpenInv
<1>7. OpenInv'
  <2>1. SUFFICES ASSUME NEW b \in Address, inodes'[b] # None
        PROVE  /\ inodes'[b].openCnt = Cardinality(FilesAt(b)') /\ FilesAt(b)' # {}
               /\ inodes'[b].denyCnt = Cardinality(Deniers(b)')
               /\ disk'[inodes'[b].sector] = DiskInode(inodes'[b].start, inodes'[b].len)
               /\ \A c \in Address : inodes'[c] # None /\ inodes'[c].sector = inodes'[b].sector => b = c
    BY <1>6 DEF OpenInv
  <2>2. b # a /\ inodes'[b] = inodes[b]
    BY <1>3, <2>1
  <2>. QED BY <1>3, <1>5, <2>1, <2>2 DEF OpenInv
<1>. QED BY <1>1, <1>3, <1>4, <1>7

\* What a release leaves marked is held by nobody else.
LEMMA Spared ==
  ASSUME IInv, Idle, disk' = disk, freeMap' \subseteq freeMap, MapWrites(pending', freeMap'),
         OpenInv', OpenSectors' \subseteq Held,
         inodes' \in [Address -> Inode \cup {None}], handle' \in [Handle -> File \cup {None}],
         Reserved \subseteq freeMap', \A s \in Held' : SectorsOn(disk, s) \subseteq freeMap',
         \A a \in Address : inodes'[a] # None => inodes'[a] = inodes[a]
  PROVE  IInv'
<1>. USE DEF IInv
<1>1. HeldInv' /\ DirInv' /\ Held' \subseteq Held /\ Dir' = Dir
  BY DiskKept
<1>2. TypeInv'
  BY DEF TypeInv, MapWrites
<1>3. IdleInv'
  BY <1>1, IdleFacts DEF IdleInv
<1>4. \A j \in DOMAIN pending' : Harmless(pending[j])'
  <2>1. SUFFICES ASSUME NEW j \in DOMAIN pending' PROVE Harmless(pending[j])'
    OBVIOUS
  <2>2. /\ pending'[j].at = MapSector /\ pending'[j].put.kind = "map"
        /\ freeMap' \subseteq pending'[j].put.bits
    BY <2>1 DEF MapWrites
  <2>3. \A s \in LinkedOn(disk) : SectorsOn(disk, s) \subseteq freeMap'
    BY DEF Held
  <2>. QED BY <2>2, <2>3 DEF Harmless
<1>. QED BY <1>1, <1>2, <1>3, <1>4, NoDirWrite

LEMMA CloseLast ==
  ASSUME IInv, NEW h \in Handle, NEW fail, Close(h, fail), ~(inodes[handle[h].at].openCnt > 1)
  PROVE  IInv'
<1>. USE DEF IInv
<1>1. PICK a : a = handle[h].at
  OBVIOUS
<1>2. PICK list : list = Allowed(handle[h])
  OBVIOUS
<1>3. PICK c : c = InodeClose(list, a, fail)
  OBVIOUS
<1>4. /\ Idle /\ handle[h] # None /\ disk' = disk /\ handle' = [handle EXCEPT ![h] = None]
      /\ inodes' = c.list /\ freeMap' = c.map /\ pending' = c.out
  BY <1>1, <1>2, <1>3 DEF Close
<1>5. a \in Address /\ inodes[a] \in Inode /\ inodes[a] # None /\ h \in FilesAt(a)
  BY <1>1, <1>4, OpenFacts
<1>6. PICK node : node = inodes[a]
  OBVIOUS
<1>7. /\ list[a].openCnt = node.openCnt /\ list[a].sector = node.sector /\ list[a].start = node.start
      /\ list[a].len = node.len /\ list[a].removed = node.removed
      /\ [list EXCEPT ![a] = None] = [inodes EXCEPT ![a] = None]
  BY <1>1, <1>2, <1>5, <1>6 DEF Allowed, TypeInv, Inode
<1>8. /\ node.sector \in Nat /\ ~(node.openCnt > 1) /\ freeMap \subseteq Sector
  BY <1>1, <1>5, <1>6 DEF Inode, Sector, TypeInv
<1>9. Closed(c, list, a, list[a])
  BY <1>3, <1>7, <1>8, LastClose
<1>10. FilesAt(a) = {h}
  <2>1. FilesAt(a) \in SUBSET Handle /\ node.openCnt = Cardinality(FilesAt(a))
    BY <1>5, <1>6 DEF FilesAt, OpenInv
  <2>. QED BY <1>5, <1>8, <2>1, Counts
<1>11. Gone(h, a)
  BY <1>4, <1>7, <1>9 DEF Closed, Gone, Becomes
<1>12. /\ OpenInv' /\ inodes' \in [Address -> Inode \cup {None}]
       /\ handle' \in [Handle -> File \cup {None}]
       /\ OpenSectors' = OpenSectors \ {node.sector}
  BY <1>1, <1>4, <1>6, <1>10, <1>11, LastFile
<1>13. /\ node.sector \in Held /\ SectorsOn(disk, node.sector) = {node.sector} \cup Extent(node.start, node.len)
       /\ SectorsOn(disk, node.sector) \cap Reserved = {}
  <2>1. node.sector \in Held /\ disk[node.sector] = DiskInode(node.start, node.len)
    BY <1>5, <1>6 DEF OpenInv, Held, OpenSectors
  <2>2. SectorsOn(disk, node.sector) \cap Reserved = {}
    BY <2>1 DEF HeldInv
  <2>3. SectorsOn(disk, node.sector) = {node.sector} \cup Extent(node.start, node.len)
    BY <2>1 DEF DiskInode, SectorsOn
  <2>. QED BY <2>1, <2>2, <2>3
<1>14. /\ MapWrites(pending', freeMap')
       /\ freeMap' = IF node.removed THEN freeMap \ SectorsOn(disk, node.sector) ELSE freeMap
  BY <1>4, <1>7, <1>9, <1>13 DEF Closed
<1>15. Held' \subseteq Held /\ (node.removed => node.sector \notin Held')
  <2>1. Held' = LinkedOn(disk) \cup (OpenSectors \ {node.sector})
    BY <1>4, <1>12 DEF Held
  <2>2. node.removed => node.sector \notin LinkedOn(disk)
    BY <1>4, <1>5, <1>6, IdleFacts, DirFacts DEF IdleInv, DirOK
  <2>. QED BY <2>1, <2>2 DEF Held
<1>16. \A s \in Held' : SectorsOn(disk, s) \subseteq freeMap'
  <2>1. SUFFICES ASSUME NEW s \in Held' PROVE SectorsOn(disk, s) \subseteq freeMap'
    OBVIOUS
  <2>2. s \in Held /\ SectorsOn(disk, s) \subseteq freeMap
    BY <1>4, <1>15, IdleFacts DEF IdleInv
  <2>3. CASE node.removed
    <3>1. s # node.sector
      BY <1>15, <2>3
    <3>2. SectorsOn(disk, s) \cap SectorsOn(disk, node.sector) = {}
      BY <1>13, <2>2, <3>1 DEF HeldInv
    <3>. QED BY <1>14, <2>2, <2>3, <3>2
  <2>. QED BY <1>14, <2>2, <2>3
<1>17. Reserved \subseteq freeMap' /\ freeMap' \subseteq freeMap
  BY <1>13, <1>14 DEF TypeInv
<1>18. \A b \in Address : inodes'[b] # None => inodes'[b] = inodes[b]
  BY <1>5, <1>11 DEF Gone, TypeInv
<1>19. OpenSectors' \subseteq Held
  BY <1>12 DEF Held
<1>. QED BY <1>4, <1>12, <1>14, <1>16, <1>17, <1>18, <1>19, Spared

LEMMA CloseIInv ==
  ASSUME IInv, NEW h \in Handle, NEW fail, Close(h, fail)
  PROVE  IInv'
BY CloseOneOfMany, CloseLast
-------------------------------------------------------------------------------
(* block_write of the first pending write.                                 *)

\* What a step of Flush does, w being that write.
Flushes(w) ==
  /\ w = pending[1] /\ w \in Writes /\ 1 \in DOMAIN pending
  /\ disk'[w.at] = w.put /\ \A s \in Sector \ {w.at} : disk'[s] = disk[s]
  /\ disk' \in [Sector -> Block] /\ pending' \in Seq(Writes)
  /\ Len(pending) \in Nat /\ Len(pending') = Len(pending) - 1
  /\ \A j \in DOMAIN pending' : j \in Nat \ {0} /\ j + 1 \in DOMAIN pending /\ pending'[j] = pending[j + 1]
  /\ \A j \in DOMAIN pending : j \in Nat /\ (j # 1 => j - 1 \in DOMAIN pending')
  /\ UNCHANGED <<freeMap, inodes, handle>>

LEMMA FlushFact ==
  ASSUME TypeInv, Flush
  PROVE  Flushes(pending[1])
<1>1. pending \in Seq(Writes) /\ pending # <<>> /\ disk \in [Sector -> Block]
  BY DEF TypeInv, Flush, Idle
<1>2. /\ Head(pending) = pending[1] /\ pending[1] \in Writes /\ Len(pending) \in Nat \ {0}
      /\ DOMAIN pending = 1..Len(pending)
  BY <1>1
<1>3. /\ pending' = Tail(pending) /\ disk' = [disk EXCEPT ![pending[1].at] = pending[1].put]
      /\ UNCHANGED <<freeMap, inodes, handle>>
  BY <1>2 DEF Flush
<1>4. /\ pending' \in Seq(Writes) /\ Len(pending') = Len(pending) - 1
      /\ DOMAIN pending' = 1..Len(pending) - 1
      /\ \A j \in 1..Len(pending) - 1 : pending'[j] = pending[j + 1]
  BY <1>1, <1>2, <1>3
<1>5. pending[1].at \in Sector /\ pending[1].put \in Block
  BY <1>2 DEF Writes
<1>6. /\ disk'[pending[1].at] = pending[1].put /\ disk' \in [Sector -> Block]
      /\ \A s \in Sector \ {pending[1].at} : disk'[s] = disk[s]
  BY <1>1, <1>3, <1>5
<1>. QED BY <1>2, <1>3, <1>4, <1>6 DEF Flushes

\* Where the rest of the writes go.
LEMMA Shift ==
  ASSUME NEW w, Flushes(w), NEW s
  PROVE  /\ \A j \in At(s)' : j \in Nat \ {0} /\ j + 1 \in At(s) /\ pending'[j] = pending[j + 1]
         /\ \A j \in At(s) : j \in Nat /\ (j # 1 => j - 1 \in At(s)')
         /\ 1 \in At(s) <=> s = w.at
<1>1. \A j \in At(s)' : j \in Nat \ {0} /\ j + 1 \in At(s) /\ pending'[j] = pending[j + 1]
  BY DEF Flushes, At
<1>2. \A j \in At(s) : j \in Nat /\ (j # 1 => j - 1 \in At(s)')
  <2>1. SUFFICES ASSUME NEW j \in At(s), j # 1 PROVE j - 1 \in At(s)'
    BY DEF Flushes, At
  <2>2. j \in Nat /\ j - 1 \in DOMAIN pending'
    BY <2>1 DEF Flushes, At
  <2>3. pending'[j - 1] = pending[j]
    <3>1. pending'[j - 1] = pending[(j - 1) + 1]
      BY <2>2 DEF Flushes
    <3>. QED BY <2>2, <3>1
  <2>. QED BY <2>2, <2>3 DEF At
<1>3. 1 \in At(s) <=> s = w.at
  BY DEF Flushes, At
<1>. QED BY <1>1, <1>2, <1>3

\* The files that are held are untouched.
Untouched ==
  \A s \in Held : /\ disk'[s] = disk[s] /\ SectorsOn(disk', s) = SectorsOn(disk, s)
                  /\ \A k \in Extent(disk[s].start, disk[s].len) : disk'[k].kind = "data"

LEMMA FlushSpares ==
  ASSUME HeldInv, NEW w, Flushes(w), NEW T, Spares(T, w)
  PROVE  Untouched
<1>1. SUFFICES ASSUME NEW s \in Held
      PROVE  /\ disk'[s] = disk[s]
             /\ \A k \in Extent(disk[s].start, disk[s].len) : disk'[k].kind = "data"
  BY DEF Untouched, SectorsOn
<1>2. /\ disk[s].kind = "inode" /\ SectorsOn(disk, s) \subseteq Sector \ Reserved
      /\ \A k \in Extent(disk[s].start, disk[s].len) : disk[k].kind = "data"
      /\ SectorsOn(disk, s) = {s} \cup Extent(disk[s].start, disk[s].len)
  BY SectorsOfInode DEF HeldInv
<1>3. w.put.kind \in {"map", "inode", "dir", "data"}
  BY DEF Flushes, Writes, Block
<1>4. CASE w.put.kind \in {"map", "dir", "inode"}
  <2>1. w.at \notin SectorsOn(disk, s)
    BY <1>2, <1>4, MapNotRoot DEF Spares
  <2>2. \A k \in SectorsOn(disk, s) : disk'[k] = disk[k]
    BY <1>2, <2>1 DEF Flushes
  <2>. QED BY <1>2, <2>2
<1>5. CASE w.put.kind = "data"
  <2>1. w.at # s
    BY <1>5 DEF Spares
  <2>2. \A k \in SectorsOn(disk, s) : disk'[k] = disk[k] \/ (k = w.at /\ disk'[k].kind = "data")
    BY <1>2, <1>5 DEF Flushes
  <2>. QED BY <1>2, <2>1, <2>2
<1>. QED BY <1>3, <1>4, <1>5

LEMMA FlushOpen ==
  ASSUME OpenInv, NEW w, Flushes(w), Untouched
  PROVE  OpenInv' /\ OpenSectors' = OpenSectors
<1>1. UNCHANGED <<inodes, handle>>
  BY DEF Flushes
<1>2. \A a : FilesAt(a)' = FilesAt(a) /\ Deniers(a)' = Deniers(a)
  BY <1>1 DEF FilesAt, Deniers
<1>3. \A a \in Address : inodes[a] # None => disk'[inodes[a].sector] = disk[inodes[a].sector]
  BY DEF Untouched, Held, OpenSectors
<1>4. OpenInv'
  BY <1>1, <1>2, <1>3 DEF OpenInv
<1>. QED BY <1>1, <1>4 DEF OpenSectors

LEMMA FlushGoes ==
  ASSUME NEW w, Flushes(w), Untouched, Held' \subseteq Held, NEW s, Goes(s)
  PROVE  Goes(s)'
<1>1. \A a : Deniers(a)' = Deniers(a)
  BY DEF Deniers, FilesAt, Flushes
<1>2. \A h : Written(h, s) => Written(h, s)'
  BY <1>1 DEF Written, Flushes
<1>. QED BY <1>2 DEF Goes, Untouched

LEMMA FlushHeld ==
  ASSUME HeldInv, Untouched, Held' \subseteq Held
  PROVE  HeldInv'
BY DEF HeldInv, Untouched

\* The rest of the writes of a new file come to the same.
LEMMA FlushNewFile ==
  ASSUME NEW w, Flushes(w), Untouched, Held' \subseteq Held, NEW s, NEW start, NEW len, NewFile(s, start, len),
         {s} \cup Extent(start, len) \subseteq Sector
  PROVE  NewFile(s, start, len)'
<1>1. freeMap' = freeMap
  BY DEF Flushes
<1>2. /\ s \notin Extent(start, len) /\ {s} \cup Extent(start, len) \subseteq freeMap \ Reserved
      /\ \A r \in Held : SectorsOn(disk, r) \cap ({s} \cup Extent(start, len)) = {}
  BY DEF NewFile
<1>3. \A r \in Held' : SectorsOn(disk', r) \cap ({s} \cup Extent(start, len)) = {}
  BY <1>2 DEF Untouched
<1>4. \A j \in At(s)' : pending'[j].put = DiskInode(start, len)
  BY Shift DEF NewFile
<1>5. disk'[s] = DiskInode(start, len) \/ At(s)' # {}
  <2>1. CASE s = w.at
    <3>1. 1 \in At(s) /\ disk'[s] = pending[1].put
      BY <2>1, Shift DEF Flushes
    <3>. QED BY <3>1 DEF NewFile
  <2>2. CASE s # w.at
    <3>1. disk'[s] = disk[s] /\ 1 \notin At(s)
      BY <2>2, Shift DEF Flushes
    <3>2. At(s) # {} => At(s)' # {}
      BY <3>1, Shift
    <3>. QED BY <3>1, <3>2 DEF NewFile
  <2>. QED BY <2>1, <2>2
<1>6. ASSUME NEW k \in Extent(start, len)
      PROVE  /\ disk'[k] = Bytes(Zero) \/ At(k)' # {}
             /\ \A j \in At(k)' : pending'[j].put = Bytes(Zero)
  <2>1. \A j \in At(k)' : pending'[j].put = Bytes(Zero)
    BY Shift DEF NewFile
  <2>2. CASE k = w.at
    <3>1. 1 \in At(k) /\ disk'[k] = pending[1].put
      BY <2>2, Shift DEF Flushes
    <3>. QED BY <2>1, <3>1 DEF NewFile
  <2>3. CASE k # w.at
    <3>1. disk'[k] = disk[k] /\ 1 \notin At(k)
      BY <2>3, Shift DEF Flushes
    <3>2. At(k) # {} => At(k)' # {}
      BY <3>1, Shift
    <3>. QED BY <2>1, <3>1, <3>2 DEF NewFile
  <2>. QED BY <2>2, <2>3
<1>7. At(MapSector)' = {} => {s} \cup Extent(start, len) \subseteq disk'[MapSector].bits
  <2>1. SUFFICES ASSUME At(MapSector)' = {}
        PROVE  {s} \cup Extent(start, len) \subseteq disk'[MapSector].bits
    OBVIOUS
  <2>2. \A j \in At(MapSector) : j = 1
    BY <2>1, Shift
  <2>3. CASE MapSector = w.at
    <3>1. 1 \in At(MapSector) /\ disk'[MapSector] = pending[1].put
      BY <2>3, Shift DEF Flushes
    <3>2. \A l \in At(MapSector) : l <= 1
      BY <2>2
    <3>. QED BY <3>1, <3>2 DEF NewFile
  <2>4. CASE MapSector # w.at
    <3>1. disk'[MapSector] = disk[MapSector] /\ 1 \notin At(MapSector)
      BY <2>4, Shift, Places DEF Flushes
    <3>. QED BY <2>2, <3>1 DEF NewFile
  <2>. QED BY <2>3, <2>4
<1>8. ASSUME NEW j \in At(MapSector)', \A l \in At(MapSector)' : l <= j
      PROVE  {s} \cup Extent(start, len) \subseteq pending'[j].put.bits
  <2>1. j \in Nat /\ j + 1 \in At(MapSector) /\ pending'[j] = pending[j + 1]
    BY <1>8, Shift
  <2>2. ASSUME NEW l \in At(MapSector) PROVE l <= j + 1
    <3>1. l \in Nat /\ (l # 1 => l - 1 \in At(MapSector)')
      BY Shift
    <3>. QED BY <1>8, <2>1, <3>1
  <2>. QED BY <2>1, <2>2 DEF NewFile
<1>. QED BY <1>1, <1>2, <1>3, <1>4, <1>5, <1>6, <1>7, <1>8 DEF NewFile

LEMMA FlushFile ==
  ASSUME TypeInv, OpenInv, HeldInv, DirInv, NEW w, Flushes(w), w.put.kind # "dir",
         NEW T \in Slots, CallInv(T)
  PROVE  IInv'
<1>1. 1 \in DOMAIN pending /\ Spares(T, w) /\ w.put.kind \in {"map", "inode", "data"}
  BY DEF Flushes, CallInv, Writes, Block
<1>2. w.at # RootSector /\ (w.at = MapSector <=> w.put.kind = "map")
  BY <1>1, MapNotRoot DEF Spares
<1>3. RootSector \in Sector /\ MapSector \in Sector
  BY Places DEF Reserved
<1>4. disk'[RootSector] = disk[RootSector] /\ LinkedOn(disk') = LinkedOn(disk) /\ Dir' = Dir
  BY <1>2, <1>3 DEF Flushes, LinkedOn, Dir
<1>5. UNCHANGED <<freeMap, inodes, handle>> /\ OpenSectors' = OpenSectors /\ Held' = Held
  BY <1>4 DEF Flushes, OpenSectors, Held
<1>6. Untouched
  BY <1>1, FlushSpares
<1>7. HeldInv' /\ OpenInv'
  BY <1>5, <1>6, FlushHeld, FlushOpen
<1>8. /\ disk'[MapSector].kind = "map" /\ Reserved \subseteq disk'[MapSector].bits
      /\ w.at # MapSector => disk'[MapSector] = disk[MapSector]
  <2>1. CASE w.at = MapSector
    BY <1>1, <1>2, <2>1 DEF Spares, Flushes
  <2>2. CASE w.at # MapSector
    BY <1>3, <2>2 DEF Flushes, TypeInv
  <2>. QED BY <2>1, <2>2
<1>9. TypeInv'
  BY <1>4, <1>5, <1>8 DEF Flushes, TypeInv
<1>10. \A i \in Slot : Dir[i].used => Dir[i].sector \in Held
  BY DirFacts DEF DirOK
<1>11. (At(RootSector) = {} /\ T = Dir) \/ Adds(T)
  <2>1. 1 \notin At(RootSector)
    BY <1>2, Shift
  <2>. QED BY <2>1 DEF CallInv, Erases
<1>12. \A i \in Slot : Dir[i].used => Stays(T, i)
  <2>1. CASE T = Dir
    BY <2>1 DEF Stays
  <2>2. CASE Adds(T)
    <3>1. PICK i \in Slot : ~Dir[i].used /\ T = [Dir EXCEPT ![i] = T[i]]
      BY <2>2 DEF Adds
    <3>2. \A j \in Slot \ {i} : T[j] = Dir[j]
      BY <3>1, DirFacts DEF DirOK, Slots
    <3>. QED BY <3>1, <3>2 DEF Stays
  <2>. QED BY <1>11, <2>1, <2>2
<1>13. DirInv'
  <2>1. \A s \in LinkedOn(disk) : SectorsOn(disk, s) \subseteq disk'[MapSector].bits
    <3>1. CASE w.at = MapSector
      <4>1. \A s \in LinkedOn(disk) : \E i \in Slot : Stays(T, i) /\ Dir[i].sector = s
        BY <1>12, DirFacts DEF DirOK
      <4>2. \A i \in Slot : Stays(T, i) => SectorsOn(disk, Dir[i].sector) \subseteq w.put.bits
        BY <1>1, <1>2, <3>1 DEF Spares
      <4>3. disk'[MapSector] = w.put
        BY <3>1 DEF Flushes
      <4>. QED BY <4>1, <4>2, <4>3
    <3>2. CASE w.at # MapSector
      BY <1>8, <3>2 DEF DirInv
    <3>. QED BY <3>1, <3>2
  <2>2. \A s \in LinkedOn(disk') : SectorsOn(disk', s) \subseteq disk'[MapSector].bits
    BY <1>4, <1>6, <2>1 DEF Untouched, Held
  <2>. QED BY <1>4, <2>2 DEF DirInv
<1>14. \A i \in Slot : Stays(T, i)' <=> Stays(T, i)
  BY <1>4 DEF Stays
<1>15. \A i \in Slot : Stays(T, i) => SectorsOn(disk', Dir[i].sector) = SectorsOn(disk, Dir[i].sector)
  BY <1>6, <1>10 DEF Untouched, Stays
<1>16. ASSUME NEW j \in DOMAIN pending' PROVE Spares(T, pending[j])'
  <2>1. PICK v : v = pending[j + 1]
    OBVIOUS
  <2>2. Spares(T, v) /\ pending'[j] = v
    BY <2>1 DEF Flushes, CallInv
  <2>3. Spares(T, v)'
    BY <1>4, <1>5, <1>6, <1>14, <1>15, <2>2, FlushGoes DEF Spares, Untouched
  <2>. QED BY <2>2, <2>3 DEF Spares
<1>17. (At(RootSector)' = {} /\ T = Dir') \/ Adds(T)'
  <2>1. CASE At(RootSector) = {} /\ T = Dir
    BY <1>4, <2>1, Shift
  <2>2. CASE Adds(T)
    <3>1. /\ At(RootSector) = {Len(pending)} /\ pending[Len(pending)].put.slots = T
          /\ Len(pending) # 1
      BY <1>2, <2>2, Shift DEF Adds
    <3>2. PICK l : l = Len(pending) - 1
      OBVIOUS
    <3>3. l \in Nat /\ l + 1 = Len(pending) /\ Len(pending') = l
      BY <3>2 DEF Flushes
    <3>4. At(RootSector)' = {l} /\ pending'[l] = pending[l + 1]
      <4>1. l \in At(RootSector)'
        BY <3>1, <3>3, Shift
      <4>2. \A j \in At(RootSector)' : j = l
        BY <3>1, <3>3, Shift
      <4>. QED BY <4>1, <4>2, Shift
    <3>5. PICK i \in Slot :
       /\ ~Dir[i].used /\ T = [Dir EXCEPT ![i] = T[i]] /\ T[i].used /\ T[i].name \in Name
       /\ \A j \in Slot : Dir[j].used => Dir[j].name # T[i].name
       /\ \E start \in Nat, len \in 0..MaxLen : NewFile(T[i].sector, start, len)
      BY <2>2 DEF Adds
    <3>6. PICK start \in Nat, len \in 0..MaxLen : NewFile(T[i].sector, start, len)
      BY <3>5
    <3>7. {T[i].sector} \cup Extent(start, len) \subseteq Sector
      BY <3>6 DEF NewFile, TypeInv
    <3>8. NewFile(T[i].sector, start, len)'
      BY <1>5, <1>6, <3>6, <3>7, FlushNewFile
    <3>. QED BY <1>4, <3>1, <3>3, <3>4, <3>5, <3>8 DEF Adds
  <2>. QED BY <1>11, <2>1, <2>2
<1>18. CallInv(T)'
  <2>1. \A i \in Slot : Stays(T, i)' => SectorsOn(disk', Dir'[i].sector) \subseteq freeMap'
    BY <1>4, <1>5, <1>14, <1>15 DEF CallInv
  <2>2. \A s \in OpenSectors' : SectorsOn(disk', s) \subseteq freeMap'
    BY <1>5, <1>6 DEF CallInv, Untouched, Held
  <2>3. \A a \in Address, i \in Slot :
         inodes'[a] # None /\ inodes'[a].removed /\ T[i].used => T[i].sector # inodes'[a].sector
    BY <1>5 DEF CallInv
  <2>. QED BY <1>16, <1>17, <2>1, <2>2, <2>3 DEF CallInv
<1>. QED BY <1>7, <1>9, <1>13, <1>18 DEF IInv

\* The directory's own write takes a name away, or adds one last of all.
LEMMA FlushDirectory ==
  ASSUME TypeInv, OpenInv, HeldInv, DirInv, NEW w, Flushes(w), w.put.kind = "dir",
         NEW T \in Slots, CallInv(T)
  PROVE  IInv'
<1>1. 1 \in DOMAIN pending /\ w = pending[1] /\ Spares(T, w)
  BY DEF Flushes, CallInv
<1>2. w.at = RootSector /\ 1 \in At(RootSector)
  BY <1>1 DEF Spares, At
<1>3. RootSector \in Sector /\ MapSector \in Sector
  BY Places DEF Reserved
<1>4. UNCHANGED <<freeMap, inodes, handle>> /\ OpenSectors' = OpenSectors
  BY DEF Flushes, OpenSectors
<1>5. Untouched
  BY <1>1, FlushSpares
<1>6. Erases(T) \/ Adds(T)
  BY <1>2 DEF CallInv
<1>7. w.put.slots = T /\ \A j \in At(RootSector) : j = 1
  BY <1>1, <1>2, <1>6 DEF Erases, Adds
<1>8. Dir' = T /\ disk'[RootSector].kind = "dir" /\ disk'[MapSector] = disk[MapSector]
  BY <1>2, <1>3, <1>7, MapNotRoot DEF Flushes, Dir
<1>9. TypeInv'
  BY <1>4, <1>8 DEF Flushes, TypeInv
<1>10. At(RootSector)' = {}
  BY <1>7, Shift
<1>11. LinkedOn(disk') = {T[i].sector : i \in {j \in Slot : T[j].used}}
  BY <1>8 DEF LinkedOn, Dir
<1>12. DirOK
  BY DirFacts
<1>13. CASE Erases(T)
  <2>1. \A i \in Slot : T[i].used => T[i] = Dir[i]
    <3>1. PICK i \in Slot : T = [Dir EXCEPT ![i] = FreeEntry]
      BY <1>13 DEF Erases
    <3>. QED BY <1>12, <3>1 DEF DirOK, Slots, FreeEntry
  <2>2. LinkedOn(disk') \subseteq LinkedOn(disk) /\ Held' \subseteq Held
    BY <1>4, <1>11, <1>12, <2>1 DEF DirOK, Held
  <2>3. HeldInv' /\ OpenInv'
    BY <1>5, <2>2, FlushHeld, FlushOpen
  <2>4. DirInv'
    <3>1. \A s \in LinkedOn(disk') : SectorsOn(disk', s) \subseteq disk'[MapSector].bits
      BY <1>5, <1>8, <2>2 DEF DirInv, Untouched, Held
    <3>. QED BY <1>8, <2>1, <3>1 DEF DirInv
  <2>5. \A i \in Slot : Stays(T, i)' => Stays(T, i) /\ Dir'[i] = Dir[i] /\ Dir[i].sector \in Held
    BY <1>8, <1>12, <2>1 DEF Stays, DirOK
  <2>6. \A i \in Slot : Stays(T, i)' => SectorsOn(disk', Dir'[i].sector) = SectorsOn(disk, Dir[i].sector)
    BY <1>5, <2>5 DEF Untouched
  <2>7. ASSUME NEW j \in DOMAIN pending' PROVE Spares(T, pending[j])'
    <3>1. PICK v : v = pending[j + 1]
      OBVIOUS
    <3>2. Spares(T, v) /\ pending'[j] = v
      BY <3>1 DEF Flushes, CallInv
    <3>3. Spares(T, v)'
      BY <1>5, <2>2, <2>5, <2>6, <3>2, FlushGoes DEF Spares, Untouched
    <3>. QED BY <3>2, <3>3 DEF Spares
  <2>8. CallInv(T)'
    <3>1. \A i \in Slot : Stays(T, i)' => SectorsOn(disk', Dir'[i].sector) \subseteq freeMap'
      BY <1>4, <2>5, <2>6 DEF CallInv
    <3>2. \A s \in OpenSectors' : SectorsOn(disk', s) \subseteq freeMap'
      BY <1>4, <1>5 DEF CallInv, Untouched, Held
    <3>3. \A a \in Address, i \in Slot :
            inodes'[a] # None /\ inodes'[a].removed /\ T[i].used => T[i].sector # inodes'[a].sector
      BY <1>4 DEF CallInv
    <3>. QED BY <1>8, <1>10, <2>7, <3>1, <3>2, <3>3 DEF CallInv
  <2>. QED BY <1>9, <2>3, <2>4, <2>8 DEF IInv
<1>14. CASE Adds(T)
  <2>1. PICK i \in Slot :
       /\ ~Dir[i].used /\ T = [Dir EXCEPT ![i] = T[i]] /\ T[i].used /\ T[i].name \in Name
       /\ \A j \in Slot : Dir[j].used => Dir[j].name # T[i].name
       /\ \E start \in Nat, len \in 0..MaxLen : NewFile(T[i].sector, start, len)
    BY <1>14 DEF Adds
  <2>2. PICK start \in Nat, len \in 0..MaxLen : NewFile(T[i].sector, start, len)
    BY <2>1
  <2>3. PICK s : s = T[i].sector
    OBVIOUS
  <2>. DEFINE new == {s} \cup Extent(start, len)
  <2>4. pending' = <<>> /\ DOMAIN pending = {1}
    <3>1. Len(pending) = 1
      BY <1>2, <1>14 DEF Adds
    <3>. QED BY <3>1 DEF Flushes
  <2>5. /\ s \notin Extent(start, len) /\ new \subseteq freeMap \ Reserved
        /\ \A r \in Held : SectorsOn(disk, r) \cap new = {}
    BY <2>2, <2>3 DEF NewFile
  <2>6. \A r \in new : r \in Sector /\ r # RootSector /\ At(r) = {} /\ disk'[r] = disk[r]
    <3>1. new \subseteq Sector /\ RootSector \notin new
      BY <2>5 DEF TypeInv, Reserved
    <3>. QED BY <1>1, <1>2, <2>4, <3>1 DEF At, Flushes
  <2>7. disk'[s] = DiskInode(start, len) /\ \A k \in Extent(start, len) : disk'[k].kind = "data"
    BY <2>2, <2>3, <2>6 DEF NewFile, Bytes
  <2>8. SectorsOn(disk', s) = new /\ new \subseteq disk'[MapSector].bits
    <3>1. At(MapSector) = {}
      BY <1>1, <1>2, <2>4, MapNotRoot DEF At
    <3>. QED BY <1>8, <2>2, <2>3, <2>7, <3>1 DEF NewFile, SectorsOn, DiskInode
  <2>9. \A j \in Slot \ {i} : T[j] = Dir[j]
    BY <1>12, <2>1 DEF DirOK, Slots
  <2>10. LinkedOn(disk') = LinkedOn(disk) \cup {s} /\ Held' = Held \cup {s}
    BY <1>4, <1>11, <1>12, <2>1, <2>3, <2>9 DEF DirOK, Held
  <2>. HIDE DEF new
  <2>11. \A r \in Held : /\ SectorsOn(disk', r) = SectorsOn(disk, r) /\ disk'[r] = disk[r]
                         /\ SectorsOn(disk', r) \cap new = {}
    BY <1>5, <2>5 DEF Untouched
  <2>12. HeldInv'
    <3>1. \A r \in Held' :
            /\ disk'[r].kind = "inode" /\ SectorsOn(disk', r) \subseteq Sector \ Reserved
            /\ \A k \in Extent(disk'[r].start, disk'[r].len) : disk'[k].kind = "data"
      <4>1. SUFFICES ASSUME NEW r \in Held'
            PROVE  /\ disk'[r].kind = "inode" /\ SectorsOn(disk', r) \subseteq Sector \ Reserved
                   /\ \A k \in Extent(disk'[r].start, disk'[r].len) : disk'[k].kind = "data"
        OBVIOUS
      <4>2. CASE r \in Held
        BY <1>5, <2>11, <4>2 DEF HeldInv, Untouched
      <4>3. CASE r = s
        BY <2>5, <2>6, <2>7, <2>8, <4>3 DEF DiskInode
      <4>. QED BY <2>10, <4>2, <4>3
    <3>2. \A r, q \in Held' : r # q => SectorsOn(disk', r) \cap SectorsOn(disk', q) = {}
      <4>1. \A r, q \in Held : r # q => SectorsOn(disk', r) \cap SectorsOn(disk', q) = {}
        BY <2>11 DEF HeldInv
      <4>. QED BY <2>8, <2>10, <2>11, <4>1
    <3>. QED BY <3>1, <3>2 DEF HeldInv
  <2>13. s \notin Held
    <3>1. s \in new /\ \A r \in Held : r \in SectorsOn(disk, r)
      BY <2>8 DEF SectorsOn
    <3>. QED BY <2>5, <3>1
  <2>14. DirInv'
    <3>1. \A j, k \in Slot : j # k /\ T[j].used /\ T[k].used => T[j].name # T[k].name /\ T[j].sector # T[k].sector
      <4>1. \A j \in Slot \ {i} : T[j].used => T[j].name # T[i].name /\ T[j].sector # T[i].sector
        BY <1>12, <2>1, <2>3, <2>9, <2>13 DEF DirOK
      <4>. QED BY <2>9, <4>1 DEF DirInv
    <3>2. \A r \in LinkedOn(disk') : SectorsOn(disk', r) \subseteq disk'[MapSector].bits
      BY <1>8, <2>8, <2>10, <2>11 DEF DirInv, Held
    <3>3. \A j \in Slot : T[j].used => T[j].name \in Name
      BY <2>1, <2>9 DEF DirInv
    <3>. QED BY <1>8, <3>1, <3>2, <3>3 DEF DirInv
  <2>15. IdleInv'
    <3>1. \A j \in Slot : Dir[j].used => Stays(T, j)
      BY <2>1, <2>9 DEF Stays
    <3>2. \A r \in Held : SectorsOn(disk, r) \subseteq freeMap
      BY <1>12, <3>1 DEF DirOK, CallInv, Held
    <3>3. \A r \in Held' : SectorsOn(disk', r) \subseteq freeMap'
      BY <1>4, <2>5, <2>8, <2>10, <2>11, <3>2
    <3>. QED BY <1>4, <1>8, <3>3 DEF IdleInv, CallInv
  <2>16. OpenInv'
    BY <1>5, FlushOpen
  <2>17. DOMAIN pending' = {}
    BY <2>4
  <2>. QED BY <1>9, <2>12, <2>14, <2>15, <2>16, <2>17, NoDirWrite
<1>. QED BY <1>6, <1>13, <1>14

LEMMA FlushIInv ==
  ASSUME IInv, Flush
  PROVE  IInv'
<1>1. PICK w : w = pending[1]
  OBVIOUS
<1>2. Flushes(w)
  BY <1>1, FlushFact DEF IInv
<1>3. PICK T \in Slots : CallInv(T)
  BY DEF IInv
<1>. QED BY <1>2, <1>3, FlushFile, FlushDirectory DEF IInv
-------------------------------------------------------------------------------
(* filesys_remove.                                                         *)

LEMMA PrependFact ==
  ASSUME NEW x, x \in Writes, NEW out, out \in Seq(Writes), NEW q, q = <<x>> \o out
  PROVE  /\ q \in Seq(Writes) /\ q[1] = x /\ 1 \in DOMAIN q
         /\ \A j \in DOMAIN q : j = 1 \/ (\E k \in DOMAIN out : q[j] = out[k])
<1>1. /\ q \in Seq(Writes) /\ Len(q) = 1 + Len(out) /\ Len(out) \in Nat /\ q[1] = x
      /\ \A j \in 1..1 + Len(out) : j > 1 => q[j] = out[j - 1] /\ j - 1 \in 1..Len(out)
  BY DEF Writes
<1>. QED BY <1>1

LEMMA EraseEntry ==
  ASSUME TypeInv, NEW i \in Slot
  PROVE  /\ [Dir EXCEPT ![i] = FreeEntry] \in Slots
         /\ PutEntry(i, FreeEntry) \in Writes
<1>1. FreeEntry \in [used : BOOLEAN, name : Name \cup {None}, sector : Sector]
  BY FileSysAssumption DEF FreeEntry, Sector
<1>2. [Dir EXCEPT ![i] = FreeEntry] \in Slots
  BY <1>1, DirFacts DEF DirOK, Slots
<1>3. RootSector \in Sector
  BY Places DEF Reserved
<1>. QED BY <1>2, <1>3 DEF PutEntry, BlockWrite, Directory, Writes, Block

\* The entry of slot i goes first; what it led to is given back, or kept for its files.
Removes(i, out) ==
  /\ pending' = <<PutEntry(i, FreeEntry)>> \o out /\ MapWrites(out, freeMap')
  /\ UNCHANGED <<disk, handle>>

LEMMA Removed ==
  ASSUME IInv, Idle, NEW i \in Slot, NEW out, Removes(i, out), freeMap' \subseteq freeMap,
         Reserved \subseteq freeMap', OpenInv', inodes' \in [Address -> Inode \cup {None}],
         OpenSectors' \subseteq OpenSectors,
         \A s \in OpenSectors' \cup (LinkedOn(disk) \ {Dir[i].sector}) : SectorsOn(disk, s) \subseteq freeMap',
         Dir[i].used, \A a \in Address, j \in Slot \ {i} :
           inodes'[a] # None /\ inodes'[a].removed /\ Dir[j].used => Dir[j].sector # inodes'[a].sector
  PROVE  IInv'
<1>. USE DEF IInv
<1>1. PICK T \in Slots : T = [Dir EXCEPT ![i] = FreeEntry]
  BY EraseEntry
<1>2. PICK w \in Writes : w = PutEntry(i, FreeEntry)
  BY EraseEntry
<1>3. w.at = RootSector /\ w.put.kind = "dir" /\ w.put.slots = T
  BY <1>1, <1>2 DEF PutEntry, BlockWrite, Directory
<1>4. disk' = disk /\ handle' = handle /\ pending' = <<w>> \o out /\ out \in Seq(Writes)
  BY <1>2 DEF Removes, MapWrites
<1>5. /\ pending' \in Seq(Writes) /\ pending'[1] = w /\ 1 \in DOMAIN pending'
      /\ \A j \in DOMAIN pending' : j = 1 \/ (\E k \in DOMAIN out : pending'[j] = out[k])
  BY <1>4, PrependFact
<1>6. HeldInv' /\ DirInv' /\ Held' \subseteq Held /\ Dir' = Dir
  <2>1. OpenSectors' \subseteq Held
    BY DEF Held
  <2>. QED BY <1>4, <2>1, DiskKept
<1>7. TypeInv'
  BY <1>4, <1>5 DEF TypeInv
<1>8. DirOK /\ (\A j \in Slot \ {i} : T[j] = Dir[j]) /\ ~T[i].used
  BY <1>1, DirFacts DEF DirOK, Slots, FreeEntry
<1>9. \A j \in Slot : Stays(T, j)' => /\ Dir[j].sector \in LinkedOn(disk) \ {Dir[i].sector}
                                      /\ SectorsOn(disk, Dir[j].sector) \subseteq freeMap'
  BY <1>6, <1>8 DEF Stays, DirOK, DirInv
<1>10. At(RootSector)' = {1}
  <2>1. \A j \in DOMAIN pending' : j # 1 => pending'[j].at # RootSector
    BY <1>5, MapNotRoot DEF Removes, MapWrites
  <2>. QED BY <1>3, <1>5, <2>1 DEF At
<1>11. Erases(T)'
  BY <1>1, <1>3, <1>5, <1>6, <1>10 DEF Erases
<1>12. ASSUME NEW j \in DOMAIN pending' PROVE Spares(T, pending[j])'
  <2>1. CASE j = 1
    BY <1>3, <1>5, <2>1 DEF Spares
  <2>2. CASE j # 1
    <3>1. /\ pending'[j].at = MapSector /\ pending'[j].put.kind = "map"
          /\ freeMap' \subseteq pending'[j].put.bits
      BY <1>5, <1>12, <2>2 DEF Removes, MapWrites
    <3>. QED BY <1>4, <1>6, <1>9, <3>1 DEF Spares
  <2>. QED BY <2>1, <2>2
<1>13. CallInv(T)'
  <2>1. \A s \in OpenSectors' : SectorsOn(disk', s) \subseteq freeMap'
    BY <1>4
  <2>2. \A a \in Address, j \in Slot :
          inodes'[a] # None /\ inodes'[a].removed /\ T[j].used => T[j].sector # inodes'[a].sector
    BY <1>8
  <2>. QED BY <1>4, <1>6, <1>9, <1>11, <1>12, <2>1, <2>2 DEF CallInv
<1>. QED BY <1>6, <1>7, <1>13

LEMMA RemoveOpen ==
  ASSUME IInv, Idle, NEW i \in Slot, Dir[i].used, NEW a \in Address, inodes[a] # None,
         inodes[a].sector = Dir[i].sector, inodes' = [inodes EXCEPT ![a].removed = TRUE],
         Removes(i, <<>>), freeMap' = freeMap
  PROVE  IInv'
<1>. USE DEF IInv
<1>1. PICK node : node = [inodes[a] EXCEPT !.removed = TRUE]
  OBVIOUS
<1>2. inodes[a] \in Inode
  BY DEF TypeInv
<1>3. /\ node \in Inode /\ node.openCnt = inodes[a].openCnt /\ node.denyCnt = inodes[a].denyCnt
      /\ node.sector = inodes[a].sector /\ node.start = inodes[a].start /\ node.len = inodes[a].len
      /\ InodeBecomes(a, node)
  BY <1>1, <1>2 DEF Inode, InodeBecomes
<1>4. disk' = disk /\ handle' = handle
  BY DEF Removes
<1>5. PICK h \in Handle : handle[h] # None /\ handle[h].at = a
  BY DEF OpenInv, FilesAt
<1>6. Becomes(h, handle[h])
  BY <1>4, <1>5 DEF Becomes, TypeInv
<1>7. FilesAt(a)' = FilesAt(a) /\ Deniers(a)' = Deniers(a)
  BY <1>4 DEF FilesAt, Deniers
<1>8. Right(node, FilesAt(a)', Deniers(a)') /\ Alone(a, node)
  BY <1>3, <1>7 DEF Right, Alone, OpenInv
<1>9. PICK f : f = handle[h]
  OBVIOUS
<1>10. /\ OpenInv' /\ inodes' \in [Address -> Inode \cup {None}]
       /\ OpenSectors' \subseteq OpenSectors \cup {node.sector}
  BY <1>3, <1>4, <1>5, <1>6, <1>8, <1>9, OneInode
<1>11. OpenSectors' \subseteq OpenSectors
  BY <1>3, <1>10 DEF OpenSectors
<1>12. \A s \in OpenSectors' \cup (LinkedOn(disk) \ {Dir[i].sector}) : SectorsOn(disk, s) \subseteq freeMap'
  BY <1>11, IdleFacts DEF IdleInv, Held
<1>13. \A b \in Address, j \in Slot \ {i} :
         inodes'[b] # None /\ inodes'[b].removed /\ Dir[j].used => Dir[j].sector # inodes'[b].sector
  <2>1. SUFFICES ASSUME NEW b \in Address, NEW j \in Slot \ {i}, inodes'[b] # None, inodes'[b].removed,
                        Dir[j].used
        PROVE  Dir[j].sector # inodes'[b].sector
    OBVIOUS
  <2>2. CASE b = a
    BY <1>3, <2>1, <2>2 DEF DirInv, InodeBecomes, TypeInv
  <2>3. CASE b # a
    <3>1. inodes'[b] = inodes[b]
      BY <2>3 DEF TypeInv
    <3>. QED BY <2>1, <3>1, IdleFacts DEF IdleInv
  <2>. QED BY <2>2, <2>3
<1>14. Reserved \subseteq freeMap' /\ freeMap' \subseteq freeMap
  BY DEF TypeInv
<1>. QED BY <1>10, <1>11, <1>12, <1>13, <1>14, Removed

LEMMA RemoveClosed ==
  ASSUME IInv, Idle, NEW i \in Slot, Dir[i].used, Dir[i].sector \notin OpenSectors, inodes' = inodes,
         NEW out, Removes(i, out), freeMap' = freeMap \ SectorsOn(disk, Dir[i].sector)
  PROVE  IInv'
<1>. USE DEF IInv
<1>1. disk' = disk /\ handle' = handle
  BY DEF Removes
<1>2. OpenInv' /\ OpenSectors' = OpenSectors
  BY <1>1, OpenKept
<1>3. Dir[i].sector \in Held
  BY DirFacts DEF DirOK
<1>4. \A s \in OpenSectors \cup (LinkedOn(disk) \ {Dir[i].sector}) : SectorsOn(disk, s) \subseteq freeMap'
  <2>1. SUFFICES ASSUME NEW s \in OpenSectors \cup (LinkedOn(disk) \ {Dir[i].sector})
        PROVE  SectorsOn(disk, s) \subseteq freeMap'
    OBVIOUS
  <2>2. s \in Held /\ s # Dir[i].sector
    BY DEF Held
  <2>3. SectorsOn(disk, s) \cap SectorsOn(disk, Dir[i].sector) = {}
    BY <1>3, <2>2 DEF HeldInv
  <2>4. SectorsOn(disk, s) \subseteq freeMap
    BY <2>2, IdleFacts DEF IdleInv
  <2>. QED BY <2>3, <2>4
<1>5. SectorsOn(disk, Dir[i].sector) \cap Reserved = {}
  BY <1>3 DEF HeldInv
<1>6. Reserved \subseteq freeMap' /\ freeMap' \subseteq freeMap
  BY <1>5 DEF TypeInv
<1>7. inodes' \in [Address -> Inode \cup {None}]
  BY DEF TypeInv
<1>8. \A a \in Address, j \in Slot \ {i} :
        inodes'[a] # None /\ inodes'[a].removed /\ Dir[j].used => Dir[j].sector # inodes'[a].sector
  BY IdleFacts DEF IdleInv
<1>. QED BY <1>2, <1>4, <1>6, <1>7, <1>8, Removed

LEMMA RemoveIInv ==
  ASSUME IInv, NEW n, NEW fail, NEW seen \in 0..Entries, Remove(n, fail, seen)
  PROVE  IInv'
<1>. USE DEF IInv
<1>1. PICK i : i = Sets!Min(Found(n, seen))
  OBVIOUS
<1>2. PICK s : s = Dir[i].sector
  OBVIOUS
<1>3. PICK o : o = InodeOpen(s)
  OBVIOUS
<1>4. PICK list : list = [o.list EXCEPT ![o.at].removed = TRUE]
  OBVIOUS
<1>5. PICK c : c = InodeClose(list, o.at, fail)
  OBVIOUS
<1>6. /\ Idle /\ Found(n, seen) # {} /\ inodes' = c.list /\ freeMap' = c.map
      /\ pending' = <<PutEntry(i, FreeEntry)>> \o c.out /\ UNCHANGED <<disk, handle>>
  BY <1>1, <1>2, <1>3, <1>4, <1>5 DEF Remove
<1>7. i \in Slot /\ Dir[i].used /\ s \in Held /\ s \in LinkedOn(disk)
  BY <1>1, <1>2, <1>6, FoundFact
<1>8. CASE \E a \in Address :
             /\ inodes[a] # None /\ inodes[a].sector = s
             /\ InodeOpen(s) = [at |-> a, list |-> [inodes EXCEPT ![a].openCnt = @ + 1]]
  <2>1. PICK a \in Address :
             /\ inodes[a] # None /\ inodes[a].sector = s
             /\ InodeOpen(s) = [at |-> a, list |-> [inodes EXCEPT ![a].openCnt = @ + 1]]
    BY <1>8
  <2>2. PICK node : node = inodes[a]
    OBVIOUS
  <2>3. PICK one : one = [node EXCEPT !.openCnt = @ + 1]
    OBVIOUS
  <2>13. PICK more : more = [one EXCEPT !.removed = TRUE]
    OBVIOUS
  <2>4. PICK gone : gone = [node EXCEPT !.removed = TRUE]
    OBVIOUS
  <2>5. inodes \in [Address -> Inode \cup {None}] /\ node \in Inode /\ node.openCnt > 0
    <3>1. node.openCnt = Cardinality(FilesAt(a)) /\ FilesAt(a) # {} /\ FilesAt(a) \in SUBSET Handle
      BY <2>1, <2>2 DEF OpenInv, FilesAt
    <3>2. PICK h \in Handle : TRUE
      BY <3>1
    <3>. QED BY <2>1, <2>2, <3>1, <3>2, Counts DEF TypeInv
  <2>14. /\ one \in Inode /\ one.openCnt = node.openCnt + 1 /\ one.denyCnt = node.denyCnt
         /\ one.sector = node.sector /\ one.start = node.start /\ one.len = node.len
    BY <2>3, <2>5 DEF Inode
  <2>6. /\ more \in Inode /\ more.openCnt = node.openCnt + 1 /\ more.removed = TRUE
        /\ more.denyCnt = node.denyCnt
        /\ more.sector = node.sector /\ more.start = node.start /\ more.len = node.len
    BY <2>5, <2>13, <2>14 DEF Inode
  <2>16. node.openCnt \in Nat /\ more.openCnt > 1
    <3>1. node.openCnt \in Nat
      BY <2>5 DEF Inode
    <3>. QED BY <2>5, <2>6, <3>1
  <2>15. /\ gone \in Inode /\ gone.openCnt = node.openCnt /\ gone.removed = TRUE
         /\ gone.denyCnt = node.denyCnt
         /\ gone.sector = node.sector /\ gone.start = node.start /\ gone.len = node.len
    BY <2>4, <2>5 DEF Inode
  <2>7. [more EXCEPT !.openCnt = @ - 1] = gone
    <3>1. node.openCnt \in Nat
      BY <2>16
    <3>2. PICK less : less = [more EXCEPT !.openCnt = @ - 1]
      OBVIOUS
    <3>3. /\ less \in Inode /\ less.openCnt = node.openCnt /\ less.removed = TRUE
          /\ less.denyCnt = node.denyCnt
          /\ less.sector = node.sector /\ less.start = node.start /\ less.len = node.len
      BY <2>6, <3>1, <3>2 DEF Inode
    <3>4. less = gone
      BY <2>15, <3>3 DEF Inode
    <3>. QED BY <3>2, <3>4
  <2>8. o.at = a /\ list = [inodes EXCEPT ![a] = more]
    <3>1. o.at = a /\ o.list = [inodes EXCEPT ![a].openCnt = @ + 1]
      BY <1>3, <2>1
    <3>2. o.list = [inodes EXCEPT ![a] = one]
      BY <2>2, <2>3, <3>1
    <3>3. o.list \in [Address -> Inode \cup {None}] /\ o.list[a] = one
      BY <2>5, <2>14, <3>2
    <3>4. list = [o.list EXCEPT ![a] = more]
      BY <1>4, <2>13, <3>1, <3>3
    <3>. QED BY <2>5, <3>1, <3>2, <3>4
  <2>9. list[a] = more /\ list \in [Address -> Inode \cup {None}]
    BY <2>5, <2>6, <2>8
  <2>10. c.list = [list EXCEPT ![a] = gone] /\ c.map = freeMap /\ c.out = <<>>
    BY <1>5, <2>7, <2>8, <2>9, <2>16 DEF InodeClose
  <2>11. inodes' = [inodes EXCEPT ![a].removed = TRUE]
    BY <1>6, <2>2, <2>4, <2>5, <2>8, <2>10
  <2>12. Removes(i, <<>>) /\ freeMap' = freeMap
    BY <1>6, <2>10, NoMapWrite DEF Removes
  <2>. QED BY <1>2, <1>6, <1>7, <2>1, <2>11, <2>12, RemoveOpen
<1>9. CASE \E a \in Address :
              /\ inodes[a] = None /\ s \notin OpenSectors /\ NewInode(s) \in Inode
              /\ InodeOpen(s) = [at |-> a, list |-> [inodes EXCEPT ![a] = NewInode(s)]]
  <2>1. PICK a \in Address :
              /\ inodes[a] = None /\ s \notin OpenSectors /\ NewInode(s) \in Inode
              /\ InodeOpen(s) = [at |-> a, list |-> [inodes EXCEPT ![a] = NewInode(s)]]
    BY <1>9
  <2>2. PICK node : node = [NewInode(s) EXCEPT !.removed = TRUE]
    OBVIOUS
  <2>3. /\ node.sector = s /\ node.openCnt = 1 /\ node.removed
        /\ node.start = disk[s].start /\ node.len = disk[s].len
    BY <2>2 DEF NewInode
  <2>4. inodes \in [Address -> Inode \cup {None}] /\ freeMap \in SUBSET Sector
    BY DEF TypeInv
  <2>5. o.at = a /\ list = [inodes EXCEPT ![a] = node]
    <3>1. o.at = a /\ o.list = [inodes EXCEPT ![a] = NewInode(s)]
      BY <1>3, <2>1
    <3>2. o.list \in [Address -> Inode \cup {None}] /\ o.list[a] = NewInode(s)
      BY <2>1, <2>4, <3>1
    <3>3. list = [o.list EXCEPT ![a] = node]
      BY <1>4, <2>2, <3>1, <3>2
    <3>. QED BY <2>4, <3>1, <3>3
  <2>6. list[a] = node
    BY <2>4, <2>5
  <2>7. s \in Nat
    BY <1>7, DirFacts, FileSysAssumption DEF DirOK, Sector
  <2>8. Closed(c, list, a, node)
    <3>1. freeMap \subseteq Sector /\ list[a].sector \in Nat /\ ~(list[a].openCnt > 1)
      BY <2>3, <2>4, <2>6, <2>7
    <3>2. Closed(InodeClose(list, a, fail), list, a, list[a])
      BY <3>1, LastClose
    <3>. QED BY <1>5, <2>5, <2>6, <3>2
  <2>9. inodes' = inodes
    BY <1>6, <2>1, <2>4, <2>5, <2>8 DEF Closed
  <2>10. SectorsOn(disk, s) = {s} \cup Extent(node.start, node.len)
    BY <1>7, <2>3, SectorsOfInode DEF HeldInv
  <2>11. freeMap' = freeMap \ SectorsOn(disk, s) /\ Removes(i, c.out)
    BY <1>6, <2>3, <2>8, <2>10 DEF Closed, Removes
  <2>. QED BY <1>2, <1>6, <1>7, <2>1, <2>9, <2>11, RemoveClosed
<1>. QED BY <1>7, <1>8, <1>9, InodeOpened
-------------------------------------------------------------------------------
(* filesys_create.                                                         *)

AllHarmless(out) == out \in Seq(Writes) /\ \A j \in DOMAIN out : Harmless(out[j])

LEMMA AllHarmlessConcat ==
  ASSUME NEW p, NEW q, AllHarmless(p), AllHarmless(q)
  PROVE  AllHarmless(p \o q)
<1>1. p \in Seq(Writes) /\ q \in Seq(Writes)
  BY DEF AllHarmless
<1>2. p \o q \in Seq(Writes) /\ Len(p \o q) = Len(p) + Len(q)
  BY <1>1
<1>3. SUFFICES ASSUME NEW j \in 1..Len(p) + Len(q) PROVE Harmless((p \o q)[j])
  BY <1>2 DEF AllHarmless
<1>4. CASE j <= Len(p)
  <2>1. (p \o q)[j] = p[j] /\ j \in DOMAIN p
    BY <1>1, <1>4
  <2>. QED BY <2>1 DEF AllHarmless
<1>5. CASE j > Len(p)
  <2>1. (p \o q)[j] = q[j - Len(p)] /\ j - Len(p) \in DOMAIN q
    BY <1>1, <1>5
  <2>. QED BY <2>1 DEF AllHarmless
<1>. QED BY <1>1, <1>4, <1>5

\* What is held is marked, and so a sector not marked is nobody's.
Fresh(S) == S \cap freeMap = {} /\ S \subseteq Sector

LEMMA FreshFact ==
  ASSUME IInv, Idle, NEW S, Fresh(S)
  PROVE  S \cap Held = {} /\ S \cap Reserved = {} /\ \A r \in Held : SectorsOn(disk, r) \cap S = {}
<1>1. Reserved \subseteq freeMap
  BY DEF IInv, TypeInv
<1>2. \A r \in Held : SectorsOn(disk, r) \subseteq freeMap
  BY IdleFacts DEF IdleInv
<1>3. \A r \in Held : r \in SectorsOn(disk, r)
  BY DEF SectorsOn
<1>. QED BY <1>1, <1>2, <1>3 DEF Fresh

LEMMA MapHarmless ==
  ASSUME IInv, Idle, NEW out, NEW F, MapWrites(out, F), freeMap \subseteq F
  PROVE  AllHarmless(out)
<1>1. Reserved \subseteq freeMap
  BY DEF IInv, TypeInv
<1>2. \A s \in LinkedOn(disk) : SectorsOn(disk, s) \subseteq freeMap
  BY IdleFacts DEF IdleInv, Held
<1>3. SUFFICES ASSUME NEW j \in DOMAIN out PROVE Harmless(out[j])
  BY DEF MapWrites, AllHarmless
<1>4. out[j].at = MapSector /\ out[j].put.kind = "map" /\ F \subseteq out[j].put.bits
  BY DEF MapWrites
<1>. QED BY <1>1, <1>2, <1>4 DEF Harmless

\* inode_create: the inode first, then the sectors of its extent.
NewInodeWrites(out, s, start, len) ==
  /\ out \in Seq(Writes) /\ Len(out) = 1 + len
  /\ out[1].at = s /\ out[1].put = DiskInode(start, len)
  /\ \A k \in 1..len : out[1 + k].at = start + k - 1 /\ out[1 + k].put = Bytes(Zero)

LEMMA InodeWritesFact ==
  ASSUME NEW s \in Sector, NEW start \in Nat, NEW len \in Nat, Extent(start, len) \subseteq Sector
  PROVE  NewInodeWrites(InodeWrites(s, start, len), s, start, len)
<1>1. PICK x : x = BlockWrite(s, DiskInode(start, len))
  OBVIOUS
<1>2. PICK data : data = [k \in 1..len |-> BlockWrite(start + k - 1, Bytes(Zero))]
  OBVIOUS
<1>3. x \in Writes /\ x.at = s /\ x.put = DiskInode(start, len)
  BY <1>1 DEF BlockWrite, DiskInode, Writes, Block
<1>4. \A k \in 1..len : BlockWrite(start + k - 1, Bytes(Zero)) \in Writes
  <2>1. \A k \in 1..len : start + k - 1 \in Extent(start, len)
    BY DEF Extent
  <2>2. Bytes(Zero) \in Block
    BY FileSysAssumption DEF Bytes, Block
  <2>3. SUFFICES ASSUME NEW k \in 1..len PROVE BlockWrite(start + k - 1, Bytes(Zero)) \in Writes
    OBVIOUS
  <2>4. start + k - 1 \in Sector
    BY <2>1
  <2>. QED BY <2>2, <2>4 DEF BlockWrite, Writes
<1>5. data \in Seq(Writes) /\ Len(data) = len
  BY <1>2, <1>4, IsASeq
<1>6. PICK out : out = InodeWrites(s, start, len)
  OBVIOUS
<1>7. out = <<x>> \o data /\ <<x>> \in Seq(Writes) /\ Len(<<x>>) = 1
  BY <1>1, <1>2, <1>3, <1>6 DEF InodeWrites
<1>8. out \in Seq(Writes) /\ Len(out) = 1 + len /\ out[1] = x
  BY <1>5, <1>7
<1>9. \A k \in 1..len : out[1 + k] = data[k]
  BY <1>5, <1>7
<1>10. \A k \in 1..len : data[k].at = start + k - 1 /\ data[k].put = Bytes(Zero)
  BY <1>2 DEF BlockWrite
<1>. QED BY <1>3, <1>6, <1>8, <1>9, <1>10 DEF NewInodeWrites

LEMMA NewInodeHarmless ==
  ASSUME IInv, Idle, NEW out, NEW s, NEW start \in Nat, NEW len \in Nat, NewInodeWrites(out, s, start, len),
         Fresh({s} \cup Extent(start, len))
  PROVE  AllHarmless(out)
<1>1. out \in Seq(Writes) /\ Len(out) = 1 + len
  BY DEF NewInodeWrites
<1>2. SUFFICES ASSUME NEW j \in 1..1 + len PROVE Harmless(out[j])
  BY <1>1 DEF AllHarmless
<1>3. CASE j = 1
  <2>1. out[j].at = s /\ out[j].put.kind = "inode"
    BY <1>3 DEF NewInodeWrites, DiskInode
  <2>2. s \notin Reserved /\ \A r \in Held : s \notin SectorsOn(disk, r)
    BY FreshFact
  <2>. QED BY <2>1, <2>2 DEF Harmless
<1>4. CASE j # 1
  <2>1. PICK k \in 1..len : j = 1 + k
    BY <1>4
  <2>2. out[j].at = start + k - 1 /\ out[j].put.kind = "data"
    BY <2>1 DEF NewInodeWrites, Bytes
  <2>3. start + k - 1 \in Extent(start, len)
    BY DEF Extent
  <2>4. out[j].at \notin Reserved /\ out[j].at \notin Held
    BY <2>2, <2>3, FreshFact
  <2>5. Goes(out[j].at)
    BY <2>2, <2>3, FreshFact DEF Goes
  <2>. QED BY <2>2, <2>4, <2>5 DEF Harmless
<1>. QED BY <1>3, <1>4

\* A create that fails writes nothing that matters and unmarks nothing.
CreateLeaves(out) == pending' = out /\ UNCHANGED <<disk, inodes, handle>>

LEMMA CreateFailed ==
  ASSUME IInv, Idle, NEW out, CreateLeaves(out), AllHarmless(out),
         freeMap \subseteq freeMap', freeMap' \subseteq Sector
  PROVE  IInv'
<1>. USE DEF IInv
<1>1. pending' = out /\ UNCHANGED <<disk, inodes, handle>>
  BY DEF CreateLeaves
<1>2. TypeInv'
  BY <1>1 DEF TypeInv, AllHarmless
<1>3. OpenInv' /\ OpenSectors' = OpenSectors
  BY <1>1, OpenKept
<1>4. OpenSectors' \subseteq Held
  BY <1>3 DEF Held
<1>5. HeldInv' /\ DirInv' /\ Held' \subseteq Held /\ Dir' = Dir
  BY <1>1, <1>4, DiskKept
<1>6. IdleInv'
  BY <1>1, <1>5, IdleFacts DEF IdleInv
<1>7. \A j \in DOMAIN pending' : Harmless(pending[j])'
  BY <1>1, <1>5, GoesKept DEF AllHarmless, Harmless
<1>. QED BY <1>2, <1>3, <1>5, <1>6, <1>7, NoDirWrite

\* The writes of a create that succeeds but for the last, and where they go.
NewFileWrites(p, s, start, len, F) ==
  /\ AllHarmless(p) /\ Len(p) = 3 + len
  /\ p[1].at = MapSector /\ p[2].at = MapSector /\ F \subseteq p[2].put.bits
  /\ p[3].at = s /\ p[3].put = DiskInode(start, len)
  /\ \A k \in 1..len : p[3 + k].at = start + k - 1 /\ p[3 + k].put = Bytes(Zero)

LEMMA NewFileWritesFact ==
  ASSUME NEW x, NEW y, NEW out, NEW s, NEW start, NEW len \in Nat, NEW F, NEW p,
         AllHarmless(<<x>>), AllHarmless(<<y>>), AllHarmless(out), NewInodeWrites(out, s, start, len),
         x.at = MapSector, y.at = MapSector, F \subseteq y.put.bits,
         p = <<x>> \o (<<y>> \o out)
  PROVE  NewFileWrites(p, s, start, len, F)
<1>1. AllHarmless(p)
  BY AllHarmlessConcat
<1>2. out \in Seq(Writes) /\ Len(out) = 1 + len /\ x \in Writes /\ y \in Writes
  <2>1. <<x>> \in Seq(Writes) /\ <<y>> \in Seq(Writes)
    BY DEF AllHarmless
  <2>2. x = <<x>>[1] /\ y = <<y>>[1] /\ 1 \in DOMAIN <<x>> /\ 1 \in DOMAIN <<y>>
    OBVIOUS
  <2>3. x \in Writes /\ y \in Writes
    BY <2>1, <2>2
  <2>. QED BY <2>3 DEF NewInodeWrites
<1>3. PICK q : q = <<y>> \o out
  OBVIOUS
<1>4. q \in Seq(Writes) /\ Len(q) = 2 + len /\ q[1] = y /\ \A k \in 1..1 + len : q[1 + k] = out[k]
  BY <1>2, <1>3
<1>5. p = <<x>> \o q
  BY <1>3
<1>6. Len(p) = 3 + len /\ p[1] = x /\ \A k \in 1..2 + len : p[1 + k] = q[k]
  BY <1>2, <1>4, <1>5
<1>7. p[2] = y /\ p[3] = out[1]
  <2>4. 1 \in 1..2 + len /\ 2 \in 1..2 + len /\ 1 \in 1..1 + len
    OBVIOUS
  <2>1. p[1 + 1] = q[1] /\ p[1 + 2] = q[2] /\ q[1 + 1] = out[1]
    BY <1>4, <1>6, <2>4
  <2>2. 1 + 1 = 2 /\ 1 + 2 = 3
    OBVIOUS
  <2>3. p[2] = q[1] /\ p[3] = q[2] /\ q[2] = out[1]
    BY <2>1, <2>2
  <2>. QED BY <1>4, <2>3
<1>8. \A k \in 1..len : p[3 + k] = out[1 + k]
  <2>1. SUFFICES ASSUME NEW k \in 1..len PROVE p[3 + k] = out[1 + k]
    OBVIOUS
  <2>2. p[1 + (2 + k)] = q[2 + k] /\ q[1 + (1 + k)] = out[1 + k]
    BY <1>4, <1>6
  <2>3. 1 + (2 + k) = 3 + k /\ 1 + (1 + k) = 2 + k
    OBVIOUS
  <2>. QED BY <2>2, <2>3
<1>. QED BY <1>1, <1>6, <1>7, <1>8 DEF NewFileWrites, NewInodeWrites

\* The call in progress after a create: the file is complete before its entry.
CreatesFile(p, i, e, s, start, len, F) ==
  /\ NewFileWrites(p, s, start, len, F) /\ F = freeMap \cup {s} \cup Extent(start, len)
  /\ i \in Slot /\ ~Dir[i].used /\ e.used /\ e.sector = s /\ e.name \in Name
  /\ e \in [used : BOOLEAN, name : Name \cup {None}, sector : Sector]
  /\ \A j \in Slot : Dir[j].used => Dir[j].name # e.name
  /\ s \in Sector /\ start \in Nat /\ len \in 0..MaxLen /\ s \notin Extent(start, len)
  /\ Fresh({s} \cup Extent(start, len))
  /\ pending' = Append(p, PutEntry(i, e)) /\ freeMap' = F /\ UNCHANGED <<disk, inodes, handle>>

\* Where each write goes.
Where(s, start, len, F, T) ==
  /\ DOMAIN pending' = 1..4 + len /\ Len(pending') = 4 + len
  /\ pending'[4 + len].at = RootSector /\ pending'[4 + len].put.kind = "dir"
  /\ pending'[4 + len].put.slots = T
  /\ \A j \in 1..3 + len : Harmless(pending'[j])
  /\ pending'[1].at = MapSector /\ pending'[2].at = MapSector /\ F \subseteq pending'[2].put.bits
  /\ pending'[3].at = s /\ pending'[3].put = DiskInode(start, len)
  /\ \A j \in 4..3 + len : pending'[j].at \in Extent(start, len) /\ pending'[j].put = Bytes(Zero)
  /\ \A k \in Extent(start, len) : \E j \in 4..3 + len : pending'[j].at = k

LEMMA WhereFact ==
  ASSUME TypeInv, NEW p, NEW i, NEW e, NEW s, NEW start, NEW len, NEW F, CreatesFile(p, i, e, s, start, len, F)
  PROVE  /\ Where(s, start, len, F, [Dir EXCEPT ![i] = e]) /\ pending' \in Seq(Writes)
         /\ [Dir EXCEPT ![i] = e] \in Slots
<1>1. [Dir EXCEPT ![i] = e] \in Slots
  BY DirFacts DEF DirOK, Slots, CreatesFile
<1>2. PICK T \in Slots : T = [Dir EXCEPT ![i] = e]
  BY <1>1
<1>3. PICK w : w = PutEntry(i, e)
  OBVIOUS
<1>4. w \in Writes /\ w.at = RootSector /\ w.put.kind = "dir" /\ w.put.slots = T
  <2>1. RootSector \in Sector
    BY Places DEF Reserved
  <2>. QED BY <1>2, <1>3, <2>1 DEF PutEntry, BlockWrite, Directory, Writes, Block
<1>5. /\ p \in Seq(Writes) /\ Len(p) = 3 + len /\ len \in Nat /\ pending' = Append(p, w)
      /\ start \in Nat /\ NewFileWrites(p, s, start, len, F)
  BY <1>3 DEF CreatesFile, NewFileWrites, AllHarmless
<1>6. /\ pending' \in Seq(Writes) /\ Len(pending') = 4 + len /\ DOMAIN pending' = 1..4 + len
      /\ pending'[4 + len] = w /\ \A j \in 1..3 + len : pending'[j] = p[j]
  BY <1>4, <1>5
<1>7. \A j \in 1..3 + len : Harmless(pending'[j])
  BY <1>5, <1>6 DEF NewFileWrites, AllHarmless
<1>8. ASSUME NEW j \in 4..3 + len
      PROVE  pending'[j].at = start + (j - 3) - 1 /\ pending'[j].put = Bytes(Zero)
  <2>1. j - 3 \in 1..len /\ 3 + (j - 3) = j
    BY <1>5
  <2>2. p[3 + (j - 3)].at = start + (j - 3) - 1 /\ p[3 + (j - 3)].put = Bytes(Zero)
    BY <1>5, <2>1 DEF NewFileWrites
  <2>. QED BY <1>5, <1>6, <2>1, <2>2
<1>9. \A j \in 4..3 + len : pending'[j].at \in Extent(start, len) /\ pending'[j].put = Bytes(Zero)
  BY <1>5, <1>8 DEF Extent
<1>10. \A k \in Extent(start, len) : \E j \in 4..3 + len : pending'[j].at = k
  <2>1. SUFFICES ASSUME NEW k \in Extent(start, len) PROVE \E j \in 4..3 + len : pending'[j].at = k
    OBVIOUS
  <2>2. k \in start..start + len - 1
    BY DEF Extent
  <2>3. PICK j : j = k - start + 4
    OBVIOUS
  <2>4. j \in 4..3 + len /\ start + (j - 3) - 1 = k
    BY <1>5, <2>2, <2>3
  <2>. QED BY <1>8, <2>4
<1>11. 1 \in 1..3 + len /\ 2 \in 1..3 + len /\ 3 \in 1..3 + len
  BY <1>5
<1>12. /\ pending'[1].at = MapSector /\ pending'[2].at = MapSector /\ F \subseteq pending'[2].put.bits
       /\ pending'[3].at = s /\ pending'[3].put = DiskInode(start, len)
  BY <1>5, <1>6, <1>11 DEF NewFileWrites
<1>13. Where(s, start, len, F, T)
  BY <1>4, <1>6, <1>7, <1>9, <1>10, <1>12 DEF Where
<1>. QED BY <1>1, <1>2, <1>6, <1>13

LEMMA NewFileFact ==
  ASSUME IInv, Idle, NEW p, NEW i, NEW e, NEW s, NEW start, NEW len, NEW F, NEW T,
         CreatesFile(p, i, e, s, start, len, F), Where(s, start, len, F, T), Held' \subseteq Held
  PROVE  NewFile(s, start, len)' /\ At(RootSector)' = {Len(pending')}
<1>1. /\ s \notin Extent(start, len) /\ Fresh({s} \cup Extent(start, len)) /\ disk' = disk
      /\ len \in Nat /\ freeMap' = freeMap \cup {s} \cup Extent(start, len)
      /\ F = freeMap \cup {s} \cup Extent(start, len)
  BY DEF CreatesFile
<1>2. \A x \in {s} \cup Extent(start, len) : x \notin Reserved /\ x # MapSector /\ x # RootSector
  BY <1>1, FreshFact DEF Reserved
<1>3. DOMAIN pending' = 1..4 + len /\ MapSector # RootSector
  BY MapNotRoot DEF Where
<1>4. ASSUME NEW j \in DOMAIN pending'
      PROVE  \/ j = 1 /\ pending'[j].at = MapSector
             \/ j = 2 /\ pending'[j].at = MapSector
             \/ j = 3 /\ pending'[j].at = s
             \/ j \in 4..3 + len /\ pending'[j].at \in Extent(start, len)
             \/ j = 4 + len /\ pending'[j].at = RootSector
  <2>1. j = 1 \/ j = 2 \/ j = 3 \/ j \in 4..3 + len \/ j = 4 + len
    BY <1>1, <1>3
  <2>. QED BY <2>1 DEF Where
<1>5. At(RootSector)' = {4 + len}
  <2>1. \A j \in DOMAIN pending' : pending'[j].at = RootSector => j = 4 + len
    BY <1>2, <1>3, <1>4
  <2>2. 4 + len \in DOMAIN pending' /\ pending'[4 + len].at = RootSector
    BY <1>1, <1>3 DEF Where
  <2>. QED BY <2>1, <2>2 DEF At
<1>6. /\ At(s)' # {} /\ \A j \in At(s)' : pending'[j].put = DiskInode(start, len)
  <2>1. \A j \in DOMAIN pending' : pending'[j].at = s => j = 3
    BY <1>1, <1>2, <1>3, <1>4
  <2>2. 3 \in DOMAIN pending' /\ pending'[3].at = s /\ pending'[3].put = DiskInode(start, len)
    BY <1>1, <1>3 DEF Where
  <2>. QED BY <2>1, <2>2 DEF At
<1>7. ASSUME NEW k \in Extent(start, len)
      PROVE  At(k)' # {} /\ \A j \in At(k)' : pending'[j].put = Bytes(Zero)
  <2>1. \A j \in DOMAIN pending' : pending'[j].at = k => j \in 4..3 + len
    BY <1>1, <1>2, <1>3, <1>4
  <2>2. \E j \in 4..3 + len : pending'[j].at = k
    BY DEF Where
  <2>3. 4..3 + len \subseteq DOMAIN pending'
    BY <1>1, <1>3
  <2>4. \A j \in 4..3 + len : pending'[j].put = Bytes(Zero)
    BY DEF Where
  <2>. QED BY <2>1, <2>2, <2>3, <2>4 DEF At
<1>8. At(MapSector)' = {1, 2}
  <2>1. \A j \in DOMAIN pending' : pending'[j].at = MapSector => j = 1 \/ j = 2
    BY <1>1, <1>2, <1>3, <1>4
  <2>2. /\ 1 \in DOMAIN pending' /\ 2 \in DOMAIN pending'
        /\ pending'[1].at = MapSector /\ pending'[2].at = MapSector
    BY <1>1, <1>3 DEF Where
  <2>. QED BY <2>1, <2>2 DEF At
<1>9. \A j \in At(MapSector)' : (\A l \in At(MapSector)' : l <= j) =>
        {s} \cup Extent(start, len) \subseteq pending'[j].put.bits
  <2>1. F \subseteq pending'[2].put.bits
    BY DEF Where
  <2>2. SUFFICES ASSUME NEW j \in {1, 2}, \A l \in {1, 2} : l <= j
        PROVE  {s} \cup Extent(start, len) \subseteq pending'[j].put.bits
    BY <1>8
  <2>3. j = 2
    BY <2>2
  <2>. QED BY <1>1, <2>1, <2>3
<1>10. \A r \in Held' : SectorsOn(disk', r) \cap ({s} \cup Extent(start, len)) = {}
  BY <1>1, FreshFact
<1>11. {s} \cup Extent(start, len) \subseteq freeMap' \ Reserved
  BY <1>1, <1>2
<1>12. NewFile(s, start, len)'
  BY <1>1, <1>6, <1>7, <1>8, <1>9, <1>10, <1>11 DEF NewFile
<1>. QED BY <1>5, <1>12 DEF Where

LEMMA CreateSucceeds ==
  ASSUME IInv, Idle, NEW p, NEW i, NEW e, NEW s, NEW start, NEW len, NEW F,
         CreatesFile(p, i, e, s, start, len, F)
  PROVE  IInv'
<1>. USE DEF IInv
<1>1. PICK T \in Slots : T = [Dir EXCEPT ![i] = e]
  BY WhereFact
<1>2. Where(s, start, len, F, T) /\ pending' \in Seq(Writes)
  BY <1>1, WhereFact
<1>3. /\ disk' = disk /\ inodes' = inodes /\ handle' = handle /\ i \in Slot /\ ~Dir[i].used
      /\ e.used /\ e.sector = s /\ e.name \in Name /\ len \in 0..MaxLen /\ start \in Nat /\ s \in Sector
      /\ Fresh({s} \cup Extent(start, len)) /\ freeMap' = freeMap \cup {s} \cup Extent(start, len)
      /\ \A j \in Slot : Dir[j].used => Dir[j].name # e.name
  BY DEF CreatesFile
<1>4. OpenInv' /\ OpenSectors' = OpenSectors
  BY <1>3, OpenKept
<1>5. OpenSectors' \subseteq Held
  BY <1>4 DEF Held
<1>6. HeldInv' /\ DirInv' /\ Held' \subseteq Held /\ Dir' = Dir
  BY <1>3, <1>5, DiskKept
<1>7. TypeInv'
  <2>1. freeMap' \in SUBSET Sector /\ Reserved \subseteq freeMap'
    BY <1>3 DEF TypeInv, Fresh
  <2>. QED BY <1>2, <1>3, <2>1 DEF TypeInv
<1>8. NewFile(s, start, len)' /\ At(RootSector)' = {Len(pending')}
  BY <1>2, <1>6, NewFileFact
<1>9. /\ T[i] = e /\ \A j \in Slot \ {i} : T[j] = Dir[j]
      /\ T = [Dir EXCEPT ![i] = T[i]]
  BY <1>1, <1>3, DirFacts DEF DirOK, Slots
<1>10. Adds(T)'
  <2>1. pending'[Len(pending')].put.slots = T
    BY <1>2 DEF Where
  <2>. QED BY <1>3, <1>6, <1>8, <1>9, <2>1 DEF Adds
<1>11. \A j \in Slot : Stays(T, j)' => Dir[j].sector \in LinkedOn(disk) /\ Dir[j].sector \in Held
  BY <1>6, DirFacts DEF Stays, DirOK
<1>12. ASSUME NEW j \in DOMAIN pending' PROVE Spares(T, pending[j])'
  <2>1. j \in 1..3 + len \/ j = 4 + len
    BY <1>2, <1>3 DEF Where
  <2>2. CASE j = 4 + len
    BY <1>2, <2>2 DEF Where, Spares
  <2>3. CASE j \in 1..3 + len
    <3>1. Harmless(pending'[j])
      BY <1>2, <2>3 DEF Where
    <3>. QED BY <1>3, <1>6, <1>11, <3>1, GoesKept DEF Harmless, Spares
  <2>. QED BY <2>1, <2>2, <2>3
<1>13. \A r \in Held : SectorsOn(disk, r) \subseteq freeMap
  BY IdleFacts DEF IdleInv
<1>14. \A a \in Address, j \in Slot :
         inodes'[a] # None /\ inodes'[a].removed /\ T[j].used => T[j].sector # inodes'[a].sector
  <2>1. SUFFICES ASSUME NEW a \in Address, NEW j \in Slot, inodes[a] # None, inodes[a].removed, T[j].used
        PROVE  T[j].sector # inodes[a].sector
    BY <1>3
  <2>2. CASE j = i
    <3>1. inodes[a].sector \in Held
      BY <2>1 DEF Held, OpenSectors
    <3>2. s \notin Held
      BY <1>3, FreshFact
    <3>. QED BY <1>3, <1>9, <2>2, <3>1, <3>2
  <2>3. CASE j # i
    BY <1>9, <2>1, <2>3, IdleFacts DEF IdleInv
  <2>. QED BY <2>2, <2>3
<1>15. /\ \A j \in Slot : Stays(T, j)' => SectorsOn(disk', Dir'[j].sector) \subseteq freeMap'
       /\ \A r \in OpenSectors' : SectorsOn(disk', r) \subseteq freeMap'
  BY <1>3, <1>5, <1>6, <1>11, <1>13
<1>16. CallInv(T)'
  BY <1>10, <1>12, <1>14, <1>15 DEF CallInv
<1>. QED BY <1>4, <1>6, <1>7, <1>16

\* dir_add writes a free slot, of a name that no entry has.
LEMMA DirAddFact ==
  ASSUME TypeInv, NEW n \in Name, NEW fail, NEW i, i = DirAdd(n, fail, Entries, Entries), i # 0
  PROVE  i \in Slot /\ ~Dir[i].used /\ \A j \in Slot : Dir[j].used => Dir[j].name # n
<1>1. i = FreeSlot(Entries) /\ Found(n, Entries) = {} /\ FreeSlot(Entries) <= Entries
  BY DEF DirAdd
<1>. DEFINE free == {j \in 1..Entries : ~Dir[j].used}
<1>2. free # {} /\ i = Sets!Min(free)
  BY <1>1, FileSysAssumption DEF FreeSlot
<1>3. free \in SUBSET Nat
  BY FileSysAssumption
<1>4. i \in free
  BY <1>2, <1>3, MinFact
<1>. QED BY <1>1, <1>4 DEF Found, Slot

LEMMA CreateIInv ==
  ASSUME IInv, NEW n \in Name, NEW len \in 0..MaxLen, NEW fail, Create(n, len, fail, Entries, Entries)
  PROVE  IInv'
<1>. USE DEF IInv
<1>1. PICK a : a = Allocate(freeMap, 1, "map1" \notin fail)
  OBVIOUS
<1>2. PICK b : b = Allocate(a.map, len, "map2" \notin fail)
  OBVIOUS
<1>3. PICK made \in BOOLEAN : made <=> ("disk" \notin fail /\ b.ok)
  OBVIOUS
<1>4. PICK i : i = DirAdd(n, fail, Entries, Entries)
  OBVIOUS
<1>5. PICK e : e = [used |-> TRUE, name |-> n, sector |-> a.start]
  OBVIOUS
<1>6. PICK nw : nw = InodeWrites(a.start, b.start, len)
  OBVIOUS
<1>7. PICK undo : undo = Release(IF made THEN b.map ELSE a.map, a.start, 1, "map3" \notin fail)
  OBVIOUS
<1>8. PICK done : done = a.out \o (IF made THEN b.out \o nw ELSE <<>>)
  OBVIOUS
<1>9. /\ Idle /\ a.ok /\ UNCHANGED <<disk, inodes, handle>>
      /\ IF made /\ i # 0
         THEN freeMap' = b.map /\ pending' = Append(done, PutEntry(i, e))
         ELSE freeMap' = undo.map /\ pending' = done \o undo.out
  BY <1>1, <1>2, <1>3, <1>4, <1>5, <1>6, <1>7, <1>8 DEF Create
<1>10. PICK s : s = a.start
  OBVIOUS
<1>11. PICK start : start = b.start
  OBVIOUS
<1>12. freeMap \in SUBSET Sector
  BY DEF TypeInv
<1>13. /\ s \in Nat /\ {s} \subseteq Sector /\ s \notin freeMap /\ a.map = freeMap \cup {s}
       /\ a.out = <<BlockWrite(MapSector, Bits(a.map))>> /\ Extent(s, 1) = {s}
  <2>1. /\ s \in Nat /\ Extent(s, 1) \subseteq Sector /\ Extent(s, 1) \cap freeMap = {}
        /\ a.map = freeMap \cup Extent(s, 1) /\ a.out = <<BlockWrite(MapSector, Bits(a.map))>>
    <3>1. PICK writes \in BOOLEAN : writes = ("map1" \notin fail)
      OBVIOUS
    <3>2. a = Allocate(freeMap, 1, writes) /\ a.ok
      BY <1>1, <1>9, <3>1
    <3>3. Allocated(a, freeMap, 1)
      BY <1>12, <3>2, AllocateFact
    <3>. QED BY <1>10, <3>3 DEF Allocated
  <2>2. Extent(s, 1) = {s}
    BY <2>1 DEF Extent
  <2>. QED BY <2>1, <2>2
<1>14. AllHarmless(a.out) /\ a.map \subseteq Sector
  <2>1. a.map \subseteq Sector /\ freeMap \subseteq a.map
    BY <1>12, <1>13
  <2>2. MapWrites(a.out, a.map)
    BY <1>13, <2>1, MapWriteFact
  <2>. QED BY <1>9, <2>1, <2>2, MapHarmless
<1>15. ASSUME b.ok
       PROVE  /\ start \in Nat /\ Extent(start, len) \subseteq Sector /\ s \notin Extent(start, len)
              /\ Extent(start, len) \cap freeMap = {} /\ b.map = freeMap \cup {s} \cup Extent(start, len)
              /\ b.out = <<BlockWrite(MapSector, Bits(b.map))>> /\ AllHarmless(b.out)
              /\ Fresh({s} \cup Extent(start, len))
              /\ NewInodeWrites(nw, s, start, len) /\ AllHarmless(nw)
  <2>1. /\ start \in Nat /\ Extent(start, len) \subseteq Sector /\ Extent(start, len) \cap a.map = {}
        /\ b.map = a.map \cup Extent(start, len) /\ b.out = <<BlockWrite(MapSector, Bits(b.map))>>
    <3>1. PICK map \in SUBSET Sector : map = a.map
      BY <1>14
    <3>2. PICK writes \in BOOLEAN : writes = ("map2" \notin fail)
      OBVIOUS
    <3>3. b = Allocate(map, len, writes) /\ b.ok
      BY <1>2, <1>15, <3>1, <3>2
    <3>4. Allocated(b, map, len)
      BY <3>3, AllocateFact
    <3>. QED BY <1>11, <3>1, <3>4 DEF Allocated
  <2>2. b.map \subseteq Sector /\ freeMap \subseteq b.map
    BY <1>13, <1>14, <2>1
  <2>3. MapWrites(b.out, b.map)
    BY <2>1, <2>2, MapWriteFact
  <2>4. AllHarmless(b.out)
    BY <1>9, <2>2, <2>3, MapHarmless
  <2>5. Fresh({s} \cup Extent(start, len))
    BY <1>13, <2>1 DEF Fresh
  <2>6. NewInodeWrites(nw, s, start, len)
    BY <1>6, <1>10, <1>11, <1>13, <2>1, InodeWritesFact
  <2>7. AllHarmless(nw)
    BY <1>9, <2>1, <2>5, <2>6, NewInodeHarmless
  <2>. QED BY <1>13, <2>1, <2>4, <2>5, <2>6, <2>7
<1>16. CASE made /\ i # 0
  <2>1. b.ok /\ freeMap' = b.map /\ pending' = Append(done, PutEntry(i, e)) /\ done = a.out \o (b.out \o nw)
    BY <1>3, <1>8, <1>9, <1>16
  <2>2. PICK x : x = BlockWrite(MapSector, Bits(a.map))
    OBVIOUS
  <2>3. PICK y : y = BlockWrite(MapSector, Bits(b.map))
    OBVIOUS
  <2>4. a.out = <<x>> /\ b.out = <<y>> /\ x.at = MapSector /\ y.at = MapSector /\ y.put.bits = b.map
    BY <1>13, <1>15, <2>1, <2>2, <2>3 DEF BlockWrite, Bits
  <2>5. NewFileWrites(done, s, start, len, b.map)
    <3>1. AllHarmless(<<x>>) /\ AllHarmless(<<y>>) /\ b.map \subseteq y.put.bits
      BY <1>14, <1>15, <2>1, <2>4
    <3>2. AllHarmless(nw) /\ NewInodeWrites(nw, s, start, len)
      BY <1>15, <2>1
    <3>3. done = <<x>> \o (<<y>> \o nw)
      BY <2>1, <2>4
    <3>4. len \in Nat
      BY FileSysAssumption
    <3>. QED BY <2>4, <3>1, <3>2, <3>3, <3>4, NewFileWritesFact
  <2>6. i \in Slot /\ ~Dir[i].used /\ \A j \in Slot : Dir[j].used => Dir[j].name # n
    BY <1>4, <1>16, DirAddFact
  <2>7. /\ e.used /\ e.sector = s /\ e.name = n
        /\ e \in [used : BOOLEAN, name : Name \cup {None}, sector : Sector]
    BY <1>5, <1>10, <1>13
  <2>8. CreatesFile(done, i, e, s, start, len, b.map)
    BY <1>9, <1>13, <1>15, <2>1, <2>5, <2>6, <2>7 DEF CreatesFile
  <2>. QED BY <1>9, <2>8, CreateSucceeds
<1>17. CASE ~(made /\ i # 0)
  <2>1. freeMap' = undo.map /\ pending' = done \o undo.out
    BY <1>9, <1>17
  <2>2. PICK map : map = IF made THEN b.map ELSE a.map
    OBVIOUS
  <2>3. map \in SUBSET Sector /\ freeMap \cup {s} \subseteq map
    BY <1>3, <1>13, <1>14, <1>15, <2>2
  <2>4. Released(undo, map, {s})
    BY <1>7, <1>10, <1>13, <2>2, <2>3, ReleaseFact
  <2>5. freeMap \subseteq undo.map /\ undo.map \subseteq Sector /\ MapWrites(undo.out, undo.map)
    BY <1>13, <2>3, <2>4 DEF Released
  <2>6. AllHarmless(undo.out)
    BY <1>9, <2>5, MapHarmless
  <2>7. AllHarmless(done)
    <3>1. CASE made
      BY <1>3, <1>8, <1>14, <1>15, <3>1, AllHarmlessConcat
    <3>2. CASE ~made
      BY <1>8, <1>14, <3>2 DEF AllHarmless
    <3>. QED BY <3>1, <3>2
  <2>8. AllHarmless(done \o undo.out)
    BY <2>6, <2>7, AllHarmlessConcat
  <2>9. PICK out : out = done \o undo.out
    OBVIOUS
  <2>10. CreateLeaves(out) /\ AllHarmless(out)
    BY <1>9, <2>1, <2>8, <2>9 DEF CreateLeaves
  <2>. QED BY <1>9, <2>1, <2>5, <2>10, CreateFailed
<1>. QED BY <1>16, <1>17
-------------------------------------------------------------------------------
(* The specification.                                                      *)

\* do_format on a device full of old data.
LEMMA InitIInv == Init => IInv
<1>. SUFFICES ASSUME Init PROVE IInv
  OBVIOUS
<1>1. MapSector = 2 /\ RootSector = 3 /\ Reserved = 0..3 /\ Reserved \subseteq Sector
  BY Places
<1>2. PICK old \in Data : old = CHOOSE d \in Data : d # Zero
  BY FileSysAssumption
<1>3. PICK T : T = [i \in Slot |-> FreeEntry]
  OBVIOUS
<1>4. T \in Slots /\ \A i \in Slot : ~T[i].used
  <2>1. FreeEntry \in [used : BOOLEAN, name : Name \cup {None}, sector : Sector] /\ ~FreeEntry.used
    BY FileSysAssumption DEF FreeEntry, Sector
  <2>. QED BY <1>3, <2>1 DEF Slots
<1>5. /\ DiskInode(MapSector, 1) \in Block /\ DiskInode(RootSector, 1) \in Block
      /\ Bits(Reserved) \in Block /\ Directory(T) \in Block /\ Bytes(old) \in Block
  BY <1>1, <1>4 DEF DiskInode, Bits, Directory, Bytes, Block
<1>6. disk = [s \in Sector |->
        CASE s = 0 -> DiskInode(MapSector, 1) [] s = 1 -> DiskInode(RootSector, 1)
          [] s = MapSector -> Bits(Reserved) [] s = RootSector -> Directory(T) [] OTHER -> Bytes(old)]
  BY <1>2, <1>3 DEF Init
<1>7. disk \in [Sector -> Block] /\ disk[MapSector] = Bits(Reserved) /\ disk[RootSector] = Directory(T)
  <2>1. disk \in [Sector -> Block]
    BY <1>5, <1>6
  <2>2. MapSector \in Sector /\ RootSector \in Sector
    BY <1>1
  <2>. QED BY <1>1, <1>6, <2>1, <2>2
<1>8. /\ pending = <<>> /\ freeMap = Reserved /\ \A a \in Address : inodes[a] = None
      /\ inodes \in [Address -> Inode \cup {None}] /\ \A h \in Handle : handle[h] = None
      /\ handle \in [Handle -> File \cup {None}]
  BY DEF Init
<1>9. Dir = T /\ disk[MapSector].kind = "map" /\ disk[MapSector].bits = Reserved
      /\ disk[RootSector].kind = "dir"
  BY <1>7 DEF Dir, Directory, Bits
<1>10. TypeInv
  BY <1>1, <1>7, <1>8, <1>9 DEF TypeInv
<1>11. OpenInv /\ OpenSectors = {}
  BY <1>8 DEF OpenInv, OpenSectors
<1>12. LinkedOn(disk) = {} /\ Held = {}
  BY <1>4, <1>9, <1>11 DEF LinkedOn, Held, Dir
<1>13. HeldInv /\ DirInv
  BY <1>4, <1>9, <1>12 DEF HeldInv, DirInv
<1>14. DOMAIN pending = {} /\ At(RootSector) = {}
  BY <1>8 DEF At
<1>15. CallInv(T)
  BY <1>4, <1>8, <1>9, <1>11, <1>14 DEF CallInv, Stays
<1>. QED BY <1>4, <1>10, <1>11, <1>13, <1>15 DEF IInv

LEMMA StutterIInv == IInv /\ UNCHANGED vars => IInv'
<1>. SUFFICES ASSUME IInv, UNCHANGED vars PROVE IInv'
  OBVIOUS
<1>1. disk' = disk /\ pending' = pending /\ freeMap' = freeMap /\ inodes' = inodes /\ handle' = handle
  BY DEF vars
<1>2. Dir' = Dir /\ Held' = Held /\ OpenSectors' = OpenSectors
  BY <1>1 DEF Dir, Held, OpenSectors
<1>3. TypeInv' /\ OpenInv'
  BY <1>1, OpenKept DEF TypeInv, IInv
<1>4. HeldInv' /\ DirInv'
  BY <1>1, <1>2 DEF HeldInv, DirInv, IInv
<1>5. PICK T \in Slots : CallInv(T)
  BY DEF IInv
<1>6. CallInv(T)'
  <2>1. \A s : At(s)' = At(s)
    BY <1>1 DEF At
  <2>2. \A i : Stays(T, i)' <=> Stays(T, i)
    BY <1>2 DEF Stays
  <2>3. \A w : Spares(T, w) => Spares(T, w)'
    <3>1. \A s : Goes(s) => Goes(s)'
      BY <1>1, <1>2, GoesKept
    <3>. QED BY <1>1, <1>2, <2>2, <3>1 DEF Spares
  <2>4. \A s, start, len : NewFile(s, start, len)' <=> NewFile(s, start, len)
    BY <1>1, <1>2, <2>1 DEF NewFile
  <2>5. Erases(T) => Erases(T)'
    BY <1>1, <1>2, <2>1 DEF Erases
  <2>6. Adds(T) => Adds(T)'
    BY <1>1, <1>2, <2>1, <2>4 DEF Adds
  <2>. QED BY <1>1, <1>2, <1>5, <2>1, <2>2, <2>3, <2>5, <2>6 DEF CallInv
<1>. QED BY <1>3, <1>4, <1>6 DEF IInv

\* One step for each call of filesys.h and file.h, a block write and a crash.
LEMMA NextIInv ==
  ASSUME "addscan" \notin FailingAllocs, IInv, [Next]_vars
  PROVE  IInv'
<1>1. Scans("scan") \subseteq 0..Entries /\ Scans("addscan") = {Entries} /\ 0..MaxLen \subseteq Nat
  BY FileSysAssumption DEF Scans
<1>2. CASE Creates
  <2>1. PICK n \in Name, len \in 0..MaxLen, fail \in Failures(FailingAllocs),
             seen, seen2 \in Scans("addscan") : Create(n, len, fail, seen, seen2)
    BY <1>2 DEF Creates
  <2>2. seen = Entries /\ seen2 = Entries
    BY <1>1, <2>1
  <2>. QED BY <2>1, <2>2, CreateIInv
<1>3. CASE \E n \in Name, seen \in Scans("scan") :
             \E fail \in Failures(FailingAllocs \cap {"map1", "map2"}) : Remove(n, fail, seen)
  BY <1>1, <1>3, RemoveIInv
<1>4. CASE \E n \in Name, seen \in Scans("scan") : \E h \in Handle : Open(h, n, seen)
  BY <1>1, <1>4, OpenIInv
<1>5. ASSUME NEW h \in Handle, NEW g \in Handle, Reopen(h, g) PROVE IInv'
  BY <1>5, ReopenIInv
<1>6. ASSUME NEW h \in Handle, NEW fail, Close(h, fail) PROVE IInv'
  BY <1>6, CloseIInv
<1>7. ASSUME NEW h \in Handle, NEW k \in 1..MaxLen, NEW d \in Data, Write(h, k, d) PROVE IInv'
  BY <1>7, WriteIInv
<1>8. ASSUME NEW h \in Handle, Deny(h) \/ Allow(h) PROVE IInv'
  BY <1>8, DenyIInv, AllowIInv
<1>9. CASE Flush
  BY <1>9, FlushIInv
<1>10. CASE Reboot
  BY <1>10, RebootIInv
<1>11. CASE UNCHANGED vars
  BY <1>11, StutterIInv
<1>. QED BY <1>2, <1>3, <1>4, <1>5, <1>6, <1>7, <1>8, <1>9, <1>10, <1>11 DEF Next

LEMMA IInvConsistent == IInv => FilesConsistent
<1>. SUFFICES ASSUME IInv PROVE FilesConsistent
  OBVIOUS
<1>. USE DEF IInv
<1>1. DirOK /\ LinkedOn(disk) \subseteq Held
  BY DirFacts DEF DirOK
<1>2. Idle => \A s \in LinkedOn(disk) : SectorsOn(disk, s) \subseteq freeMap
  BY <1>1, IdleFacts DEF IdleInv
<1>3. \A s \in Held : s \in SectorsOn(disk, s)
  BY DEF SectorsOn
<1>4. ASSUME NEW s \in LinkedOn(disk)
      PROVE  /\ disk[s].kind = "inode" /\ SectorsOn(disk, s) \subseteq disk[MapSector].bits
             /\ SectorsOn(disk, s) \cap Reserved = {}
             /\ \A k \in Extent(disk[s].start, disk[s].len) : disk[k].kind = "data"
  BY <1>1 DEF HeldInv, DirInv
<1>5. ASSUME NEW i \in Slot, NEW j \in Slot, i # j, Dir[i].used, Dir[j].used
      PROVE  /\ Dir[i].name # Dir[j].name
             /\ SectorsOn(disk, Dir[i].sector) \cap SectorsOn(disk, Dir[j].sector) = {}
  <2>1. Dir[i].sector \in Held /\ Dir[j].sector \in Held
    BY <1>1, <1>5 DEF DirOK
  <2>2. Dir[i].sector # Dir[j].sector /\ Dir[i].name # Dir[j].name
    BY <1>5 DEF DirInv
  <2>. QED BY <2>1, <2>2 DEF HeldInv
<1>6. DiskConsistent
  BY <1>2, <1>4, <1>5 DEF DiskConsistent
<1>7. \A s \in OpenSectors : SectorsOn(disk, s) \subseteq freeMap
  BY DEF CallInv
<1>8. ASSUME NEW a \in Address, inodes[a] # None
      PROVE  /\ inodes[a].openCnt = Cardinality(FilesAt(a)) /\ FilesAt(a) # {}
             /\ inodes[a].denyCnt = Cardinality(Deniers(a)) /\ OpenAt(inodes[a].sector) = {a}
             /\ disk[inodes[a].sector] = DiskInode(inodes[a].start, inodes[a].len)
             /\ {inodes[a].sector} \cup Extent(inodes[a].start, inodes[a].len) \subseteq freeMap
  <2>1. OpenAt(inodes[a].sector) = {a}
    BY <1>8 DEF OpenInv, OpenAt
  <2>2. disk[inodes[a].sector] = DiskInode(inodes[a].start, inodes[a].len)
    BY <1>8 DEF OpenInv
  <2>3. inodes[a].sector \in OpenSectors
    BY <1>8 DEF OpenSectors
  <2>4. SectorsOn(disk, inodes[a].sector) =
          {inodes[a].sector} \cup Extent(inodes[a].start, inodes[a].len)
    BY <2>2 DEF SectorsOn, DiskInode
  <2>. QED BY <1>7, <1>8, <2>1, <2>2, <2>3, <2>4 DEF OpenInv
<1>9. OpenInodes
  BY <1>8 DEF OpenInodes, FilesAt, Deniers
<1>. QED BY <1>6, <1>9 DEF FilesConsistent

\* Whatever the calls, and wherever the machine stops between two block writes,
\* no file loses its sectors to another, no name leads to a sector that is free
\* or not written yet, and a removed file lives until its last close, as long as
\* no allocation fails in dir_add's search (which breaks the directory: see
\* EntriesErasedOnly).
THEOREM FilesStayConsistent ==
  ASSUME "addscan" \notin FailingAllocs
  PROVE  Spec => []FilesConsistent
<1>1. Init => IInv
  BY InitIInv
<1>2. IInv /\ [Next]_vars => IInv'
  BY NextIInv
<1>3. IInv => FilesConsistent
  BY IInvConsistent
<1>. QED BY <1>1, <1>2, <1>3, PTL DEF Spec

EntriesKept == \A i \in Slot : Dir[i].used => Dir'[i] \in {Dir[i], FreeEntry}

LEMMA FlushKeeps ==
  ASSUME IInv, Flush
  PROVE  EntriesKept
<1>. USE DEF IInv
<1>1. PICK w : w = pending[1]
  OBVIOUS
<1>2. Flushes(w)
  BY <1>1, FlushFact
<1>3. PICK T \in Slots : CallInv(T)
  OBVIOUS
<1>4. RootSector \in Sector
  BY Places DEF Reserved
<1>5. CASE w.at # RootSector
  <2>1. Dir' = Dir
    BY <1>2, <1>4, <1>5 DEF Flushes, Dir
  <2>. QED BY <2>1 DEF EntriesKept
<1>6. CASE w.at = RootSector
  <2>1. 1 \in At(RootSector)
    BY <1>2, <1>6, Shift
  <2>2. Erases(T) \/ Adds(T)
    BY <1>3, <2>1 DEF CallInv
  <2>3. w.put.slots = T
    BY <1>1, <2>1, <2>2 DEF Erases, Adds
  <2>4. Dir' = T
    BY <1>2, <1>6, <2>3 DEF Flushes, Dir
  <2>5. PICK i \in Slot : T = [Dir EXCEPT ![i] = T[i]] /\ (Dir[i].used => T[i] = FreeEntry)
    <3>1. CASE Erases(T)
      <4>1. PICK i \in Slot : T = [Dir EXCEPT ![i] = FreeEntry]
        BY <3>1 DEF Erases
      <4>2. T[i] = FreeEntry
        BY <4>1, DirFacts DEF DirOK, Slots
      <4>. QED BY <4>1, <4>2
    <3>2. CASE Adds(T)
      BY <3>2 DEF Adds
    <3>. QED BY <2>2, <3>1, <3>2
  <2>. QED BY <2>4, <2>5, DirFacts DEF EntriesKept, DirOK, Slots
<1>. QED BY <1>5, <1>6

LEMMA NextKeeps == IInv /\ [Next]_vars => EntriesKept
<1>. SUFFICES ASSUME IInv, [Next]_vars PROVE EntriesKept
  OBVIOUS
<1>1. CASE Flush
  BY <1>1, FlushKeeps
<1>2. CASE ~Flush
  <2>1. disk' = disk
    <3>1. ASSUME NEW n, NEW len, NEW fail, NEW seen, NEW seen2, Create(n, len, fail, seen, seen2)
          PROVE  disk' = disk
      BY <3>1 DEF Create
    <3>2. ASSUME NEW n, NEW fail, NEW seen, Remove(n, fail, seen) PROVE disk' = disk
      BY <3>2 DEF Remove
    <3>3. ASSUME NEW h, NEW n, NEW seen, Open(h, n, seen) PROVE disk' = disk
      BY <3>3 DEF Open
    <3>4. ASSUME NEW h, NEW g, Reopen(h, g) PROVE disk' = disk
      BY <3>4 DEF Reopen
    <3>5. ASSUME NEW h, NEW fail, Close(h, fail) PROVE disk' = disk
      BY <3>5 DEF Close
    <3>6. ASSUME NEW h, NEW k, NEW d, Write(h, k, d) PROVE disk' = disk
      BY <3>6 DEF Write
    <3>7. ASSUME NEW h, Deny(h) \/ Allow(h) PROVE disk' = disk
      BY <3>7 DEF Deny, Allow
    <3>8. CASE Reboot \/ UNCHANGED vars
      BY <3>8 DEF Reboot, vars
    <3>. QED BY <1>2, <3>1, <3>2, <3>3, <3>4, <3>5, <3>6, <3>7, <3>8 DEF Next, Creates
  <2>. QED BY <2>1 DEF EntriesKept, Dir
<1>. QED BY <1>1, <1>2

\* An entry in use is only ever erased by dir_remove, never overwritten by
\* dir_add, as long as no allocation fails in dir_add's search: the failure that
\* the comment of directory.c:135 rules out is the only cause.
THEOREM EntriesStay ==
  ASSUME "addscan" \notin FailingAllocs
  PROVE  Spec => EntriesErasedOnly
<1>1. Init => IInv
  BY InitIInv
<1>2. IInv /\ [Next]_vars => IInv'
  BY NextIInv
<1>3. IInv /\ [Next]_vars => EntriesKept
  BY NextKeeps
<1>4. Spec => [][EntriesKept]_vars
  BY <1>1, <1>2, <1>3, PTL DEF Spec
<1>. QED BY <1>4 DEF EntriesErasedOnly, EntriesKept
-------------------------------------------------------------------------------
(* What callers see of the files: the refinement of AbstractFileSys.       *)

FileAt(s) == Contents(disk[s].start, disk[s].len)

\* A name leads to the file of its entry, and the files are those that a name
\* or a handle leads to.
Names ==
  /\ \A i \in Slot : Dir[i].used => Dir[i].name \in Name /\ Leads[Dir[i].name] = Dir[i].sector
  /\ \A n \in Name : Leads[n] # None =>
       \E i \in Slot : Dir[i].used /\ Dir[i].name = n /\ Leads[n] = Dir[i].sector
Views ==
  /\ Names
  /\ \A s \in Ino : s \in Held <=> (\E n \in Name : Leads[n] = s) \/ (\E h \in Handle : Opened[h] = s)
  /\ \A s \in Ino : Reads[s] = IF s \in Held THEN FileAt(s) ELSE None
  /\ Held \subseteq Ino

LEMMA FoundIs ==
  ASSUME TypeInv, DirInv, NEW i \in Slot, Dir[i].used, NEW seen \in 0..Entries, Found(Dir[i].name, seen) # {}
  PROVE  Sets!Min(Found(Dir[i].name, seen)) = i
<1>1. Found(Dir[i].name, seen) \in SUBSET Nat /\ Found(Dir[i].name, seen) \subseteq Slot
  BY FileSysAssumption DEF Found, Slot
<1>2. PICK j : j = Sets!Min(Found(Dir[i].name, seen))
  OBVIOUS
<1>3. j \in Found(Dir[i].name, seen)
  BY <1>1, <1>2, MinFact
<1>4. j \in Slot /\ Dir[j].used /\ Dir[j].name = Dir[i].name
  BY <1>1, <1>3 DEF Found
<1>. QED BY <1>2, <1>4 DEF DirInv

LEMMA NamesFact ==
  ASSUME TypeInv, DirInv
  PROVE  Names
<1>1. Entries \in 0..Entries /\ Slot = 1..Entries
  BY FileSysAssumption DEF Slot
<1>2. ASSUME NEW i \in Slot, Dir[i].used
      PROVE  Dir[i].name \in Name /\ Leads[Dir[i].name] = Dir[i].sector
  <2>1. Dir[i].name \in Name
    BY <1>2 DEF DirInv
  <2>2. i \in Found(Dir[i].name, Entries)
    BY <1>1, <1>2 DEF Found
  <2>3. Sets!Min(Found(Dir[i].name, Entries)) = i
    BY <1>1, <1>2, <2>2, FoundIs
  <2>. QED BY <2>1, <2>2, <2>3 DEF Leads
<1>3. ASSUME NEW n \in Name, Leads[n] # None
      PROVE  \E i \in Slot : Dir[i].used /\ Dir[i].name = n /\ Leads[n] = Dir[i].sector
  <2>1. Found(n, Entries) # {}
    BY <1>3 DEF Leads
  <2>2. PICK i : i \in Found(n, Entries)
    BY <2>1
  <2>3. i \in Slot /\ Dir[i].used /\ Dir[i].name = n
    BY <1>1, <2>2 DEF Found
  <2>. QED BY <1>2, <2>3
<1>. QED BY <1>2, <1>3 DEF Names

LEMMA NoneIsNoSector == None \notin Ino /\ None \notin Nat
BY FileSysAssumption DEF Ino, Sector

LEMMA OpenReads ==
  ASSUME TypeInv, OpenInv, NEW s \in Ino
  PROVE  /\ s \in OpenSectors <=> OpenAt(s) # {}
         /\ s \in OpenSectors => Reads[s] = FileAt(s)
<1>1. s \in OpenSectors <=> OpenAt(s) # {}
  BY DEF OpenSectors, OpenAt
<1>2. ASSUME OpenAt(s) # {} PROVE Reads[s] = FileAt(s)
  <2>1. PICK a : a = Sets!Min(OpenAt(s))
    OBVIOUS
  <2>2. OpenAt(s) \in SUBSET Nat
    BY AddressFact DEF OpenAt
  <2>3. a \in OpenAt(s)
    BY <1>2, <2>1, <2>2, MinFact
  <2>4. disk[s] = DiskInode(inodes[a].start, inodes[a].len)
    BY <2>3 DEF OpenAt, OpenInv
  <2>5. Reads[s] = Contents(inodes[a].start, inodes[a].len)
    BY <1>2, <2>1 DEF Reads
  <2>. QED BY <2>4, <2>5 DEF FileAt, DiskInode
<1>. QED BY <1>1, <1>2

LEMMA OpenedFact ==
  ASSUME TypeInv, OpenInv, NEW s \in Ino
  PROVE  s \in OpenSectors <=> \E h \in Handle : Opened[h] = s
<1>1. ASSUME s \in OpenSectors PROVE \E h \in Handle : Opened[h] = s
  <2>1. PICK a \in Address : inodes[a] # None /\ inodes[a].sector = s
    BY <1>1 DEF OpenSectors
  <2>2. PICK h \in Handle : handle[h] # None /\ handle[h].at = a
    BY <2>1 DEF OpenInv, FilesAt
  <2>. QED BY <2>1, <2>2 DEF Opened
<1>2. ASSUME NEW h \in Handle, Opened[h] = s PROVE s \in OpenSectors
  <2>1. handle[h] # None /\ inodes[handle[h].at].sector = s
    BY <1>2, NoneIsNoSector DEF Opened
  <2>2. handle[h].at \in Address /\ inodes[handle[h].at] # None
    BY <2>1, OpenFacts
  <2>. QED BY <2>1, <2>2 DEF OpenSectors
<1>. QED BY <1>1, <1>2

LEMMA ViewFacts == IInv => Views
<1>. SUFFICES ASSUME IInv PROVE Views
  OBVIOUS
<1>. USE DEF IInv
<1>1. DirOK /\ Names
  BY DirFacts, NamesFact
<1>2. Held \subseteq Ino
  BY DEF HeldInv, SectorsOn, Ino
<1>3. ASSUME NEW s \in Ino PROVE s \in LinkedOn(disk) <=> \E n \in Name : Leads[n] = s
  BY <1>1, NoneIsNoSector DEF DirOK, Names
<1>4. ASSUME NEW s \in Ino
      PROVE  s \in Held <=> (\E n \in Name : Leads[n] = s) \/ (\E h \in Handle : Opened[h] = s)
  BY <1>3, OpenedFact DEF Held
<1>5. ASSUME NEW s \in Ino PROVE Reads[s] = IF s \in Held THEN FileAt(s) ELSE None
  <2>1. CASE s \in OpenSectors
    BY <2>1, OpenReads DEF Held
  <2>2. CASE s \notin OpenSectors
    <3>1. OpenAt(s) = {}
      BY <2>2, OpenReads
    <3>2. Reads[s] = IF s \in LinkedOn(disk) THEN FileAt(s) ELSE None
      BY <3>1 DEF Reads, FileAt
    <3>. QED BY <2>2, <3>2 DEF Held
  <2>. QED BY <2>1, <2>2
<1>. QED BY <1>1, <1>2, <1>4, <1>5 DEF Views

LEMMA ViewFactsNext == IInv' => Views'
BY ViewFacts, PTL

\* What a step does to the views: they are functions.
LEMMA Functions ==
  /\ Leads = [n \in Name |-> Leads[n]] /\ Reads = [s \in Ino |-> Reads[s]]
  /\ Opened = [h \in Handle |-> Opened[h]]
BY DEF Leads, Reads, Opened

LEMMA FunctionsNext ==
  /\ Leads' = [n \in Name |-> Leads'[n]] /\ Reads' = [s \in Ino |-> Reads'[s]]
  /\ Opened' = [h \in Handle |-> Opened'[h]]
BY DEF Leads, Reads, Opened

\* Files that are held before and after a step and keep their bytes.
Keeps == \A s \in Held' : s \in Held /\ FileAt(s)' = FileAt(s)

LEMMA Collects ==
  ASSUME Views, Views', Keeps
  PROVE  Abstract!Collect(Leads', Opened')
<1>1. \A s \in Ino : Reads'[s] =
        IF (\E n \in Name : Leads'[n] = s) \/ (\E h \in Handle : Opened'[h] = s) THEN Reads[s] ELSE None
  BY DEF Views, Keeps
<1>. QED BY <1>1, FunctionsNext DEF Abstract!Collect

LEMMA SameReads ==
  ASSUME Views, Views', Keeps, Held' = Held
  PROVE  Reads' = Reads
<1>1. \A s \in Ino : Reads'[s] = Reads[s]
  BY DEF Views, Keeps
<1>. QED BY <1>1, Functions, FunctionsNext

LEMMA SameHeld ==
  ASSUME Views, Views', Leads' = Leads, Opened' = Opened
  PROVE  Held' = Held
BY DEF Views

LEMMA SameDisk ==
  ASSUME disk' = disk
  PROVE  Leads' = Leads /\ \A s : FileAt(s)' = FileAt(s)
<1>1. Dir' = Dir
  BY DEF Dir
<1>2. \A n, seen : Found(n, seen)' = Found(n, seen)
  BY <1>1 DEF Found
<1>. QED BY <1>1, <1>2 DEF Leads, FileAt, Contents

\* An open inode stays the inode of its sector.
KeepSectors ==
  \A b \in Address : inodes[b] # None /\ inodes'[b] # None => inodes'[b].sector = inodes[b].sector

SameFile(g) ==
  (handle'[g] = None /\ handle[g] = None) \/ (handle'[g] # None /\ handle[g] # None /\ handle'[g].at = handle[g].at)

LEMMA OpenedKept ==
  ASSUME IInv, IInv', KeepSectors, NEW g \in Handle, SameFile(g)
  PROVE  Opened'[g] = Opened[g]
<1>1. CASE handle[g] = None
  BY <1>1 DEF SameFile, Opened
<1>2. CASE handle[g] # None
  <2>1. handle'[g] # None /\ handle'[g].at = handle[g].at
    BY <1>2 DEF SameFile
  <2>2. handle[g].at \in Address /\ inodes[handle[g].at] # None
    BY <1>2, OpenFacts DEF IInv
  <2>3. inodes'[handle'[g].at] # None
    BY <2>1 DEF IInv, OpenInv
  <2>4. inodes'[handle'[g].at].sector = inodes[handle[g].at].sector
    BY <2>1, <2>2, <2>3 DEF KeepSectors
  <2>. QED BY <1>2, <2>1, <2>4 DEF Opened
<1>. QED BY <1>1, <1>2

\* A step that callers do not see.
Unseen == UNCHANGED <<Leads, Reads, Opened, Denied>>

LEMMA MemoryUnseen ==
  ASSUME UNCHANGED <<disk, inodes, handle>>
  PROVE  Unseen
<1>1. Leads' = Leads /\ \A s : FileAt(s)' = FileAt(s)
  BY SameDisk
<1>2. \A s : OpenAt(s)' = OpenAt(s) /\ \A start, len : Contents(start, len)' = Contents(start, len)
  BY DEF OpenAt, Contents
<1>3. Reads' = Reads /\ Opened' = Opened /\ Denied' = Denied
  BY <1>2 DEF Reads, Opened, Denied
<1>. QED BY <1>1, <1>3 DEF Unseen
-------------------------------------------------------------------------------
(* Opening, closing, denying: the disk stays.                              *)

\* A call that changes no sector and no handle but h: what else callers see is as before.
LEMMA OneHandle ==
  ASSUME IInv, IInv', disk' = disk, NEW h \in Handle, KeepSectors,
         \A g \in Handle \ {h} : handle'[g] = handle[g],
         \/ Opened'[h] = None
         \/ \E g \in Handle : Opened'[h] = Opened[g]
         \/ \E n \in Name : Opened'[h] = Leads[n]
  PROVE  /\ Leads' = Leads /\ Abstract!Collect(Leads, Opened')
         /\ Opened' = [Opened EXCEPT ![h] = Opened'[h]]
         /\ Opened[h] \in {None, Opened'[h]} => Reads' = Reads
<1>1. \A g \in Handle \ {h} : Opened'[g] = Opened[g]
  BY OpenedKept DEF SameFile
<1>2. Opened' = [Opened EXCEPT ![h] = Opened'[h]]
  BY <1>1, Functions, FunctionsNext
<1>3. Views /\ Views' /\ Leads' = Leads /\ \A s : FileAt(s)' = FileAt(s)
  BY ViewFacts, ViewFactsNext, SameDisk
<1>4. \A s \in Ino : s \in Held' => s \in Held
  BY <1>1, <1>3, NoneIsNoSector DEF Views
<1>5. Keeps
  BY <1>3, <1>4 DEF Keeps, Views
<1>6. Abstract!Collect(Leads, Opened')
  BY <1>3, <1>5, Collects
<1>7. ASSUME Opened[h] \in {None, Opened'[h]} PROVE Reads' = Reads
  <2>1. \A r \in Ino : r \in Held => r \in Held'
    BY <1>1, <1>3, <1>7, NoneIsNoSector DEF Views
  <2>2. Held' = Held
    BY <1>3, <1>4, <2>1 DEF Views
  <2>. QED BY <1>3, <1>5, <2>2, SameReads
<1>. QED BY <1>2, <1>3, <1>6, <1>7

LEMMA OpenSeen ==
  ASSUME IInv, IInv', NEW h \in Handle, NEW n \in Name, NEW seen \in 0..Entries, Open(h, n, seen)
  PROVE  Abstract!Open(h, n)
<1>. USE DEF IInv
<1>1. PICK i : i = Sets!Min(Found(n, seen))
  OBVIOUS
<1>2. PICK s : s = Dir[i].sector
  OBVIOUS
<1>3. /\ handle[h] = None /\ Found(n, seen) # {} /\ disk' = disk
      /\ inodes' = InodeOpen(s).list
      /\ handle' = [handle EXCEPT ![h] = [at |-> InodeOpen(s).at, deny |-> FALSE]]
  BY <1>1, <1>2 DEF Open
<1>4. i \in Slot /\ Dir[i].used /\ Dir[i].name = n /\ s \in Held
  <2>1. Found(n, seen) \in SUBSET Nat
    BY FileSysAssumption DEF Found
  <2>2. i \in Found(n, seen)
    BY <1>1, <1>3, <2>1, MinFact
  <2>. QED BY <1>1, <1>2, <1>3, <2>2, FoundFact DEF Found
<1>5. Leads[n] = s /\ Leads[n] # None
  BY <1>2, <1>4, ViewFacts, NoneIsNoSector DEF Views, Names
<1>6. PICK a \in Address :
        /\ KeepSectors /\ inodes'[a].sector = s
        /\ handle' = [handle EXCEPT ![h] = [at |-> a, deny |-> FALSE]]
  <2>1. inodes \in [Address -> Inode \cup {None}]
    BY DEF TypeInv
  <2>2. CASE \E a \in Address :
               /\ inodes[a] # None /\ inodes[a].sector = s
               /\ InodeOpen(s) = [at |-> a, list |-> [inodes EXCEPT ![a].openCnt = @ + 1]]
    <3>1. PICK a \in Address :
               /\ inodes[a] # None /\ inodes[a].sector = s
               /\ InodeOpen(s) = [at |-> a, list |-> [inodes EXCEPT ![a].openCnt = @ + 1]]
      BY <2>2
    <3>2. inodes[a] \in Inode /\ inodes' = [inodes EXCEPT ![a].openCnt = @ + 1]
      BY <1>3, <2>1, <3>1
    <3>3. inodes'[a].sector = inodes[a].sector /\ \A b \in Address \ {a} : inodes'[b] = inodes[b]
      BY <2>1, <3>2 DEF Inode
    <3>4. KeepSectors
      BY <3>3 DEF KeepSectors
    <3>5. InodeOpen(s).at = a
      BY <3>1
    <3>. QED BY <1>3, <3>1, <3>3, <3>4, <3>5
  <2>3. CASE \E a \in Address :
               /\ inodes[a] = None /\ s \notin OpenSectors /\ NewInode(s) \in Inode
               /\ InodeOpen(s) = [at |-> a, list |-> [inodes EXCEPT ![a] = NewInode(s)]]
    <3>1. PICK a \in Address :
               /\ inodes[a] = None /\ NewInode(s) \in Inode
               /\ InodeOpen(s) = [at |-> a, list |-> [inodes EXCEPT ![a] = NewInode(s)]]
      BY <2>3
    <3>2. InodeOpen(s).at = a /\ inodes' = [inodes EXCEPT ![a] = NewInode(s)]
      BY <1>3, <3>1
    <3>3. inodes'[a] = NewInode(s) /\ \A b \in Address \ {a} : inodes'[b] = inodes[b]
      BY <2>1, <3>2
    <3>4. KeepSectors /\ inodes'[a].sector = s
      BY <3>1, <3>3 DEF KeepSectors, NewInode
    <3>. QED BY <1>3, <3>2, <3>4
  <2>. QED BY <1>4, <2>2, <2>3, InodeOpened
<1>17. PICK f : f = [at |-> a, deny |-> FALSE]
  OBVIOUS
<1>7. f \in File /\ f # None /\ f.at = a /\ ~f.deny /\ handle' = [handle EXCEPT ![h] = f]
  <2>1. f \in File /\ f.at = a /\ ~f.deny
    BY <1>17 DEF File
  <2>. QED BY <1>6, <1>17, <2>1, NoneDiffers DEF NoneIsNone
<1>8. /\ handle \in [Handle -> File \cup {None}] /\ handle'[h] = f
      /\ \A g \in Handle \ {h} : handle'[g] = handle[g]
  BY <1>7 DEF TypeInv
<1>9. Opened'[h] = s /\ Opened[h] = None
  BY <1>3, <1>6, <1>7, <1>8 DEF Opened
<1>10. Leads' = Leads /\ Reads' = Reads /\ Opened' = [Opened EXCEPT ![h] = Leads[n]]
  BY <1>3, <1>5, <1>6, <1>8, <1>9, OneHandle
<1>11. Denied' = Denied
  <2>1. \A g \in Handle : (handle'[g] # None /\ handle'[g].deny) <=> (handle[g] # None /\ handle[g].deny)
    BY <1>3, <1>7, <1>8
  <2>. QED BY <2>1 DEF Denied
<1>. QED BY <1>5, <1>9, <1>10, <1>11 DEF Abstract!Open

LEMMA ReopenSeen ==
  ASSUME IInv, IInv', NEW h \in Handle, NEW g \in Handle, Reopen(h, g)
  PROVE  Abstract!Reopen(h, g)
<1>. USE DEF IInv
<1>1. PICK a : a = handle[g].at
  OBVIOUS
<1>2. PICK f : f = [at |-> a, deny |-> FALSE]
  OBVIOUS
<1>3. /\ handle[h] = None /\ handle[g] # None /\ disk' = disk
      /\ inodes' = [inodes EXCEPT ![a].openCnt = @ + 1] /\ handle' = [handle EXCEPT ![h] = f]
  BY <1>1, <1>2 DEF Reopen
<1>4. a \in Address /\ inodes[a] \in Inode
  BY <1>1, <1>3, OpenFacts
<1>5. f \in File /\ f # None /\ f.at = a /\ ~f.deny
  <2>1. f \in File /\ f.at = a /\ ~f.deny
    BY <1>2, <1>4 DEF File
  <2>. QED BY <2>1, NoneDiffers DEF NoneIsNone
<1>6. handle'[h] = f /\ \A k \in Handle \ {h} : handle'[k] = handle[k]
  BY <1>3 DEF TypeInv
<1>7. inodes'[a].sector = inodes[a].sector /\ KeepSectors
  <2>1. inodes'[a].sector = inodes[a].sector /\ \A b \in Address \ {a} : inodes'[b] = inodes[b]
    BY <1>3, <1>4 DEF Inode, TypeInv
  <2>. QED BY <2>1 DEF KeepSectors
<1>8. Opened'[h] = Opened[g] /\ Opened[h] = None /\ Opened[g] # None
  BY <1>1, <1>3, <1>4, <1>5, <1>6, <1>7, FileSysAssumption DEF Opened, Inode, Sector
<1>9. Leads' = Leads /\ Reads' = Reads /\ Opened' = [Opened EXCEPT ![h] = Opened[g]]
  BY <1>3, <1>6, <1>7, <1>8, OneHandle
<1>10. Denied' = Denied
  <2>1. \A k \in Handle : (handle'[k] # None /\ handle'[k].deny) <=> (handle[k] # None /\ handle[k].deny)
    BY <1>3, <1>5, <1>6
  <2>. QED BY <2>1 DEF Denied
<1>. QED BY <1>8, <1>9, <1>10 DEF Abstract!Reopen

LEMMA DenySeen ==
  ASSUME IInv, IInv', NEW h \in Handle, Deny(h)
  PROVE  Abstract!Deny(h)
<1>. USE DEF IInv
<1>1. PICK a : a = handle[h].at
  OBVIOUS
<1>2. PICK f : f = [handle[h] EXCEPT !.deny = TRUE]
  OBVIOUS
<1>3. /\ handle[h] # None /\ disk' = disk
      /\ inodes' = [inodes EXCEPT ![a].denyCnt = @ + 1] /\ handle' = [handle EXCEPT ![h] = f]
  BY <1>1, <1>2 DEF Deny
<1>4. a \in Address /\ inodes[a] \in Inode /\ handle[h] \in File
  BY <1>1, <1>3, OpenFacts
<1>5. f # None /\ f.at = a /\ f.deny
  <2>1. f \in File /\ f.at = a /\ f.deny
    BY <1>1, <1>2, <1>4 DEF File
  <2>. QED BY <2>1, NoneDiffers DEF NoneIsNone
<1>6. handle'[h] = f /\ \A k \in Handle \ {h} : handle'[k] = handle[k]
  BY <1>3 DEF TypeInv
<1>7. inodes'[a].sector = inodes[a].sector /\ KeepSectors
  <2>1. inodes'[a].sector = inodes[a].sector /\ \A b \in Address \ {a} : inodes'[b] = inodes[b]
    BY <1>3, <1>4 DEF Inode, TypeInv
  <2>. QED BY <2>1 DEF KeepSectors
<1>8. Opened'[h] = Opened[h] /\ Opened[h] # None
  BY <1>1, <1>3, <1>4, <1>5, <1>6, <1>7, FileSysAssumption DEF Opened, Inode, Sector
<1>9. Leads' = Leads /\ Reads' = Reads /\ Opened' = [Opened EXCEPT ![h] = Opened[h]]
  BY <1>3, <1>6, <1>7, <1>8, OneHandle
<1>10. Opened' = Opened
  BY <1>9, Functions
<1>11. Denied' = Denied \cup {h}
  BY <1>5, <1>6 DEF Denied
<1>. QED BY <1>8, <1>9, <1>10, <1>11 DEF Abstract!Deny

LEMMA AllowSeen ==
  ASSUME IInv, IInv', NEW h \in Handle, Allow(h)
  PROVE  Abstract!Allow(h)
<1>. USE DEF IInv
<1>1. PICK a : a = handle[h].at
  OBVIOUS
<1>2. PICK f : f = [handle[h] EXCEPT !.deny = FALSE]
  OBVIOUS
<1>3. /\ handle[h] # None /\ disk' = disk
      /\ inodes' = [inodes EXCEPT ![a].denyCnt = @ - 1] /\ handle' = [handle EXCEPT ![h] = f]
  BY <1>1, <1>2 DEF Allow, Allowed
<1>4. a \in Address /\ inodes[a] \in Inode /\ handle[h] \in File
  BY <1>1, <1>3, OpenFacts
<1>5. f # None /\ f.at = a /\ ~f.deny
  <2>1. f \in File /\ f.at = a /\ ~f.deny
    BY <1>1, <1>2, <1>4 DEF File
  <2>. QED BY <2>1, NoneDiffers DEF NoneIsNone
<1>6. handle'[h] = f /\ \A k \in Handle \ {h} : handle'[k] = handle[k]
  BY <1>3 DEF TypeInv
<1>7. inodes'[a].sector = inodes[a].sector /\ KeepSectors
  <2>1. inodes'[a].sector = inodes[a].sector /\ \A b \in Address \ {a} : inodes'[b] = inodes[b]
    BY <1>3, <1>4 DEF Inode, TypeInv
  <2>. QED BY <2>1 DEF KeepSectors
<1>8. Opened'[h] = Opened[h]
  BY <1>1, <1>3, <1>5, <1>6, <1>7 DEF Opened
<1>9. Leads' = Leads /\ Reads' = Reads /\ Opened' = [Opened EXCEPT ![h] = Opened[h]]
  BY <1>3, <1>6, <1>7, <1>8, OneHandle
<1>10. Opened' = Opened
  BY <1>9, Functions
<1>11. Denied' = Denied \ {h}
  BY <1>5, <1>6 DEF Denied
<1>. QED BY <1>9, <1>10, <1>11 DEF Abstract!Allow

\* Closing an inode leaves the others.
LEMMA CloseKeeps ==
  ASSUME NEW list \in [Address -> Inode \cup {None}], NEW a \in Address, NEW fail, list[a] # None,
         NEW b \in Address, InodeClose(list, a, fail).list[b] # None
  PROVE  list[b] # None /\ InodeClose(list, a, fail).list[b].sector = list[b].sector
<1>1. PICK c : c = InodeClose(list, a, fail).list
  OBVIOUS
<1>2. c = [list EXCEPT ![a].openCnt = @ - 1] \/ c = [list EXCEPT ![a] = None]
  BY <1>1 DEF InodeClose
<1>3. list[a] \in Inode
  OBVIOUS
<1>4. CASE c = [list EXCEPT ![a].openCnt = @ - 1]
  <2>1. c[a].sector = list[a].sector /\ \A d \in Address \ {a} : c[d] = list[d]
    BY <1>3, <1>4 DEF Inode
  <2>. QED BY <1>1, <2>1
<1>5. CASE c = [list EXCEPT ![a] = None]
  BY <1>1, <1>5
<1>. QED BY <1>2, <1>4, <1>5

LEMMA CloseSeen ==
  ASSUME IInv, IInv', NEW h \in Handle, NEW fail, Close(h, fail)
  PROVE  Abstract!Close(h)
<1>. USE DEF IInv
<1>1. PICK a : a = handle[h].at
  OBVIOUS
<1>2. PICK list : list = Allowed(handle[h])
  OBVIOUS
<1>3. /\ handle[h] # None /\ disk' = disk /\ handle' = [handle EXCEPT ![h] = None]
      /\ inodes' = InodeClose(list, a, fail).list
  BY <1>1, <1>2 DEF Close
<1>4. a \in Address /\ inodes[a] \in Inode /\ inodes[a] # None
  BY <1>1, <1>3, OpenFacts
<1>5. handle'[h] = None /\ \A k \in Handle \ {h} : handle'[k] = handle[k]
  BY <1>3 DEF TypeInv
<1>6. KeepSectors
  <2>1. PICK left : left = IF handle[h].deny THEN inodes[a].denyCnt - 1 ELSE inodes[a].denyCnt
    OBVIOUS
  <2>2. PICK node : node = [inodes[a] EXCEPT !.openCnt = @ - 1, !.denyCnt = left]
    OBVIOUS
  <2>3. /\ [list EXCEPT ![a].openCnt = @ - 1] = [inodes EXCEPT ![a] = node]
        /\ [list EXCEPT ![a] = None] = [inodes EXCEPT ![a] = None]
    BY <1>1, <1>2, <1>4, <2>1, <2>2 DEF Allowed, TypeInv, Inode
  <2>4. node.sector = inodes[a].sector
    BY <1>4, <2>2 DEF Inode
  <2>5. inodes' = [inodes EXCEPT ![a] = node] \/ inodes' = [inodes EXCEPT ![a] = None]
    BY <1>3, <2>3 DEF InodeClose
  <2>. QED BY <2>4, <2>5 DEF KeepSectors, TypeInv
<1>7. Opened'[h] = None /\ Opened[h] # None
  BY <1>1, <1>3, <1>4, <1>5, FileSysAssumption DEF Opened, Inode, Sector
<1>8. Leads' = Leads /\ Abstract!Collect(Leads, Opened') /\ Opened' = [Opened EXCEPT ![h] = None]
  BY <1>3, <1>5, <1>6, <1>7, OneHandle
<1>9. Denied' = Denied \ {h}
  BY <1>5 DEF Denied
<1>. QED BY <1>7, <1>8, <1>9 DEF Abstract!Close

\* After a crash only what has a name is left.
LEMMA RebootSeen ==
  ASSUME IInv, IInv', Reboot
  PROVE  Abstract!Crash
<1>1. /\ disk' = disk /\ inodes' = [a \in Address |-> None] /\ handle' = [h \in Handle |-> None]
  BY DEF Reboot
<1>2. Views /\ Views' /\ Leads' = Leads /\ \A s : FileAt(s)' = FileAt(s)
  BY <1>1, ViewFacts, ViewFactsNext, SameDisk
<1>3. Opened' = [h \in Handle |-> None] /\ Denied' = {}
  BY <1>1 DEF Opened, Denied
<1>4. \A s \in Ino : s \in Held' => s \in Held
  BY <1>2, <1>3, NoneIsNoSector DEF Views
<1>5. Keeps
  BY <1>2, <1>4 DEF Keeps, Views
<1>6. Abstract!Collect(Leads, Opened')
  BY <1>2, <1>5, Collects
<1>. QED BY <1>2, <1>3, <1>6 DEF Abstract!Crash

\* Until its first write is done nobody sees a removal.
LEMMA RemoveUnseen ==
  ASSUME IInv, IInv', NEW n, NEW fail, NEW seen \in 0..Entries, Remove(n, fail, seen)
  PROVE  Unseen
<1>. USE DEF IInv
<1>1. PICK s : s = Dir[Sets!Min(Found(n, seen))].sector
  OBVIOUS
<1>2. PICK o : o = InodeOpen(s)
  OBVIOUS
<1>3. PICK list : list = [o.list EXCEPT ![o.at].removed = TRUE]
  OBVIOUS
<1>4. /\ Found(n, seen) # {} /\ inodes' = InodeClose(list, o.at, fail).list
      /\ disk' = disk /\ handle' = handle
  BY <1>1, <1>2, <1>3 DEF Remove
<1>5. s \in Held
  BY <1>1, <1>4, FoundFact
<1>6. PICK a \in Address, node \in Inode :
        /\ o.at = a /\ o.list = [inodes EXCEPT ![a] = node]
        /\ inodes[a] # None => node.sector = inodes[a].sector
  <2>1. inodes \in [Address -> Inode \cup {None}]
    BY DEF TypeInv
  <2>2. CASE \E a \in Address :
               /\ inodes[a] # None /\ inodes[a].sector = s
               /\ InodeOpen(s) = [at |-> a, list |-> [inodes EXCEPT ![a].openCnt = @ + 1]]
    <3>1. PICK a \in Address :
               /\ inodes[a] # None
               /\ InodeOpen(s) = [at |-> a, list |-> [inodes EXCEPT ![a].openCnt = @ + 1]]
      BY <2>2
    <3>2. PICK node : node = [inodes[a] EXCEPT !.openCnt = @ + 1]
      OBVIOUS
    <3>3. inodes[a] \in Inode
      BY <2>1, <3>1
    <3>4. node \in Inode /\ node.sector = inodes[a].sector
      BY <3>2, <3>3 DEF Inode
    <3>5. o.at = a /\ o.list = [inodes EXCEPT ![a] = node]
      BY <1>2, <3>1, <3>2
    <3>. QED BY <3>4, <3>5
  <2>3. CASE \E a \in Address :
               /\ inodes[a] = None /\ s \notin OpenSectors /\ NewInode(s) \in Inode
               /\ InodeOpen(s) = [at |-> a, list |-> [inodes EXCEPT ![a] = NewInode(s)]]
    <3>1. PICK a \in Address :
               /\ inodes[a] = None /\ NewInode(s) \in Inode
               /\ InodeOpen(s) = [at |-> a, list |-> [inodes EXCEPT ![a] = NewInode(s)]]
      BY <2>3
    <3>2. o.at = a /\ o.list = [inodes EXCEPT ![a] = NewInode(s)]
      BY <1>2, <3>1
    <3>. QED BY <3>1, <3>2
  <2>. QED BY <1>5, <2>2, <2>3, InodeOpened
<1>7. PICK gone : gone = [node EXCEPT !.removed = TRUE]
  OBVIOUS
<1>8. gone \in Inode /\ gone.sector = node.sector /\ gone # None
  <2>1. gone \in Inode /\ gone.sector = node.sector
    BY <1>7 DEF Inode
  <2>. QED BY <2>1, NoneDiffers DEF NoneIsNone
<1>9. list = [inodes EXCEPT ![a] = gone]
  <2>1. o.list[a] = node
    BY <1>6 DEF TypeInv
  <2>2. list = [o.list EXCEPT ![a] = gone]
    BY <1>3, <1>6, <1>7, <2>1
  <2>. QED BY <1>6, <2>2 DEF TypeInv
<1>10. list \in [Address -> Inode \cup {None}] /\ list[a] = gone /\ \A b \in Address \ {a} : list[b] = inodes[b]
  BY <1>8, <1>9 DEF TypeInv
<1>11. KeepSectors
  <2>1. SUFFICES ASSUME NEW b \in Address, inodes[b] # None, inodes'[b] # None
        PROVE  inodes'[b].sector = inodes[b].sector
    BY DEF KeepSectors
  <2>2. inodes'[b].sector = list[b].sector
    BY <1>4, <1>6, <1>8, <1>10, <2>1, CloseKeeps
  <2>. QED BY <1>6, <1>8, <1>10, <2>1, <2>2
<1>12. Leads' = Leads /\ \A r : FileAt(r)' = FileAt(r)
  BY <1>4, SameDisk
<1>13. Opened' = Opened
  <2>1. \A g \in Handle : Opened'[g] = Opened[g]
    BY <1>4, <1>11, OpenedKept DEF SameFile
  <2>. QED BY <2>1, Functions, FunctionsNext
<1>14. Reads' = Reads
  <2>1. Views /\ Views'
    BY ViewFacts, ViewFactsNext
  <2>. QED BY <1>12, <1>13, <2>1, SameHeld, SameReads DEF Keeps
<1>15. Denied' = Denied
  BY <1>4 DEF Denied
<1>. QED BY <1>12, <1>13, <1>14, <1>15 DEF Unseen
-------------------------------------------------------------------------------
(* Block writes: callers see those of data and of the directory.           *)

\* What a block write does not change.
LEMMA FlushSame ==
  ASSUME NEW w, Flushes(w)
  PROVE  /\ Opened' = Opened /\ Denied' = Denied
         /\ w.at # RootSector => Leads' = Leads
<1>1. Opened' = Opened /\ Denied' = Denied
  BY DEF Flushes, Opened, Denied
<1>2. ASSUME w.at # RootSector PROVE Leads' = Leads
  <2>1. RootSector \in Sector
    BY Places DEF Reserved
  <2>2. Dir' = Dir
    BY <1>2, <2>1 DEF Flushes, Dir
  <2>3. \A n, seen : Found(n, seen)' = Found(n, seen)
    BY <2>2 DEF Found
  <2>. QED BY <2>2, <2>3 DEF Leads
<1>. QED BY <1>1, <1>2

\* The bytes of a file that the write is not to.
LEMMA SameBytes ==
  ASSUME TypeInv, HeldInv, NEW w, Flushes(w), NEW s \in Held, w.at \notin SectorsOn(disk, s)
  PROVE  FileAt(s)' = FileAt(s)
<1>1. disk[s].kind = "inode" /\ SectorsOn(disk, s) \subseteq Sector
  BY DEF HeldInv
<1>2. \A k \in SectorsOn(disk, s) : disk'[k] = disk[k]
  BY <1>1 DEF Flushes
<1>3. SectorsOn(disk, s) = {s} \cup Extent(disk[s].start, disk[s].len) /\ disk'[s] = disk[s]
  BY <1>1, <1>2, SectorsOfInode
<1>4. PICK start, len : start = disk[s].start /\ len = disk[s].len /\ start \in Nat /\ len \in Nat
  <2>1. disk[s] \in Block
    BY <1>1, <1>3 DEF TypeInv
  <2>. QED BY <1>1, <2>1 DEF Block
<1>5. \A k \in 1..len : disk'[start + k - 1] = disk[start + k - 1]
  <2>1. \A k \in 1..len : start + k - 1 \in Extent(start, len)
    BY <1>4 DEF Extent
  <2>. QED BY <1>2, <1>3, <1>4, <2>1
<1>6. [k \in 1..len |-> disk'[start + k - 1].bytes] = [k \in 1..len |-> disk[start + k - 1].bytes]
  BY <1>5
<1>. QED BY <1>3, <1>4, <1>6 DEF FileAt, Contents

\* A write that is to no file.
LEMMA FlushUnseen ==
  ASSUME IInv, IInv', NEW w, Flushes(w), w.at # RootSector, \A s \in Held : w.at \notin SectorsOn(disk, s)
  PROVE  Unseen
<1>1. Leads' = Leads /\ Opened' = Opened /\ Denied' = Denied
  BY FlushSame
<1>2. Views /\ Views'
  BY ViewFacts, ViewFactsNext
<1>3. Held' = Held
  BY <1>1, <1>2, SameHeld
<1>4. \A s \in Held : FileAt(s)' = FileAt(s)
  BY SameBytes DEF IInv
<1>5. Reads' = Reads
  BY <1>2, <1>3, <1>4, SameReads DEF Keeps
<1>. QED BY <1>1, <1>5 DEF Unseen

\* A write to an open file that nobody denies changes one of its sectors.
LEMMA FlushData ==
  ASSUME IInv, IInv', NEW w, Flushes(w), w.put.kind = "data", w.at # RootSector, w.at \notin Held,
         NEW h \in Handle, Written(h, w.at)
  PROVE  \E k \in 1..MaxLen, d \in Data : Abstract!Write(h, k, d)
<1>. USE DEF IInv
<1>1. PICK a : a = handle[h].at
  OBVIOUS
<1>2. PICK node : node = inodes[a]
  OBVIOUS
<1>3. PICK k \in 1..MaxLen : k <= node.len /\ w.at = node.start + k - 1
  BY <1>1, <1>2 DEF Written
<1>4. handle[h] # None /\ Deniers(a) = {}
  BY <1>1 DEF Written
<1>5. /\ a \in Address /\ node \in Inode /\ node # None
      /\ disk[node.sector] = DiskInode(node.start, node.len)
  BY <1>1, <1>2, <1>4, OpenFacts DEF OpenInv
<1>6. PICK s : s = node.sector
  OBVIOUS
<1>7. PICK start \in Nat, len \in Nat : start = node.start /\ len = node.len
  BY <1>5 DEF Inode
<1>8. s \in Held /\ s \in Ino /\ Opened[h] = s /\ s # None
  <2>1. s \in Held /\ Opened[h] = s
    BY <1>1, <1>2, <1>4, <1>5, <1>6 DEF Held, OpenSectors, Opened
  <2>2. s \in Ino
    BY <1>5, <1>6 DEF Inode, Ino
  <2>. QED BY <2>1, <2>2, NoneIsNoSector
<1>9. disk[s].start = start /\ disk[s].len = len /\ SectorsOn(disk, s) = {s} \cup Extent(start, len)
  BY <1>5, <1>6, <1>7 DEF DiskInode, SectorsOn
<1>10. w.at \in Extent(start, len)
  BY <1>3, <1>7, FileSysAssumption DEF Extent
<1>11. PICK d \in Data : w.put.bytes = d
  BY DEF Flushes, Writes, Block
<1>12. FileAt(s) = [j \in 1..len |-> disk[start + j - 1].bytes]
  BY <1>9 DEF FileAt, Contents
<1>13. FileAt(s)' = [j \in 1..len |-> disk'[start + j - 1].bytes]
  <2>1. disk'[s] = disk[s]
    BY <1>8 DEF Flushes, Ino
  <2>. QED BY <1>9, <2>1 DEF FileAt, Contents
<1>14. \A j \in 1..len : disk'[start + j - 1].bytes = IF j = k THEN d ELSE disk[start + j - 1].bytes
  <2>1. SUFFICES ASSUME NEW j \in 1..len
        PROVE  disk'[start + j - 1].bytes = IF j = k THEN d ELSE disk[start + j - 1].bytes
    OBVIOUS
  <2>2. k \in Nat
    BY FileSysAssumption
  <2>3. start + j - 1 \in Sector
    <3>1. start + j - 1 \in Extent(start, len)
      BY DEF Extent
    <3>. QED BY <1>8, <1>9, <3>1 DEF HeldInv
  <2>4. j # k => start + j - 1 # w.at
    BY <1>3, <1>7, <2>2
  <2>. QED BY <1>3, <1>7, <1>11, <2>3, <2>4 DEF Flushes
<1>15. k \in 1..len
  BY <1>3, <1>7, FileSysAssumption
<1>16. FileAt(s)' = [FileAt(s) EXCEPT ![k] = d]
  <2>1. PICK old : old = [j \in 1..len |-> disk[start + j - 1].bytes]
    OBVIOUS
  <2>2. [old EXCEPT ![k] = d] = [j \in 1..len |-> IF j = k THEN d ELSE old[j]]
    BY <1>15, <2>1
  <2>3. \A j \in 1..len : disk'[start + j - 1].bytes = IF j = k THEN d ELSE old[j]
    BY <1>14, <2>1
  <2>4. FileAt(s)' = [j \in 1..len |-> IF j = k THEN d ELSE old[j]]
    BY <1>13, <2>3
  <2>. QED BY <1>12, <2>1, <2>2, <2>4
<1>17. \A r \in Held \ {s} : FileAt(r)' = FileAt(r)
  <2>1. \A r \in Held \ {s} : w.at \notin SectorsOn(disk, r)
    BY <1>8, <1>9, <1>10 DEF HeldInv
  <2>. QED BY <2>1, SameBytes
<1>18. Leads' = Leads /\ Opened' = Opened /\ Denied' = Denied
  BY FlushSame
<1>19. Views /\ Views' /\ Held' = Held
  BY <1>18, ViewFacts, ViewFactsNext, SameHeld
<1>20. Reads[s] = FileAt(s) /\ Reads'[s] = FileAt(s)'
  BY <1>8, <1>19 DEF Views
<1>21. \A r \in Ino \ {s} : Reads'[r] = Reads[r]
  BY <1>17, <1>19 DEF Views
<1>22. Reads' = [Reads EXCEPT ![s] = [Reads[s] EXCEPT ![k] = d]]
  BY <1>8, <1>16, <1>20, <1>21, Functions, FunctionsNext
<1>23. k \in DOMAIN Reads[s]
  BY <1>12, <1>15, <1>20
<1>24. ~ \E g \in Denied : Opened[g] = Opened[h]
  <2>1. SUFFICES ASSUME NEW g \in Handle, handle[g] # None, handle[g].deny, Opened[g] = s PROVE FALSE
    BY <1>8 DEF Denied
  <2>2. /\ handle[g].at \in Address /\ inodes[handle[g].at] # None
        /\ inodes[handle[g].at].sector = inodes[a].sector /\ g \in Deniers(handle[g].at)
    BY <1>2, <1>6, <2>1, OpenFacts DEF Opened
  <2>3. handle[g].at = a
    BY <1>2, <1>5, <2>2 DEF OpenInv
  <2>. QED BY <1>4, <2>2, <2>3
<1>25. Abstract!Write(h, k, d)
  BY <1>8, <1>18, <1>22, <1>23, <1>24 DEF Abstract!Write
<1>. QED BY <1>25

\* The directory's own write makes it what the call in progress wanted.
LEMMA DirectoryWritten ==
  ASSUME TypeInv, NEW w, Flushes(w), w.at = RootSector, NEW T, CallInv(T)
  PROVE  Dir' = T /\ 1 \in At(RootSector) /\ (Erases(T) \/ Adds(T))
<1>1. 1 \in At(RootSector) /\ w = pending[1]
  BY Shift DEF Flushes
<1>2. Erases(T) \/ Adds(T)
  BY <1>1 DEF CallInv
<1>3. w.put.slots = T
  BY <1>1, <1>2 DEF Erases, Adds
<1>. QED BY <1>1, <1>2, <1>3 DEF Flushes, Dir

\* No file has the directory among its sectors.
LEMMA DirectoryApart ==
  ASSUME IInv, NEW w, Flushes(w), w.at = RootSector
  PROVE  \A s \in Held : FileAt(s)' = FileAt(s)
<1>1. \A s \in Held : w.at \notin SectorsOn(disk, s)
  BY MapNotRoot DEF IInv, HeldInv
<1>. QED BY <1>1, SameBytes DEF IInv

\* What the names lead to when one entry is erased, and when one is added.
LEMMA EraseLeads ==
  ASSUME Names, Names', DirInv, DirOK, DirOK', NEW i \in Slot, Dir[i].used, ~Dir'[i].used,
         \A j \in Slot \ {i} : Dir'[j] = Dir[j]
  PROVE  Leads' = [Leads EXCEPT ![Dir[i].name] = None]
<1>1. PICK n \in Name : n = Dir[i].name
  BY DEF Names
<1>2. Leads'[n] = None
  <2>1. SUFFICES ASSUME Leads'[n] # None PROVE FALSE
    OBVIOUS
  <2>2. PICK j \in Slot : Dir'[j].used /\ Dir'[j].name = n
    BY <2>1 DEF Names
  <2>3. j # i /\ Dir'[j] = Dir[j]
    BY <2>2
  <2>. QED BY <1>1, <2>2, <2>3 DEF DirInv
<1>3. ASSUME NEW m \in Name \ {n}, Leads[m] # None PROVE Leads'[m] = Leads[m]
  <2>1. PICK j \in Slot : Dir[j].used /\ Dir[j].name = m /\ Leads[m] = Dir[j].sector
    BY <1>3 DEF Names
  <2>2. Dir'[j] = Dir[j]
    BY <1>1, <1>3, <2>1
  <2>. QED BY <2>1, <2>2 DEF Names
<1>4. ASSUME NEW m \in Name, Leads[m] = None PROVE Leads'[m] = None
  <2>1. SUFFICES ASSUME Leads'[m] # None PROVE FALSE
    OBVIOUS
  <2>2. PICK j \in Slot : Dir'[j].used /\ Dir'[j].name = m
    BY <2>1 DEF Names
  <2>3. Dir'[j] = Dir[j]
    BY <2>2
  <2>4. Leads[m] = Dir[j].sector /\ Dir[j].sector \in Sector
    BY <2>2, <2>3 DEF Names, DirOK
  <2>. QED BY <1>4, <2>4, NoneIsNoSector DEF Ino
<1>5. \A m \in Name : Leads'[m] = IF m = n THEN None ELSE Leads[m]
  BY <1>2, <1>3, <1>4
<1>. QED BY <1>1, <1>5, Functions, FunctionsNext

LEMMA AddLeads ==
  ASSUME Names, Names', DirOK, DirOK', NEW i \in Slot, ~Dir[i].used, Dir'[i].used,
         \A j \in Slot : Dir[j].used => Dir[j].name # Dir'[i].name,
         \A j \in Slot \ {i} : Dir'[j] = Dir[j]
  PROVE  /\ Leads' = [Leads EXCEPT ![Dir'[i].name] = Dir'[i].sector]
         /\ Dir'[i].name \in Name /\ Leads[Dir'[i].name] = None
<1>1. PICK n \in Name : n = Dir'[i].name
  BY DEF Names
<1>2. Leads[n] = None /\ Leads'[n] = Dir'[i].sector
  BY <1>1 DEF Names
<1>3. ASSUME NEW m \in Name \ {n}, Leads[m] # None PROVE Leads'[m] = Leads[m]
  <2>1. PICK j \in Slot : Dir[j].used /\ Dir[j].name = m /\ Leads[m] = Dir[j].sector
    BY <1>3 DEF Names
  <2>2. Dir'[j] = Dir[j]
    BY <2>1
  <2>. QED BY <2>1, <2>2 DEF Names
<1>4. ASSUME NEW m \in Name \ {n}, Leads[m] = None PROVE Leads'[m] = None
  <2>1. SUFFICES ASSUME Leads'[m] # None PROVE FALSE
    OBVIOUS
  <2>2. PICK j \in Slot : Dir'[j].used /\ Dir'[j].name = m
    BY <2>1 DEF Names
  <2>3. Dir'[j] = Dir[j]
    BY <1>1, <2>2
  <2>4. Leads[m] = Dir[j].sector /\ Dir[j].sector \in Sector
    BY <2>2, <2>3 DEF Names, DirOK
  <2>. QED BY <1>4, <2>4, NoneIsNoSector DEF Ino
<1>5. \A m \in Name : Leads'[m] = IF m = n THEN Dir'[i].sector ELSE Leads[m]
  BY <1>2, <1>3, <1>4
<1>. QED BY <1>1, <1>2, <1>5, Functions, FunctionsNext

LEMMA FlushErases ==
  ASSUME IInv, IInv', NEW w, Flushes(w), w.at = RootSector, NEW T \in Slots, CallInv(T), Erases(T)
  PROVE  \E n \in Name : Abstract!Remove(n)
<1>. USE DEF IInv
<1>1. Dir' = T
  BY DirectoryWritten
<1>2. Views /\ Views' /\ DirOK /\ DirOK'
  BY ViewFacts, ViewFactsNext, DirFacts, DirFactsNext
<1>3. PICK i \in Slot : Dir[i].used /\ T = [Dir EXCEPT ![i] = FreeEntry]
  BY DEF Erases
<1>4. ~Dir'[i].used /\ \A j \in Slot \ {i} : Dir'[j] = Dir[j]
  BY <1>1, <1>2, <1>3 DEF DirOK, Slots, FreeEntry
<1>5. PICK n \in Name : n = Dir[i].name
  BY <1>2, <1>3 DEF Views, Names
<1>6. Leads' = [Leads EXCEPT ![n] = None]
  BY <1>2, <1>3, <1>4, <1>5, EraseLeads DEF Views
<1>7. Leads[n] = Dir[i].sector /\ Dir[i].sector \in Ino
  BY <1>2, <1>3, <1>5 DEF Views, Names, DirOK, Ino
<1>8. Opened' = Opened /\ Denied' = Denied
  BY FlushSame
<1>9. Keeps
  <2>1. \A m \in Name : Leads'[m] = IF m = n THEN None ELSE Leads[m]
    BY <1>6, Functions
  <2>2. \A s \in Ino : s \in Held' => s \in Held
    BY <1>2, <1>8, <2>1, NoneIsNoSector DEF Views
  <2>. QED BY <1>2, <2>2, DirectoryApart DEF Keeps, Views
<1>10. Abstract!Collect(Leads', Opened')
  BY <1>2, <1>9, Collects
<1>11. Abstract!Remove(n)
  BY <1>6, <1>7, <1>8, <1>10, NoneIsNoSector DEF Abstract!Remove, Abstract!Collect
<1>. QED BY <1>11

LEMMA FlushAdds ==
  ASSUME IInv, IInv', NEW w, Flushes(w), w.at = RootSector, NEW T \in Slots, CallInv(T), Adds(T)
  PROVE  \E n \in Name, s \in Ino, len \in 0..MaxLen : Abstract!Create(n, s, len)
<1>. USE DEF IInv
<1>1. Dir' = T /\ 1 \in At(RootSector) /\ w = pending[1]
  BY DirectoryWritten DEF Flushes
<1>2. Views /\ Views' /\ DirOK /\ DirOK'
  BY ViewFacts, ViewFactsNext, DirFacts, DirFactsNext
<1>3. PICK i \in Slot :
       /\ ~Dir[i].used /\ T = [Dir EXCEPT ![i] = T[i]] /\ T[i].used
       /\ \A j \in Slot : Dir[j].used => Dir[j].name # T[i].name
       /\ \E start \in Nat, len \in 0..MaxLen : NewFile(T[i].sector, start, len)
  BY DEF Adds
<1>4. PICK start \in Nat, len \in 0..MaxLen : NewFile(T[i].sector, start, len)
  BY <1>3
<1>5. PICK s : s = T[i].sector
  OBVIOUS
<1>6. Dir'[i].used /\ \A j \in Slot \ {i} : Dir'[j] = Dir[j]
  BY <1>1, <1>2, <1>3 DEF DirOK, Slots
<1>7. PICK n : n = Dir'[i].name
  OBVIOUS
<1>8. Leads' = [Leads EXCEPT ![n] = s] /\ n \in Name /\ Leads[n] = None
  BY <1>1, <1>2, <1>3, <1>5, <1>6, <1>7, AddLeads DEF Views
<1>9. Opened' = Opened /\ Denied' = Denied
  BY FlushSame
<1>10. s \in Ino /\ s \notin Held /\ {s} \cup Extent(start, len) \subseteq Sector \ Reserved
  <2>1. \A r \in Held : r \in SectorsOn(disk, r)
    BY DEF SectorsOn
  <2>. QED BY <1>4, <1>5, <2>1 DEF NewFile, TypeInv, Ino
<1>11. \A r \in {s} \cup Extent(start, len) : At(r) = {} /\ disk'[r] = disk[r]
  <2>1. DOMAIN pending = {1}
    <3>1. Len(pending) = 1
      BY <1>1 DEF Adds
    <3>. QED BY <3>1 DEF TypeInv
  <2>2. RootSector \notin {s} \cup Extent(start, len)
    BY <1>10, MapNotRoot
  <2>. QED BY <1>1, <1>10, <2>1, <2>2 DEF At, Flushes
<1>12. disk'[s] = DiskInode(start, len) /\ \A k \in Extent(start, len) : disk'[k] = Bytes(Zero)
  BY <1>4, <1>5, <1>11 DEF NewFile
<1>13. FileAt(s)' = [k \in 1..len |-> Zero]
  <2>1. \A k \in 1..len : start + k - 1 \in Extent(start, len)
    BY FileSysAssumption DEF Extent
  <2>2. \A k \in 1..len : disk'[start + k - 1].bytes = Zero
    BY <1>12, <2>1 DEF Bytes
  <2>3. FileAt(s)' = [k \in 1..len |-> disk'[start + k - 1].bytes]
    BY <1>12 DEF FileAt, Contents, DiskInode
  <2>. QED BY <2>2, <2>3
<1>14. \A m \in Name : Leads'[m] = IF m = n THEN s ELSE Leads[m]
  BY <1>8, Functions
<1>15. \A r \in Ino : r \in Held' <=> r \in Held \/ r = s
  BY <1>2, <1>8, <1>9, <1>14, NoneIsNoSector DEF Views
<1>16. \A r \in Held : FileAt(r)' = FileAt(r)
  BY DirectoryApart
<1>17. \A r \in Ino : Reads'[r] = IF r = s THEN [k \in 1..len |-> Zero] ELSE Reads[r]
  BY <1>2, <1>10, <1>13, <1>15, <1>16 DEF Views
<1>18. Reads' = [Reads EXCEPT ![s] = [k \in 1..len |-> Zero]] /\ Reads[s] = None
  BY <1>2, <1>10, <1>17, Functions, FunctionsNext DEF Views
<1>19. Abstract!Create(n, s, len)
  BY <1>8, <1>9, <1>18 DEF Abstract!Create
<1>. QED BY <1>8, <1>10, <1>19

LEMMA FlushSeen ==
  ASSUME IInv, IInv', Flush
  PROVE  Abstract!Next \/ Unseen
<1>. USE DEF IInv
<1>1. PICK w : w = pending[1]
  OBVIOUS
<1>2. Flushes(w) /\ 1 \in DOMAIN pending
  BY <1>1, FlushFact DEF Flushes
<1>3. PICK T \in Slots : CallInv(T)
  OBVIOUS
<1>4. CASE w.at = RootSector
  <2>1. Erases(T) \/ Adds(T)
    BY <1>2, <1>3, <1>4, DirectoryWritten
  <2>. QED BY <1>2, <1>3, <1>4, <2>1, FlushErases, FlushAdds DEF Abstract!Next
<1>5. CASE w.at # RootSector
  <2>1. Spares(T, w) /\ w.put.kind \in {"map", "inode", "dir", "data"}
    BY <1>1, <1>2, <1>3 DEF CallInv, Flushes, Writes, Block
  <2>2. CASE \A s \in Held : w.at \notin SectorsOn(disk, s)
    BY <1>2, <1>5, <2>2, FlushUnseen
  <2>3. CASE \E s \in Held : w.at \in SectorsOn(disk, s)
    <3>1. w.put.kind = "data" /\ w.at \notin Held
      BY <1>5, <2>1, <2>3, MapNotRoot DEF Spares, HeldInv
    <3>2. \E h \in Handle : Written(h, w.at)
      BY <2>1, <2>3, <3>1 DEF Spares, Goes
    <3>. QED BY <1>2, <1>5, <3>1, <3>2, FlushData DEF Abstract!Next
  <2>. QED BY <2>2, <2>3
<1>. QED BY <1>4, <1>5

LEMMA NextSeen ==
  ASSUME IInv, IInv', [Next]_vars
  PROVE  Abstract!Next \/ Unseen
<1>1. Scans("scan") \subseteq 0..Entries
  BY FileSysAssumption DEF Scans
<1>2. CASE Creates
  <2>1. UNCHANGED <<disk, inodes, handle>>
    BY <1>2 DEF Creates, Create
  <2>. QED BY <2>1, MemoryUnseen
<1>3. CASE \E n \in Name, seen \in Scans("scan") :
             \E fail \in Failures(FailingAllocs \cap {"map1", "map2"}) : Remove(n, fail, seen)
  BY <1>1, <1>3, RemoveUnseen
<1>4. CASE \E n \in Name, seen \in Scans("scan") : \E h \in Handle : Open(h, n, seen)
  BY <1>1, <1>4, OpenSeen DEF Abstract!Next
<1>5. ASSUME NEW h \in Handle, NEW g \in Handle, Reopen(h, g) PROVE Abstract!Next
  BY <1>5, ReopenSeen DEF Abstract!Next
<1>6. ASSUME NEW h \in Handle, NEW fail, Close(h, fail) PROVE Abstract!Next
  BY <1>6, CloseSeen DEF Abstract!Next
<1>7. ASSUME NEW h, NEW k, NEW d, Write(h, k, d) PROVE Unseen
  <2>1. UNCHANGED <<disk, inodes, handle>>
    BY <1>7 DEF Write
  <2>. QED BY <2>1, MemoryUnseen
<1>8. ASSUME NEW h \in Handle, Deny(h) \/ Allow(h) PROVE Abstract!Next
  BY <1>8, DenySeen, AllowSeen DEF Abstract!Next
<1>9. CASE Flush
  BY <1>9, FlushSeen
<1>10. CASE Reboot
  BY <1>10, RebootSeen DEF Abstract!Next
<1>11. CASE UNCHANGED vars
  BY <1>11, MemoryUnseen DEF vars
<1>. QED BY <1>2, <1>3, <1>4, <1>5, <1>6, <1>7, <1>8, <1>9, <1>10, <1>11 DEF Next

LEMMA InitSeen ==
  ASSUME Init
  PROVE  Abstract!Init
<1>1. IInv /\ Views
  BY InitIInv, ViewFacts
<1>2. Opened = [h \in Handle |-> None] /\ Denied = {}
  BY DEF Init, Opened, Denied
<1>3. \A i \in Slot : ~Dir[i].used
  <2>1. RootSector \in Sector /\ RootSector \notin {0, 1, MapSector}
    BY Places DEF Reserved
  <2>2. PICK T : T = [i \in Slot |-> FreeEntry]
    OBVIOUS
  <2>3. disk[RootSector] = Directory(T)
    BY <2>1, <2>2 DEF Init
  <2>. QED BY <2>2, <2>3 DEF Dir, Directory, FreeEntry
<1>4. \A n \in Name : Leads[n] = None
  BY <1>1, <1>3 DEF Views, Names
<1>5. \A s \in Ino : Reads[s] = None
  BY <1>1, <1>2, <1>4, NoneIsNoSector DEF Views
<1>6. Leads = [n \in Name |-> None] /\ Reads = [s \in Ino |-> None]
  BY <1>4, <1>5, Functions
<1>. QED BY <1>2, <1>6 DEF Abstract!Init

\* Callers cannot tell the sectors from files with a name and contents: each
\* call takes effect in one step (a create or a remove when its directory write
\* is on the disk, a write when its sector is), and a crash between any two block
\* writes is one between calls, as long as no allocation fails in dir_add's search.
THEOREM FilesImplementFileSys ==
  ASSUME "addscan" \notin FailingAllocs
  PROVE  Spec => ImplementsFileSys
<1>1. Init => IInv
  BY InitIInv
<1>2. IInv /\ [Next]_vars => IInv'
  BY NextIInv
<1>3. Init => Abstract!Init
  BY InitSeen
<1>4. IInv /\ IInv' /\ [Next]_vars => [Abstract!Next]_<<Leads, Reads, Opened, Denied>>
  BY NextSeen DEF Unseen
<1>5. ImplementsFileSys <=> Abstract!Init /\ [][Abstract!Next]_<<Leads, Reads, Opened, Denied>>
  BY DEF ImplementsFileSys, Abstract!Spec, Abstract!vars
<1>. QED BY <1>1, <1>2, <1>3, <1>4, <1>5, PTL DEF Spec
================================================================================
