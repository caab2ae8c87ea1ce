---------------------------- MODULE PageDirProofs ----------------------------
(* Theorems about PageDir, for finite pools and any user pages.             *)
EXTENDS PageDir, FiniteSetTheorems, TLAPS

-----------------------------------------------------------------------------
TypeOK ==
  /\ mem \in [KPool -> {None} \cup Dirs \cup Tables]
  /\ free \in SUBSET UPool
  /\ cr3 \in PageDirs \cup {None}
  /\ tlb \in [UPage -> Translations \cup {None}]

\* Every entry of a directory is to a table, every table has an entry, and one only.
EntriesToTables ==
  \A pd \in PageDirs, n \in TableNo :
    mem[pd].pde[n] # None => mem[pd].pde[n] \notin PageDirs /\ mem[mem[pd].pde[n]] # None
TablesHaveDirs ==
  \A k \in KPool \ PageDirs : mem[k] # None => \E pd \in PageDirs, n \in TableNo : mem[pd].pde[n] = k
TablesOnce ==
  \A pd, qd \in PageDirs, m, n \in TableNo :
    mem[pd].pde[m] # None /\ mem[pd].pde[m] = mem[qd].pde[n] => pd = qd /\ m = n

\* A present page has a frame that is not free, no two have the same, and a frame
\* that is not free is some page's.
PresentHasFrame ==
  \A pd \in PageDirs, u \in UPage : Pte(pd, u).p => Pte(pd, u).frame \in UPool \ free
FramesOnce ==
  \A pd, qd \in PageDirs, u, v \in UPage :
    Pte(pd, u).p /\ Pte(qd, v).p /\ Pte(pd, u).frame = Pte(qd, v).frame => pd = qd /\ u = v
FramesUsed ==
  \A f \in UPool \ free : \E pd \in PageDirs, u \in UPage : Pte(pd, u).p /\ Pte(pd, u).frame = f

\* What the CPU has cached is what the active directory says, a page it has cached
\* was accessed since that was last cleared, and one it has cached as dirty is.
CacheRight ==
  \A u \in UPage : tlb[u] # None =>
    /\ cr3 # None
    /\ Pte(cr3, u).p /\ Pte(cr3, u).a
    /\ tlb[u].frame = Pte(cr3, u).frame /\ tlb[u].w = Pte(cr3, u).w
    /\ tlb[u].d => Pte(cr3, u).d

StructInv == EntriesToTables /\ TablesHaveDirs /\ TablesOnce
FrameInv == PresentHasFrame /\ FramesOnce /\ FramesUsed
IInv == TypeOK /\ StructInv /\ FrameInv /\ CacheRight

-----------------------------------------------------------------------------
\* Pages of the kernel pool are free, directories or tables.
LEMMA Shapes ==
  ASSUME PageDirAssumption, TypeOK
  PROVE  \A k \in KPool :
           /\ k \in PageDirs <=> mem[k] \in Dirs
           /\ mem[k] = None <=> mem[k] \notin Dirs \cup Tables
           /\ mem[k] \notin Dirs \/ mem[k] \notin Tables
<1>1. SUFFICES ASSUME NEW k \in KPool
      PROVE  /\ k \in PageDirs <=> mem[k] \in Dirs
             /\ mem[k] = None <=> mem[k] \notin Dirs \cup Tables
             /\ mem[k] \notin Dirs \/ mem[k] \notin Tables
  OBVIOUS
<1>2. mem[k] \in {None} \cup Dirs \cup Tables
  BY DEF TypeOK
<1>3. mem[k] \in Dirs => DOMAIN mem[k] = {"pde"}
  BY DEF Dirs
<1>4. mem[k] \in Tables => DOMAIN mem[k] = {"pte"}
  BY DEF Tables
<1>. QED BY <1>2, <1>3, <1>4 DEF PageDirAssumption, PageDirs

\* A page table is no directory, and what is looked up is an entry.
LEMMA EntryType ==
  ASSUME PageDirAssumption, TypeOK, StructInv, NEW pd \in PageDirs, NEW u \in UPage
  PROVE  /\ u[1] \in TableNo /\ u[2] \in Index
         /\ pd \in KPool /\ mem[pd] \in Dirs /\ mem[pd].pde[u[1]] \in KPool \cup {None}
         /\ HasTable(pd, u) => /\ mem[pd].pde[u[1]] \in KPool \ PageDirs
                               /\ mem[mem[pd].pde[u[1]]] \in Tables
         /\ Pte(pd, u) \in Entries
<1>1. u[1] \in TableNo /\ u[2] \in Index
  BY DEF PageDirAssumption
<1>2. pd \in KPool /\ mem[pd] \in Dirs
  BY Shapes DEF PageDirs
<1>3. mem[pd].pde[u[1]] \in KPool \cup {None}
  BY <1>1, <1>2 DEF Dirs
<1>4. HasTable(pd, u) => /\ mem[pd].pde[u[1]] \in KPool \ PageDirs
                         /\ mem[mem[pd].pde[u[1]]] \in Tables
  BY <1>1, <1>3, Shapes DEF HasTable, StructInv, EntriesToTables
<1>5. CASE HasTable(pd, u)
  BY <1>1, <1>2, <1>3, <1>4, <1>5 DEF Pte, Tables
<1>6. CASE ~HasTable(pd, u)
  BY <1>1, <1>2, <1>3, <1>4, <1>6 DEF Pte, Zero, Entries
<1>. QED BY <1>1, <1>2, <1>3, <1>4, <1>5, <1>6

\* Only one entry is another, of one directory.
Changed(pd, u, e) ==
  /\ PageDirs' = PageDirs
  /\ \A qd \in PageDirs, v \in UPage : Pte(qd, v)' = IF qd = pd /\ v = u THEN e ELSE Pte(qd, v)

MemOK == mem \in [KPool -> {None} \cup Dirs \cup Tables]

\* Entries of the pages u and v are the same one only when u = v.
LEMMA SamePlace ==
  ASSUME PageDirAssumption, NEW u \in UPage, NEW v \in UPage, u[1] = v[1], u[2] = v[2]
  PROVE  u = v
BY DEF PageDirAssumption

\* A new entry in a table there is.
LEMMA WithPteStruct ==
  ASSUME PageDirAssumption, TypeOK, StructInv, NEW pd \in PageDirs, NEW u \in UPage,
         HasTable(pd, u), NEW e \in Entries, mem' = WithPte(mem, pd, u, e)
  PROVE  MemOK' /\ StructInv' /\ Changed(pd, u, e)
<1>. DEFINE pt == mem[pd].pde[u[1]]
<1>1. /\ u[1] \in TableNo /\ u[2] \in Index /\ pd \in KPool /\ mem[pd] \in Dirs
      /\ pt \in KPool \ PageDirs /\ mem[pt] \in Tables
  BY EntryType
<1>2. mem \in [KPool -> {None} \cup Dirs \cup Tables]
  BY DEF TypeOK
<1>3. mem' = [mem EXCEPT ![pt] = [mem[pt] EXCEPT !.pte = [mem[pt].pte EXCEPT ![u[2]] = e]]]
  BY DEF WithPte
<1>. HIDE DEF pt
<1>. DEFINE t == [mem[pt] EXCEPT !.pte = [mem[pt].pte EXCEPT ![u[2]] = e]]
<1>4. t \in Tables /\ t.pte = [mem[pt].pte EXCEPT ![u[2]] = e]
  BY <1>1 DEF Tables
<1>. HIDE DEF t
<1>5. mem' = [mem EXCEPT ![pt] = t]
  BY <1>3 DEF t
<1>6. MemOK'
  BY <1>1, <1>2, <1>4, <1>5 DEF MemOK
<1>7. /\ mem'[pt] = t /\ t # None /\ \A k \in KPool : k # pt => mem'[k] = mem[k]
  BY <1>1, <1>2, <1>4, <1>5 DEF PageDirAssumption
<1>8. PageDirs' = PageDirs
  <2>1. pt \notin PageDirs'
    BY <1>4, <1>7 DEF PageDirs, Tables
  <2>2. \A k \in KPool : k # pt => (k \in PageDirs' <=> k \in PageDirs)
    BY <1>7 DEF PageDirs
  <2>. QED BY <1>1, <2>1, <2>2 DEF PageDirs
<1>9. \A qd \in PageDirs : qd \in KPool /\ mem'[qd] = mem[qd]
  BY <1>1, <1>7 DEF PageDirs
<1>10. \A qd \in PageDirs, n \in TableNo :
         mem[qd].pde[n] # None => mem[qd].pde[n] \in KPool
  <2>1. \A qd \in PageDirs : mem[qd] \in Dirs
    BY <1>9, Shapes
  <2>. QED BY <2>1 DEF Dirs
<1>11. EntriesToTables'
  <2>1. SUFFICES ASSUME NEW qd \in PageDirs, NEW n \in TableNo, mem[qd].pde[n] # None
        PROVE mem[qd].pde[n] \notin PageDirs /\ mem'[mem[qd].pde[n]] # None
    BY <1>8, <1>9 DEF EntriesToTables
  <2>2. mem[qd].pde[n] \notin PageDirs /\ mem[mem[qd].pde[n]] # None
    BY <2>1 DEF StructInv, EntriesToTables
  <2>3. mem[qd].pde[n] \in KPool
    BY <1>10, <2>1
  <2>. QED BY <1>7, <2>2, <2>3
<1>12. TablesHaveDirs'
  <2>1. SUFFICES ASSUME NEW k \in KPool \ PageDirs, mem'[k] # None
        PROVE \E qd \in PageDirs, n \in TableNo : mem[qd].pde[n] = k
    BY <1>8, <1>9 DEF TablesHaveDirs
  <2>2. mem[k] # None
    BY <1>1, <1>7, <2>1 DEF PageDirAssumption
  <2>. QED BY <2>2 DEF StructInv, TablesHaveDirs
<1>13. TablesOnce'
  BY <1>8, <1>9 DEF TablesOnce, StructInv
<1>14. ASSUME NEW qd \in PageDirs, NEW v \in UPage
       PROVE Pte(qd, v)' = IF qd = pd /\ v = u THEN e ELSE Pte(qd, v)
  <2>1. v[1] \in TableNo /\ v[2] \in Index
    BY <1>14 DEF PageDirAssumption
  <2>2. HasTable(qd, v)' <=> HasTable(qd, v)
    BY <1>9, <1>14 DEF HasTable
  <2>3. CASE ~HasTable(qd, v)
    BY <2>2, <2>3 DEF Pte
  <2>4. CASE HasTable(qd, v) /\ mem[qd].pde[v[1]] # pt
    <3>1. mem[qd].pde[v[1]] \in KPool
      BY <1>10, <2>1, <2>4 DEF HasTable
    <3>2. Pte(qd, v)' = Pte(qd, v)
      BY <1>7, <1>9, <2>2, <2>4, <3>1 DEF Pte
    <3>3. qd # pd \/ v # u
      BY <2>4 DEF pt
    <3>. QED BY <3>2, <3>3
  <2>5. CASE HasTable(qd, v) /\ mem[qd].pde[v[1]] = pt
    <3>1. qd = pd /\ v[1] = u[1]
      <4>1. mem[qd].pde[v[1]] # None /\ mem[qd].pde[v[1]] = mem[pd].pde[u[1]]
        BY <2>5 DEF HasTable, pt
      <4>. QED BY <1>1, <2>1, <4>1 DEF StructInv, TablesOnce
    <3>2. Pte(qd, v)' = t.pte[v[2]] /\ Pte(qd, v) = mem[pt].pte[v[2]]
      BY <1>7, <1>9, <2>2, <2>5 DEF Pte
    <3>3. mem[pt].pte \in [Index -> Entries]
      BY <1>1 DEF Tables
    <3>4. v[2] = u[2] => v = u
      BY <3>1, SamePlace
    <3>. QED BY <1>1, <1>4, <2>1, <3>1, <3>2, <3>3, <3>4
  <2>. QED BY <2>3, <2>4, <2>5
<1>. QED BY <1>6, <1>8, <1>11, <1>12, <1>13, <1>14 DEF StructInv, Changed

\* A new entry in a table that is new too.
LEMMA WithTableStruct ==
  ASSUME PageDirAssumption, TypeOK, StructInv, NEW pd \in PageDirs, NEW u \in UPage,
         ~HasTable(pd, u), FreeKernel # {}, NEW e \in Entries,
         mem' = WithPte(WithTable(pd, u), pd, u, e)
  PROVE  MemOK' /\ StructInv' /\ Changed(pd, u, e)
<1>. DEFINE pt == Some(FreeKernel)
            m == WithTable(pd, u)
            d == [mem[pd] EXCEPT !.pde = [mem[pd].pde EXCEPT ![u[1]] = pt]]
            t == [pte |-> [[i \in Index |-> Zero] EXCEPT ![u[2]] = e]]
<1>1. u[1] \in TableNo /\ u[2] \in Index /\ pd \in KPool /\ mem[pd] \in Dirs
  BY EntryType
<1>2. mem \in [KPool -> {None} \cup Dirs \cup Tables]
  BY DEF TypeOK
<1>3. pt \in KPool /\ mem[pt] = None /\ pt # None
  BY DEF Some, FreeKernel, PageDirAssumption
<1>4. pt \notin PageDirs /\ pt # pd
  BY <1>3 DEF PageDirs
<1>5. m = [[mem EXCEPT ![pt] = Table] EXCEPT ![pd].pde[u[1]] = pt]
  BY DEF WithTable
<1>. HIDE DEF pt, m
<1>6. d \in Dirs /\ d.pde = [mem[pd].pde EXCEPT ![u[1]] = pt]
  BY <1>1, <1>3 DEF Dirs
<1>7. Zero \in Entries
  BY DEF Zero, Entries
<1>8. t \in Tables /\ t.pte = [i \in Index |-> IF i = u[2] THEN e ELSE Zero]
  BY <1>1, <1>7 DEF Tables
<1>9. m = [[mem EXCEPT ![pt] = Table] EXCEPT ![pd] = d]
  BY <1>1, <1>2, <1>3, <1>4, <1>5
<1>. HIDE DEF d
<1>10. m[pd] = d /\ m[pt] = Table /\ DOMAIN m = KPool /\ \A k \in KPool \ {pd, pt} : m[k] = mem[k]
  BY <1>1, <1>2, <1>3, <1>4, <1>9
<1>11. mem' = [m EXCEPT ![m[pd].pde[u[1]]].pte[u[2]] = e]
  BY DEF WithPte, m
<1>12. m[pd].pde[u[1]] = pt
  BY <1>1, <1>6, <1>10 DEF Dirs
<1>13. mem' = [m EXCEPT ![pt] = [m[pt] EXCEPT !.pte = [m[pt].pte EXCEPT ![u[2]] = e]]]
  BY <1>11, <1>12
<1>14. [m[pt] EXCEPT !.pte = [m[pt].pte EXCEPT ![u[2]] = e]] = t
  BY <1>10 DEF Table
<1>. HIDE DEF t
<1>15. mem' = [m EXCEPT ![pt] = t]
  BY <1>13, <1>14
<1>16. /\ mem'[pt] = t /\ mem'[pd] = d /\ \A k \in KPool \ {pd, pt} : mem'[k] = mem[k]
       /\ DOMAIN mem' = KPool /\ mem' = [k \in KPool |-> mem'[k]]
  BY <1>1, <1>3, <1>4, <1>9, <1>10, <1>15
<1>17. MemOK'
  BY <1>1, <1>2, <1>3, <1>6, <1>8, <1>16 DEF MemOK
<1>18. d # None /\ t # None
  BY <1>6, <1>8 DEF PageDirAssumption
<1>19. PageDirs' = PageDirs
  <2>1. pt \notin PageDirs' /\ pd \in PageDirs'
    BY <1>1, <1>6, <1>8, <1>16, <1>18 DEF PageDirs, Tables, Dirs
  <2>2. \A k \in KPool \ {pd, pt} : k \in PageDirs' <=> k \in PageDirs
    BY <1>16 DEF PageDirs
  <2>. QED BY <1>1, <1>3, <1>4, <2>1, <2>2 DEF PageDirs
<1>20. \A qd \in PageDirs, n \in TableNo :
         /\ qd \in KPool /\ mem[qd] \in Dirs /\ mem[qd].pde[n] \in KPool \cup {None}
         /\ mem[qd].pde[n] # pt
  <2>1. \A qd \in PageDirs : qd \in KPool /\ mem[qd] \in Dirs
    BY Shapes DEF PageDirs
  <2>2. \A qd \in PageDirs, n \in TableNo : mem[qd].pde[n] \in KPool \cup {None}
    BY <2>1 DEF Dirs
  <2>3. \A qd \in PageDirs, n \in TableNo : mem[qd].pde[n] # pt
    BY <1>3 DEF StructInv, EntriesToTables
  <2>. QED BY <2>1, <2>2, <2>3
\* The entries now: the old ones, and the new one.
<1>21. \A qd \in PageDirs, n \in TableNo :
         mem'[qd].pde[n] = IF qd = pd /\ n = u[1] THEN pt ELSE mem[qd].pde[n]
  <2>1. \A n \in TableNo : mem'[pd].pde[n] = IF n = u[1] THEN pt ELSE mem[pd].pde[n]
    BY <1>1, <1>6, <1>16 DEF Dirs
  <2>2. \A qd \in PageDirs \ {pd} : mem'[qd] = mem[qd]
    BY <1>4, <1>16, <1>20 DEF PageDirs
  <2>. QED BY <2>1, <2>2
<1>22. EntriesToTables'
  <2>1. SUFFICES ASSUME NEW qd \in PageDirs, NEW n \in TableNo, mem'[qd].pde[n] # None
        PROVE mem'[qd].pde[n] \notin PageDirs /\ mem'[mem'[qd].pde[n]] # None
    BY <1>19 DEF EntriesToTables
  <2>2. CASE qd = pd /\ n = u[1]
    BY <1>4, <1>16, <1>18, <1>21, <2>2
  <2>3. CASE ~(qd = pd /\ n = u[1])
    <3>1. mem'[qd].pde[n] = mem[qd].pde[n] /\ mem[qd].pde[n] # None
      BY <1>21, <2>1, <2>3
    <3>2. mem[qd].pde[n] \notin PageDirs /\ mem[mem[qd].pde[n]] # None /\ mem[qd].pde[n] \in KPool
      BY <1>20, <3>1 DEF StructInv, EntriesToTables
    <3>. QED BY <1>3, <1>16, <3>1, <3>2
  <2>. QED BY <2>2, <2>3
<1>23. TablesHaveDirs'
  <2>1. SUFFICES ASSUME NEW k \in KPool \ PageDirs, mem'[k] # None
        PROVE \E qd \in PageDirs, n \in TableNo : mem'[qd].pde[n] = k
    BY <1>19 DEF TablesHaveDirs
  <2>2. CASE k = pt
    BY <1>1, <1>21, <2>2
  <2>3. CASE k # pt
    <3>1. mem[k] # None
      BY <1>16, <2>1, <2>3
    <3>2. PICK qd \in PageDirs, n \in TableNo : mem[qd].pde[n] = k
      BY <3>1 DEF StructInv, TablesHaveDirs
    <3>3. ~(qd = pd /\ n = u[1])
      BY <1>3, <2>1, <3>2 DEF HasTable, PageDirAssumption
    <3>. QED BY <1>21, <3>2, <3>3
  <2>. QED BY <2>2, <2>3
<1>24. TablesOnce'
  <2>1. SUFFICES ASSUME NEW qd \in PageDirs, NEW rd \in PageDirs, NEW i \in TableNo, NEW n \in TableNo,
                        mem'[qd].pde[i] # None, mem'[qd].pde[i] = mem'[rd].pde[n]
        PROVE qd = rd /\ i = n
    BY <1>19 DEF TablesOnce
  <2>2. CASE mem'[qd].pde[i] = pt
    <3>1. \A sd \in PageDirs, j \in TableNo : mem'[sd].pde[j] = pt => sd = pd /\ j = u[1]
      BY <1>20, <1>21
    <3>. QED BY <2>1, <2>2, <3>1
  <2>3. CASE mem'[qd].pde[i] # pt
    <3>1. mem'[qd].pde[i] = mem[qd].pde[i] /\ mem'[rd].pde[n] = mem[rd].pde[n]
      BY <1>21, <2>1, <2>3
    <3>2. TablesOnce
      BY DEF StructInv
    <3>3. mem[qd].pde[i] # None /\ mem[qd].pde[i] = mem[rd].pde[n]
      BY <2>1, <3>1
    <3>. QED BY <3>2, <3>3 DEF TablesOnce
  <2>. QED BY <2>2, <2>3
<1>25. ASSUME NEW qd \in PageDirs, NEW v \in UPage
       PROVE Pte(qd, v)' = IF qd = pd /\ v = u THEN e ELSE Pte(qd, v)
  <2>1. v[1] \in TableNo /\ v[2] \in Index
    BY <1>25 DEF PageDirAssumption
  <2>2. CASE qd = pd /\ v[1] = u[1]
    <3>1. HasTable(qd, v)' /\ mem'[qd].pde[v[1]] = pt
      BY <1>3, <1>21, <2>1, <2>2 DEF HasTable
    <3>2. Pte(qd, v)' = t.pte[v[2]]
      BY <1>16, <3>1 DEF Pte
    <3>3. Pte(qd, v) = Zero
      BY <2>2 DEF Pte, HasTable
    <3>4. v[2] = u[2] <=> v = u
      BY <2>2, SamePlace
    <3>. QED BY <1>8, <2>1, <2>2, <3>2, <3>3, <3>4
  <2>3. CASE ~(qd = pd /\ v[1] = u[1])
    <3>1. mem'[qd].pde[v[1]] = mem[qd].pde[v[1]]
      BY <1>21, <2>1, <2>3
    <3>2. CASE ~HasTable(qd, v)
      BY <2>3, <3>1, <3>2 DEF Pte, HasTable
    <3>3. CASE HasTable(qd, v)
      <4>1. mem[qd].pde[v[1]] \in KPool \ {pd, pt}
        BY <1>20, <2>1, <3>3 DEF HasTable, StructInv, EntriesToTables
      <4>2. mem'[mem[qd].pde[v[1]]] = mem[mem[qd].pde[v[1]]]
        BY <1>16, <4>1
      <4>. QED BY <2>3, <3>1, <3>3, <4>2 DEF Pte, HasTable
    <3>. QED BY <3>2, <3>3
  <2>. QED BY <2>2, <2>3
<1>. QED BY <1>17, <1>19, <1>22, <1>23, <1>24, <1>25 DEF StructInv, Changed

\* A new directory, all of whose entries are empty.
LEMMA CreateStruct ==
  ASSUME PageDirAssumption, TypeOK, StructInv, Create
  PROVE  /\ MemOK' /\ StructInv'
         /\ \E k \in KPool \ PageDirs :
              /\ PageDirs' = PageDirs \cup {k}
              /\ \A u \in UPage : Pte(k, u)' = Zero
              /\ \A qd \in PageDirs, u \in UPage : Pte(qd, u)' = Pte(qd, u)
<1>0. PICK k : k = Some(FreeKernel)
  OBVIOUS
<1>1. k \in KPool /\ mem[k] = None
  BY <1>0 DEF Create, Some, FreeKernel
<1>2. mem' = [mem EXCEPT ![k] = Dir]
  BY <1>0 DEF Create
<1>3. mem \in [KPool -> {None} \cup Dirs \cup Tables]
  BY DEF TypeOK
<1>4. Dir \in Dirs /\ \A n \in TableNo : Dir.pde[n] = None
  BY DEF Dir, Dirs
<1>5. Dir # None /\ DOMAIN Dir = {"pde"}
  BY <1>4 DEF PageDirAssumption, Dir
<1>6. mem'[k] = Dir /\ \A i \in KPool \ {k} : mem'[i] = mem[i]
  BY <1>1, <1>2, <1>3
<1>7. MemOK'
  BY <1>1, <1>2, <1>3, <1>4 DEF MemOK
<1>8. k \notin PageDirs /\ PageDirs' = PageDirs \cup {k}
  BY <1>1, <1>5, <1>6 DEF PageDirs
<1>9. \A qd \in PageDirs : qd \in KPool /\ mem'[qd] = mem[qd] /\ mem[qd] \in Dirs
  BY <1>6, <1>8, Shapes DEF PageDirs
<1>10. \A n \in TableNo : mem'[k].pde[n] = None
  BY <1>4, <1>6
\* An entry that was there is of an old directory and to an old page.
<1>11. \A qd \in PageDirs', n \in TableNo :
         mem'[qd].pde[n] # None => /\ qd \in PageDirs /\ mem'[qd].pde[n] = mem[qd].pde[n]
                                   /\ mem[qd].pde[n] \in KPool \ (PageDirs \cup {k})
                                   /\ mem'[mem[qd].pde[n]] # None
  <2>1. SUFFICES ASSUME NEW qd \in PageDirs', NEW n \in TableNo, mem'[qd].pde[n] # None
        PROVE  /\ qd \in PageDirs /\ mem'[qd].pde[n] = mem[qd].pde[n]
               /\ mem[qd].pde[n] \in KPool \ (PageDirs \cup {k})
               /\ mem'[mem[qd].pde[n]] # None
    OBVIOUS
  <2>2. qd \in PageDirs /\ mem'[qd].pde[n] = mem[qd].pde[n]
    BY <1>8, <1>9, <1>10, <2>1
  <2>3. mem[qd].pde[n] \in KPool
    BY <1>9, <2>1, <2>2 DEF Dirs
  <2>4. mem[qd].pde[n] \notin PageDirs /\ mem[mem[qd].pde[n]] # None
    BY <2>1, <2>2 DEF StructInv, EntriesToTables
  <2>. QED BY <1>1, <1>6, <2>2, <2>3, <2>4
<1>12. EntriesToTables'
  BY <1>8, <1>11 DEF EntriesToTables
<1>13. TablesHaveDirs'
  <2>1. SUFFICES ASSUME NEW i \in KPool \ PageDirs', mem'[i] # None
        PROVE \E qd \in PageDirs', n \in TableNo : mem'[qd].pde[n] = i
    BY DEF TablesHaveDirs
  <2>2. i \in KPool \ PageDirs /\ mem[i] # None
    BY <1>6, <1>8, <2>1
  <2>3. PICK qd \in PageDirs, n \in TableNo : mem[qd].pde[n] = i
    BY <2>2 DEF StructInv, TablesHaveDirs
  <2>. QED BY <1>8, <1>9, <2>3
<1>14. TablesOnce'
  <2>1. SUFFICES ASSUME NEW qd \in PageDirs', NEW rd \in PageDirs', NEW i \in TableNo, NEW n \in TableNo,
                        mem'[qd].pde[i] # None, mem'[qd].pde[i] = mem'[rd].pde[n]
        PROVE qd = rd /\ i = n
    BY DEF TablesOnce
  <2>2. /\ qd \in PageDirs /\ mem'[qd].pde[i] = mem[qd].pde[i]
        /\ rd \in PageDirs /\ mem'[rd].pde[n] = mem[rd].pde[n]
    BY <1>11, <2>1
  <2>3. TablesOnce
    BY DEF StructInv
  <2>4. mem[qd].pde[i] # None /\ mem[qd].pde[i] = mem[rd].pde[n]
    BY <2>1, <2>2
  <2>. QED BY <2>2, <2>3, <2>4 DEF TablesOnce
<1>15. \A u \in UPage : Pte(k, u)' = Zero
  <2>1. \A u \in UPage : u[1] \in TableNo
    BY DEF PageDirAssumption
  <2>. QED BY <1>10, <2>1 DEF Pte, HasTable
<1>16. \A qd \in PageDirs, u \in UPage : Pte(qd, u)' = Pte(qd, u)
  <2>1. SUFFICES ASSUME NEW qd \in PageDirs, NEW u \in UPage
        PROVE Pte(qd, u)' = Pte(qd, u)
    OBVIOUS
  <2>2. u[1] \in TableNo /\ qd \in PageDirs' /\ mem'[qd] = mem[qd]
    BY <1>8, <1>9 DEF PageDirAssumption
  <2>3. CASE ~HasTable(qd, u)
    BY <2>2, <2>3 DEF Pte, HasTable
  <2>4. CASE HasTable(qd, u)
    <3>1. mem'[mem[qd].pde[u[1]]] = mem[mem[qd].pde[u[1]]]
      BY <1>6, <1>11, <2>2, <2>4 DEF HasTable
    <3>. QED BY <2>2, <2>4, <3>1 DEF Pte, HasTable
  <2>. QED BY <2>3, <2>4
<1>. QED BY <1>1, <1>7, <1>8, <1>12, <1>13, <1>14, <1>15, <1>16 DEF StructInv

\* A directory goes with its tables, and no other directory has one of them.
LEMMA DestroyStruct ==
  ASSUME PageDirAssumption, TypeOK, StructInv, NEW pd \in PageDirs, Destroy(pd)
  PROVE  /\ MemOK' /\ StructInv' /\ PageDirs' = PageDirs \ {pd}
         /\ \A qd \in PageDirs \ {pd}, u \in UPage : Pte(qd, u)' = Pte(qd, u)
<1>. DEFINE gone == TablesOf(pd) \cup {pd}
<1>1. /\ \A k \in KPool : mem'[k] = IF k \in gone THEN None ELSE mem[k]
      /\ mem' = [k \in KPool |-> mem'[k]]
  BY DEF Destroy
<1>2. mem \in [KPool -> {None} \cup Dirs \cup Tables]
  BY DEF TypeOK
<1>3. MemOK'
  BY <1>1, <1>2 DEF MemOK
<1>4. \A k \in gone : k = pd \/ (k \notin PageDirs /\ \E n \in TableNo : k = mem[pd].pde[n] /\ k # None)
  BY DEF TablesOf, StructInv, EntriesToTables
<1>5. \A n \in TableNo : mem[pd].pde[n] # None => mem[pd].pde[n] \in gone
  BY DEF TablesOf
<1>6. pd \in gone
  OBVIOUS
<1>. HIDE DEF gone
<1>7. PageDirs' = PageDirs \ {pd}
  BY <1>1, <1>4, <1>6 DEF PageDirs
<1>8. \A qd \in PageDirs' : qd \in KPool /\ mem'[qd] = mem[qd] /\ mem[qd] \in Dirs /\ qd \in PageDirs /\ qd # pd
  BY <1>1, <1>4, <1>6, <1>7, Shapes DEF PageDirs
\* What the others' entries lead to is still there.
<1>9. \A qd \in PageDirs', n \in TableNo :
        mem[qd].pde[n] # None => /\ mem[qd].pde[n] \in KPool \ PageDirs
                                 /\ mem[qd].pde[n] \notin gone
                                 /\ mem'[mem[qd].pde[n]] = mem[mem[qd].pde[n]]
                                 /\ mem'[mem[qd].pde[n]] # None
  <2>1. SUFFICES ASSUME NEW qd \in PageDirs', NEW n \in TableNo, mem[qd].pde[n] # None
        PROVE  /\ mem[qd].pde[n] \in KPool \ PageDirs
               /\ mem[qd].pde[n] \notin gone
               /\ mem'[mem[qd].pde[n]] = mem[mem[qd].pde[n]]
               /\ mem'[mem[qd].pde[n]] # None
    OBVIOUS
  <2>2. mem[qd].pde[n] \in KPool
    BY <1>8, <2>1 DEF Dirs
  <2>3. mem[qd].pde[n] \notin PageDirs /\ mem[mem[qd].pde[n]] # None
    BY <1>8, <2>1 DEF StructInv, EntriesToTables
  <2>4. mem[qd].pde[n] \notin gone
    <3>1. SUFFICES ASSUME mem[qd].pde[n] \in gone PROVE FALSE
      OBVIOUS
    <3>2. PICK i \in TableNo : mem[qd].pde[n] = mem[pd].pde[i]
      BY <1>4, <2>3, <3>1
    <3>3. TablesOnce
      BY DEF StructInv
    <3>. QED BY <1>8, <2>1, <3>2, <3>3 DEF TablesOnce
  <2>. QED BY <1>1, <2>2, <2>3, <2>4
<1>10. EntriesToTables'
  BY <1>7, <1>8, <1>9 DEF EntriesToTables
<1>11. TablesHaveDirs'
  <2>1. SUFFICES ASSUME NEW k \in KPool \ PageDirs', mem'[k] # None
        PROVE \E qd \in PageDirs', n \in TableNo : mem'[qd].pde[n] = k
    BY DEF TablesHaveDirs
  <2>2. k \notin gone /\ mem[k] # None /\ k \notin PageDirs
    BY <1>1, <1>6, <1>7, <2>1
  <2>3. PICK qd \in PageDirs, n \in TableNo : mem[qd].pde[n] = k
    BY <2>2 DEF StructInv, TablesHaveDirs
  <2>4. qd # pd
    BY <1>5, <2>2, <2>3 DEF PageDirAssumption
  <2>. QED BY <1>7, <1>8, <2>3, <2>4
<1>12. TablesOnce'
  <2>1. TablesOnce
    BY DEF StructInv
  <2>. QED BY <1>8, <2>1 DEF TablesOnce
<1>13. \A qd \in PageDirs \ {pd}, u \in UPage : Pte(qd, u)' = Pte(qd, u)
  <2>1. SUFFICES ASSUME NEW qd \in PageDirs \ {pd}, NEW u \in UPage
        PROVE Pte(qd, u)' = Pte(qd, u)
    OBVIOUS
  <2>2. u[1] \in TableNo /\ qd \in PageDirs' /\ mem'[qd] = mem[qd]
    BY <1>7, <1>8 DEF PageDirAssumption
  <2>. QED BY <1>9, <2>2 DEF Pte, HasTable
<1>. QED BY <1>3, <1>7, <1>10, <1>11, <1>12, <1>13 DEF StructInv

\* What each operation does to the entries, whether it needs a new table or not.
LEMMA InstallStruct ==
  ASSUME PageDirAssumption, TypeOK, StructInv, NEW pd \in PageDirs, NEW u \in UPage,
         NEW w \in BOOLEAN, Install(pd, u, w)
  PROVE  /\ MemOK' /\ StructInv'
         /\ ~Pte(pd, u).p /\ UNCHANGED <<cr3, tlb>> /\ last' = None
         /\ \E f \in free : free' = free \ {f} /\ Changed(pd, u, Entry(f, w))
<1>0. PICK f : f = Some(free)
  OBVIOUS
<1>1. f \in free /\ f \in UPool
  BY <1>0 DEF Install, Some, TypeOK
<1>2. Entry(f, w) \in Entries
  BY <1>1 DEF Entry, Entries
<1>3. mem' = WithPte(WithTable(pd, u), pd, u, Entry(f, w)) /\ free' = free \ {f}
  BY <1>0 DEF Install, SetPage
<1>4. CASE HasTable(pd, u)
  <2>1. WithTable(pd, u) = mem
    BY <1>4 DEF WithTable
  <2>. QED BY <1>1, <1>2, <1>3, <1>4, <2>1, WithPteStruct DEF Install
<1>5. CASE ~HasTable(pd, u)
  <2>1. FreeKernel # {}
    BY <1>5 DEF Install
  <2>. QED BY <1>1, <1>2, <1>3, <1>5, <2>1, WithTableStruct DEF Install
<1>. QED BY <1>4, <1>5

LEMMA DropStruct ==
  ASSUME PageDirAssumption, TypeOK, StructInv, NEW pd \in PageDirs, NEW u \in UPage, Drop(pd, u)
  PROVE  /\ MemOK' /\ StructInv' /\ Changed(pd, u, [Pte(pd, u) EXCEPT !.p = FALSE])
         /\ HasTable(pd, u)
<1>1. HasTable(pd, u)
  BY DEF Drop, Pte, Zero
<1>2. [Pte(pd, u) EXCEPT !.p = FALSE] \in Entries
  BY EntryType DEF Entries
<1>. QED BY <1>1, <1>2, WithPteStruct DEF Drop

LEMMA MarkedType ==
  ASSUME NEW e \in Entries, NEW bit \in {"accessed", "dirty"}, NEW value \in BOOLEAN
  PROVE  /\ Marked(e, bit, value) \in Entries
         /\ Marked(e, bit, value).p = e.p /\ Marked(e, bit, value).frame = e.frame
         /\ Marked(e, bit, value).w = e.w
         /\ value => (e.a => Marked(e, bit, value).a) /\ (e.d => Marked(e, bit, value).d)
BY DEF Marked, Entries

LEMMA MarkStruct ==
  ASSUME PageDirAssumption, TypeOK, StructInv, NEW pd \in PageDirs, NEW u \in UPage,
         NEW bit \in {"accessed", "dirty"}, NEW value \in BOOLEAN, Mark(pd, u, bit, value)
  PROVE  /\ MemOK' /\ StructInv' /\ Changed(pd, u, Marked(Pte(pd, u), bit, value))
<1>1. Marked(Pte(pd, u), bit, value) \in Entries
  BY EntryType, MarkedType
<1>. QED BY <1>1, WithPteStruct DEF Mark

-----------------------------------------------------------------------------
(* Frames and the cache, from what an action does to the entries.           *)
LEMMA InitIInv == PageDirAssumption /\ Init => IInv
<1>1. SUFFICES ASSUME PageDirAssumption, Init PROVE IInv
  OBVIOUS
<1>2. PageDirs = {}
  BY <1>1 DEF Init, PageDirs
<1>. QED BY <1>1, <1>2
     DEF Init, IInv, TypeOK, StructInv, EntriesToTables, TablesHaveDirs, TablesOnce, FrameInv,
         PresentHasFrame, FramesOnce, FramesUsed, CacheRight, Flushed

LEMMA CreateIInv == ASSUME PageDirAssumption, IInv, Create PROVE IInv'
<1>. USE DEF IInv
<1>1. MemOK' /\ StructInv'
  BY CreateStruct
<1>2. PICK k \in KPool \ PageDirs :
        /\ PageDirs' = PageDirs \cup {k}
        /\ \A u \in UPage : Pte(k, u)' = Zero
        /\ \A qd \in PageDirs, u \in UPage : Pte(qd, u)' = Pte(qd, u)
  BY CreateStruct
<1>3. UNCHANGED <<free, cr3, tlb>>
  BY DEF Create
<1>4. TypeOK'
  BY <1>1, <1>2, <1>3 DEF TypeOK, MemOK
\* Only entries that were there are present.
<1>5. \A qd \in PageDirs', u \in UPage : Pte(qd, u)'.p => qd \in PageDirs /\ Pte(qd, u)' = Pte(qd, u)
  BY <1>2 DEF Zero
<1>6. PresentHasFrame'
  BY <1>3, <1>5 DEF FrameInv, PresentHasFrame
<1>7. FramesOnce'
  <2>1. SUFFICES ASSUME NEW pd \in PageDirs', NEW qd \in PageDirs', NEW u \in UPage, NEW v \in UPage,
                        Pte(pd, u)'.p, Pte(qd, v)'.p, Pte(pd, u)'.frame = Pte(qd, v)'.frame
        PROVE pd = qd /\ u = v
    BY DEF FramesOnce
  <2>2. pd \in PageDirs /\ qd \in PageDirs /\ Pte(pd, u)' = Pte(pd, u) /\ Pte(qd, v)' = Pte(qd, v)
    BY <1>5, <2>1
  <2>. QED BY <2>1, <2>2 DEF FrameInv, FramesOnce
<1>8. FramesUsed'
  BY <1>2, <1>3 DEF FrameInv, FramesUsed
<1>9. CacheRight'
  BY <1>2, <1>3 DEF CacheRight, TypeOK
<1>. QED BY <1>1, <1>4, <1>6, <1>7, <1>8, <1>9 DEF FrameInv

LEMMA DestroyIInv ==
  ASSUME PageDirAssumption, IInv, NEW pd \in PageDirs, Destroy(pd) PROVE IInv'
<1>. USE DEF IInv
<1>1. /\ MemOK' /\ StructInv' /\ PageDirs' = PageDirs \ {pd}
      /\ \A qd \in PageDirs \ {pd}, u \in UPage : Pte(qd, u)' = Pte(qd, u)
  BY DestroyStruct
<1>2. cr3 # pd /\ UNCHANGED <<cr3, tlb>> /\ free' = free \cup FramesOf(pd)
  BY DEF Destroy
<1>3. \A u \in UPage : Pte(pd, u).p => Pte(pd, u).frame \in UPool \ free
  BY DEF FrameInv, PresentHasFrame
<1>4. TypeOK'
  BY <1>1, <1>2, <1>3 DEF TypeOK, MemOK, FramesOf
<1>5. PresentHasFrame'
  <2>1. SUFFICES ASSUME NEW qd \in PageDirs \ {pd}, NEW v \in UPage, Pte(qd, v).p
        PROVE Pte(qd, v).frame \in UPool \ (free \cup FramesOf(pd))
    BY <1>1, <1>2 DEF PresentHasFrame
  <2>2. Pte(qd, v).frame \in UPool \ free
    BY <2>1 DEF FrameInv, PresentHasFrame
  <2>3. \A u \in UPage : Pte(pd, u).p => Pte(pd, u).frame # Pte(qd, v).frame
    <3>1. FramesOnce
      BY DEF FrameInv
    <3>. QED BY <2>1, <3>1 DEF FramesOnce
  <2>. QED BY <2>2, <2>3 DEF FramesOf
<1>6. FramesOnce'
  <2>1. FramesOnce
    BY DEF FrameInv
  <2>. QED BY <1>1, <2>1 DEF FramesOnce
<1>7. FramesUsed'
  <2>1. SUFFICES ASSUME NEW f \in UPool \ (free \cup FramesOf(pd))
        PROVE \E qd \in PageDirs \ {pd}, v \in UPage : Pte(qd, v).p /\ Pte(qd, v).frame = f
    BY <1>1, <1>2 DEF FramesUsed
  <2>2. PICK qd \in PageDirs, v \in UPage : Pte(qd, v).p /\ Pte(qd, v).frame = f
    BY <2>1 DEF FrameInv, FramesUsed
  <2>3. qd # pd
    BY <2>1, <2>2 DEF FramesOf
  <2>. QED BY <2>2, <2>3
<1>8. CacheRight'
  BY <1>1, <1>2 DEF CacheRight, TypeOK
<1>. QED BY <1>1, <1>4, <1>5, <1>6, <1>7, <1>8 DEF FrameInv

LEMMA InstallIInv ==
  ASSUME PageDirAssumption, IInv, NEW pd \in PageDirs, NEW u \in UPage, NEW w \in BOOLEAN,
         Install(pd, u, w)
  PROVE  IInv'
<1>. USE DEF IInv
<1>1. MemOK' /\ StructInv' /\ ~Pte(pd, u).p /\ UNCHANGED <<cr3, tlb>>
  BY InstallStruct
<1>2. PICK f \in free : free' = free \ {f} /\ Changed(pd, u, Entry(f, w))
  BY InstallStruct
<1>3. /\ PageDirs' = PageDirs
      /\ Pte(pd, u)' = Entry(f, w)
      /\ \A qd \in PageDirs, v \in UPage : ~(qd = pd /\ v = u) => Pte(qd, v)' = Pte(qd, v)
  BY <1>2 DEF Changed
<1>4. Entry(f, w).p = TRUE /\ Entry(f, w).frame = f /\ f \in UPool
  BY DEF Entry, TypeOK
<1>5. TypeOK'
  BY <1>1, <1>2, <1>3 DEF TypeOK, MemOK
<1>6. \A qd \in PageDirs, v \in UPage :
        Pte(qd, v).p => Pte(qd, v).frame \in UPool \ free /\ ~(qd = pd /\ v = u)
  BY <1>1 DEF FrameInv, PresentHasFrame
<1>7. PresentHasFrame'
  <2>1. SUFFICES ASSUME NEW qd \in PageDirs, NEW v \in UPage, Pte(qd, v)'.p
        PROVE Pte(qd, v)'.frame \in UPool \ (free \ {f})
    BY <1>2, <1>3 DEF PresentHasFrame
  <2>. QED BY <1>3, <1>4, <1>6, <2>1
<1>8. FramesOnce'
  <2>1. SUFFICES ASSUME NEW rd \in PageDirs, NEW qd \in PageDirs, NEW x \in UPage, NEW v \in UPage,
                        Pte(rd, x)'.p, Pte(qd, v)'.p, Pte(rd, x)'.frame = Pte(qd, v)'.frame
        PROVE rd = qd /\ x = v
    BY <1>3 DEF FramesOnce
  <2>2. CASE rd = pd /\ x = u
    BY <1>3, <1>4, <1>6, <2>1, <2>2
  <2>3. CASE qd = pd /\ v = u
    BY <1>3, <1>4, <1>6, <2>1, <2>3
  <2>4. CASE ~(rd = pd /\ x = u) /\ ~(qd = pd /\ v = u)
    <3>1. FramesOnce
      BY DEF FrameInv
    <3>2. Pte(rd, x)' = Pte(rd, x) /\ Pte(qd, v)' = Pte(qd, v)
      BY <1>3, <2>4
    <3>. QED BY <2>1, <3>1, <3>2 DEF FramesOnce
  <2>. QED BY <2>2, <2>3, <2>4
<1>9. FramesUsed'
  <2>1. SUFFICES ASSUME NEW g \in UPool \ (free \ {f})
        PROVE \E qd \in PageDirs, v \in UPage : Pte(qd, v)'.p /\ Pte(qd, v)'.frame = g
    BY <1>2, <1>3 DEF FramesUsed
  <2>2. CASE g = f
    BY <1>3, <1>4, <2>2
  <2>3. CASE g # f
    <3>1. PICK qd \in PageDirs, v \in UPage : Pte(qd, v).p /\ Pte(qd, v).frame = g
      BY <2>1, <2>3 DEF FrameInv, FramesUsed
    <3>2. Pte(qd, v)' = Pte(qd, v)
      BY <1>3, <1>6, <3>1
    <3>. QED BY <3>1, <3>2
  <2>. QED BY <2>2, <2>3
<1>10. CacheRight'
  <2>1. SUFFICES ASSUME NEW v \in UPage, tlb[v] # None
        PROVE /\ cr3 # None
              /\ Pte(cr3, v)'.p /\ Pte(cr3, v)'.a
              /\ tlb[v].frame = Pte(cr3, v)'.frame /\ tlb[v].w = Pte(cr3, v)'.w
              /\ tlb[v].d => Pte(cr3, v)'.d
    BY <1>1 DEF CacheRight
  <2>2. cr3 # None /\ cr3 \in PageDirs /\ Pte(cr3, v).p
    BY <2>1 DEF CacheRight, TypeOK
  <2>3. \A qd \in PageDirs : qd = cr3 => Pte(qd, v)' = Pte(qd, v)
    BY <1>3, <1>6, <2>2
  <2>4. Pte(cr3, v)' = Pte(cr3, v)
    BY <1>1, <2>2, <2>3
  <2>. QED BY <1>1, <2>1, <2>2, <2>4 DEF CacheRight
<1>. QED BY <1>1, <1>5, <1>7, <1>8, <1>9, <1>10 DEF FrameInv

\* An entry that keeps its frame, and whether it is present, keeps the frames right.
LEMMA KeepsFrames ==
  ASSUME IInv, NEW pd \in PageDirs, NEW u \in UPage, NEW e, Changed(pd, u, e),
         e.p = Pte(pd, u).p, e.frame = Pte(pd, u).frame, UNCHANGED free
  PROVE  FrameInv'
<1>1. PageDirs' = PageDirs
  BY DEF Changed
<1>2. \A qd \in PageDirs, v \in UPage :
        Pte(qd, v)'.p = Pte(qd, v).p /\ Pte(qd, v)'.frame = Pte(qd, v).frame
  BY DEF Changed
<1>3. FrameInv
  BY DEF IInv
<1>4. PresentHasFrame'
  BY <1>1, <1>2, <1>3 DEF FrameInv, PresentHasFrame
<1>5. FramesOnce'
  <2>1. FramesOnce
    BY <1>3 DEF FrameInv
  <2>. QED BY <1>1, <1>2, <2>1 DEF FramesOnce
<1>6. FramesUsed'
  BY <1>1, <1>2, <1>3 DEF FrameInv, FramesUsed
<1>. QED BY <1>4, <1>5, <1>6 DEF FrameInv

\* After invalidate_pagedir of the directory whose entry changes, the cache is right.
LEMMA FlushedRight ==
  ASSUME IInv, NEW pd \in PageDirs, NEW u \in UPage, NEW e, Changed(pd, u, e), Invalidate(pd),
         UNCHANGED cr3
  PROVE  CacheRight' /\ tlb' \in [UPage -> Translations \cup {None}]
<1>1. CASE cr3 = pd
  BY <1>1 DEF Invalidate, Flushed, CacheRight
<1>2. CASE cr3 # pd
  <2>1. tlb' = tlb
    BY <1>2 DEF Invalidate
  <2>2. \A qd \in PageDirs, v \in UPage : qd = cr3 => Pte(qd, v)' = Pte(qd, v)
    BY <1>2 DEF Changed
  <2>3. \A v \in UPage : tlb[v] # None => cr3 \in PageDirs /\ Pte(cr3, v)' = Pte(cr3, v)
    BY <2>2 DEF IInv, CacheRight, TypeOK
  <2>. QED BY <2>1, <2>3 DEF IInv, CacheRight, TypeOK
<1>. QED BY <1>1, <1>2

LEMMA DropIInv ==
  ASSUME PageDirAssumption, IInv, NEW pd \in PageDirs, NEW u \in UPage, Drop(pd, u)
  PROVE  IInv'
<1>. USE DEF IInv
<1>. DEFINE e == [Pte(pd, u) EXCEPT !.p = FALSE]
<1>0. PICK f : f = Pte(pd, u).frame
  OBVIOUS
<1>1. MemOK' /\ StructInv' /\ Changed(pd, u, e)
  BY DropStruct
<1>2. /\ Pte(pd, u).p /\ f \in UPool \ free /\ free' = free \cup {f} /\ UNCHANGED cr3
  BY <1>0 DEF Drop, FrameInv, PresentHasFrame
<1>3. e.p = FALSE
  BY EntryType DEF Entries
<1>. HIDE DEF e
<1>4. CacheRight' /\ tlb' \in [UPage -> Translations \cup {None}]
  BY <1>1, <1>2, FlushedRight DEF Drop
<1>5. /\ PageDirs' = PageDirs
      /\ ~Pte(pd, u)'.p
      /\ \A qd \in PageDirs, v \in UPage : ~(qd = pd /\ v = u) => Pte(qd, v)' = Pte(qd, v)
  BY <1>1, <1>3 DEF Changed
<1>6. TypeOK'
  BY <1>1, <1>2, <1>4, <1>5 DEF TypeOK, MemOK
\* What is present now was present before, and elsewhere.
<1>7. \A qd \in PageDirs, v \in UPage :
        Pte(qd, v)'.p => ~(qd = pd /\ v = u) /\ Pte(qd, v)' = Pte(qd, v) /\ Pte(qd, v).p
  BY <1>5
<1>8. FramesOnce
  BY DEF FrameInv
<1>9. PresentHasFrame'
  <2>1. SUFFICES ASSUME NEW qd \in PageDirs, NEW v \in UPage, Pte(qd, v)'.p
        PROVE Pte(qd, v)'.frame \in UPool \ (free \cup {f})
    BY <1>2, <1>5 DEF PresentHasFrame
  <2>2. ~(qd = pd /\ v = u) /\ Pte(qd, v)' = Pte(qd, v) /\ Pte(qd, v).p
    BY <1>7, <2>1
  <2>3. Pte(qd, v).frame \in UPool \ free
    BY <2>2 DEF FrameInv, PresentHasFrame
  <2>4. Pte(qd, v).frame # f
    BY <1>0, <1>2, <1>8, <2>2 DEF FramesOnce
  <2>. QED BY <2>2, <2>3, <2>4
<1>10. FramesOnce'
  <2>1. SUFFICES ASSUME NEW rd \in PageDirs, NEW qd \in PageDirs, NEW x \in UPage, NEW v \in UPage,
                        Pte(rd, x)'.p, Pte(qd, v)'.p, Pte(rd, x)'.frame = Pte(qd, v)'.frame
        PROVE rd = qd /\ x = v
    BY <1>5 DEF FramesOnce
  <2>2. Pte(rd, x).p /\ Pte(qd, v).p /\ Pte(rd, x).frame = Pte(qd, v).frame
    BY <1>7, <2>1
  <2>. QED BY <1>8, <2>2 DEF FramesOnce
<1>11. FramesUsed'
  <2>1. SUFFICES ASSUME NEW g \in UPool \ (free \cup {f})
        PROVE \E qd \in PageDirs, v \in UPage : Pte(qd, v)'.p /\ Pte(qd, v)'.frame = g
    BY <1>2, <1>5 DEF FramesUsed
  <2>2. PICK qd \in PageDirs, v \in UPage : Pte(qd, v).p /\ Pte(qd, v).frame = g
    BY <2>1 DEF FrameInv, FramesUsed
  <2>3. ~(qd = pd /\ v = u)
    BY <1>0, <2>1, <2>2
  <2>. QED BY <1>5, <2>2, <2>3
<1>. QED BY <1>1, <1>4, <1>6, <1>9, <1>10, <1>11 DEF FrameInv

LEMMA MarkIInv ==
  ASSUME PageDirAssumption, IInv, NEW pd \in PageDirs, NEW u \in UPage,
         NEW bit \in {"accessed", "dirty"}, NEW value \in BOOLEAN, Mark(pd, u, bit, value)
  PROVE  IInv'
<1>. USE DEF IInv
<1>0. PICK e : e = Marked(Pte(pd, u), bit, value)
  OBVIOUS
<1>1. MemOK' /\ StructInv' /\ Changed(pd, u, e)
  BY <1>0, MarkStruct
<1>2. /\ e.p = Pte(pd, u).p /\ e.frame = Pte(pd, u).frame /\ e.w = Pte(pd, u).w
      /\ value => (Pte(pd, u).a => e.a) /\ (Pte(pd, u).d => e.d)
  BY <1>0, EntryType, MarkedType
<1>3. UNCHANGED <<free, cr3>> /\ PageDirs' = PageDirs
  BY <1>1 DEF Mark, Changed
<1>4. FrameInv'
  BY <1>1, <1>2, <1>3, KeepsFrames
<1>5. CacheRight' /\ tlb' \in [UPage -> Translations \cup {None}]
  <2>1. CASE ~value
    BY <1>1, <1>3, <2>1, FlushedRight DEF Mark
  <2>2. CASE value
    <3>1. tlb' = tlb
      BY <2>2 DEF Mark
    <3>2. \A qd \in PageDirs, v \in UPage :
            /\ Pte(qd, v)'.p = Pte(qd, v).p /\ Pte(qd, v)'.frame = Pte(qd, v).frame
            /\ Pte(qd, v)'.w = Pte(qd, v).w
            /\ (Pte(qd, v).a => Pte(qd, v)'.a) /\ (Pte(qd, v).d => Pte(qd, v)'.d)
      BY <1>1, <1>2, <2>2 DEF Changed
    <3>3. \A v \in UPage : tlb[v] # None => cr3 \in PageDirs
      BY DEF CacheRight, TypeOK
    <3>. QED BY <1>3, <3>1, <3>2, <3>3 DEF CacheRight, TypeOK
  <2>. QED BY <2>1, <2>2
<1>6. TypeOK'
  BY <1>1, <1>3, <1>5 DEF TypeOK, MemOK
<1>. QED BY <1>1, <1>4, <1>5, <1>6

\* Without a change of the entries everything but the cache is as it was.
LEMMA SameMem ==
  ASSUME IInv, UNCHANGED <<mem, free>>
  PROVE  /\ MemOK' /\ StructInv' /\ FrameInv' /\ PageDirs' = PageDirs
         /\ \A pd \in PageDirs, u \in UPage : Pte(pd, u)' = Pte(pd, u)
<1>1. PageDirs' = PageDirs
  BY DEF PageDirs
<1>2. \A pd \in PageDirs, u \in UPage : Pte(pd, u)' = Pte(pd, u)
  BY DEF Pte, HasTable
<1>3. StructInv'
  BY <1>1 DEF IInv, StructInv, EntriesToTables, TablesHaveDirs, TablesOnce
<1>4. FrameInv'
  BY <1>1, <1>2 DEF IInv, FrameInv, PresentHasFrame, FramesOnce, FramesUsed
<1>. QED BY <1>1, <1>2, <1>3, <1>4 DEF IInv, TypeOK, MemOK

LEMMA ActivateIInv ==
  ASSUME PageDirAssumption, IInv, NEW pd \in PageDirs \cup {None}, Activate(pd) PROVE IInv'
<1>. USE DEF IInv
<1>1. /\ MemOK' /\ StructInv' /\ FrameInv' /\ PageDirs' = PageDirs
  BY SameMem DEF Activate
<1>2. TypeOK' /\ CacheRight'
  BY <1>1 DEF Activate, TypeOK, CacheRight, Flushed, MemOK
<1>. QED BY <1>1, <1>2

LEMMA EvictIInv ==
  ASSUME PageDirAssumption, IInv, NEW u \in UPage, Evict(u) PROVE IInv'
<1>. USE DEF IInv
<1>1. /\ MemOK' /\ StructInv' /\ FrameInv' /\ PageDirs' = PageDirs
      /\ \A pd \in PageDirs, v \in UPage : Pte(pd, v)' = Pte(pd, v)
  BY SameMem DEF Evict
<1>2. cr3' = cr3 /\ tlb' = [tlb EXCEPT ![u] = None]
  BY DEF Evict
<1>3. \A v \in UPage : tlb'[v] # None => tlb[v] # None /\ tlb'[v] = tlb[v] /\ cr3 \in PageDirs
  BY <1>2 DEF TypeOK, CacheRight
<1>4. CacheRight'
  BY <1>1, <1>2, <1>3 DEF CacheRight
<1>5. tlb' \in [UPage -> Translations \cup {None}]
  BY <1>2 DEF TypeOK
<1>6. free' \in SUBSET UPool
  BY DEF Evict, TypeOK
<1>7. TypeOK'
  BY <1>1, <1>2, <1>5, <1>6 DEF TypeOK, MemOK
<1>. QED BY <1>1, <1>4, <1>7

\* The entry after an access, whatever was cached.
Seen(e, write) == [e EXCEPT !.a = TRUE, !.d = @ \/ write]

\* What an access uses: the cached translation, or what it looks up.
Used(u, e) == IF tlb[u] # None THEN tlb[u] ELSE [frame |-> e.frame, w |-> e.w, d |-> e.d]

LEMMA UsedRight ==
  ASSUME PageDirAssumption, IInv, NEW u \in UPage, cr3 # None, NEW e, e = Pte(cr3, u),
         tlb[u] # None \/ e.p
  PROVE  /\ e.p /\ e \in Entries /\ cr3 \in PageDirs /\ HasTable(cr3, u)
         /\ Used(u, e) \in Translations
         /\ Used(u, e).frame = e.frame /\ Used(u, e).w = e.w
         /\ Used(u, e).d => e.d
         /\ tlb[u] # None => e.a
<1>1. cr3 \in PageDirs
  BY DEF IInv, TypeOK
<1>2. e.p
  BY DEF IInv, CacheRight
<1>3. e \in Entries
  BY <1>1, EntryType DEF IInv
<1>4. HasTable(cr3, u)
  BY <1>2 DEF Pte, Zero
<1>5. e.frame \in UPool
  BY <1>1, <1>2 DEF IInv, FrameInv, PresentHasFrame
<1>6. CASE tlb[u] # None
  BY <1>1, <1>2, <1>3, <1>4, <1>6 DEF Used, IInv, TypeOK, CacheRight
<1>7. CASE tlb[u] = None
  <2>1. Used(u, e) = [frame |-> e.frame, w |-> e.w, d |-> e.d]
    BY <1>7 DEF Used
  <2>2. e.w \in BOOLEAN /\ e.d \in BOOLEAN
    BY <1>3 DEF Entries
  <2>3. Used(u, e) \in Translations
    BY <1>5, <2>1, <2>2 DEF Translations
  <2>. QED BY <1>1, <1>2, <1>3, <1>4, <1>7, <2>1, <2>3
<1>. QED BY <1>6, <1>7

\* What the processor writes back: the bits as they should be.
LEMMA SeenFacts ==
  ASSUME NEW e \in Entries, NEW write \in BOOLEAN
  PROVE  /\ Seen(e, write) \in Entries
         /\ Seen(e, write).frame = e.frame /\ Seen(e, write).p = e.p /\ Seen(e, write).w = e.w
         /\ Seen(e, write).a = TRUE /\ (Seen(e, write).d <=> e.d \/ write)
<1>1. (e.d \/ write) \in BOOLEAN
  OBVIOUS
<1>2. PICK b \in BOOLEAN : b = (e.d \/ write)
  BY <1>1
<1>3. Seen(e, write) = [e EXCEPT !.a = TRUE, !.d = b]
  BY <1>2, Zenon DEF Seen
<1>4. /\ Seen(e, write) \in Entries
      /\ Seen(e, write).frame = e.frame /\ Seen(e, write).p = e.p /\ Seen(e, write).w = e.w
      /\ Seen(e, write).a = TRUE /\ Seen(e, write).d = b
  BY <1>3 DEF Entries
<1>. QED BY <1>2, <1>4

LEMMA SetRight ==
  ASSUME NEW e \in Entries, NEW write \in BOOLEAN, NEW miss \in BOOLEAN, NEW td \in BOOLEAN,
         ~miss => e.a, td => e.d
  PROVE  [e EXCEPT !.a = e.a \/ miss, !.d = e.d \/ (write /\ ~td)] = Seen(e, write)
<1>1. e.a \in BOOLEAN /\ e.d \in BOOLEAN
  BY DEF Entries
<1>2. (e.a \/ miss) = TRUE
  BY <1>1
<1>3. (e.d \/ (write /\ ~td)) = (e.d \/ write)
  BY <1>1
<1>. QED BY <1>2, <1>3, Zenon DEF Seen

\* An access that the entry does not allow changes nothing; another is to the
\* entry's frame, and both the entry and the cache tell of it.
AccessHit(q, u, write, c) ==
  /\ q \in PageDirs /\ Pte(q, u).p /\ Pte(q, u).frame \in UPool /\ (write => Pte(q, u).w)
  /\ last' = Pte(q, u).frame
  /\ MemOK' /\ StructInv' /\ Changed(q, u, Seen(Pte(q, u), write))
  /\ tlb' = [tlb EXCEPT ![u] = c] /\ c \in Translations
  /\ c.frame = Pte(q, u).frame /\ c.w = Pte(q, u).w /\ (c.d => Pte(q, u).d \/ write)
AccessMiss(u, write) ==
  /\ ~(Pte(cr3, u).p /\ (write => Pte(cr3, u).w))
  /\ last' = None /\ UNCHANGED <<mem, tlb>>

LEMMA AccessEffect ==
  ASSUME PageDirAssumption, IInv, NEW u \in UPage, NEW write \in BOOLEAN, Access(u, write)
  PROVE  /\ cr3 # None /\ UNCHANGED <<free, cr3>>
         /\ AccessMiss(u, write) \/ \E c : AccessHit(cr3, u, write, c)
<1>0. PICK e : e = Pte(cr3, u)
  OBVIOUS
<1>. DEFINE t == Used(u, e)
            set == [e EXCEPT !.a = e.a \/ tlb[u] = None, !.d = e.d \/ (write /\ ~t.d)]
<1>1. /\ cr3 # None /\ UNCHANGED <<free, cr3>>
      /\ IF (tlb[u] # None \/ e.p) /\ (write => t.w)
         THEN /\ last' = t.frame
              /\ mem' = IF HasTable(cr3, u) THEN WithPte(mem, cr3, u, set) ELSE mem
              /\ tlb' = [tlb EXCEPT ![u] = [t EXCEPT !.d = t.d \/ write]]
         ELSE last' = None /\ UNCHANGED <<mem, tlb>>
  BY <1>0 DEF Access, Used
<1>2. CASE ~(tlb[u] # None \/ e.p)
  BY <1>0, <1>1, <1>2 DEF AccessMiss
<1>3. CASE tlb[u] # None \/ e.p
  <2>1. /\ e.p /\ e \in Entries /\ cr3 \in PageDirs /\ HasTable(cr3, u)
        /\ t \in Translations /\ t.frame = e.frame /\ t.w = e.w
        /\ t.d => e.d
        /\ tlb[u] # None => e.a
    BY <1>0, <1>1, <1>3, UsedRight
  <2>2. CASE ~(write => t.w)
    <3>1. last' = None /\ UNCHANGED <<mem, tlb>>
      BY <1>1, <2>2
    <3>2. ~(write => e.w)
      BY <2>1, <2>2
    <3>. QED BY <1>0, <1>1, <3>1, <3>2 DEF AccessMiss
  <2>3. CASE write => t.w
    <3>1. /\ last' = t.frame /\ mem' = WithPte(mem, cr3, u, set)
          /\ tlb' = [tlb EXCEPT ![u] = [t EXCEPT !.d = t.d \/ write]]
      BY <1>1, <1>3, <2>1, <2>3
    <3>2. set = Seen(e, write) /\ Seen(e, write) \in Entries
      <4>1. PICK miss \in BOOLEAN : miss = (tlb[u] = None)
        OBVIOUS
      <4>2. PICK td \in BOOLEAN : td = t.d
        BY <2>1 DEF Translations
      <4>. HIDE DEF t
      <4>3. (~miss => e.a) /\ (td => e.d)
        BY <2>1, <4>1, <4>2
      <4>4. [e EXCEPT !.a = e.a \/ miss, !.d = e.d \/ (write /\ ~td)] = Seen(e, write)
        BY <2>1, <4>3, SetRight
      <4>5. Seen(e, write) \in Entries
        BY <2>1, SeenFacts
      <4>. QED BY <4>1, <4>2, <4>4, <4>5, Zenon
    <3>. HIDE DEF t, set
    <3>3. MemOK' /\ StructInv' /\ Changed(cr3, u, Seen(e, write))
      BY <1>0, <2>1, <3>1, <3>2, WithPteStruct DEF IInv
    <3>. DEFINE c == [t EXCEPT !.d = t.d \/ write]
    <3>4. c \in Translations /\ c.frame = e.frame /\ c.w = e.w /\ (c.d => e.d \/ write)
      <4>1. PICK b \in BOOLEAN : b = (t.d \/ write)
        OBVIOUS
      <4>2. c = [t EXCEPT !.d = b]
        BY <4>1, Zenon
      <4>3. c \in Translations /\ c.frame = t.frame /\ c.w = t.w /\ c.d = b
        BY <2>1, <4>2 DEF Translations
      <4>. QED BY <2>1, <4>1, <4>3
    <3>5. e.frame \in UPool
      BY <1>0, <2>1 DEF IInv, FrameInv, PresentHasFrame
    <3>6. write => e.w
      BY <2>1, <2>3
    <3>7. tlb' = [tlb EXCEPT ![u] = c] /\ last' = e.frame
      BY <2>1, <3>1
    <3>. HIDE DEF c
    <3>8. AccessHit(cr3, u, write, c)
      BY <1>0, <2>1, <3>3, <3>4, <3>5, <3>6, <3>7 DEF AccessHit
    <3>. QED BY <1>1, <3>8
  <2>. QED BY <2>2, <2>3
<1>. QED BY <1>2, <1>3

LEMMA AccessIInv ==
  ASSUME PageDirAssumption, IInv, NEW u \in UPage, NEW write \in BOOLEAN, Access(u, write)
  PROVE  IInv'
<1>. USE DEF IInv
<1>1. cr3 # None /\ UNCHANGED <<free, cr3>>
  BY AccessEffect
<1>2. CASE AccessMiss(u, write)
  <2>1. /\ MemOK' /\ StructInv' /\ FrameInv' /\ PageDirs' = PageDirs
        /\ \A pd \in PageDirs, v \in UPage : Pte(pd, v)' = Pte(pd, v)
    BY <1>1, <1>2, SameMem DEF AccessMiss
  <2>2. tlb' = tlb /\ cr3 \in PageDirs
    BY <1>1, <1>2 DEF AccessMiss, TypeOK
  <2>3. CacheRight'
    BY <1>1, <2>1, <2>2 DEF CacheRight
  <2>4. TypeOK'
    BY <1>1, <2>1, <2>2 DEF TypeOK, MemOK
  <2>. QED BY <2>1, <2>3, <2>4
<1>3. ASSUME NEW c, AccessHit(cr3, u, write, c) PROVE IInv'
  <2>0. PICK q, e, x : q = cr3 /\ e = Pte(cr3, u) /\ x = Seen(e, write)
    OBVIOUS
  <2>1. /\ q \in PageDirs /\ e.p
        /\ MemOK' /\ StructInv' /\ Changed(q, u, x)
        /\ tlb' = [tlb EXCEPT ![u] = c] /\ c \in Translations
        /\ c.frame = e.frame /\ c.w = e.w /\ (c.d => e.d \/ write)
    BY <1>3, <2>0 DEF AccessHit
  <2>2. /\ e \in Entries /\ x.frame = e.frame /\ x.p = e.p /\ x.w = e.w
        /\ x.a = TRUE /\ (e.d \/ write => x.d)
    <3>1. e \in Entries
      BY <2>0, <2>1, EntryType
    <3>2. /\ Seen(e, write).frame = e.frame /\ Seen(e, write).p = e.p /\ Seen(e, write).w = e.w
          /\ Seen(e, write).a = TRUE /\ (Seen(e, write).d <=> e.d \/ write)
      BY <3>1, SeenFacts
    <3>. QED BY <2>0, <3>1, <3>2
  <2>3. FrameInv'
    BY <1>1, <2>0, <2>1, <2>2, KeepsFrames
  <2>4. PageDirs' = PageDirs /\ Pte(q, u)' = x /\ \A v \in UPage : v # u => Pte(q, v)' = Pte(q, v)
    BY <2>1 DEF Changed
  <2>5. tlb' \in [UPage -> Translations \cup {None}] /\ tlb'[u] = c
        /\ \A v \in UPage : v # u => tlb'[v] = tlb[v]
    BY <2>1 DEF TypeOK
  <2>6. cr3' = q /\ q # None
    BY <1>1, <2>0
  <2>7. TypeOK'
    BY <1>1, <2>1, <2>4, <2>5, <2>6 DEF TypeOK, MemOK
  <2>8. CacheRight'
    <3>1. SUFFICES ASSUME NEW v \in UPage, tlb'[v] # None
          PROVE /\ Pte(q, v)'.p /\ Pte(q, v)'.a
                /\ tlb'[v].frame = Pte(q, v)'.frame /\ tlb'[v].w = Pte(q, v)'.w
                /\ tlb'[v].d => Pte(q, v)'.d
      BY <2>6 DEF CacheRight
    <3>2. CASE v = u
      BY <2>1, <2>2, <2>4, <2>5, <3>2
    <3>3. CASE v # u
      BY <2>0, <2>4, <2>5, <3>1, <3>3 DEF CacheRight
    <3>. QED BY <3>2, <3>3
  <2>. QED BY <2>1, <2>3, <2>7, <2>8
<1>. QED BY <1>2, <1>3, AccessEffect

LEMMA NextIInv == ASSUME PageDirAssumption, IInv, [Next]_vars PROVE IInv'
<1>1. IInv /\ [Next]_vars /\ PageDirAssumption
  OBVIOUS
<1>2. CASE Create
  BY <1>1, <1>2, CreateIInv
<1>3. ASSUME NEW pd \in PageDirs, Destroy(pd) PROVE IInv'
  BY <1>1, <1>3, DestroyIInv
<1>4. ASSUME NEW pd \in PageDirs, NEW u \in UPage, Drop(pd, u) PROVE IInv'
  BY <1>1, <1>4, DropIInv
<1>5. ASSUME NEW pd \in PageDirs, NEW u \in UPage, Install(pd, u, u \notin ReadOnly) PROVE IInv'
  <2>1. (u \notin ReadOnly) \in BOOLEAN
    OBVIOUS
  <2>. QED BY <1>1, <1>5, <2>1, InstallIInv
<1>6. ASSUME NEW pd \in PageDirs, NEW u \in UPage, NEW bit \in {"accessed", "dirty"},
             NEW value \in BOOLEAN, Mark(pd, u, bit, value)
      PROVE IInv'
  BY <1>1, <1>6, MarkIInv
<1>7. ASSUME NEW pd \in PageDirs \cup {None}, Activate(pd) PROVE IInv'
  BY <1>1, <1>7, ActivateIInv
<1>8. ASSUME NEW u \in UPage, Evict(u) PROVE IInv'
  BY <1>1, <1>8, EvictIInv
<1>9. ASSUME NEW u \in UPage, NEW write \in BOOLEAN, Access(u, write) PROVE IInv'
  BY <1>1, <1>9, AccessIInv
<1>10. CASE UNCHANGED vars
  <2>1. /\ MemOK' /\ StructInv' /\ FrameInv' /\ PageDirs' = PageDirs
        /\ \A pd \in PageDirs, v \in UPage : Pte(pd, v)' = Pte(pd, v)
    BY <1>1, <1>10, SameMem DEF vars
  <2>2. TypeOK'
    BY <1>1, <1>10, <2>1 DEF vars, IInv, TypeOK, MemOK
  <2>3. CacheRight'
    BY <1>1, <1>10, <2>1 DEF vars, IInv, TypeOK, CacheRight
  <2>. QED BY <2>1, <2>2, <2>3 DEF IInv
<1>. QED BY <1>1, <1>2, <1>3, <1>4, <1>5, <1>6, <1>7, <1>8, <1>9, <1>10 DEF Next

LEMMA Invariant == PageDirAssumption => (Spec => []IInv)
<1>. SUFFICES ASSUME PageDirAssumption PROVE Spec => []IInv
  OBVIOUS
<1>1. Init => IInv
  BY InitIInv
<1>2. IInv /\ [Next]_vars => IInv'
  BY NextIInv
<1>. QED BY <1>1, <1>2, PTL DEF Spec

-----------------------------------------------------------------------------
LEMMA IInvTablesExact == ASSUME PageDirAssumption, IInv PROVE TablesExact
<1>. USE DEF IInv
<1>1. \A pd \in PageDirs, n \in TableNo : mem[pd].pde[n] \in KPool \cup {None}
  <2>1. \A pd \in PageDirs : mem[pd] \in Dirs
    BY Shapes DEF PageDirs
  <2>. QED BY <2>1 DEF Dirs
<1>2. UNION {TablesOf(pd) : pd \in PageDirs} = {k \in KPool : mem[k] # None} \ PageDirs
  <2>1. ASSUME NEW k \in UNION {TablesOf(pd) : pd \in PageDirs}
        PROVE k \in {i \in KPool : mem[i] # None} \ PageDirs
    <3>1. PICK pd \in PageDirs, n \in TableNo : k = mem[pd].pde[n] /\ k # None
      BY <2>1 DEF TablesOf
    <3>. QED BY <1>1, <3>1 DEF StructInv, EntriesToTables
  <2>2. ASSUME NEW k \in {i \in KPool : mem[i] # None} \ PageDirs
        PROVE k \in UNION {TablesOf(pd) : pd \in PageDirs}
    <3>1. PICK pd \in PageDirs, n \in TableNo : mem[pd].pde[n] = k
      BY <2>2 DEF StructInv, TablesHaveDirs
    <3>2. k \in TablesOf(pd)
      BY <3>1 DEF TablesOf, PageDirAssumption
    <3>. QED BY <3>2
  <2>. QED BY <2>1, <2>2
<1>3. \A pd, qd \in PageDirs, m, n \in TableNo :
        mem[pd].pde[m] # None /\ mem[pd].pde[m] = mem[qd].pde[n] => pd = qd /\ m = n
  BY DEF StructInv, TablesOnce
<1>4. ASSUME NEW f \in UPool
      PROVE Cardinality({x \in PageDirs \X UPage : Pte(x[1], x[2]).p /\ Pte(x[1], x[2]).frame = f})
              = IF f \in free THEN 0 ELSE 1
  <2>. DEFINE S == {x \in PageDirs \X UPage : Pte(x[1], x[2]).p /\ Pte(x[1], x[2]).frame = f}
  <2>1. CASE f \in free
    <3>1. S = {}
      BY <2>1 DEF FrameInv, PresentHasFrame
    <3>. QED BY <2>1, <3>1, FS_EmptySet
  <2>2. CASE f \notin free
    <3>1. PICK pd \in PageDirs, u \in UPage : Pte(pd, u).p /\ Pte(pd, u).frame = f
      BY <2>2 DEF FrameInv, FramesUsed
    <3>2. <<pd, u>> \in S
      BY <3>1
    <3>3. ASSUME NEW x \in S PROVE x = <<pd, u>>
      <4>1. x[1] \in PageDirs /\ x[2] \in UPage /\ x = <<x[1], x[2]>>
        OBVIOUS
      <4>2. x[1] = pd /\ x[2] = u
        <5>1. FramesOnce
          BY DEF FrameInv
        <5>. QED BY <3>1, <4>1, <5>1 DEF FramesOnce
      <4>. QED BY <4>1, <4>2
    <3>4. S = {<<pd, u>>}
      BY <3>2, <3>3
    <3>5. Cardinality(S) = 1
      <4>. HIDE DEF S
      <4>. QED BY <3>4, FS_Singleton
    <3>. QED BY <2>2, <3>5
  <2>. QED BY <2>1, <2>2
<1>. QED BY <1>2, <1>3, <1>4 DEF TablesExact

-----------------------------------------------------------------------------
(* The refinement: what the directories say of the pages.                   *)
SpacesShape ==
  /\ Spaces \in [KPool -> [UPage -> Entries \cup {None}] \cup {None}]
  /\ \A pd \in KPool \ PageDirs : Spaces[pd] = None
  /\ \A pd \in PageDirs :
       /\ pd \in KPool /\ Spaces[pd] # None
       /\ Spaces[pd] \in [UPage -> Entries \cup {None}]
       /\ \A u \in UPage : Spaces[pd][u] = Said(Pte(pd, u))

LEMMA SpacesAre == ASSUME PageDirAssumption, IInv PROVE SpacesShape
<1>1. PageDirs \subseteq KPool
  BY DEF PageDirs
<1>2. \A pd \in PageDirs, u \in UPage : Said(Pte(pd, u)) \in Entries \cup {None}
  BY EntryType DEF IInv, Said
<1>3. \A pd \in PageDirs :
        /\ Spaces[pd] = [u \in UPage |-> Said(Pte(pd, u))]
        /\ Spaces[pd] \in [UPage -> Entries \cup {None}]
  BY <1>1, <1>2 DEF Spaces
<1>4. \A pd \in KPool \ PageDirs : Spaces[pd] = None
  BY DEF Spaces
<1>5. Spaces = [pd \in KPool |-> Spaces[pd]]
  BY DEF Spaces
<1>6. Spaces \in [KPool -> [UPage -> Entries \cup {None}] \cup {None}]
  BY <1>1, <1>3, <1>4, <1>5
<1>7. None \notin [UPage -> Entries \cup {None}]
  BY DEF PageDirAssumption
<1>8. \A pd \in PageDirs : Spaces[pd] # None
  BY <1>3, <1>7
<1>9. \A pd \in PageDirs, u \in UPage : Spaces[pd][u] = Said(Pte(pd, u))
  BY <1>3
<1>. QED BY <1>1, <1>3, <1>4, <1>6, <1>8, <1>9 DEF SpacesShape

LEMMA SpacesAreNext == PageDirAssumption => (IInv' => SpacesShape')
<1>. SUFFICES ASSUME PageDirAssumption PROVE IInv' => SpacesShape'
  OBVIOUS
<1>1. IInv => SpacesShape
  BY SpacesAre
<1>. QED BY <1>1, PTL

\* A page is present for the abstract address spaces when its entry is, and no
\* free frame is in use.
LEMMA PresentIs ==
  ASSUME PageDirAssumption, IInv
  PROVE  /\ \A pd \in PageDirs, u \in UPage : Space!Present(pd, u) <=> Pte(pd, u).p
         /\ \A pd \in PageDirs, u \in UPage : Pte(pd, u).p => Spaces[pd][u] = Pte(pd, u)
         /\ \A f \in free : f \notin Space!InUse
<1>1. \A pd \in PageDirs, u \in UPage : Pte(pd, u).p => Pte(pd, u).frame \in UPool \ free
  BY DEF IInv, FrameInv, PresentHasFrame
<1>2. \A pd \in PageDirs, u \in UPage : Pte(pd, u).p => Spaces[pd][u] = Pte(pd, u)
  BY <1>1, SpacesAre DEF SpacesShape, Said, PageDirAssumption
<1>3. \A pd \in PageDirs, u \in UPage : Pte(pd, u) # None
  BY EntryType DEF IInv, PageDirAssumption
<1>4. ASSUME NEW pd \in PageDirs, NEW u \in UPage PROVE Space!Present(pd, u) <=> Pte(pd, u).p
  <2>1. CASE Pte(pd, u).p
    BY <1>2, <1>3, <2>1, SpacesAre DEF SpacesShape, Space!Present
  <2>2. CASE ~Pte(pd, u).p
    BY <2>2, SpacesAre DEF SpacesShape, Space!Present, Said
  <2>. QED BY <2>1, <2>2
<1>5. \A pd \in KPool, u \in UPage : Space!Present(pd, u) => pd \in PageDirs
  BY SpacesAre DEF SpacesShape, Space!Present
<1>6. ASSUME NEW f \in Space!InUse PROVE f \notin free
  <2>1. PICK pd \in KPool, u \in UPage : Space!Present(pd, u) /\ f = Spaces[pd][u].frame
    BY <1>6 DEF Space!InUse
  <2>2. pd \in PageDirs /\ Pte(pd, u).p
    BY <1>4, <1>5, <2>1
  <2>. QED BY <1>1, <1>2, <2>1, <2>2
<1>. QED BY <1>2, <1>4, <1>6

\* One entry changes: so does one page of one address space.
With(S, pd, u, x) == [S EXCEPT ![pd] = [S[pd] EXCEPT ![u] = x]]

LEMMA ChangedSpace ==
  ASSUME PageDirAssumption, IInv, IInv', NEW pd \in PageDirs, NEW u \in UPage, NEW e,
         Changed(pd, u, e)
  PROVE  Spaces' = With(Spaces, pd, u, Said(e))
<1>0. PICK S, T, x : S = Spaces /\ T = Spaces' /\ x = Said(e)
  OBVIOUS
<1>1. /\ S \in [KPool -> [UPage -> Entries \cup {None}] \cup {None}]
      /\ \A qd \in KPool \ PageDirs : S[qd] = None
      /\ \A qd \in PageDirs :
           /\ qd \in KPool /\ S[qd] \in [UPage -> Entries \cup {None}]
           /\ \A v \in UPage : S[qd][v] = Said(Pte(qd, v))
  BY <1>0, SpacesAre DEF SpacesShape
<1>2. PageDirs' = PageDirs
  BY DEF Changed
<1>3. /\ T \in [KPool -> [UPage -> Entries \cup {None}] \cup {None}]
      /\ \A qd \in KPool \ PageDirs : T[qd] = None
      /\ \A qd \in PageDirs :
           /\ T[qd] \in [UPage -> Entries \cup {None}]
           /\ \A v \in UPage : T[qd][v] = Said(Pte(qd, v)')
  <2>1. SpacesShape'
    BY SpacesAreNext
  <2>. QED BY <1>0, <1>2, <2>1 DEF SpacesShape
<1>4. T[pd][u] = x /\ \A qd \in PageDirs, v \in UPage : ~(qd = pd /\ v = u) => T[qd][v] = S[qd][v]
  BY <1>0, <1>1, <1>3 DEF Changed
<1>5. \A qd \in KPool : qd # pd => T[qd] = S[qd]
  <2>1. \A qd \in PageDirs : qd # pd => T[qd] = S[qd]
    BY <1>1, <1>3, <1>4
  <2>. QED BY <1>1, <1>3, <2>1
<1>6. T[pd] = [S[pd] EXCEPT ![u] = x]
  BY <1>1, <1>3, <1>4
<1>7. T = [S EXCEPT ![pd] = [S[pd] EXCEPT ![u] = x]]
  BY <1>1, <1>3, <1>5, <1>6
<1>. QED BY <1>0, <1>7 DEF With

\* Nothing that the address spaces tell changes.
LEMMA SameSpace ==
  ASSUME PageDirAssumption, IInv, IInv', PageDirs' = PageDirs,
         \A pd \in PageDirs, u \in UPage : Said(Pte(pd, u)') = Said(Pte(pd, u))
  PROVE  Spaces' = Spaces
<1>1. /\ Spaces = [pd \in KPool |-> Spaces[pd]]
      /\ Spaces' = [pd \in KPool |-> Spaces'[pd]]
  BY DEF Spaces
<1>2. \A pd \in KPool : Spaces'[pd] = Spaces[pd]
  BY DEF Spaces
<1>. QED BY <1>1, <1>2

\* Updates of an address space, as the abstract actions write them.
Unmapped(S, pd, u) == [S EXCEPT ![pd][u].p = FALSE]
Accessed(S, pd, u, write) == [S EXCEPT ![pd][u].a = TRUE, ![pd][u].d = @ \/ write]

LEMMA UnmappedIs ==
  ASSUME NEW S \in [KPool -> [UPage -> Entries \cup {None}] \cup {None}], NEW pd \in KPool,
         NEW u \in UPage, S[pd] \in [UPage -> Entries \cup {None}],
         NEW e \in Entries, S[pd][u] = e
  PROVE  Unmapped(S, pd, u) = With(S, pd, u, [e EXCEPT !.p = FALSE])
BY DEF With, Unmapped

LEMMA AccessedIs ==
  ASSUME NEW S \in [KPool -> [UPage -> Entries \cup {None}] \cup {None}], NEW pd \in KPool,
         NEW u \in UPage, S[pd] \in [UPage -> Entries \cup {None}],
         NEW e \in Entries, S[pd][u] = e, NEW write
  PROVE  Accessed(S, pd, u, write) = With(S, pd, u, Seen(e, write))
<1>. DEFINE e1 == [e EXCEPT !.a = TRUE]
            S1 == [S EXCEPT ![pd] = [S[pd] EXCEPT ![u] = e1]]
<1>1. [S EXCEPT ![pd][u].a = TRUE] = S1
  OBVIOUS
<1>2. S1[pd] = [S[pd] EXCEPT ![u] = e1] /\ S1[pd][u] = e1
  OBVIOUS
<1>3. e1.d = e.d
  BY DEF Entries
<1>. DEFINE b == e.d \/ write
<1>4. [S EXCEPT ![pd][u].a = TRUE, ![pd][u].d = @ \/ write]
        = [S1 EXCEPT ![pd] = [S1[pd] EXCEPT ![u] = [e1 EXCEPT !.d = b]]]
  BY <1>1, <1>2, <1>3, Zenon
<1>5. [e1 EXCEPT !.d = b] = Seen(e, write)
  BY Zenon DEF Seen
<1>6. [S1[pd] EXCEPT ![u] = Seen(e, write)] = [S[pd] EXCEPT ![u] = Seen(e, write)]
  BY <1>2
<1>7. [S1 EXCEPT ![pd] = [S[pd] EXCEPT ![u] = Seen(e, write)]]
        = [S EXCEPT ![pd] = [S[pd] EXCEPT ![u] = Seen(e, write)]]
  OBVIOUS
<1>. HIDE DEF S1, e1, b
<1>. QED BY <1>4, <1>5, <1>6, <1>7 DEF With, Accessed

\* Each step is one of the abstract address spaces, or one they do not see.
SpaceStep == [Space!Next]_<<Spaces, cr3, last>>

LEMMA CreateRefines == ASSUME PageDirAssumption, IInv, IInv', Create PROVE SpaceStep
<1>0. PICK S, T : S = Spaces /\ T = Spaces'
  OBVIOUS
<1>1. PICK k \in KPool \ PageDirs :
        /\ PageDirs' = PageDirs \cup {k}
        /\ \A u \in UPage : Pte(k, u)' = Zero
        /\ \A qd \in PageDirs, u \in UPage : Pte(qd, u)' = Pte(qd, u)
  BY CreateStruct DEF IInv
<1>2. S[k] = None /\ S = [qd \in KPool |-> S[qd]] /\ T = [qd \in KPool |-> T[qd]]
  BY <1>0, SpacesAre DEF SpacesShape, Spaces
<1>3. T[k] = [u \in UPage |-> None]
  <2>1. T[k] = [u \in UPage |-> Said(Pte(k, u)')]
    BY <1>0, <1>1 DEF Spaces
  <2>. QED BY <1>1, <2>1 DEF Said, Zero
<1>4. \A qd \in KPool : qd # k => T[qd] = S[qd]
  BY <1>0, <1>1 DEF Spaces
<1>5. T = [S EXCEPT ![k] = [u \in UPage |-> None]]
  BY <1>2, <1>3, <1>4
<1>6. Space!Create(k)
  BY <1>0, <1>2, <1>5 DEF Space!Create, Create
<1>. QED BY <1>6 DEF SpaceStep, Space!Next

LEMMA DestroyRefines ==
  ASSUME PageDirAssumption, IInv, IInv', NEW pd \in PageDirs, Destroy(pd) PROVE SpaceStep
<1>0. PICK S, T : S = Spaces /\ T = Spaces'
  OBVIOUS
<1>1. /\ PageDirs' = PageDirs \ {pd} /\ pd \in KPool
      /\ \A qd \in PageDirs \ {pd}, u \in UPage : Pte(qd, u)' = Pte(qd, u)
  BY DestroyStruct DEF IInv, PageDirs
<1>2. S[pd] # None /\ S = [qd \in KPool |-> S[qd]] /\ T = [qd \in KPool |-> T[qd]]
  BY <1>0, SpacesAre DEF SpacesShape, Spaces
<1>3. T[pd] = None /\ \A qd \in KPool : qd # pd => T[qd] = S[qd]
  BY <1>0, <1>1 DEF Spaces
<1>4. T = [S EXCEPT ![pd] = None]
  BY <1>2, <1>3
<1>5. Space!Destroy(pd)
  BY <1>0, <1>2, <1>4 DEF Space!Destroy, Destroy
<1>. QED BY <1>1, <1>5 DEF SpaceStep, Space!Next

LEMMA InstallRefines ==
  ASSUME PageDirAssumption, IInv, IInv', NEW pd \in PageDirs, NEW u \in UPage, NEW w \in BOOLEAN,
         Install(pd, u, w)
  PROVE  SpaceStep
<1>1. ~Pte(pd, u).p /\ cr3' = cr3 /\ last' = None
  BY InstallStruct DEF IInv
<1>2. PICK f \in free : free' = free \ {f} /\ Changed(pd, u, Entry(f, w))
  BY InstallStruct DEF IInv
<1>3. f \in UPool /\ pd \in KPool
  BY DEF IInv, TypeOK, PageDirs
<1>4. Said(Entry(f, w)) = Entry(f, w)
  BY <1>3 DEF Said, Entry, PageDirAssumption
<1>5. Spaces' = With(Spaces, pd, u, Entry(f, w))
  BY <1>2, <1>4, ChangedSpace
<1>6. Spaces' = [Spaces EXCEPT ![pd][u] = Entry(f, w)]
  BY <1>5 DEF With
<1>7. Spaces[pd] # None /\ ~Space!Present(pd, u) /\ f \notin Space!InUse
  BY <1>1, SpacesAre, PresentIs DEF SpacesShape
<1>8. Space!Install(pd, u, f, w)
  BY <1>1, <1>6, <1>7 DEF Space!Install, Entry
<1>. QED BY <1>3, <1>8 DEF SpaceStep, Space!Next

LEMMA DropRefines ==
  ASSUME PageDirAssumption, IInv, IInv', NEW pd \in PageDirs, NEW u \in UPage, Drop(pd, u)
  PROVE  SpaceStep
<1>0. PICK e, x : e = Pte(pd, u) /\ x = [e EXCEPT !.p = FALSE]
  OBVIOUS
<1>1. Changed(pd, u, x) /\ e \in Entries /\ e.p /\ pd \in KPool /\ cr3' = cr3 /\ last' = None
  <2>1. Changed(pd, u, x)
    BY <1>0, DropStruct DEF IInv
  <2>2. e \in Entries
    BY <1>0, EntryType DEF IInv
  <2>. QED BY <1>0, <2>1, <2>2 DEF Drop, PageDirs
<1>2. e.frame \in UPool /\ x.frame = e.frame
  BY <1>0, <1>1 DEF IInv, FrameInv, PresentHasFrame, Entries
<1>3. Said(x) = x
  BY <1>2 DEF Said, PageDirAssumption
<1>4. Spaces' = With(Spaces, pd, u, x)
  BY <1>1, <1>3, ChangedSpace
<1>5. Space!Present(pd, u) /\ Spaces[pd][u] = e
  BY <1>0, <1>1, PresentIs
<1>6. [Spaces EXCEPT ![pd][u].p = FALSE] = With(Spaces, pd, u, x)
  <2>1. PICK S : S = Spaces
    OBVIOUS
  <2>2. S \in [KPool -> [UPage -> Entries \cup {None}] \cup {None}] /\ S[pd] \in [UPage -> Entries \cup {None}]
    BY <2>1, SpacesAre DEF SpacesShape
  <2>3. Unmapped(S, pd, u) = With(S, pd, u, [e EXCEPT !.p = FALSE])
    BY <1>1, <1>5, <2>1, <2>2, UnmappedIs
  <2>. QED BY <1>0, <2>1, <2>3 DEF Unmapped
<1>7. Space!Drop(pd, u)
  BY <1>1, <1>4, <1>5, <1>6 DEF Space!Drop
<1>. QED BY <1>1, <1>7 DEF SpaceStep, Space!Next

LEMMA MarkRefines ==
  ASSUME PageDirAssumption, IInv, IInv', NEW pd \in PageDirs, NEW u \in UPage,
         NEW bit \in {"accessed", "dirty"}, NEW value \in BOOLEAN, Mark(pd, u, bit, value)
  PROVE  SpaceStep
<1>0. PICK e, x : e = Pte(pd, u) /\ x = Marked(e, bit, value)
  OBVIOUS
<1>1. /\ Changed(pd, u, x) /\ e \in Entries /\ pd \in KPool /\ cr3' = cr3 /\ last' = None
      /\ x.frame = e.frame
  <2>1. Changed(pd, u, x)
    BY <1>0, MarkStruct DEF IInv
  <2>2. e \in Entries
    BY <1>0, EntryType DEF IInv
  <2>3. x.frame = e.frame
    BY <1>0, <2>2, MarkedType
  <2>. QED BY <2>1, <2>2, <2>3 DEF Mark, PageDirs
<1>2. CASE e.frame = None
  <2>1. PageDirs' = PageDirs /\ \A qd \in PageDirs, v \in UPage : Said(Pte(qd, v)') = Said(Pte(qd, v))
    BY <1>0, <1>1, <1>2 DEF Changed, Said
  <2>2. Spaces' = Spaces
    BY <2>1, SameSpace
  <2>3. Space!Unseen
    BY <1>1, <2>2 DEF Space!Unseen
  <2>. QED BY <2>3 DEF SpaceStep, Space!Next
<1>3. CASE e.frame # None
  <2>1. Said(x) = x /\ Said(e) = e
    BY <1>1, <1>3 DEF Said
  <2>2. Spaces' = With(Spaces, pd, u, x)
    BY <1>1, <2>1, ChangedSpace
  <2>3. Spaces[pd] # None /\ Spaces[pd][u] = e /\ e # None
    BY <1>0, <1>1, <2>1, SpacesAre DEF SpacesShape, PageDirAssumption
  <2>4. Spaces' = [Spaces EXCEPT ![pd][u] =
                     IF bit = "accessed" THEN [e EXCEPT !.a = value] ELSE [e EXCEPT !.d = value]]
    BY <1>0, <2>2 DEF With, Marked
  <2>5. Space!Mark(pd, u, bit, value)
    BY <1>1, <2>3, <2>4 DEF Space!Mark
  <2>. QED BY <1>1, <2>5 DEF SpaceStep, Space!Next
<1>. QED BY <1>2, <1>3

LEMMA ActivateRefines ==
  ASSUME PageDirAssumption, IInv, IInv', NEW pd \in PageDirs \cup {None}, Activate(pd)
  PROVE  SpaceStep
<1>1. Spaces' = Spaces
  BY SameMem, SameSpace DEF Activate
<1>2. pd \in KPool \cup {None} /\ (pd # None => Spaces[pd] # None)
  BY SpacesAre DEF SpacesShape, PageDirs
<1>3. Space!Activate(pd)
  BY <1>1, <1>2 DEF Space!Activate, Activate
<1>. QED BY <1>2, <1>3 DEF SpaceStep, Space!Next

LEMMA EvictRefines ==
  ASSUME PageDirAssumption, IInv, IInv', NEW u \in UPage, Evict(u) PROVE SpaceStep
<1>1. Spaces' = Spaces
  BY SameMem, SameSpace DEF Evict
<1>2. Space!Unseen
  BY <1>1 DEF Space!Unseen, Evict
<1>. QED BY <1>2 DEF SpaceStep, Space!Next

LEMMA AccessRefines ==
  ASSUME PageDirAssumption, IInv, IInv', NEW u \in UPage, NEW write \in BOOLEAN, Access(u, write)
  PROVE  SpaceStep
<1>1. cr3 # None /\ UNCHANGED <<free, cr3>> /\ cr3 \in KPool /\ cr3 \in PageDirs
  BY AccessEffect DEF IInv, TypeOK, PageDirs
<1>2. CASE AccessMiss(u, write)
  <2>1. Spaces' = Spaces
    BY <1>1, <1>2, SameMem, SameSpace DEF AccessMiss
  <2>2. Space!Unseen
    BY <1>1, <1>2, <2>1 DEF Space!Unseen, AccessMiss
  <2>. QED BY <2>2 DEF SpaceStep, Space!Next
<1>3. ASSUME NEW c, AccessHit(cr3, u, write, c) PROVE SpaceStep
  <2>0. PICK q, e, x, S : q = cr3 /\ e = Pte(cr3, u) /\ x = Seen(e, write) /\ S = Spaces
    OBVIOUS
  <2>1. /\ q \in PageDirs /\ q \in KPool /\ e.p /\ e.frame \in UPool /\ (write => e.w)
        /\ last' = e.frame /\ Changed(q, u, x)
    BY <1>1, <1>3, <2>0 DEF AccessHit
  <2>2. e \in Entries /\ x.frame = e.frame
    <3>1. e \in Entries
      BY <2>0, <2>1, EntryType DEF IInv
    <3>. QED BY <2>0, <3>1, SeenFacts
  <2>3. Said(x) = x
    BY <2>1, <2>2 DEF Said, PageDirAssumption
  <2>4. Spaces' = With(S, q, u, x)
    BY <2>0, <2>1, <2>3, ChangedSpace
  <2>5. Space!Present(q, u) /\ S[q][u] = e
    BY <2>0, <2>1, PresentIs
  <2>6. S \in [KPool -> [UPage -> Entries \cup {None}] \cup {None}] /\ S[q] \in [UPage -> Entries \cup {None}]
    BY <2>0, <2>1, SpacesAre DEF SpacesShape
  <2>7. Accessed(S, q, u, write) = With(S, q, u, x)
    BY <2>0, <2>1, <2>2, <2>5, <2>6, AccessedIs
  <2>8. Space!Access(u, write)
    <3>1. Space!Present(cr3, u) /\ (write => Spaces[cr3][u].w) /\ last' = Spaces[cr3][u].frame
      BY <2>0, <2>1, <2>5
    <3>2. Spaces' = [Spaces EXCEPT ![cr3][u].a = TRUE, ![cr3][u].d = @ \/ write]
      BY <2>0, <2>4, <2>7, Zenon DEF Accessed
    <3>. QED BY <1>1, <3>1, <3>2, Zenon DEF Space!Access
  <2>. QED BY <2>8 DEF SpaceStep, Space!Next
<1>. QED BY <1>2, <1>3, AccessEffect

LEMMA StepRefines == ASSUME PageDirAssumption, IInv, IInv', [Next]_vars PROVE SpaceStep
<1>1. CASE Create
  BY <1>1, CreateRefines
<1>2. ASSUME NEW pd \in PageDirs, Destroy(pd) PROVE SpaceStep
  BY <1>2, DestroyRefines
<1>3. ASSUME NEW pd \in PageDirs, NEW u \in UPage, Drop(pd, u) PROVE SpaceStep
  BY <1>3, DropRefines
<1>4. ASSUME NEW pd \in PageDirs, NEW u \in UPage, Install(pd, u, u \notin ReadOnly) PROVE SpaceStep
  <2>1. (u \notin ReadOnly) \in BOOLEAN
    OBVIOUS
  <2>. QED BY <1>4, <2>1, InstallRefines
<1>5. ASSUME NEW pd \in PageDirs, NEW u \in UPage, NEW bit \in {"accessed", "dirty"},
             NEW value \in BOOLEAN, Mark(pd, u, bit, value)
      PROVE SpaceStep
  BY <1>5, MarkRefines
<1>6. ASSUME NEW pd \in PageDirs \cup {None}, Activate(pd) PROVE SpaceStep
  BY <1>6, ActivateRefines
<1>7. ASSUME NEW u \in UPage, Evict(u) PROVE SpaceStep
  BY <1>7, EvictRefines
<1>8. ASSUME NEW u \in UPage, NEW write \in BOOLEAN, Access(u, write) PROVE SpaceStep
  BY <1>8, AccessRefines
<1>9. CASE UNCHANGED vars
  <2>1. Spaces' = Spaces
    BY <1>9, SameMem, SameSpace DEF vars
  <2>. QED BY <1>9, <2>1 DEF vars, SpaceStep
<1>. QED BY <1>1, <1>2, <1>3, <1>4, <1>5, <1>6, <1>7, <1>8, <1>9 DEF Next

(* pagedir.c:210-224 "If PD is the active page directory, re-activating it *)
(* clears the TLB": with any number of directories, tables, frames and     *)
(* pages, an access goes where the active directory says now, and accessed *)
(* and dirty tell of every access since they were cleared.                 *)
THEOREM PageDirImplementsSpaces == PageDirAssumption => (Spec => ImplementsSpace)
<1>. SUFFICES ASSUME PageDirAssumption PROVE Spec => ImplementsSpace
  OBVIOUS
<1>1. Init => Space!Init
  <2>1. Init => PageDirs = {}
    BY DEF Init, PageDirs
  <2>. QED BY <2>1 DEF Init, Space!Init, Spaces
<1>2. IInv /\ IInv' /\ [Next]_vars => [Space!Next]_<<Spaces, cr3, last>>
  BY StepRefines DEF SpaceStep
<1>3. Spec => []IInv
  BY Invariant
<1>4. ImplementsSpace <=> Space!Init /\ [][Space!Next]_<<Spaces, cr3, last>>
  BY DEF ImplementsSpace, Space!Spec, Space!vars
<1>. QED BY <1>1, <1>2, <1>3, <1>4, PTL DEF Spec

(* pagedir_create, pagedir_destroy, pagedir_set_page and the freeing of    *)
(* frames: every table belongs to one directory at one place, every other  *)
(* page of the kernel's is free, and every frame is free or present once.  *)
THEOREM PageTablesAreExact == PageDirAssumption => (Spec => []TablesExact)
<1>. SUFFICES ASSUME PageDirAssumption PROVE Spec => []TablesExact
  OBVIOUS
<1>1. IInv => TablesExact
  BY IInvTablesExact
<1>2. Spec => []IInv
  BY Invariant
<1>. QED BY <1>1, <1>2, PTL

(* Both: no page of a table or of a process is lost or used twice, and     *)
(* translations are right.                                                 *)
THEOREM TranslationIsRight == PageDirAssumption => (Spec => TranslationRight)
BY PageTablesAreExact, PageDirImplementsSpaces DEF TranslationRight
=============================================================================
