------------------------- MODULE FilesystemsProofs --------------------------
(***************************************************************************)
(* Proofs about the file systems, for any machine, any number of sectors   *)
(* and of entries, and any names, paths and contents.                      *)
(***************************************************************************)
EXTENDS Devices, FiniteSetTheorems, SequenceTheorems, WellFoundedInduction, TLAPS

-----------------------------------------------------------------------------
(* Least elements and counting.                                            *)
LEMMA LeastElement ==
  ASSUME NEW T, T \subseteq Nat, T # {}
  PROVE  \E d \in T : \A e \in T : d <= e
<1>1. PICK d \in T : \A e \in T : <<e, d>> \notin OpToRel(<, Nat)
  BY WFMin, NatLessThanWellFounded, Zenon
<1>2. \A e \in T : ~(e < d)
  BY <1>1, Zenon DEF OpToRel
<1>. QED  BY <1>2

LEMMA LowestIsLeast ==
  ASSUME NEW T, T \subseteq Nat, T # {}
  PROVE  S!Lowest(T) \in T /\ \A e \in T : S!Lowest(T) <= e
<1>1. \E d \in T : \A e \in T : d <= e
  BY LeastElement
<1>. QED  BY <1>1, Zenon DEF S!Lowest

(* The number of elements of T below s.                                    *)
Rank(T, s) == Cardinality({r \in T : r < s})

LEMMA RankGrows ==
  ASSUME NEW T, T \subseteq Nat, IsFiniteSet(T)
  PROVE  /\ \A s \in T : Rank(T, s) \in Nat /\ Rank(T, s) < Cardinality(T)
         /\ \A s, t \in T : s < t => Rank(T, s) < Rank(T, t)
<1>1. ASSUME NEW U, U \subseteq T, NEW s \in T, s \notin U
      PROVE  IsFiniteSet(U) /\ Cardinality(U) \in Nat /\ Cardinality(U) < Cardinality(T)
  <2>1. IsFiniteSet(U) /\ Cardinality(U) <= Cardinality(T) /\ (Cardinality(T) = Cardinality(U) => T = U)
    BY <1>1, FS_Subset
  <2>2. Cardinality(U) \in Nat /\ Cardinality(T) \in Nat
    BY <2>1, FS_CardinalityType
  <2>. QED  BY <1>1, <2>1, <2>2
<1>2. ASSUME NEW s \in T
      PROVE  Rank(T, s) \in Nat /\ Rank(T, s) < Cardinality(T)
  <2>1. {r \in T : r < s} \subseteq T /\ s \notin {r \in T : r < s}
    OBVIOUS
  <2>. QED  BY <1>1, <2>1, Zenon DEF Rank
<1>3. ASSUME NEW s \in T, NEW t \in T, s < t
      PROVE  Rank(T, s) < Rank(T, t)
  <2> DEFINE U == {r \in T : r < s}
             V == {r \in T : r < t}
  <2>1. U \subseteq V /\ s \in V /\ s \notin U
    <3>1. \A r \in T : r \in Nat /\ (r < s => r < t) /\ ~(s < s)
      BY <1>3
    <3>. QED  BY <1>3, <3>1, Zenon
  <2>2. IsFiniteSet(V)
    BY FS_Subset
  <2>3. Cardinality(U) <= Cardinality(V) /\ (Cardinality(V) = Cardinality(U) => V = U) /\ IsFiniteSet(U)
    BY <2>1, <2>2, FS_Subset
  <2>4. Cardinality(U) \in Nat /\ Cardinality(V) \in Nat
    BY <2>2, <2>3, FS_CardinalityType
  <2>. QED  BY <2>1, <2>3, <2>4 DEF Rank
<1>. QED  BY <1>2, <1>3

LEMMA RanksDiffer ==
  ASSUME NEW T, T \subseteq Nat, IsFiniteSet(T), NEW s \in T, NEW t \in T, s # t
  PROVE  Rank(T, s) # Rank(T, t)
<1>1. s < t \/ t < s
  <2>1. s \in Nat /\ t \in Nat
    OBVIOUS
  <2>. QED  BY <2>1
<1>2. Rank(T, s) \in Nat /\ Rank(T, t) \in Nat /\ (Rank(T, s) < Rank(T, t) \/ Rank(T, t) < Rank(T, s))
  BY <1>1, RankGrows, Zenon
<1>. QED  BY <1>2

(* Every rank below the number of elements is that of one element.         *)
LEMMA RankBijection ==
  ASSUME NEW T, T \subseteq Nat, IsFiniteSet(T)
  PROVE  \A n \in 0 .. Cardinality(T) - 1 : \E s \in T : Rank(T, s) = n
<1> DEFINE C == Cardinality(T)
           f == [s \in T |-> Rank(T, s)]
<1>1. C \in Nat
  BY FS_CardinalityType
<1>2. f \in Injection(T, 0 .. C - 1)
  <2>1. f \in [T -> 0 .. C - 1]
    <3>1. \A s \in T : Rank(T, s) \in Nat /\ Rank(T, s) < C
      BY RankGrows, Zenon
    <3>2. \A s \in T : Rank(T, s) \in 0 .. C - 1
      BY <1>1, <3>1
    <3>. QED  BY <3>2, Zenon
  <2>2. ASSUME NEW s \in T, NEW t \in T, s # t
        PROVE  f[s] # f[t]
    BY <2>2, RanksDiffer
  <2>. QED  BY <2>1, <2>2, Zenon DEF Injection, IsInjective
<1>3. IsFiniteSet(0 .. C - 1) /\ Cardinality(0 .. C - 1) = C
  <2>1. IsFiniteSet(0 .. C - 1) /\ Cardinality(0 .. C - 1) = IF 0 > C - 1 THEN 0 ELSE C - 1 - 0 + 1
    BY <1>1, FS_Interval
  <2>. QED  BY <1>1, <2>1
<1>4. f \in Surjection(T, 0 .. C - 1)
  BY <1>2, <1>3, FS_Injection
<1>. QED  BY <1>4, Zenon DEF Surjection

(* The first n elements are n.                                             *)
LEMMA FirstElements ==
  ASSUME NEW T, T \subseteq Nat, IsFiniteSet(T), NEW n \in Nat, n <= Cardinality(T)
  PROVE  Cardinality({s \in T : Rank(T, s) < n}) = n
<1> DEFINE U == {s \in T : Rank(T, s) < n}
           f == [s \in U |-> Rank(T, s)]
<1>1. Cardinality(T) \in Nat /\ IsFiniteSet(U)
  BY FS_CardinalityType, FS_Subset
<1>2. f \in [U -> 0 .. n - 1]
  <2>1. \A s \in U : Rank(T, s) \in Nat /\ Rank(T, s) < n
    BY RankGrows
  <2>2. \A s \in U : Rank(T, s) \in 0 .. n - 1
    BY <2>1
  <2>. QED  BY <2>2, Zenon
<1>3. ASSUME NEW s \in U, NEW t \in U, s # t
      PROVE  f[s] # f[t]
  BY <1>3, RanksDiffer
<1>4. ASSUME NEW k \in 0 .. n - 1
      PROVE  \E s \in U : f[s] = k
  <2>1. k \in 0 .. Cardinality(T) - 1
    BY <1>1
  <2>2. PICK s \in T : Rank(T, s) = k
    BY <2>1, RankBijection
  <2>. QED  BY <2>2
<1>5. f \in Bijection(U, 0 .. n - 1)
  BY <1>2, <1>3, <1>4, Zenon DEF Bijection, Injection, IsInjective, Surjection
<1>6. Cardinality(0 .. n - 1) = n
  BY FS_Interval
<1>. QED  BY <1>1, <1>5, <1>6, FS_Bijection DEF ExistsBijection

-----------------------------------------------------------------------------
(* SFS.  Every entry in use has a name and a number for itself.            *)
FilesApart(files) ==
  /\ \A e \in S!Entries : files[e].id = 0 <=> files[e].name = NoName
  /\ \A e \in S!Entries : files[e].id # 1
  /\ \A d, e \in S!Entries : files[d].name = files[e].name /\ files[d].name # NoName => d = e
  /\ \A d, e \in S!Entries : files[d].id = files[e].id /\ files[d].id # 0 => d = e

(* The tables and the data hold a content under a name: each of its        *)
(* sectors has the first block.                                            *)
Holds(files, owner, data, name, content) ==
  \E e \in S!Entries :
    /\ files[e].name = name
    /\ Cardinality(S!SectorsOf(owner, files[e].id)) = Len(content)
    /\ \A s \in S!SectorsOf(owner, files[e].id) : data[s] = content[1]

(* What was promised is on the disk, and can be read by the tables in      *)
(* memory.                                                                 *)
Kept ==
  \A v \in Volumes, n \in Names :
    promised[v][n] # <<>> =>
      /\ Holds(disk[v].files, disk[v].table, disk[v].data, n, promised[v][n])
      /\ v \in mounted => Holds(filetable, tabletable, disk[v].data, n, promised[v][n])

(* How far the tables in memory are ahead of those on the disk.            *)
Ahead ==
  \A v \in mounted :
    /\ pc \in {"idle", "table", "data"} => filetable = disk[v].files
    /\ pc \in {"idle", "files", "data"} => tabletable = disk[v].table

FileTable == [S!Entries -> [name : Names \union {NoName}, id : S!Ids]]
SectorTable == [S!Sectors -> S!Ids]
Data == [S!Sectors -> Blocks \union {Blank}]
RunningJob == [volume : Volumes, name : Names, content : Contents, id : S!Ids, fits : BOOLEAN]
Promises == [Volumes -> [Names -> Contents \union {<<>>}]]

SfsTyped ==
  /\ disk \in [Volumes -> [table : SectorTable, files : FileTable, data : Data]]
  /\ filetable \in FileTable /\ tabletable \in SectorTable
  /\ pathbuffer \in Names \union {NoName}
  /\ mounted \subseteq Volumes
  /\ pc \in {"idle", "files", "table", "data"}
  /\ pc # "idle" => job \in RunningJob
  /\ pc = "idle" => job = S!NoJob
  /\ i \in 0 .. NumSectors /\ (pc # "data" => i = 0) /\ sectoroffsettemp = 0
  /\ promised \in Promises

(* The write underway: it has an id that no other file has, and what it    *)
(* will promise comes to stand under its name.                             *)
JobRuns ==
  pc # "idle" =>
    /\ job.volume \in mounted /\ job.id \notin {0, 1}
    /\ promised[job.volume][job.name] = <<>>
    /\ \A e \in S!Entries : filetable[e].id = job.id => filetable[e].name = job.name
    /\ job.fits =>
         /\ \E e \in S!Entries : filetable[e] = [name |-> job.name, id |-> job.id]
         /\ pc = "files" => Cardinality(S!FreeSectors(tabletable)) >= Len(job.content)
         /\ pc # "files" => Cardinality(S!SectorsOf(tabletable, job.id)) = Len(job.content)
    /\ pc = "data" =>
         \A s \in S!SectorsOf(tabletable, job.id) : s < i => disk[job.volume].data[s] = job.content[1]

(* The tables in memory are of one volume at a time.                       *)
OneMounted == \A v, w \in mounted : v = w

SfsSound ==
  /\ SfsTyped
  /\ FilesApart(filetable) /\ \A v \in Volumes : FilesApart(disk[v].files)
  /\ OneMounted /\ Kept /\ Ahead /\ JobRuns

-----------------------------------------------------------------------------
(* The sectors of files, and how they are given.                           *)
LEMMA SectorsAreFinite == S!Sectors \subseteq Nat /\ IsFiniteSet(S!Sectors) /\ S!Ids \subseteq Nat
<1>1. NumSectors - 1 \in Int /\ 0 \in Int
  BY SizesAssumption
<1>2. IsFiniteSet(0 .. NumSectors - 1)
  BY <1>1, FS_Interval
<1>. QED  BY <1>2, SizesAssumption DEF S!Sectors, S!Ids

(* Sfs counts as the theorems about finite sets do.                        *)
LEMMA SameCardinality == \A T : S!Cardinality(T) = Cardinality(T)
BY Zenon DEF S!Cardinality, Cardinality

LEMMA GiveCounts ==
  ASSUME NEW owner \in [S!Sectors -> S!Ids], NEW id \in S!Ids, id # 0, S!SectorsOf(owner, id) = {},
         NEW n \in Nat, Cardinality(S!FreeSectors(owner)) >= n
  PROVE  Cardinality(S!SectorsOf(S!Give(owner, id, n), id)) = n
<1> DEFINE T == S!FreeSectors(owner)
<1>1. T \subseteq S!Sectors
  BY SizesAssumption DEF S!FreeSectors, S!Sectors
<1>2. T \subseteq Nat /\ IsFiniteSet(T)
  BY <1>1, SectorsAreFinite, FS_Subset
<1>3. S!SectorsOf(S!Give(owner, id, n), id) = {s \in T : Rank(T, s) < n}
  <2>1. S!Give(owner, id, n) = [s \in S!Sectors |-> IF s \in T /\ Rank(T, s) < n THEN id ELSE owner[s]]
    BY SameCardinality, Zenon DEF S!Give, S!FreeSectors, Rank
  <2>2. \A s \in S!Sectors : owner[s] # id
    BY DEF S!SectorsOf
  <2> HIDE DEF T
  <2>. QED  BY <1>1, <2>1, <2>2 DEF S!SectorsOf
<1>4. Cardinality(T) \in Nat
  BY <1>2, FS_CardinalityType
<1>5. n <= Cardinality(T)
  BY <1>4
<1>. QED  BY <1>2, <1>3, <1>5, FirstElements

LEMMA GiveKeeps ==
  ASSUME NEW owner \in [S!Sectors -> S!Ids], NEW id \in S!Ids, NEW n \in Nat, NEW other, other # 0, other # id
  PROVE  S!SectorsOf(S!Give(S!Without(owner, id), id, n), other) = S!SectorsOf(owner, other)
BY DEF S!Give, S!Without, S!SectorsOf

LEMMA Reallocates ==
  ASSUME tabletable \in [S!Sectors -> S!Ids], NEW id \in S!Ids, id # 0, NEW content, Len(content) \in Nat
  PROVE  /\ S!Reallocated(id, content) \in [S!Sectors -> S!Ids]
         /\ \A other : other # 0 /\ other # id =>
              S!SectorsOf(S!Reallocated(id, content), other) = S!SectorsOf(tabletable, other)
         /\ Cardinality(S!FreeSectors(S!Without(tabletable, id))) >= Len(content) =>
              Cardinality(S!SectorsOf(S!Reallocated(id, content), id)) = Len(content)
<1>1. S!Without(tabletable, id) \in [S!Sectors -> S!Ids]
  BY SizesAssumption DEF S!Without, S!Ids
<1>2. S!SectorsOf(S!Without(tabletable, id), id) = {}
  BY DEF S!SectorsOf, S!Without
<1>3. S!Reallocated(id, content) \in [S!Sectors -> S!Ids]
  BY <1>1 DEF S!Reallocated, S!Give
<1>4. Cardinality(S!FreeSectors(S!Without(tabletable, id))) >= Len(content) =>
        Cardinality(S!SectorsOf(S!Reallocated(id, content), id)) = Len(content)
  BY <1>1, <1>2, GiveCounts DEF S!Reallocated
<1>. QED  BY <1>3, <1>4, GiveKeeps DEF S!Reallocated

(* Room that was enough stays enough when sectors are freed first.         *)
LEMMA FreedIsMore ==
  ASSUME tabletable \in [S!Sectors -> S!Ids], NEW id
  PROVE  /\ Cardinality(S!FreeSectors(tabletable)) \in Nat
         /\ Cardinality(S!FreeSectors(tabletable)) <= Cardinality(S!FreeSectors(S!Without(tabletable, id)))
<1> DEFINE T == S!FreeSectors(tabletable)
           U == S!FreeSectors(S!Without(tabletable, id))
<1>1. U \subseteq S!Sectors /\ T \subseteq U
  BY SizesAssumption DEF S!FreeSectors, S!Sectors, S!Without
<1>2. IsFiniteSet(U)
  BY <1>1, SectorsAreFinite, FS_Subset
<1>. QED  BY <1>1, <1>2, FS_Subset, FS_CardinalityType

(* There is always an id that no entry has.                                *)
LEMMA FreeIdIsFree ==
  ASSUME filetable \in [S!Entries -> [name : Names \union {NoName}, id : S!Ids]]
  PROVE  /\ S!FreeId \in S!Ids /\ S!FreeId >= 2
         /\ \A e \in S!Entries : filetable[e].id # S!FreeId
<1> DEFINE T == {n \in 2 .. NumEntries + 2 : \A e \in S!Entries : filetable[e].id # n}
           U == 2 .. NumEntries + 2
           f == [n \in U |-> CHOOSE e \in S!Entries : filetable[e].id = n]
<1>1. T \subseteq Nat
  BY SizesAssumption
<1>2. ASSUME T = {}
      PROVE  FALSE
  <2>1. \A n \in U : f[n] \in S!Entries /\ filetable[f[n]].id = n
    BY <1>2, Zenon
  <2>2. f \in [U -> S!Entries]
    BY <2>1, Zenon
  <2>3. /\ IsFiniteSet(U) /\ IsFiniteSet(S!Entries)
        /\ Cardinality(U) = NumEntries + 1 /\ Cardinality(S!Entries) = NumEntries
    <3>1. 2 \in Int /\ NumEntries + 2 \in Int /\ 1 \in Int /\ NumEntries \in Int
      BY SizesAssumption
    <3>2. /\ IsFiniteSet(U) /\ Cardinality(U) = IF 2 > NumEntries + 2 THEN 0 ELSE NumEntries + 2 - 2 + 1
          /\ IsFiniteSet(1 .. NumEntries) /\ Cardinality(1 .. NumEntries) = IF 1 > NumEntries THEN 0 ELSE NumEntries - 1 + 1
      BY <3>1, FS_Interval
    <3>. QED  BY <3>2, SizesAssumption DEF S!Entries
  <2>4. Cardinality(S!Entries) < Cardinality(U)
    BY <2>3, SizesAssumption
  <2> HIDE DEF f, U
  <2>5. \E x, y \in U : x # y /\ f[x] = f[y]
    BY <2>2, <2>3, <2>4, FS_PigeonHole, Zenon
  <2>. QED  BY <2>1, <2>5, Zenon
<1>3. S!Lowest(T) \in T
  BY <1>1, <1>2, LowestIsLeast
<1>4. S!FreeId = S!Lowest(T)
  BY DEF S!FreeId
<1>. QED  BY <1>3, <1>4, SizesAssumption DEF S!Ids

-----------------------------------------------------------------------------
(* Names, their entries and ids.                                           *)
LEMMA DetailIsName ==
  ASSUME NEW path \in Paths, path # <<>>
  PROVE  S!sfs_get_detail(path) \in Names
<1> DEFINE T == {k \in 1 .. Len(path) : S!EndsPath(path, k)}
<1>1. path \in Seq(Names) /\ Len(path) \in Nat /\ Len(path) >= 1
  BY NamesAssumption, EmptySeq
<1>2. Len(path) \in T
  BY <1>1 DEF S!EndsPath
<1>3. S!Lowest(T) \in T
  <2>1. T \subseteq Nat /\ T # {}
    BY <1>1, <1>2
  <2>. QED  BY <2>1, LowestIsLeast, Zenon
<1>4. S!sfs_get_detail(path) = path[S!Lowest(T)]
  BY Zenon DEF S!sfs_get_detail
<1>5. S!Lowest(T) \in 1 .. Len(path)
  BY <1>3
<1>. QED  BY <1>1, <1>4, <1>5, ElementOfSeq

LEMMA IdOfNamed ==
  ASSUME filetable \in FileTable, FilesApart(filetable), NEW name \in Names, S!Named(name) # {}
  PROVE  /\ S!IdOf(name) \in S!Ids \ {0, 1}
         /\ \E e \in S!Entries : filetable[e] = [name |-> name, id |-> S!IdOf(name)]
         /\ \A e \in S!Entries : filetable[e].id = S!IdOf(name) => filetable[e].name = name
         /\ \A e \in S!Entries : filetable[e].name = name => filetable[e].id = S!IdOf(name)
<1> DEFINE d == S!Lowest(S!Named(name))
<1>1. S!Named(name) \subseteq Nat
  BY DEF S!Named, S!Entries
<1>2. d \in S!Named(name)
  BY <1>1, LowestIsLeast
<1>3. d \in S!Entries /\ filetable[d].name = name
  BY <1>2 DEF S!Named
<1>4. S!IdOf(name) = filetable[d].id
  BY Zenon DEF S!IdOf
<1> HIDE DEF d
<1>5. name # NoName
  BY NamesAssumption
<1>6. filetable[d].id \in S!Ids \ {0, 1}
  BY <1>3, <1>5 DEF FilesApart, FileTable
<1>7. filetable[d] = [name |-> name, id |-> filetable[d].id]
  BY <1>3 DEF FileTable
<1>8. \A e \in S!Entries : filetable[e].name = name => e = d
  BY <1>3, <1>5, Zenon DEF FilesApart
<1>9. \A e \in S!Entries : filetable[e].id = filetable[d].id => e = d
  BY <1>3, <1>6 DEF FilesApart
<1>. QED  BY <1>3, <1>4, <1>6, <1>7, <1>8, <1>9, Zenon

LEMMA NewFile ==
  ASSUME filetable \in FileTable, FilesApart(filetable), NEW name \in Names, S!Named(name) = {}
  PROVE  /\ S!WithNew(name) \in FileTable /\ FilesApart(S!WithNew(name))
         /\ \A e \in S!Entries : filetable[e].name # NoName => S!WithNew(name)[e] = filetable[e]
         /\ S!FreeEntries # {} => \E e \in S!Entries : S!WithNew(name)[e] = [name |-> name, id |-> S!FreeId]
         /\ \A e \in S!Entries : S!WithNew(name)[e].id = S!FreeId => S!WithNew(name)[e].name = name
<1>1. S!FreeId \in S!Ids /\ S!FreeId >= 2 /\ \A e \in S!Entries : filetable[e].id # S!FreeId
  BY FreeIdIsFree DEF FileTable
<1>2. \A e \in S!Entries : filetable[e].name # name
  BY DEF S!Named
<1>3. name # NoName
  BY NamesAssumption
<1>4. CASE S!FreeEntries = {}
  BY <1>1, <1>4 DEF S!WithNew
<1>5. CASE S!FreeEntries # {}
  <2> DEFINE d == S!Lowest(S!FreeEntries)
             new == [name |-> name, id |-> S!FreeId]
  <2>1. S!FreeEntries \subseteq Nat
    BY DEF S!FreeEntries, S!Entries
  <2>2. d \in S!FreeEntries
    BY <1>5, <2>1, LowestIsLeast
  <2>3. d \in S!Entries /\ filetable[d].id = 0
    BY <2>2 DEF S!FreeEntries
  <2>4. S!WithNew(name) = [filetable EXCEPT ![d] = new]
    BY <1>5, Zenon DEF S!WithNew
  <2>5. new \in [name : Names \union {NoName}, id : S!Ids] /\ new.name = name /\ new.id = S!FreeId
    BY <1>1
  <2>6. filetable[d].name = NoName
    BY <2>3 DEF FilesApart
  <2>7. S!FreeId # 0 /\ S!FreeId # 1
    BY <1>1 DEF S!Ids
  <2> HIDE DEF d, new
  <2>8. S!WithNew(name) \in FileTable
    BY <2>3, <2>4, <2>5 DEF FileTable
  <2>9. S!WithNew(name)[d] = new /\ \A e \in S!Entries : e # d => S!WithNew(name)[e] = filetable[e]
    BY <2>3, <2>4 DEF FileTable
  <2>10. FilesApart(S!WithNew(name))
    <3>1. /\ \A e \in S!Entries : S!WithNew(name)[e].id = 0 <=> S!WithNew(name)[e].name = NoName
          /\ \A e \in S!Entries : S!WithNew(name)[e].id # 1
      BY <1>3, <2>5, <2>7, <2>9 DEF FilesApart
    <3>2. \A e \in S!Entries \ {d} :
            S!WithNew(name)[e].name # S!WithNew(name)[d].name /\ S!WithNew(name)[e].id # S!WithNew(name)[d].id
      BY <1>1, <1>2, <2>5, <2>9
    <3>. QED  BY <3>1, <3>2, <2>9 DEF FilesApart
  <2>. QED  BY <1>1, <2>3, <2>5, <2>6, <2>8, <2>9, <2>10 DEF new
<1>. QED  BY <1>4, <1>5

(* What is held stays held while the entry, its sectors and what they hold *)
(* do.                                                                     *)
LEMMA HeldStays ==
  ASSUME NEW files, NEW owner, NEW data, NEW files2, NEW owner2, NEW data2, NEW name, NEW content,
         Holds(files, owner, data, name, content),
         \A e \in S!Entries : files[e].name = name =>
           /\ files2[e] = files[e]
           /\ S!SectorsOf(owner2, files[e].id) = S!SectorsOf(owner, files[e].id)
           /\ \A s \in S!SectorsOf(owner, files[e].id) : data2[s] = data[s]
  PROVE  Holds(files2, owner2, data2, name, content)
<1>1. PICK e \in S!Entries :
        /\ files[e].name = name
        /\ Cardinality(S!SectorsOf(owner, files[e].id)) = Len(content)
        /\ \A s \in S!SectorsOf(owner, files[e].id) : data[s] = content[1]
  BY DEF Holds
<1>2. /\ files2[e] = files[e]
      /\ S!SectorsOf(owner2, files[e].id) = S!SectorsOf(owner, files[e].id)
      /\ \A s \in S!SectorsOf(owner, files[e].id) : data2[s] = data[s]
  BY <1>1
<1>. QED  BY <1>1, <1>2 DEF Holds

-----------------------------------------------------------------------------
(* The steps of SFS.                                                       *)
LEMMA TypeFollows == SfsTyped => S!TypeOK
<1> SUFFICES ASSUME SfsTyped
             PROVE  S!TypeOK
  OBVIOUS
<1>1. job \in {S!NoJob} \union RunningJob
  BY Zenon DEF SfsTyped
<1>. QED  BY <1>1 DEF SfsTyped, S!TypeOK, FileTable, SectorTable, Data, RunningJob, Promises

LEMMA Mounts ==
  ASSUME SfsSound, NEW v \in Volumes, mounted \subseteq {v}, S!initialiseSFS(v)
  PROVE  SfsSound'
<1> USE DEF SfsSound
<1>1. /\ pc = "idle" /\ filetable' = disk[v].files /\ tabletable' = disk[v].table /\ mounted' = {v}
      /\ UNCHANGED <<disk, pathbuffer, pc, job, i, sectoroffsettemp, promised>>
  BY DEF S!initialiseSFS
<1>2. SfsTyped'
  <2>1. disk[v].files \in FileTable /\ disk[v].table \in SectorTable
    BY DEF SfsTyped
  <2>. QED  BY <1>1, <2>1 DEF SfsTyped
<1>3. Kept'
  BY <1>1 DEF Kept, Holds
<1>. QED  BY <1>1, <1>2, <1>3 DEF OneMounted, Ahead, JobRuns, FilesApart

LEMMA LooksUp ==
  ASSUME SfsSound, NEW v, NEW path \in Paths, path # <<>>, S!Lookup(v, path)
  PROVE  SfsSound'
<1>1. /\ pathbuffer' \in Names
      /\ UNCHANGED <<disk, filetable, tabletable, mounted, pc, job, i, sectoroffsettemp, promised>>
  BY DetailIsName DEF S!Lookup
<1>. QED  BY <1>1 DEF SfsSound, SfsTyped, FilesApart, OneMounted, Kept, Holds, Ahead, JobRuns

LEMMA PowerGoes ==
  ASSUME SfsSound, S!PowerLoss
  PROVE  SfsSound'
<1>1. /\ filetable' = S!EmptyFiles /\ tabletable' = S!NoTable /\ pathbuffer' = NoName /\ mounted' = {}
      /\ pc' = "idle" /\ job' = S!NoJob /\ i' = 0 /\ sectoroffsettemp' = 0
      /\ UNCHANGED <<disk, promised>>
  BY DEF S!PowerLoss
<1>2. S!EmptyFiles \in FileTable /\ S!NoTable \in SectorTable /\ 0 \in 0 .. NumSectors
  BY SizesAssumption DEF S!EmptyFiles, S!NoTable, S!Unused, FileTable, SectorTable, S!Ids
<1>3. FilesApart(S!EmptyFiles)
  BY DEF FilesApart, S!EmptyFiles, S!Unused
<1>. QED  BY <1>1, <1>2, <1>3 DEF SfsSound, SfsTyped, FilesApart, OneMounted, Kept, Holds, Ahead, JobRuns

LEMMA Starts ==
  ASSUME S!Init
  PROVE  SfsSound
<1>1. PICK mark \in {0, 1} : disk = [v \in Volumes |-> S!Formatted(mark)]
  BY DEF S!Init
<1>2. /\ filetable = S!EmptyFiles /\ tabletable = S!NoTable /\ pathbuffer = NoName /\ mounted = {}
      /\ pc = "idle" /\ job = S!NoJob /\ i = 0 /\ sectoroffsettemp = 0
      /\ promised = [v \in Volumes |-> [n \in Names |-> <<>>]]
  BY DEF S!Init
<1>3. S!EmptyFiles \in FileTable /\ S!NoTable \in SectorTable /\ 0 \in 0 .. NumSectors
  BY SizesAssumption DEF S!EmptyFiles, S!NoTable, S!Unused, FileTable, SectorTable, S!Ids
<1>4. FilesApart(S!EmptyFiles)
  BY DEF FilesApart, S!EmptyFiles, S!Unused
<1>5. S!Formatted(mark) \in [table : SectorTable, files : FileTable, data : Data] /\ S!Formatted(mark).files = S!EmptyFiles
  <2>1. [s \in S!Sectors |-> IF s \in S!Reserved THEN mark ELSE 0] \in SectorTable
    BY SizesAssumption DEF SectorTable, S!Ids
  <2>2. [s \in S!Sectors |-> Blank] \in Data
    BY DEF Data
  <2>. QED  BY <1>3, <2>1, <2>2 DEF S!Formatted
<1>6. promised \in Promises /\ \A v \in Volumes, n \in Names : promised[v][n] = <<>>
  BY <1>2 DEF Promises
<1>7. SfsTyped
  BY <1>1, <1>2, <1>3, <1>5, <1>6 DEF SfsTyped
<1>. QED  BY <1>1, <1>2, <1>4, <1>5, <1>6, <1>7 DEF SfsSound, OneMounted, Kept, Ahead, JobRuns

(* The name is looked up; a new one gets an entry in memory.               *)
LEMMA WriteBegins ==
  ASSUME SfsSound, NEW v \in Volumes, NEW path \in Paths, path # <<>>, NEW content \in Contents,
         S!WriteBegin(v, path, content)
  PROVE  SfsSound'
<1> DEFINE name == S!sfs_get_detail(path)
           id == IF S!Named(name) = {} THEN S!FreeId ELSE S!IdOf(name)
           fits == S!Fits(name, content)
<1>1. name \in Names /\ name # NoName
  BY DetailIsName, NamesAssumption
<1>2. content \in Seq(Blocks) /\ Len(content) \in Nat
  BY ContentsAssumption
<1>3. /\ pc = "idle" /\ v \in mounted /\ pathbuffer' = name
      /\ job' = [volume |-> v, name |-> name, content |-> content, id |-> id, fits |-> fits]
      /\ promised' = [promised EXCEPT ![v][name] = <<>>]
      /\ UNCHANGED <<disk, mounted, i, sectoroffsettemp>>
  BY Zenon DEF S!WriteBegin
<1>4. \/ S!Named(name) # {} /\ tabletable' = S!Reallocated(id, content) /\ pc' = "table" /\ UNCHANGED filetable
      \/ S!Named(name) = {} /\ filetable' = S!WithNew(name) /\ pc' = "files" /\ UNCHANGED tabletable
  BY Zenon DEF S!WriteBegin
<1>5. filetable \in FileTable /\ tabletable \in SectorTable /\ FilesApart(filetable)
  BY DEF SfsSound, SfsTyped
<1>6. id \in S!Ids \ {0, 1}
  <2>1. S!Named(name) = {} => S!FreeId \in S!Ids \ {0, 1}
    BY <1>5, FreeIdIsFree DEF FileTable, S!Ids
  <2>2. S!Named(name) # {} => S!IdOf(name) \in S!Ids \ {0, 1}
    BY <1>1, <1>5, IdOfNamed
  <2>. QED  BY <2>1, <2>2
<1>7. job' \in RunningJob
  <2>1. fits \in BOOLEAN
    BY Zenon DEF S!Fits
  <2> HIDE DEF name, id, fits
  <2>. QED  BY <1>1, <1>3, <1>6, <2>1, Zenon DEF RunningJob
<1>8. /\ promised' \in Promises /\ promised'[v][name] = <<>>
      /\ \A w \in Volumes, n \in Names : promised'[w][n] # <<>> =>
           promised[w][n] = promised'[w][n] /\ (w = v => n # name)
  <2>1. promised \in Promises
    BY DEF SfsSound, SfsTyped
  <2> HIDE DEF name
  <2>. QED  BY <1>1, <1>3, <2>1 DEF Promises
<1>9. fits => /\ S!Named(name) # {} \/ S!FreeEntries # {}
              /\ S!Named(name) = {} => Cardinality(S!FreeSectors(tabletable)) >= Len(content)
              /\ S!Named(name) # {} => Cardinality(S!FreeSectors(S!Without(tabletable, id))) >= Len(content)
  BY SameCardinality, Zenon DEF S!Fits
<1>10. \A w \in mounted : w = v /\ filetable = disk[w].files /\ tabletable = disk[w].table
  BY <1>3 DEF SfsSound, OneMounted, Ahead
<1>11. CASE /\ S!Named(name) # {} /\ tabletable' = S!Reallocated(id, content) /\ pc' = "table" /\ UNCHANGED filetable
  <2>1. /\ \E e \in S!Entries : filetable[e] = [name |-> name, id |-> id]
        /\ \A e \in S!Entries : filetable[e].id = id => filetable[e].name = name
    BY <1>1, <1>5, <1>11, IdOfNamed, Zenon
  <2>2. /\ S!Reallocated(id, content) \in SectorTable
        /\ \A other : other # 0 /\ other # id =>
             S!SectorsOf(S!Reallocated(id, content), other) = S!SectorsOf(tabletable, other)
        /\ fits => Cardinality(S!SectorsOf(S!Reallocated(id, content), id)) = Len(content)
    BY <1>2, <1>5, <1>6, <1>9, <1>11, Reallocates DEF SectorTable
  <2> HIDE DEF name, id, fits
  <2>3. SfsTyped'
    BY <1>1, <1>3, <1>7, <1>8, <1>11, <2>2 DEF SfsSound, SfsTyped
  <2>4. Kept'
    <3> SUFFICES ASSUME NEW w \in Volumes, NEW n \in Names, promised'[w][n] # <<>>
                 PROVE  /\ Holds(disk'[w].files, disk'[w].table, disk'[w].data, n, promised'[w][n])
                        /\ w \in mounted' => Holds(filetable', tabletable', disk'[w].data, n, promised'[w][n])
      BY DEF Kept
    <3>1. promised[w][n] = promised'[w][n] /\ (w = v => n # name)
      BY <1>8
    <3>2. /\ Holds(disk[w].files, disk[w].table, disk[w].data, n, promised[w][n])
          /\ w \in mounted => Holds(filetable, tabletable, disk[w].data, n, promised[w][n])
      BY <3>1 DEF SfsSound, Kept
    <3>3. ASSUME w \in mounted, NEW e \in S!Entries, filetable[e].name = n
          PROVE  filetable[e].id # 0 /\ filetable[e].id # id
      BY <1>5, <1>10, <2>1, <3>1, <3>3, NamesAssumption DEF FilesApart
    <3>4. ASSUME w \in mounted
          PROVE  Holds(filetable, tabletable', disk[w].data, n, promised[w][n])
      BY <1>11, <2>2, <3>2, <3>3, <3>4, HeldStays
    <3>. QED  BY <1>3, <1>11, <3>1, <3>2, <3>4
  <2>5. JobRuns'
    <3>1. /\ job'.volume = v /\ job'.name = name /\ job'.id = id /\ job'.content = content /\ job'.fits = fits
      BY <1>3
    <3>. QED  BY <1>3, <1>6, <1>8, <1>11, <2>1, <2>2, <3>1 DEF JobRuns
  <2>. QED  BY <1>3, <1>10, <1>11, <2>3, <2>4, <2>5 DEF SfsSound, OneMounted, Ahead, FilesApart
<1>12. CASE S!Named(name) = {} /\ filetable' = S!WithNew(name) /\ pc' = "files" /\ UNCHANGED tabletable
  <2>1. /\ S!WithNew(name) \in FileTable /\ FilesApart(S!WithNew(name))
        /\ \A e \in S!Entries : filetable[e].name # NoName => S!WithNew(name)[e] = filetable[e]
        /\ fits => \E e \in S!Entries : S!WithNew(name)[e] = [name |-> name, id |-> id]
        /\ \A e \in S!Entries : S!WithNew(name)[e].id = id => S!WithNew(name)[e].name = name
    BY <1>1, <1>5, <1>9, <1>12, NewFile, Zenon
  <2>2. fits => Cardinality(S!FreeSectors(tabletable)) >= Len(content)
    BY <1>9, <1>12
  <2> HIDE DEF name, id, fits
  <2>3. SfsTyped'
    BY <1>1, <1>3, <1>7, <1>8, <1>12, <2>1 DEF SfsSound, SfsTyped
  <2>4. Kept'
    <3> SUFFICES ASSUME NEW w \in Volumes, NEW n \in Names, promised'[w][n] # <<>>
                 PROVE  /\ Holds(disk'[w].files, disk'[w].table, disk'[w].data, n, promised'[w][n])
                        /\ w \in mounted' => Holds(filetable', tabletable', disk'[w].data, n, promised'[w][n])
      BY DEF Kept
    <3>1. promised[w][n] = promised'[w][n] /\ n # NoName
      BY <1>8, NamesAssumption
    <3>2. /\ Holds(disk[w].files, disk[w].table, disk[w].data, n, promised[w][n])
          /\ w \in mounted => Holds(filetable, tabletable, disk[w].data, n, promised[w][n])
      BY <3>1 DEF SfsSound, Kept
    <3>3. ASSUME w \in mounted
          PROVE  Holds(filetable', tabletable, disk[w].data, n, promised[w][n])
      BY <1>12, <2>1, <3>1, <3>2, <3>3, HeldStays
    <3>. QED  BY <1>3, <1>12, <3>1, <3>2, <3>3
  <2>5. JobRuns'
    <3>1. /\ job'.volume = v /\ job'.name = name /\ job'.id = id /\ job'.content = content /\ job'.fits = fits
      BY <1>3
    <3>. QED  BY <1>3, <1>6, <1>8, <1>12, <2>1, <2>2, <3>1 DEF JobRuns
  <2>. QED  BY <1>3, <1>10, <1>12, <2>1, <2>3, <2>4, <2>5 DEF SfsSound, OneMounted, Ahead, FilesApart
<1>. QED  BY <1>4, <1>11, <1>12

(* What the steps of a write know of it.                                   *)
LEMMA Underway ==
  ASSUME SfsSound, pc # "idle"
  PROVE  /\ job \in RunningJob /\ job.volume \in Volumes /\ job.volume \in mounted /\ job.name \in Names
         /\ job.content \in Seq(Blocks) \ {<<>>} /\ job.content \in Contents
         /\ job.content[1] \in Blocks /\ Len(job.content) \in Nat
         /\ job.id \in S!Ids \ {0, 1}
         /\ \A w \in mounted : w = job.volume
         /\ promised[job.volume][job.name] = <<>>
         /\ disk[job.volume] \in [table : SectorTable, files : FileTable, data : Data]
         /\ filetable \in FileTable /\ tabletable \in SectorTable
<1>1. job \in RunningJob /\ job.volume \in mounted /\ job.id \notin {0, 1} /\ promised[job.volume][job.name] = <<>>
  BY DEF SfsSound, SfsTyped, JobRuns
<1>2. job.volume \in Volumes /\ job.name \in Names /\ job.content \in Contents /\ job.id \in S!Ids
  BY <1>1 DEF RunningJob
<1>3. job.content \in Seq(Blocks) \ {<<>>}
  BY <1>2, ContentsAssumption
<1>4. Len(job.content) \in Nat /\ Len(job.content) >= 1
  BY <1>3, EmptySeq
<1>5. job.content[1] \in Blocks
  BY <1>3, <1>4, ElementOfSeq
<1>. QED  BY <1>1, <1>2, <1>3, <1>4, <1>5 DEF SfsSound, SfsTyped, OneMounted

(* Sectors of a file other than the one written.                           *)
LEMMA OthersApart ==
  ASSUME SfsSound, pc # "idle", NEW v \in mounted, NEW n \in Names, promised[v][n] # <<>>,
         NEW e \in S!Entries, filetable[e].name = n
  PROVE  filetable[e].id # 0 /\ filetable[e].id # job.id
BY Underway, NamesAssumption DEF SfsSound, FilesApart, JobRuns

(* Sectors are given in memory, once the file table is on the disk.        *)
LEMMA PutsFiles ==
  ASSUME SfsSound, S!PutFiles
  PROVE  SfsSound'
<1> DEFINE v == job.volume
<1>1. /\ pc = "files" /\ pc' = "table" /\ disk' = [disk EXCEPT ![v].files = filetable]
      /\ tabletable' = S!Reallocated(job.id, job.content)
      /\ UNCHANGED <<filetable, pathbuffer, mounted, job, i, sectoroffsettemp, promised>>
  BY DEF S!PutFiles
<1>2. /\ S!Reallocated(job.id, job.content) \in SectorTable
      /\ \A other : other # 0 /\ other # job.id =>
           S!SectorsOf(S!Reallocated(job.id, job.content), other) = S!SectorsOf(tabletable, other)
      /\ job.fits => Cardinality(S!SectorsOf(S!Reallocated(job.id, job.content), job.id)) = Len(job.content)
  <2>1. job.fits => Cardinality(S!FreeSectors(S!Without(tabletable, job.id))) >= Len(job.content)
    <3> DEFINE many == Cardinality(S!FreeSectors(tabletable))
               more == Cardinality(S!FreeSectors(S!Without(tabletable, job.id)))
    <3>1. many \in Nat /\ many <= more
      BY <1>1, Underway, FreedIsMore DEF SectorTable
    <3>2. more \in Nat
      <4>1. S!FreeSectors(S!Without(tabletable, job.id)) \subseteq S!Sectors
        BY SizesAssumption DEF S!FreeSectors, S!Sectors
      <4>. QED  BY <4>1, SectorsAreFinite, FS_Subset, FS_CardinalityType
    <3>3. job.fits => many >= Len(job.content)
      BY <1>1 DEF SfsSound, JobRuns
    <3> HIDE DEF many, more
    <3>4. Len(job.content) \in Nat
      BY <1>1, Underway
    <3>5. job.fits => more >= Len(job.content)
      BY <3>1, <3>2, <3>3, <3>4
    <3>. QED  BY <3>5 DEF more
  <2>. QED  BY <1>1, <2>1, Underway, Reallocates DEF SectorTable
<1>3. /\ v \in Volumes /\ v \in mounted /\ \A w \in mounted : w = v
      /\ disk[v] \in [table : SectorTable, files : FileTable, data : Data] /\ filetable \in FileTable
  BY <1>1, Underway
<1>4. /\ disk' \in [Volumes -> [table : SectorTable, files : FileTable, data : Data]]
      /\ disk'[v].files = filetable /\ disk'[v].table = disk[v].table /\ disk'[v].data = disk[v].data
      /\ \A w \in Volumes : w # v => disk'[w] = disk[w]
  <2> HIDE DEF v
  <2>. QED  BY <1>1, <1>3 DEF SfsSound, SfsTyped
<1>5. disk[v].table = tabletable
  BY <1>1, <1>3 DEF SfsSound, Ahead
<1> HIDE DEF v
<1>6. SfsTyped'
  BY <1>1, <1>2, <1>4 DEF SfsSound, SfsTyped
<1>7. Kept'
  <2> SUFFICES ASSUME NEW w \in Volumes, NEW n \in Names, promised[w][n] # <<>>
               PROVE  /\ Holds(disk'[w].files, disk'[w].table, disk'[w].data, n, promised[w][n])
                      /\ w \in mounted => Holds(filetable, tabletable', disk'[w].data, n, promised[w][n])
    BY <1>1 DEF Kept
  <2>1. /\ Holds(disk[w].files, disk[w].table, disk[w].data, n, promised[w][n])
        /\ w \in mounted => Holds(filetable, tabletable, disk[w].data, n, promised[w][n])
    BY DEF SfsSound, Kept
  <2>2. CASE w = v
    <3>1. w \in mounted
      BY <1>3, <2>2
    <3>2. \A e \in S!Entries : filetable[e].name = n => filetable[e].id # 0 /\ filetable[e].id # job.id
      BY <1>1, <3>1, OthersApart
    <3>3. Holds(filetable, tabletable', disk[w].data, n, promised[w][n])
      BY <1>1, <1>2, <2>1, <3>1, <3>2, HeldStays
    <3>. QED  BY <1>4, <1>5, <2>1, <2>2, <3>1, <3>3
  <2>3. CASE w # v
    BY <1>3, <1>4, <2>1, <2>3
  <2>. QED  BY <2>2, <2>3
<1>8. JobRuns'
  BY <1>1, <1>2 DEF SfsSound, JobRuns
<1>. QED  BY <1>1, <1>3, <1>4, <1>6, <1>7, <1>8 DEF SfsSound, OneMounted, Ahead, FilesApart

LEMMA PutsTable ==
  ASSUME SfsSound, S!PutTable
  PROVE  SfsSound'
<1> DEFINE v == job.volume
<1>1. /\ pc = "table" /\ pc' = "data" /\ disk' = [disk EXCEPT ![v].table = tabletable]
      /\ i' = 0 /\ sectoroffsettemp' = 0
      /\ UNCHANGED <<filetable, tabletable, pathbuffer, mounted, job, promised>>
  BY DEF S!PutTable
<1>2. /\ v \in Volumes /\ v \in mounted /\ \A w \in mounted : w = v
      /\ disk[v] \in [table : SectorTable, files : FileTable, data : Data] /\ tabletable \in SectorTable
  BY <1>1, Underway
<1>3. /\ disk' \in [Volumes -> [table : SectorTable, files : FileTable, data : Data]]
      /\ disk'[v].table = tabletable /\ disk'[v].files = disk[v].files /\ disk'[v].data = disk[v].data
      /\ \A w \in Volumes : w # v => disk'[w] = disk[w]
  <2> HIDE DEF v
  <2>. QED  BY <1>1, <1>2 DEF SfsSound, SfsTyped
<1>4. disk[v].files = filetable
  BY <1>1, <1>2 DEF SfsSound, Ahead
<1> HIDE DEF v
<1>5. SfsTyped'
  BY <1>1, <1>3, SizesAssumption DEF SfsSound, SfsTyped
<1>6. Kept'
  <2> SUFFICES ASSUME NEW w \in Volumes, NEW n \in Names, promised[w][n] # <<>>
               PROVE  /\ Holds(disk'[w].files, disk'[w].table, disk'[w].data, n, promised[w][n])
                      /\ w \in mounted => Holds(filetable, tabletable, disk'[w].data, n, promised[w][n])
    BY <1>1 DEF Kept
  <2>1. /\ Holds(disk[w].files, disk[w].table, disk[w].data, n, promised[w][n])
        /\ w \in mounted => Holds(filetable, tabletable, disk[w].data, n, promised[w][n])
    BY DEF SfsSound, Kept
  <2>. QED  BY <1>2, <1>3, <1>4, <2>1
<1>7. JobRuns'
  <2>1. \A s \in S!SectorsOf(tabletable, job.id) : ~(s < 0)
    BY SectorsAreFinite DEF S!SectorsOf
  <2>. QED  BY <1>1, <2>1 DEF SfsSound, JobRuns
<1>. QED  BY <1>1, <1>2, <1>3, <1>4, <1>5, <1>6, <1>7 DEF SfsSound, OneMounted, Ahead, FilesApart

(* A sector of the file gets the first block: the offset stays 0.          *)
LEMMA PutsData ==
  ASSUME SfsSound, S!PutData
  PROVE  SfsSound'
<1> DEFINE v == job.volume
<1>1. sectoroffsettemp = 0 /\ 1 + 0 \div 512 = 1 /\ (0 + 512) % 256 = 0
  BY DEF SfsSound, SfsTyped
<1>2. /\ pc = "data" /\ i < NumSectors /\ tabletable[i] = job.id
      /\ disk' = [disk EXCEPT ![v].data[i] = job.content[1]]
      /\ sectoroffsettemp' = 0 /\ i' = i + 1
      /\ UNCHANGED <<filetable, tabletable, pathbuffer, mounted, pc, job, promised>>
  BY <1>1 DEF S!PutData
<1>3. i \in S!Sectors /\ i' \in 0 .. NumSectors
  BY <1>2, SizesAssumption DEF SfsSound, SfsTyped, S!Sectors
<1>4. /\ v \in Volumes /\ v \in mounted /\ \A w \in mounted : w = v /\ job.content[1] \in Blocks
      /\ disk[v] \in [table : SectorTable, files : FileTable, data : Data]
  BY <1>2, Underway
<1>5. /\ disk' \in [Volumes -> [table : SectorTable, files : FileTable, data : Data]]
      /\ disk'[v].table = disk[v].table /\ disk'[v].files = disk[v].files
      /\ disk'[v].data = [disk[v].data EXCEPT ![i] = job.content[1]]
      /\ \A w \in Volumes : w # v => disk'[w] = disk[w]
  <2> DEFINE new == [disk[v].data EXCEPT ![i] = job.content[1]]
  <2>1. new \in Data
    BY <1>4 DEF Data
  <2>2. disk' = [disk EXCEPT ![v] = [disk[v] EXCEPT !.data = new]]
    BY <1>2
  <2> HIDE DEF v, new
  <2>3. [disk[v] EXCEPT !.data = new] \in [table : SectorTable, files : FileTable, data : Data]
    BY <1>4, <2>1
  <2>4. [disk[v] EXCEPT !.data = new].data = new /\ [disk[v] EXCEPT !.data = new].table = disk[v].table
        /\ [disk[v] EXCEPT !.data = new].files = disk[v].files
    BY <1>4
  <2>5. disk \in [Volumes -> [table : SectorTable, files : FileTable, data : Data]]
    BY DEF SfsSound, SfsTyped
  <2>. QED  BY <1>4, <2>2, <2>3, <2>4, <2>5 DEF new
<1>6. disk[v].files = filetable /\ disk[v].table = tabletable
  BY <1>2, <1>4 DEF SfsSound, Ahead
<1>7. \A s \in S!Sectors : disk'[v].data[s] = IF s = i THEN job.content[1] ELSE disk[v].data[s]
  BY <1>3, <1>4, <1>5 DEF Data
<1> HIDE DEF v
<1>8. SfsTyped'
  BY <1>2, <1>3, <1>5 DEF SfsSound, SfsTyped
<1>9. Kept'
  <2> SUFFICES ASSUME NEW w \in Volumes, NEW n \in Names, promised[w][n] # <<>>
               PROVE  /\ Holds(disk'[w].files, disk'[w].table, disk'[w].data, n, promised[w][n])
                      /\ w \in mounted => Holds(filetable, tabletable, disk'[w].data, n, promised[w][n])
    BY <1>2 DEF Kept
  <2>1. /\ Holds(disk[w].files, disk[w].table, disk[w].data, n, promised[w][n])
        /\ w \in mounted => Holds(filetable, tabletable, disk[w].data, n, promised[w][n])
    BY DEF SfsSound, Kept
  <2>2. CASE w = v
    <3>1. w \in mounted
      BY <1>4, <2>2
    <3>2. ASSUME NEW e \in S!Entries, filetable[e].name = n
          PROVE  \A s \in S!SectorsOf(tabletable, filetable[e].id) : disk'[w].data[s] = disk[w].data[s]
      <4>1. filetable[e].id # job.id
        BY <1>2, <3>1, <3>2, OthersApart
      <4>. QED  BY <1>2, <1>7, <2>2, <4>1 DEF S!SectorsOf
    <3>3. Holds(filetable, tabletable, disk'[w].data, n, promised[w][n])
      BY <2>1, <3>1, <3>2, HeldStays
    <3>. QED  BY <1>5, <1>6, <2>2, <3>3
  <2>3. CASE w # v
    BY <1>4, <1>5, <2>1, <2>3
  <2>. QED  BY <2>2, <2>3
<1>10. JobRuns'
  <2>1. \A s \in S!SectorsOf(tabletable, job.id) : s < i => disk[v].data[s] = job.content[1]
    BY <1>2 DEF SfsSound, JobRuns, v
  <2>2. \A s \in S!SectorsOf(tabletable, job.id) : s \in S!Sectors /\ (s < i + 1 => s < i \/ s = i)
    <3>1. \A s \in S!Sectors : s \in Nat
      BY SectorsAreFinite
    <3>. QED  BY <1>3, <3>1 DEF S!SectorsOf
  <2>3. \A s \in S!SectorsOf(tabletable, job.id) : s < i' => disk'[v].data[s] = job.content[1]
    BY <1>2, <1>7, <2>1, <2>2
  <2>. QED  BY <1>2, <2>3 DEF SfsSound, JobRuns, v
<1>. QED  BY <1>2, <1>4, <1>5, <1>6, <1>8, <1>9, <1>10 DEF SfsSound, OneMounted, Ahead, FilesApart

LEMMA SkipsSector ==
  ASSUME SfsSound, S!SkipSector
  PROVE  SfsSound'
<1>1. /\ pc = "data" /\ i < NumSectors /\ tabletable[i] # job.id /\ i' = i + 1
      /\ UNCHANGED <<disk, filetable, tabletable, pathbuffer, mounted, pc, job, sectoroffsettemp, promised>>
  BY DEF S!SkipSector
<1>2. i \in S!Sectors /\ i' \in 0 .. NumSectors
  BY <1>1, SizesAssumption DEF SfsSound, SfsTyped, S!Sectors
<1>3. SfsTyped'
  BY <1>1, <1>2 DEF SfsSound, SfsTyped
<1>4. JobRuns'
  <2>1. \A s \in S!SectorsOf(tabletable, job.id) : s # i /\ (s < i + 1 => s < i \/ s = i)
    <3>1. \A s \in S!Sectors : s \in Nat
      BY SectorsAreFinite
    <3>. QED  BY <1>1, <1>2, <3>1 DEF S!SectorsOf
  <2>. QED  BY <1>1, <2>1 DEF SfsSound, JobRuns
<1>. QED  BY <1>1, <1>3, <1>4 DEF SfsSound, FilesApart, OneMounted, Kept, Holds, Ahead

(* The content is promised when all of it fitted.                          *)
LEMMA Returns ==
  ASSUME SfsSound, S!WriteReturn
  PROVE  SfsSound'
<1> DEFINE v == job.volume
           n == job.name
           c == IF job.fits THEN job.content ELSE <<>>
<1>1. /\ pc = "data" /\ i = NumSectors /\ promised' = [promised EXCEPT ![v][n] = c]
      /\ pc' = "idle" /\ job' = S!NoJob /\ i' = 0 /\ sectoroffsettemp' = 0
      /\ UNCHANGED <<disk, filetable, tabletable, pathbuffer, mounted>>
  BY DEF S!WriteReturn
<1>2. /\ v \in Volumes /\ n \in Names /\ v \in mounted /\ \A w \in mounted : w = v
      /\ c \in Contents \union {<<>>}
  BY <1>1, Underway
<1>3. disk[v].files = filetable /\ disk[v].table = tabletable
  BY <1>1, <1>2 DEF SfsSound, Ahead
<1>4. c # <<>> => Holds(filetable, tabletable, disk[v].data, n, c)
  <2> SUFFICES ASSUME c # <<>>
               PROVE  Holds(filetable, tabletable, disk[v].data, n, c)
    OBVIOUS
  <2>1. job.fits /\ c = job.content
    OBVIOUS
  <2>2. PICK e \in S!Entries : filetable[e] = [name |-> n, id |-> job.id]
    BY <1>1, <2>1 DEF SfsSound, JobRuns
  <2>3. Cardinality(S!SectorsOf(tabletable, job.id)) = Len(c)
    BY <1>1, <2>1 DEF SfsSound, JobRuns
  <2>4. \A s \in S!SectorsOf(tabletable, job.id) : s < NumSectors
    BY SizesAssumption DEF S!SectorsOf, S!Sectors
  <2>5. \A s \in S!SectorsOf(tabletable, job.id) : disk[v].data[s] = c[1]
    BY <1>1, <2>1, <2>4 DEF SfsSound, JobRuns
  <2>. QED  BY <2>2, <2>3, <2>5 DEF Holds
<1> HIDE DEF v, n, c
<1>5. /\ promised' \in Promises /\ promised'[v][n] = c
      /\ \A w \in Volumes, m \in Names : w # v \/ m # n => promised'[w][m] = promised[w][m]
  BY <1>1, <1>2 DEF SfsSound, SfsTyped, Promises
<1>6. SfsTyped'
  BY <1>1, <1>5, SizesAssumption DEF SfsSound, SfsTyped
<1>7. Kept'
  <2> SUFFICES ASSUME NEW w \in Volumes, NEW m \in Names, promised'[w][m] # <<>>
               PROVE  /\ Holds(disk[w].files, disk[w].table, disk[w].data, m, promised'[w][m])
                      /\ w \in mounted => Holds(filetable, tabletable, disk[w].data, m, promised'[w][m])
    BY <1>1 DEF Kept
  <2>1. CASE w = v /\ m = n
    BY <1>3, <1>4, <1>5, <2>1
  <2>2. CASE w # v \/ m # n
    BY <1>5, <2>2 DEF SfsSound, Kept
  <2>. QED  BY <2>1, <2>2
<1>. QED  BY <1>1, <1>2, <1>3, <1>6, <1>7 DEF SfsSound, FilesApart, OneMounted, Ahead, JobRuns

-----------------------------------------------------------------------------
(* Of a file that is held, a read gives the length and the first block.    *)
LEMMA HeldIsRead ==
  ASSUME SfsSound, NEW v \in mounted, NEW n \in Names, NEW content \in Contents,
         Holds(filetable, tabletable, disk[v].data, n, content)
  PROVE  Len(S!sfs_read(v, n)) = Len(content) /\ S!sfs_read(v, n)[1] = content[1]
<1>1. PICK e \in S!Entries :
        /\ filetable[e].name = n
        /\ Cardinality(S!SectorsOf(tabletable, filetable[e].id)) = Len(content)
        /\ \A s \in S!SectorsOf(tabletable, filetable[e].id) : disk[v].data[s] = content[1]
  BY DEF Holds
<1>2. S!Named(n) # {} /\ S!IdOf(n) = filetable[e].id
  <2>1. S!Named(n) # {}
    BY <1>1 DEF S!Named
  <2>2. filetable \in FileTable /\ FilesApart(filetable)
    BY DEF SfsSound, SfsTyped
  <2>. QED  BY <1>1, <2>1, <2>2, IdOfNamed
<1> DEFINE T == S!SectorsOf(tabletable, S!IdOf(n))
           m == Len(content)
           nth == S!NthSector(tabletable, S!IdOf(n), 1)
<1>3. Cardinality(T) = m /\ \A s \in T : disk[v].data[s] = content[1]
  BY <1>1, <1>2
<1>4. m \in Nat /\ m >= 1
  BY ContentsAssumption, EmptySeq
<1>5. S!sfs_read(v, n) = [k \in 1 .. m |-> disk[v].data[S!NthSector(tabletable, S!IdOf(n), k)]]
  BY <1>2, <1>3, SameCardinality, Zenon DEF S!sfs_read, S!FileContent
<1>6. nth \in T
  <2>1. T \subseteq Nat /\ IsFiniteSet(T)
    <3>1. T \subseteq S!Sectors
      BY DEF S!SectorsOf
    <3>. QED  BY <3>1, SectorsAreFinite, FS_Subset
  <2>2. 0 \in 0 .. Cardinality(T) - 1
    BY <1>3, <1>4
  <2>3. PICK s \in T : Rank(T, s) = 0
    BY <2>1, <2>2, RankBijection
  <2>4. nth = CHOOSE t \in T : S!Cardinality({r \in T : r < t}) = 1 - 1
    BY Zenon DEF S!NthSector
  <2>5. S!Cardinality({r \in T : r < s}) = 1 - 1
    BY <2>3, SameCardinality DEF Rank
  <2> HIDE DEF T, nth
  <2>. QED  BY <2>4, <2>5, Zenon
<1>7. disk[v].data[nth] = content[1]
  BY <1>3, <1>6
<1> HIDE DEF T, m
<1>8. Len(S!sfs_read(v, n)) = m
  BY <1>4, <1>5
<1>9. S!sfs_read(v, n)[1] = disk[v].data[nth]
  BY <1>4, <1>5
<1>. QED  BY <1>7, <1>8, <1>9 DEF m

LEMMA SfsSoundSuffices ==
  ASSUME SfsSound
  PROVE  ReadBack /\ MemoryMatchesDisk
<1>1. ASSUME NEW v \in mounted, NEW n \in Names, promised[v][n] # <<>>
      PROVE  Len(S!sfs_read(v, n)) = Len(promised[v][n]) /\ S!sfs_read(v, n)[1] = promised[v][n][1]
  <2>1. v \in Volumes /\ promised[v][n] \in Contents
    BY <1>1 DEF SfsSound, SfsTyped, Promises
  <2>2. Holds(filetable, tabletable, disk[v].data, n, promised[v][n])
    BY <1>1, <2>1 DEF SfsSound, Kept
  <2>. QED  BY <2>1, <2>2, HeldIsRead
<1>2. ReadBack
  BY <1>1, Zenon DEF ReadBack, S!ReadBack
<1>3. MemoryMatchesDisk
  BY DEF MemoryMatchesDisk, S!MemoryMatchesDisk, SfsSound, Ahead
<1>. QED  BY <1>2, <1>3

-----------------------------------------------------------------------------
(* What is mounted are SFS partitions of this machine.                     *)
MountedAreOurs ==
  /\ machine \in Machines /\ drive \in Nat \ {0} /\ entry \in Nat \ {0}
  /\ mounted \subseteq SfsVolumes(machine)

LEMMA SfsStarts ==
  ASSUME DevInit
  PROVE  SfsSound /\ MountedAreOurs
BY Starts DEF DevInit, MountedAreOurs, S!Init

LEMMA PartitionIsOurs ==
  ASSUME MountedAreOurs, Probing, entry <= Len(Partitions(machine[drive])),
         Partitions(machine[drive])[entry].type = "sfs"
  PROVE  Partitions(machine[drive])[entry].volume \in SfsVolumes(machine)
<1> DEFINE parts == Partitions(machine[drive])
<1>1. machine \in Seq(Range(machine)) /\ machine \in Machines
  BY MachinesAssumption DEF MountedAreOurs
<1>2. drive \in DOMAIN machine
  BY <1>1 DEF MountedAreOurs, Probing
<1>3. parts \in Seq(Range(parts))
  BY <1>1, <1>2, MachinesAssumption
<1> HIDE DEF parts
<1>4. entry \in DOMAIN parts
  BY <1>3 DEF MountedAreOurs, parts
<1>. QED  BY <1>2, <1>4 DEF SfsVolumes, parts

LEMMA SfsStep ==
  ASSUME OneSfsVolume, NamedPaths, SfsSound, MountedAreOurs, [DevNext]_vars
  PROVE  SfsSound' /\ MountedAreOurs'
<1>1. ASSUME UNCHANGED sfs
      PROVE  SfsSound' /\ mounted' = mounted
  BY <1>1 DEF sfs, SfsSound, SfsTyped, FilesApart, OneMounted, Kept, Holds, Ahead, JobRuns
<1>2. CASE Detect
  <2> DEFINE p == Partitions(machine[drive])[entry]
  <2>1. /\ Probing /\ entry <= Len(Partitions(machine[drive]))
        /\ entry' = entry + 1 /\ UNCHANGED <<machine, drive>>
        /\ (p.type = "sfs" /\ S!initialiseSFS(p.volume)) \/ UNCHANGED sfs
    BY <1>2, Zenon DEF Detect
  <2>2. CASE p.type = "sfs" /\ S!initialiseSFS(p.volume)
    <3>1. p.volume \in SfsVolumes(machine)
      BY <2>1, <2>2, PartitionIsOurs
    <3>2. p.volume \in Volumes /\ mounted \subseteq {p.volume}
      BY <3>1, MachinesAssumption DEF MountedAreOurs, OneSfsVolume
    <3>3. mounted' = mounted \union {p.volume}
      BY <2>2 DEF S!initialiseSFS
    <3> HIDE DEF p
    <3>4. SfsSound'
      BY <2>2, <3>2, Mounts
    <3>. QED  BY <2>1, <3>1, <3>3, <3>4 DEF MountedAreOurs
  <2>3. CASE UNCHANGED sfs
    BY <1>1, <2>1, <2>3 DEF MountedAreOurs
  <2>. QED  BY <2>1, <2>2, <2>3
<1>3. CASE NextDrive
  BY <1>1, <1>3 DEF NextDrive, MountedAreOurs
<1>4. CASE Writing
  <2>1. UNCHANGED table /\ (S!sfs_write \/ UNCHANGED sfs)
    BY <1>4 DEF Writing
  <2>2. S!sfs_write => SfsSound' /\ mounted' = mounted
    <3>1. S!sfs_write => mounted' = mounted
      BY DEF S!sfs_write, S!PutFiles, S!PutTable, S!PutData, S!SkipSector, S!WriteReturn
    <3>. QED  BY <3>1, PutsFiles, PutsTable, PutsData, SkipsSector, Returns DEF S!sfs_write
  <2>. QED  BY <1>1, <2>1, <2>2 DEF table, MountedAreOurs
<1>5. CASE PowerLoss
  <2>1. S!PowerLoss /\ UNCHANGED machine /\ drive' = 1 /\ entry' = 1
    BY <1>5 DEF PowerLoss
  <2>2. mounted' = {}
    BY <2>1 DEF S!PowerLoss
  <2>. QED  BY <2>1, <2>2, PowerGoes DEF MountedAreOurs
<1>6. ASSUME NEW z \in DOMAIN devices, fwrite(z) \/ fread(z)
      PROVE  SfsSound' /\ MountedAreOurs'
  <2>1. /\ UNCHANGED table
        /\ \/ \E path \in Paths, content \in Contents : S!WriteBegin(devices[z].volume, path, content)
           \/ \E path \in Paths : S!Lookup(devices[z].volume, path)
           \/ UNCHANGED sfs
    BY <1>6, Zenon DEF fwrite, fread
  <2>2. \A path \in Paths : path # <<>>
    BY DEF NamedPaths
  <2>3. ASSUME NEW path \in Paths, NEW content \in Contents, S!WriteBegin(devices[z].volume, path, content)
        PROVE  SfsSound' /\ mounted' = mounted
    <3>1. devices[z].volume \in Volumes /\ mounted' = mounted
      BY <2>3 DEF S!WriteBegin, SfsSound, SfsTyped
    <3>. QED  BY <2>2, <2>3, <3>1, WriteBegins
  <2>4. ASSUME NEW path \in Paths, S!Lookup(devices[z].volume, path)
        PROVE  SfsSound' /\ mounted' = mounted
    <3>1. mounted' = mounted
      BY <2>4 DEF S!Lookup
    <3>. QED  BY <2>2, <2>4, <3>1, LooksUp
  <2>5. SfsSound' /\ mounted' = mounted
    BY <1>1, <2>1, <2>3, <2>4
  <2>. QED  BY <2>1, <2>5 DEF table, MountedAreOurs
<1>7. CASE UNCHANGED vars
  BY <1>1, <1>7 DEF vars, table, MountedAreOurs
<1>. QED  BY <1>2, <1>3, <1>4, <1>5, <1>6, <1>7 DEF DevNext

-----------------------------------------------------------------------------
(* FAT.  Where the directory says a path is; Root for the empty path.      *)
Entry == [name : DOMAIN Begins, isDir : BOOLEAN, start : 0 .. DataSectors, size : Nat]
EntryAt(path) == F!First(F!Matching(Directory, path[1]))
StartOf(path) ==
  IF path = <<>> THEN F!Root
  ELSE IF F!Matching(Directory, path[1]) = {} \/ Len(path) > 1 \/ Directory[EntryAt(path)].start = 0 THEN F!NotFound
  ELSE Directory[EntryAt(path)].start
IsDir(path) == Directory[EntryAt(path)].isDir

(* The entries of a root are those of the directory, but for sizes.        *)
SameEntries(root) ==
  /\ Len(root) = Len(Directory)
  /\ \A e \in 1 .. Len(Directory) :
       /\ root[e].name = Directory[e].name
       /\ root[e].isDir = Directory[e].isDir
       /\ root[e].start = Directory[e].start

FatTyped ==
  /\ fatDisk \in [FatVolumes -> [root : Seq(Entry), data : [1 .. DataSectors -> Blocks \union {Blank}]]]
  /\ fatMounted \subseteq FatVolumes
  /\ fatPc \in {"idle", "size", "data"}
  /\ kept \in [FatVolumes -> [FatPaths -> Seq(Blocks)]]
  /\ DOMAIN old = FatVolumes

(* A root keeps its entries until a file is put over it.                   *)
RootStays == \A v \in FatVolumes : fatDisk[v].root = <<>> \/ SameEntries(fatDisk[v].root)

(* What must be there is there.                                            *)
FilesKept ==
  \A v \in FatVolumes, p \in FatPaths :
    kept[v][p] # <<>> =>
      /\ fatDisk[v].root # <<>> /\ StartOf(p) \in 1 .. DataSectors
      /\ fatDisk[v].data[StartOf(p)] = kept[v][p][1]
      /\ fatDisk[v].root[EntryAt(p)].size = Len(kept[v][p]) \/ IsDir(p)

FatJobs ==
  [volume : FatVolumes, path : FatPaths, start : 0 .. DataSectors, content : FatContents, next : Nat \ {0}]

(* A write touches no file that is kept, and finds its own by the entry    *)
(* looked at last.                                                         *)
FatJobRuns ==
  fatPc # "idle" =>
    /\ fatJob \in FatJobs
    /\ fatPc = "size" => fatJob.next = 1
    /\ fatJob.start = F!Root => \A p \in FatPaths : kept[fatJob.volume][p] = <<>>
    /\ fatJob.start # F!Root =>
         /\ fatDisk[fatJob.volume].root # <<>>
         /\ fatJob.start \in 1 .. DataSectors /\ StartOf(fatJob.path) = fatJob.start
         /\ \A p \in FatPaths :
              kept[fatJob.volume][p] # <<>> => StartOf(p) \notin fatJob.start .. fatJob.start + Len(fatJob.content) - 1
         /\ lastIndex = EntryAt(fatJob.path)
         /\ lastDir = IF IsDir(fatJob.path) THEN fatJob.start ELSE F!Root
         /\ fatJob.next > 1 => fatDisk[fatJob.volume].data[fatJob.start] = fatJob.content[1]

(* The size goes before the data.                                          *)
SizeGoesFirst ==
  /\ fatPc = "idle" => SizeBeforeData
  /\ fatPc # "idle" /\ fatJob.start # F!Root =>
       /\ fatPc = "size" => F!fat_read(fatJob.volume, fatJob.path) = old[fatJob.volume]
       /\ fatPc = "data" => \/ fatDisk[fatJob.volume].root[EntryAt(fatJob.path)].size = Len(fatJob.content)
                            \/ IsDir(fatJob.path)

FatSound == FatTyped /\ RootStays /\ FilesKept /\ FatJobRuns /\ SizeGoesFirst

-----------------------------------------------------------------------------
(* Searching a root.                                                       *)
LEMMA FirstIsIn ==
  ASSUME NEW T, T \subseteq Nat, T # {}
  PROVE  F!First(T) \in T
<1>1. \E d \in T : \A e \in T : d <= e
  BY LeastElement
<1>. QED  BY <1>1, Zenon DEF F!First

(* Where a file is that the directory has.                                 *)
LEMMA FileIsEntry ==
  ASSUME NEW path, StartOf(path) \in 1 .. DataSectors
  PROVE  /\ path # <<>> /\ F!Matching(Directory, path[1]) # {} /\ ~(Len(path) > 1)
         /\ EntryAt(path) \in 1 .. Len(Directory)
         /\ Directory[EntryAt(path)].start = StartOf(path)
<1>1. path # <<>> /\ F!Matching(Directory, path[1]) # {} /\ ~(Len(path) > 1)
      /\ Directory[EntryAt(path)].start = StartOf(path)
  <2>1. F!NotFound \notin 1 .. DataSectors /\ F!Root \notin 1 .. DataSectors
    BY FatAssumption DEF F!NotFound, F!Root
  <2>. QED  BY <2>1, Zenon DEF StartOf
<1>2. F!Matching(Directory, path[1]) \subseteq Nat
  BY DEF F!Matching
<1>3. EntryAt(path) \in F!Matching(Directory, path[1])
  BY <1>1, <1>2, FirstIsIn DEF EntryAt
<1>. QED  BY <1>1, <1>3 DEF F!Matching

LEMMA StartRange ==
  ASSUME NEW path
  PROVE  StartOf(path) \in {F!Root, F!NotFound} \union 1 .. DataSectors
<1>1. CASE path # <<>> /\ F!Matching(Directory, path[1]) # {} /\ Directory[EntryAt(path)].start # 0
  <2>1. F!Matching(Directory, path[1]) \subseteq Nat
    BY DEF F!Matching
  <2>2. EntryAt(path) \in F!Matching(Directory, path[1])
    BY <1>1, <2>1, FirstIsIn DEF EntryAt
  <2>3. EntryAt(path) \in 1 .. Len(Directory)
    BY <2>2 DEF F!Matching
  <2>4. Directory[EntryAt(path)] \in Entry
    BY <2>3, FatAssumption, ElementOfSeq, Zenon DEF Entry
  <2>5. Directory[EntryAt(path)].start \in 0 .. DataSectors
    BY <2>4, Zenon DEF Entry
  <2>6. Directory[EntryAt(path)].start \in 1 .. DataSectors
    BY <1>1, <2>5
  <2>. QED  BY <2>6, Zenon DEF StartOf
<1>2. CASE ~(path # <<>> /\ F!Matching(Directory, path[1]) # {} /\ Directory[EntryAt(path)].start # 0)
  BY <1>2, Zenon DEF StartOf
<1>. QED  BY <1>1, <1>2

(* While the root keeps its entries, the driver finds what it says.        *)
LEMMA SearchFinds ==
  ASSUME RootStays, NEW v \in FatVolumes, NEW path
  PROVE  /\ fatDisk[v].root # <<>> =>
              /\ F!SectorOf(v, path) = StartOf(path)
              /\ F!Matching(fatDisk[v].root, path[1]) = F!Matching(Directory, path[1])
         /\ fatDisk[v].root = <<>> => F!SectorOf(v, path) \in {F!Root, F!NotFound}
<1> DEFINE root == fatDisk[v].root
<1>1. ASSUME root # <<>>
      PROVE  /\ F!SectorOf(v, path) = StartOf(path)
             /\ F!Matching(fatDisk[v].root, path[1]) = F!Matching(Directory, path[1])
  <2>1. SameEntries(root)
    BY <1>1 DEF RootStays
  <2>2. F!Matching(root, path[1]) = F!Matching(Directory, path[1])
    BY <2>1 DEF SameEntries, F!Matching
  <2>3. F!Matching(Directory, path[1]) # {} => root[EntryAt(path)].start = Directory[EntryAt(path)].start
    <3>1. F!Matching(Directory, path[1]) \subseteq Nat
      BY DEF F!Matching
    <3>2. F!Matching(Directory, path[1]) # {} => EntryAt(path) \in F!Matching(Directory, path[1])
      BY <3>1, FirstIsIn DEF EntryAt
    <3>3. F!Matching(Directory, path[1]) # {} => EntryAt(path) \in 1 .. Len(Directory)
      BY <3>2 DEF F!Matching
    <3>. QED  BY <2>1, <3>3 DEF SameEntries
  <2>. QED  BY <2>2, <2>3, Zenon DEF F!SectorOf, StartOf, EntryAt
<1>2. ASSUME root = <<>>
      PROVE  F!SectorOf(v, path) \in {F!Root, F!NotFound}
  <2>1. F!Matching(root, path[1]) = {}
    BY <1>2 DEF F!Matching
  <2>. QED  BY <2>1, Zenon DEF F!SectorOf
<1>. QED  BY <1>1, <1>2

(* A kept file is read as it is, and has its size.                         *)
LEMMA FileIsRead ==
  ASSUME FatTyped, RootStays, NEW v \in FatVolumes, NEW path,
         fatDisk[v].root # <<>>, StartOf(path) \in 1 .. DataSectors
  PROVE  /\ F!fat_read(v, path) = <<fatDisk[v].data[StartOf(path)]>>
         /\ F!SizeOf(v, path) = fatDisk[v].root[EntryAt(path)].size
         /\ F!IsDirectory(v, path) = IsDir(path)
<1>1. /\ F!SectorOf(v, path) = StartOf(path)
      /\ F!Matching(fatDisk[v].root, path[1]) = F!Matching(Directory, path[1])
  BY SearchFinds
<1>2. F!NotFound \notin 1 .. DataSectors /\ F!Root \notin 1 .. DataSectors
  BY FatAssumption DEF F!NotFound, F!Root
<1>3. F!fat_read(v, path) = <<fatDisk[v].data[StartOf(path)]>>
  BY <1>1, <1>2, Zenon DEF F!fat_read, F!FirstContent
<1>4. F!EntryOf(v, path) = fatDisk[v].root[EntryAt(path)]
  BY <1>1, Zenon DEF F!EntryOf, EntryAt
<1>5. fatDisk[v].root[EntryAt(path)].isDir = IsDir(path)
  BY FileIsEntry DEF RootStays, SameEntries, IsDir
<1>. QED  BY <1>3, <1>4, <1>5, Zenon DEF F!SizeOf, F!IsDirectory

(* A root with another size is one with the same entries.                  *)
LEMMA ResizedRoot ==
  ASSUME NEW root \in Seq(Entry), NEW k \in DOMAIN root, NEW n \in Nat
  PROVE  LET new == [root EXCEPT ![k].size = n] IN
         /\ new \in Seq(Entry)
         /\ root # <<>> => new # <<>>
         /\ SameEntries(root) => SameEntries(new)
         /\ new[k].size = n
         /\ \A e \in 1 .. Len(root) : e # k => new[e] = root[e]
<1> DEFINE resized == [root[k] EXCEPT !.size = n]
           new == [root EXCEPT ![k].size = n]
<1>1. root[k] \in Entry /\ Len(root) \in Nat /\ DOMAIN root = 1 .. Len(root)
  BY ElementOfSeq
<1>2. /\ resized \in Entry /\ resized.size = n
      /\ resized.name = root[k].name /\ resized.isDir = root[k].isDir /\ resized.start = root[k].start
  <2>1. resized \in Entry
    BY <1>1, Zenon DEF Entry
  <2>. QED  BY <1>1, <2>1 DEF Entry
<1>3. new = [root EXCEPT ![k] = resized]
  BY Zenon
<1> HIDE DEF resized
<1>4. new \in Seq(Entry) /\ Len(new) = Len(root)
  BY <1>1, <1>2, <1>3
<1>5. new[k] = resized /\ \A e \in 1 .. Len(root) : e # k => new[e] = root[e]
  BY <1>1, <1>3
<1> HIDE DEF new
<1>6. root # <<>> => new # <<>>
  BY <1>4, EmptySeq
<1>7. SameEntries(root) => SameEntries(new)
  BY <1>1, <1>2, <1>4, <1>5 DEF SameEntries
<1>. QED  BY <1>2, <1>4, <1>5, <1>6, <1>7 DEF new

-----------------------------------------------------------------------------
(* The steps of FAT.                                                       *)
LEMMA FatStarts ==
  ASSUME OneBlockFiles, F!FatInit(Initial)
  PROVE  FatSound
<1>1. /\ fatDisk = [v \in FatVolumes |-> [root |-> Directory, data |-> Initial]]
      /\ fatMounted = {} /\ fatPc = "idle" /\ fatJob = F!NoFatJob
      /\ kept = [v \in FatVolumes |-> [p \in FatPaths |-> F!FirstContent(v, p)]]
      /\ old = [v \in FatVolumes |-> <<>>]
  BY Zenon DEF F!FatInit
<1>2. RootStays
  BY <1>1 DEF RootStays, SameEntries
<1>3. fatDisk \in [FatVolumes -> [root : Seq(Entry), data : [1 .. DataSectors -> Blocks \union {Blank}]]]
  <2>1. Initial \in [1 .. DataSectors -> Blocks \union {Blank}]
    BY FatAssumption
  <2>2. Directory \in Seq(Entry)
    BY FatAssumption, Zenon DEF Entry
  <2>. QED  BY <1>1, <2>1, <2>2
<1>4. ASSUME NEW v \in FatVolumes, NEW p \in FatPaths
      PROVE  /\ F!FirstContent(v, p) \in Seq(Blocks)
             /\ F!FirstContent(v, p) # <<>> =>
                  /\ fatDisk[v].root # <<>> /\ StartOf(p) \in 1 .. DataSectors
                  /\ F!FirstContent(v, p) = <<Initial[StartOf(p)]>>
  <2>1. fatDisk[v].data = Initial
    BY <1>1
  <2>2. CASE fatDisk[v].root = <<>>
    <3>1. F!FirstContent(v, p) = <<>>
      BY <1>2, <2>2, SearchFinds, Zenon DEF F!FirstContent
    <3>. QED  BY <3>1
  <2>3. CASE fatDisk[v].root # <<>>
    <3>1. F!SectorOf(v, p) = StartOf(p)
      BY <1>2, <2>3, SearchFinds
    <3>2. CASE StartOf(p) \in {F!Root, F!NotFound}
      <4>1. F!FirstContent(v, p) = <<>>
        BY <3>1, <3>2, Zenon DEF F!FirstContent
      <4>. QED  BY <4>1
    <3>3. CASE StartOf(p) \in 1 .. DataSectors /\ StartOf(p) \notin {F!Root, F!NotFound}
      <4>1. F!FirstContent(v, p) = <<Initial[StartOf(p)]>>
        BY <2>1, <3>1, <3>3, Zenon DEF F!FirstContent
      <4>2. Initial[StartOf(p)] \in Blocks
        BY <3>3, FatAssumption
      <4>. QED  BY <2>3, <3>3, <4>1, <4>2
    <3>. QED  BY <3>2, <3>3, StartRange
  <2>. QED  BY <2>2, <2>3
<1>5. FatTyped
  BY <1>1, <1>3, <1>4 DEF FatTyped
<1>6. FilesKept
  <2> SUFFICES ASSUME NEW v \in FatVolumes, NEW p \in FatPaths, kept[v][p] # <<>>
               PROVE  /\ fatDisk[v].root # <<>> /\ StartOf(p) \in 1 .. DataSectors
                      /\ fatDisk[v].data[StartOf(p)] = kept[v][p][1]
                      /\ fatDisk[v].root[EntryAt(p)].size = Len(kept[v][p]) \/ IsDir(p)
    BY DEF FilesKept
  <2>1. kept[v][p] = F!FirstContent(v, p)
    BY <1>1
  <2>2. /\ fatDisk[v].root # <<>> /\ StartOf(p) \in 1 .. DataSectors
        /\ kept[v][p] = <<Initial[StartOf(p)]>>
    BY <1>4, <2>1
  <2>3. fatDisk[v].data = Initial /\ fatDisk[v].root = Directory
    BY <1>1
  <2>4. EntryAt(p) \in 1 .. Len(Directory) /\ Directory[EntryAt(p)].start = StartOf(p)
    BY <2>2, FileIsEntry
  <2>5. Directory[EntryAt(p)].size = 1 \/ IsDir(p)
    BY <2>2, <2>4 DEF OneBlockFiles, IsDir
  <2>. QED  BY <2>2, <2>3, <2>5
<1>7. SizeBeforeData
  BY <1>1, Zenon DEF SizeBeforeData, F!SizeBeforeData
<1>. QED  BY <1>1, <1>2, <1>5, <1>6, <1>7 DEF FatSound, FatJobRuns, SizeGoesFirst

(* SizeBeforeData looks at the disk, the job and what was there before it. *)
LEMMA SizeStays ==
  ASSUME SizeBeforeData, UNCHANGED <<fatDisk, fatJob, old>>
  PROVE  SizeBeforeData'
BY Zenon DEF SizeBeforeData, F!SizeBeforeData, F!fat_read, F!FirstContent, F!SectorOf, F!SizeOf, F!EntryOf, F!IsDirectory,
  F!Matching

LEMMA FatMounts ==
  ASSUME FatSound, NEW v \in FatVolumes, F!initialiseFAT(v)
  PROVE  FatSound'
<1>1. /\ fatMounted' = fatMounted \union {v} /\ fatPc = "idle"
      /\ UNCHANGED <<fatDisk, lastDir, lastIndex, fatPc, fatJob, kept, old>>
  BY DEF F!initialiseFAT
<1>2. SizeGoesFirst'
  BY <1>1, SizeStays DEF FatSound, SizeGoesFirst
<1>. QED  BY <1>1, <1>2 DEF FatSound, FatTyped, RootStays, FilesKept, FatJobRuns

LEMMA FatLooks ==
  ASSUME FatSound, NEW v, NEW path, F!FatLookup(v, path)
  PROVE  FatSound'
<1>1. fatPc = "idle" /\ UNCHANGED <<fatDisk, fatMounted, fatPc, fatJob, kept, old>>
  BY DEF F!FatLookup
<1>2. SizeGoesFirst'
  BY <1>1, SizeStays DEF FatSound, SizeGoesFirst
<1>. QED  BY <1>1, <1>2 DEF FatSound, FatTyped, RootStays, FilesKept, FatJobRuns

(* In a write, the size is written, or the data is the old one.            *)
LEMMA SizeWasFirst ==
  ASSUME FatSound
  PROVE  SizeBeforeData
<1> DEFINE v == fatJob.volume
           p == fatJob.path
<1>1. CASE fatPc = "idle"
  BY <1>1 DEF FatSound, SizeGoesFirst
<1>2. CASE fatJob.start = F!Root
  BY <1>2, Zenon DEF SizeBeforeData, F!SizeBeforeData
<1>3. CASE fatPc = "size" /\ fatJob.start # F!Root
  <2>1. F!fat_read(v, p) = old[v]
    BY <1>3 DEF FatSound, SizeGoesFirst
  <2>. QED  BY <2>1, Zenon DEF SizeBeforeData, F!SizeBeforeData
<1>4. CASE fatPc = "data" /\ fatJob.start # F!Root
  <2>1. /\ v \in FatVolumes /\ fatDisk[v].root # <<>> /\ StartOf(p) \in 1 .. DataSectors
        /\ fatDisk[v].root[EntryAt(p)].size = Len(fatJob.content) \/ IsDir(p)
    BY <1>4 DEF FatSound, FatJobRuns, FatJobs, SizeGoesFirst
  <2>2. F!SizeOf(v, p) = Len(fatJob.content) \/ F!IsDirectory(v, p)
    BY <2>1, FileIsRead DEF FatSound
  <2>. QED  BY <2>2, Zenon DEF SizeBeforeData, F!SizeBeforeData
<1>. QED  BY <1>1, <1>2, <1>3, <1>4 DEF FatSound, FatTyped

LEMMA FatPowerGoes ==
  ASSUME FatSound, F!FatPowerLoss
  PROVE  FatSound'
<1>1. fatMounted' = {} /\ fatPc' = "idle" /\ UNCHANGED <<fatDisk, fatJob, kept, old>>
  BY DEF F!FatPowerLoss
<1>2. SizeBeforeData
  BY SizeWasFirst
<1>3. SizeGoesFirst'
  BY <1>1, <1>2, SizeStays DEF SizeGoesFirst
<1>. QED  BY <1>1, <1>3 DEF FatSound, FatTyped, RootStays, FilesKept, FatJobRuns

LEMMA FatReadsBack ==
  ASSUME FatSound
  PROVE  FatReadBack
<1> SUFFICES ASSUME NEW v \in FatVolumes, NEW p \in FatPaths, kept[v][p] # <<>>
             PROVE  /\ F!fat_read(v, p) = <<kept[v][p][1]>>
                    /\ F!SizeOf(v, p) = Len(kept[v][p]) \/ F!IsDirectory(v, p)
  BY Zenon DEF FatReadBack, F!FatReadBack
<1>1. /\ fatDisk[v].root # <<>> /\ StartOf(p) \in 1 .. DataSectors
      /\ fatDisk[v].data[StartOf(p)] = kept[v][p][1]
      /\ fatDisk[v].root[EntryAt(p)].size = Len(kept[v][p]) \/ IsDir(p)
  BY DEF FatSound, FilesKept
<1>2. /\ F!fat_read(v, p) = <<fatDisk[v].data[StartOf(p)]>>
      /\ F!SizeOf(v, p) = fatDisk[v].root[EntryAt(p)].size
      /\ F!IsDirectory(v, p) = IsDir(p)
  BY <1>1, FileIsRead DEF FatSound
<1>. QED  BY <1>1, <1>2

LEMMA FatWriteBegins ==
  ASSUME FatSound, NEW v \in FatVolumes, NEW path \in FatPaths, NEW content \in FatContents,
         F!fat_write(v, path, content)
  PROVE  FatSound'
<1> DEFINE s == F!SectorOf(v, path)
           m == F!Matching(fatDisk[v].root, path[1])
           e == fatDisk[v].root[F!First(m)]
<1>1. fatPc = "idle" /\ UNCHANGED <<fatDisk, fatMounted>>
  BY Zenon DEF F!fat_write
<1>2. CASE s = F!NotFound
  <2>1. UNCHANGED <<fatPc, fatJob, kept, old>>
    BY <1>2, Zenon DEF F!fat_write
  <2>2. SizeGoesFirst'
    BY <1>1, <2>1, SizeStays DEF FatSound, SizeGoesFirst
  <2>. QED  BY <1>1, <2>1, <2>2 DEF FatSound, FatTyped, RootStays, FilesKept, FatJobRuns
<1>3. CASE s # F!NotFound
  <2>1. /\ fatPc' = "size"
        /\ fatJob' = [volume |-> v, path |-> path, start |-> s, content |-> content, next |-> 1]
        /\ kept' = [kept EXCEPT ![v] = [p \in FatPaths |->
                      IF F!Touches(v, s, Len(content), p) THEN <<>> ELSE kept[v][p]]]
        /\ old' = [old EXCEPT ![v] = F!FirstContent(v, path)]
    BY <1>3, Zenon DEF F!fat_write
  <2>2. /\ lastIndex' = IF path = <<>> THEN lastIndex
                        ELSE IF m = {} \/ Len(path) > 1 THEN F!Behind ELSE F!First(m)
        /\ path # <<>> => lastDir' = IF m # {} /\ e.isDir THEN e.start ELSE F!Root
    <3>1. F!Looks(v, path)
      BY Zenon DEF F!fat_write
    <3>. QED  BY <3>1, Zenon DEF F!Looks
  <2>3. /\ fatJob'.volume = v /\ fatJob'.path = path /\ fatJob'.start = s
        /\ fatJob'.content = content /\ fatJob'.next = 1
    BY <2>1
  <2>4. kept \in [FatVolumes -> [FatPaths -> Seq(Blocks)]]
    BY DEF FatSound, FatTyped
  <2>5. /\ \A w \in FatVolumes : w # v => kept'[w] = kept[w]
        /\ \A p \in FatPaths : kept'[v][p] = IF F!Touches(v, s, Len(content), p) THEN <<>> ELSE kept[v][p]
        /\ kept' \in [FatVolumes -> [FatPaths -> Seq(Blocks)]]
    <3> DEFINE new == [p \in FatPaths |-> IF F!Touches(v, s, Len(content), p) THEN <<>> ELSE kept[v][p]]
    <3>1. new \in [FatPaths -> Seq(Blocks)]
      BY <2>4
    <3>2. \A p \in FatPaths : new[p] = IF F!Touches(v, s, Len(content), p) THEN <<>> ELSE kept[v][p]
      OBVIOUS
    <3> HIDE DEF new
    <3>3. kept' = [kept EXCEPT ![v] = new]
      BY <2>1 DEF new
    <3>. QED  BY <2>4, <3>1, <3>2, <3>3
  <2>6. FatTyped'
    <3>1. DOMAIN old' = FatVolumes
      BY <2>1 DEF FatSound, FatTyped
    <3>. QED  BY <1>1, <2>1, <2>5, <3>1 DEF FatSound, FatTyped
  <2>7. \A w \in FatVolumes, p \in FatPaths : kept'[w][p] # <<>> => kept'[w][p] = kept[w][p]
    BY <2>5
  <2>8. FilesKept'
    BY <1>1, <2>7 DEF FatSound, FilesKept
  <2>9. s \in {F!Root} \union 1 .. DataSectors
    BY <1>3, SearchFinds, StartRange DEF FatSound
  <2>10. s = F!Root => \A p \in FatPaths : kept'[v][p] = <<>>
    BY <2>5, Zenon DEF F!Touches
  <2>11. ASSUME s # F!Root
         PROVE  /\ fatDisk[v].root # <<>> /\ s \in 1 .. DataSectors /\ StartOf(path) = s
                /\ path # <<>> /\ m = F!Matching(Directory, path[1]) /\ m # {} /\ ~(Len(path) > 1)
                /\ F!First(m) = EntryAt(path) /\ e.isDir = IsDir(path) /\ e.start = s
    <3>1. fatDisk[v].root # <<>>
      BY <1>3, <2>9, <2>11, SearchFinds DEF FatSound
    <3>2. StartOf(path) = s /\ s \in 1 .. DataSectors /\ m = F!Matching(Directory, path[1])
      BY <2>9, <2>11, <3>1, SearchFinds DEF FatSound
    <3>3. /\ path # <<>> /\ m # {} /\ ~(Len(path) > 1)
          /\ EntryAt(path) \in 1 .. Len(Directory) /\ Directory[EntryAt(path)].start = s
      BY <3>2, FileIsEntry
    <3>4. F!First(m) = EntryAt(path)
      BY <3>2 DEF EntryAt
    <3>5. SameEntries(fatDisk[v].root)
      BY <3>1 DEF FatSound, RootStays
    <3>. QED  BY <3>1, <3>2, <3>3, <3>4, <3>5 DEF SameEntries, IsDir
  <2>12. ASSUME s # F!Root
         PROVE  /\ lastIndex' = EntryAt(path)
                /\ lastDir' = IF IsDir(path) THEN s ELSE F!Root
                /\ \A p \in FatPaths : kept'[v][p] # <<>> => StartOf(p) \notin s .. s + Len(content) - 1
    <3>1. lastIndex' = EntryAt(path) /\ lastDir' = IF IsDir(path) THEN s ELSE F!Root
      BY <2>2, <2>11, <2>12, Zenon
    <3>2. \A p \in FatPaths : kept'[v][p] # <<>> => ~F!Touches(v, s, Len(content), p)
      BY <2>5, Zenon
    <3>3. \A p \in FatPaths : F!SectorOf(v, p) = StartOf(p)
      BY <2>11, <2>12, SearchFinds DEF FatSound
    <3>. QED  BY <3>1, <3>2, <3>3, Zenon DEF F!Touches
  <2>13. FatJobRuns'
    <3>1. \A p : StartOf(p)' = StartOf(p) /\ EntryAt(p)' = EntryAt(p) /\ IsDir(p)' = IsDir(p)
      BY DEF StartOf, EntryAt, IsDir, F!Matching, F!First, F!NotFound, F!Root
    <3>2. fatJob' \in FatJobs /\ FatJobs' = FatJobs
      <4>1. s \in 0 .. DataSectors
        BY <2>9, FatAssumption DEF F!Root
      <4> HIDE DEF s, m, e
      <4>. QED  BY <2>1, <4>1 DEF FatJobs
    <3> HIDE DEF s, m, e
    <3>. QED  BY <1>1, <2>1, <2>3, <2>10, <2>11, <2>12, <3>1, <3>2 DEF FatJobRuns
  <2>14. SizeGoesFirst'
    <3>1. old'[v] = F!FirstContent(v, path)
      BY <2>1 DEF FatSound, FatTyped
    <3>2. F!fat_read(v, path)' = F!FirstContent(v, path)
      BY <1>1, Zenon DEF F!fat_read, F!FirstContent, F!SectorOf, F!Matching
    <3> HIDE DEF s, m, e
    <3>3. F!fat_read(fatJob.volume, fatJob.path)' = F!FirstContent(v, path)
      BY <2>3, <3>2, Zenon DEF F!fat_read
    <3>. QED  BY <2>1, <2>3, <3>1, <3>3 DEF SizeGoesFirst
  <2>. QED  BY <1>1, <2>6, <2>8, <2>13, <2>14 DEF FatSound, RootStays
<1>. QED  BY <1>2, <1>3

LEMMA NewPart ==
  ASSUME NEW d, d = [root |-> d.root, data |-> d.data], NEW c
  PROVE  /\ [d EXCEPT !.root = c] = [root |-> c, data |-> d.data]
         /\ [d EXCEPT !.data = c] = [root |-> d.root, data |-> c]
OBVIOUS

(* A disk changed where no kept file is.                                   *)
SparesKept(v, root, data) ==
  /\ v \in FatVolumes /\ root \in Seq(Entry) /\ data \in [1 .. DataSectors -> Blocks \union {Blank}]
  /\ fatDisk' = [fatDisk EXCEPT ![v] = [root |-> root, data |-> data]]
  /\ UNCHANGED <<fatMounted, kept, old>> /\ fatPc' \in {"idle", "size", "data"}
  /\ root = <<>> \/ SameEntries(root)
  /\ \A p \in FatPaths : kept[v][p] # <<>> =>
       /\ fatDisk[v].root # <<>> => root # <<>>
       /\ StartOf(p) \in 1 .. DataSectors => data[StartOf(p)] = fatDisk[v].data[StartOf(p)]
       /\ StartOf(p) \in 1 .. DataSectors => root[EntryAt(p)].size = fatDisk[v].root[EntryAt(p)].size \/ IsDir(p)

LEMMA DiskChanges ==
  ASSUME FatTyped, RootStays, FilesKept, NEW v, NEW root, NEW data, SparesKept(v, root, data)
  PROVE  FatTyped' /\ RootStays' /\ FilesKept' /\ fatDisk'[v].root = root /\ fatDisk'[v].data = data
<1> DEFINE new == [root |-> root, data |-> data]
<1>0. /\ v \in FatVolumes /\ root \in Seq(Entry) /\ data \in [1 .. DataSectors -> Blocks \union {Blank}]
      /\ fatDisk' = [fatDisk EXCEPT ![v] = new]
      /\ fatMounted' = fatMounted /\ kept' = kept /\ old' = old /\ fatPc' \in {"idle", "size", "data"}
      /\ root = <<>> \/ SameEntries(root)
      /\ \A p \in FatPaths : kept[v][p] # <<>> =>
           /\ fatDisk[v].root # <<>> => root # <<>>
           /\ StartOf(p) \in 1 .. DataSectors => data[StartOf(p)] = fatDisk[v].data[StartOf(p)]
           /\ StartOf(p) \in 1 .. DataSectors => root[EntryAt(p)].size = fatDisk[v].root[EntryAt(p)].size \/ IsDir(p)
  BY Zenon DEF SparesKept
<1>1. new \in [root : Seq(Entry), data : [1 .. DataSectors -> Blocks \union {Blank}]]
      /\ new.root = root /\ new.data = data
  BY <1>0
<1> HIDE DEF new
<1>3. /\ fatDisk' \in [FatVolumes -> [root : Seq(Entry), data : [1 .. DataSectors -> Blocks \union {Blank}]]]
      /\ fatDisk'[v] = new /\ \A w \in FatVolumes : w # v => fatDisk'[w] = fatDisk[w]
  BY <1>0, <1>1 DEF FatTyped
<1>4. FatTyped'
  BY <1>0, <1>3 DEF FatTyped, Entry
<1>5. RootStays'
  BY <1>0, <1>1, <1>3 DEF RootStays, SameEntries
<1>6. FilesKept'
  <2>1. \A p : StartOf(p)' = StartOf(p) /\ EntryAt(p)' = EntryAt(p) /\ IsDir(p)' = IsDir(p)
    BY DEF StartOf, EntryAt, IsDir, F!Matching, F!First, F!NotFound, F!Root
  <2>2. SUFFICES ASSUME NEW w \in FatVolumes, NEW p \in FatPaths, kept[w][p] # <<>>
                 PROVE  /\ fatDisk'[w].root # <<>> /\ StartOf(p) \in 1 .. DataSectors
                        /\ fatDisk'[w].data[StartOf(p)] = kept[w][p][1]
                        /\ fatDisk'[w].root[EntryAt(p)].size = Len(kept[w][p]) \/ IsDir(p)
    BY <1>0, <2>1, Zenon DEF FilesKept
  <2>3. CASE w # v
    BY <1>3, <2>2, <2>3 DEF FilesKept
  <2>4. CASE w = v
    <3>1. /\ fatDisk[v].root # <<>> /\ StartOf(p) \in 1 .. DataSectors
          /\ fatDisk[v].data[StartOf(p)] = kept[v][p][1]
          /\ fatDisk[v].root[EntryAt(p)].size = Len(kept[v][p]) \/ IsDir(p)
      BY <2>2, <2>4 DEF FilesKept
    <3>. QED  BY <1>0, <1>1, <1>3, <2>2, <2>4, <3>1
  <2>. QED  BY <2>3, <2>4
<1>. QED  BY <1>1, <1>3, <1>4, <1>5, <1>6

(* The size goes into the entry of the file that is written.               *)
LEMMA PutsSize ==
  ASSUME FatSound, F!PutSize
  PROVE  FatSound'
<1> DEFINE v == fatJob.volume
           path == fatJob.path
           s == fatJob.start
           n == Len(fatJob.content)
           data == IF lastDir # F!Root THEN [fatDisk[v].data EXCEPT ![lastDir] = Blank] ELSE fatDisk[v].data
           root == IF lastDir = F!Root /\ lastIndex \in DOMAIN fatDisk[v].root
                   THEN [fatDisk[v].root EXCEPT ![lastIndex].size = n] ELSE fatDisk[v].root
<1>1. /\ fatPc = "size" /\ fatPc' = "data"
      /\ fatDisk' =
           IF lastDir # F!Root THEN [fatDisk EXCEPT ![v].data[lastDir] = Blank]
           ELSE IF lastIndex \in DOMAIN fatDisk[v].root
           THEN [fatDisk EXCEPT ![v].root[lastIndex].size = n]
           ELSE fatDisk
      /\ UNCHANGED <<fatMounted, lastDir, lastIndex, fatJob, kept, old>>
  BY Zenon DEF F!PutSize
<1>2. FatTyped /\ RootStays /\ FilesKept
  BY DEF FatSound
<1>3. /\ v \in FatVolumes /\ path \in FatPaths /\ fatJob.content \in FatContents /\ fatJob.next = 1
      /\ fatJob \in FatJobs
      /\ s = F!Root => \A p \in FatPaths : kept[v][p] = <<>>
      /\ s # F!Root =>
           /\ fatDisk[v].root # <<>> /\ s \in 1 .. DataSectors /\ StartOf(path) = s
           /\ \A p \in FatPaths : kept[v][p] # <<>> => StartOf(p) \notin s .. s + n - 1
           /\ lastIndex = EntryAt(path)
           /\ lastDir = IF IsDir(path) THEN s ELSE F!Root
  BY <1>1 DEF FatSound, FatJobRuns, FatJobs
<1>4. n \in Nat \ {0}
  <2>1. fatJob.content \in Seq(Blocks) /\ fatJob.content # <<>>
    BY <1>3, FatAssumption
  <2>. QED  BY <2>1, EmptySeq
<1>5. fatDisk[v] = [root |-> fatDisk[v].root, data |-> fatDisk[v].data]
      /\ fatDisk[v].root \in Seq(Entry) /\ fatDisk[v].data \in [1 .. DataSectors -> Blocks \union {Blank}]
  BY <1>2, <1>3 DEF FatTyped
<1>6. fatDisk' = [fatDisk EXCEPT ![v] = [root |-> root, data |-> data]]
  <2>1. fatDisk = [fatDisk EXCEPT ![v] = fatDisk[v]]
    BY <1>2 DEF FatTyped
  <2>2. CASE lastDir # F!Root
    <3>1. fatDisk' = [fatDisk EXCEPT ![v].data[lastDir] = Blank]
      BY <1>1, <2>2, Zenon
    <3>2. root = fatDisk[v].root /\ data = [fatDisk[v].data EXCEPT ![lastDir] = Blank]
      BY <2>2, Zenon
    <3> HIDE DEF root, data
    <3>3. [fatDisk[v] EXCEPT !.data = data] = [root |-> root, data |-> data]
      BY <1>5, <3>2, NewPart, Zenon
    <3>. QED  BY <3>1, <3>2, <3>3, Zenon
  <2>3. CASE lastDir = F!Root /\ lastIndex \in DOMAIN fatDisk[v].root
    <3>1. fatDisk' = [fatDisk EXCEPT ![v].root[lastIndex].size = n]
      BY <1>1, <2>3, Zenon
    <3>2. root = [fatDisk[v].root EXCEPT ![lastIndex].size = n] /\ data = fatDisk[v].data
      BY <2>3, Zenon
    <3> HIDE DEF root, data
    <3>3. [fatDisk[v] EXCEPT !.root = root] = [root |-> root, data |-> data]
      BY <1>5, <3>2, NewPart, Zenon
    <3>. QED  BY <3>1, <3>2, <3>3, Zenon
  <2>4. CASE lastDir = F!Root /\ lastIndex \notin DOMAIN fatDisk[v].root
    <3>1. fatDisk' = fatDisk /\ root = fatDisk[v].root /\ data = fatDisk[v].data
      BY <1>1, <2>4, Zenon
    <3>. QED  BY <1>5, <2>1, <3>1, Zenon
  <2>. QED  BY <2>2, <2>3, <2>4
<1>7. data \in [1 .. DataSectors -> Blocks \union {Blank}]
      /\ \A x \in 1 .. DataSectors : x # lastDir => data[x] = fatDisk[v].data[x]
  BY <1>5
<1>8. /\ root \in Seq(Entry)
      /\ fatDisk[v].root # <<>> => root # <<>>
      /\ SameEntries(fatDisk[v].root) => SameEntries(root)
      /\ \A e \in 1 .. Len(fatDisk[v].root) : e # lastIndex => root[e] = fatDisk[v].root[e]
      /\ lastDir = F!Root /\ lastIndex \in DOMAIN fatDisk[v].root => root[lastIndex].size = n
  <2>1. CASE lastDir = F!Root /\ lastIndex \in DOMAIN fatDisk[v].root
    <3>1. root = [fatDisk[v].root EXCEPT ![lastIndex].size = n]
      BY <2>1, Zenon
    <3>2. \A k \in DOMAIN fatDisk[v].root :
            LET new == [fatDisk[v].root EXCEPT ![k].size = n] IN
              /\ new \in Seq(Entry)
              /\ fatDisk[v].root # <<>> => new # <<>>
              /\ SameEntries(fatDisk[v].root) => SameEntries(new)
              /\ new[k].size = n
              /\ \A e \in 1 .. Len(fatDisk[v].root) : e # k => new[e] = fatDisk[v].root[e]
      <4>1. fatDisk[v].root \in Seq(Entry) /\ n \in Nat
        BY <1>4, <1>5
      <4>. QED  BY <4>1, ResizedRoot, Zenon
    <3> HIDE DEF root
    <3>. QED  BY <2>1, <3>1, <3>2, Zenon
  <2>2. CASE ~(lastDir = F!Root /\ lastIndex \in DOMAIN fatDisk[v].root)
    <3>1. root = fatDisk[v].root
      BY <2>2, Zenon
    <3>. QED  BY <1>5, <2>2, <3>1
  <2>. QED  BY <2>1, <2>2
<1>9. root = <<>> \/ SameEntries(root)
  <2>1. fatDisk[v].root = <<>> => root = <<>>
    <3>1. fatDisk[v].root = <<>> => DOMAIN fatDisk[v].root = {}
      OBVIOUS
    <3>. QED  BY <3>1, Zenon
  <2>. QED  BY <1>2, <1>3, <1>8, <2>1, Zenon DEF RootStays
<1> HIDE DEF root, data
<1>10. ASSUME NEW p \in FatPaths, kept[v][p] # <<>>
       PROVE  /\ fatDisk[v].root # <<>> => root # <<>>
              /\ StartOf(p) \in 1 .. DataSectors => data[StartOf(p)] = fatDisk[v].data[StartOf(p)]
              /\ StartOf(p) \in 1 .. DataSectors => root[EntryAt(p)].size = fatDisk[v].root[EntryAt(p)].size \/ IsDir(p)
  <2>1. s # F!Root /\ fatDisk[v].root # <<>> /\ s \in 1 .. DataSectors /\ StartOf(path) = s /\ StartOf(p) # s
    BY <1>3, <1>4, <1>10
  <2>2. StartOf(p) # lastDir \/ StartOf(p) \notin 1 .. DataSectors
    BY <1>3, <2>1 DEF F!Root
  <2>3. ASSUME StartOf(p) \in 1 .. DataSectors
        PROVE  root[EntryAt(p)] = fatDisk[v].root[EntryAt(p)]
    <3>1. EntryAt(p) \in 1 .. Len(Directory) /\ Directory[EntryAt(p)].start = StartOf(p)
          /\ Directory[EntryAt(path)].start = s
      BY <2>1, <2>3, FileIsEntry
    <3>2. EntryAt(p) # lastIndex
      BY <1>3, <2>1, <3>1
    <3>3. Len(fatDisk[v].root) = Len(Directory)
      BY <1>2, <1>3, <2>1 DEF RootStays, SameEntries
    <3>. QED  BY <1>8, <3>1, <3>2, <3>3, Zenon
  <2>4. StartOf(p) \in 1 .. DataSectors => data[StartOf(p)] = fatDisk[v].data[StartOf(p)]
    BY <1>7, <2>2, Zenon
  <2>5. StartOf(p) \in 1 .. DataSectors => root[EntryAt(p)].size = fatDisk[v].root[EntryAt(p)].size
    BY <2>3, Zenon
  <2>6. fatDisk[v].root # <<>> => root # <<>>
    BY <1>8, Zenon
  <2>. QED  BY <2>4, <2>5, <2>6, Zenon
<1>11. FatTyped' /\ RootStays' /\ FilesKept' /\ fatDisk'[v].root = root /\ fatDisk'[v].data = data
  <2>1. v \in FatVolumes /\ root \in Seq(Entry) /\ data \in [1 .. DataSectors -> Blocks \union {Blank}]
    BY <1>3, <1>7, <1>8
  <2>2. UNCHANGED <<fatMounted, kept, old>> /\ fatPc' \in {"idle", "size", "data"}
    BY <1>1
  <2> HIDE DEF v
  <2>3. \A p \in FatPaths : kept[v][p] # <<>> =>
          /\ fatDisk[v].root # <<>> => root # <<>>
          /\ StartOf(p) \in 1 .. DataSectors => data[StartOf(p)] = fatDisk[v].data[StartOf(p)]
          /\ StartOf(p) \in 1 .. DataSectors => root[EntryAt(p)].size = fatDisk[v].root[EntryAt(p)].size \/ IsDir(p)
    BY <1>10, Zenon
  <2>4. SparesKept(v, root, data)
    BY <1>6, <1>9, <2>1, <2>2, <2>3, Zenon DEF SparesKept
  <2>. QED  BY <1>2, <2>4, DiskChanges, Zenon
<1>12. \A p : StartOf(p)' = StartOf(p) /\ EntryAt(p)' = EntryAt(p) /\ IsDir(p)' = IsDir(p)
  BY DEF StartOf, EntryAt, IsDir, F!Matching, F!First, F!NotFound, F!Root
<1>13. FatJobRuns'
  BY <1>1, <1>3, <1>8, <1>11, <1>12 DEF FatJobRuns
<1>14. s # F!Root => root[EntryAt(path)].size = n \/ IsDir(path)
  <2>1. SUFFICES ASSUME s # F!Root, ~IsDir(path)  PROVE root[EntryAt(path)].size = n
    OBVIOUS
  <2>2. lastDir = F!Root /\ lastIndex = EntryAt(path)
    BY <1>3, <2>1
  <2>3. EntryAt(path) \in 1 .. Len(Directory)
    BY <1>3, <2>1, FileIsEntry
  <2>4. Len(fatDisk[v].root) = Len(Directory)
    BY <1>2, <1>3, <2>1 DEF RootStays, SameEntries
  <2>5. lastIndex \in DOMAIN fatDisk[v].root
    BY <1>5, <2>2, <2>3, <2>4
  <2>. QED  BY <1>8, <2>2, <2>5
<1>15. SizeGoesFirst'
  BY <1>1, <1>11, <1>12, <1>14 DEF SizeGoesFirst
<1>. QED  BY <1>11, <1>13, <1>15 DEF FatSound

(* A block goes behind the last.                                           *)
LEMMA PutsBlock ==
  ASSUME FatSound, F!PutBlock
  PROVE  FatSound'
<1> DEFINE v == fatJob.volume
           path == fatJob.path
           start == fatJob.start
           n == Len(fatJob.content)
           next == fatJob.next
           s == start + next - 1
           block == fatJob.content[next]
           root == IF s = F!Root THEN <<>> ELSE fatDisk[v].root
           data == IF s \in 1 .. DataSectors THEN [fatDisk[v].data EXCEPT ![s] = block] ELSE fatDisk[v].data
<1>1. /\ fatPc = "data" /\ next <= n
      /\ fatDisk' =
           IF s = F!Root THEN [fatDisk EXCEPT ![v].root = <<>>]
           ELSE IF s > DataSectors THEN fatDisk
           ELSE [fatDisk EXCEPT ![v].data[s] = block]
      /\ fatJob' = [fatJob EXCEPT !.next = @ + 1]
      /\ UNCHANGED <<fatMounted, lastDir, lastIndex, fatPc, kept, old>>
  BY Zenon DEF F!PutBlock
<1>2. FatTyped /\ RootStays /\ FilesKept
  BY DEF FatSound
<1>3. /\ fatJob \in FatJobs
      /\ v \in FatVolumes /\ path \in FatPaths /\ fatJob.content \in FatContents /\ next \in Nat \ {0}
      /\ start \in 0 .. DataSectors
  BY <1>1 DEF FatSound, FatJobRuns, FatJobs
<1>4. /\ start = F!Root => \A p \in FatPaths : kept[v][p] = <<>>
      /\ start # F!Root =>
           /\ fatDisk[v].root # <<>> /\ start \in 1 .. DataSectors /\ StartOf(path) = start
           /\ \A p \in FatPaths : kept[v][p] # <<>> => StartOf(p) \notin start .. start + n - 1
           /\ lastIndex = EntryAt(path)
           /\ lastDir = IF IsDir(path) THEN start ELSE F!Root
           /\ next > 1 => fatDisk[v].data[start] = fatJob.content[1]
  BY <1>1 DEF FatSound, FatJobRuns
<1>5. fatJob' \in FatJobs /\ fatJob'.volume = v /\ fatJob'.path = path /\ fatJob'.start = start
      /\ fatJob'.content = fatJob.content /\ fatJob'.next = next + 1
  BY <1>1, <1>3 DEF FatJobs
<1>6. n \in Nat /\ block \in Blocks /\ DataSectors \in Nat /\ s \in Nat
  <2>1. fatJob.content \in Seq(Blocks) /\ DataSectors \in Nat
    BY <1>3, FatAssumption
  <2>2. n \in Nat /\ next \in 1 .. n
    BY <1>1, <1>3, <2>1
  <2>. QED  BY <1>3, <2>1, <2>2, ElementOfSeq
<1>7. fatDisk[v] = [root |-> fatDisk[v].root, data |-> fatDisk[v].data]
      /\ fatDisk[v].root \in Seq(Entry) /\ fatDisk[v].data \in [1 .. DataSectors -> Blocks \union {Blank}]
  BY <1>2, <1>3 DEF FatTyped
<1>8. fatDisk' = [fatDisk EXCEPT ![v] = [root |-> root, data |-> data]]
  <2>1. fatDisk = [fatDisk EXCEPT ![v] = fatDisk[v]]
    BY <1>2 DEF FatTyped
  <2>2. CASE s = F!Root
    <3>1. fatDisk' = [fatDisk EXCEPT ![v].root = <<>>]
      BY <1>1, <2>2, Zenon
    <3>2. root = <<>> /\ data = fatDisk[v].data
      <4>1. s \notin 1 .. DataSectors
        BY <1>6, <2>2 DEF F!Root
      <4>. QED  BY <2>2, <4>1, Zenon
    <3> HIDE DEF root, data
    <3>3. [fatDisk[v] EXCEPT !.root = root] = [root |-> root, data |-> data]
      BY <1>7, <3>2, NewPart, Zenon
    <3>. QED  BY <3>1, <3>2, <3>3, Zenon
  <2>3. CASE s # F!Root /\ s > DataSectors
    <3>1. fatDisk' = fatDisk
      BY <1>1, <2>3, Zenon
    <3>2. s \notin 1 .. DataSectors
      BY <1>6, <2>3
    <3>3. root = fatDisk[v].root /\ data = fatDisk[v].data
      BY <2>3, <3>2, Zenon
    <3>. QED  BY <1>7, <2>1, <3>1, <3>3, Zenon
  <2>4. CASE s # F!Root /\ ~(s > DataSectors)
    <3>1. fatDisk' = [fatDisk EXCEPT ![v].data[s] = block]
      BY <1>1, <2>4, Zenon
    <3>2. s \in 1 .. DataSectors
      BY <1>6, <2>4 DEF F!Root
    <3>3. root = fatDisk[v].root /\ data = [fatDisk[v].data EXCEPT ![s] = block]
      BY <2>4, <3>2, Zenon
    <3> HIDE DEF root, data
    <3>4. [fatDisk[v] EXCEPT !.data = data] = [root |-> root, data |-> data]
      BY <1>7, <3>3, NewPart, Zenon
    <3>. QED  BY <3>1, <3>3, <3>4, Zenon
  <2>. QED  BY <2>2, <2>3, <2>4, Zenon
<1>9. /\ data \in [1 .. DataSectors -> Blocks \union {Blank}]
      /\ \A x \in 1 .. DataSectors : x # s => data[x] = fatDisk[v].data[x]
      /\ s \in 1 .. DataSectors => data[s] = block
  BY <1>6, <1>7
<1>10. root \in Seq(Entry) /\ (start # F!Root => root = fatDisk[v].root)
  <2>1. start # F!Root => s # F!Root
    BY <1>3, <1>6 DEF F!Root
  <2>. QED  BY <1>7, <2>1
<1>11. root = <<>> \/ SameEntries(root)
  <2>1. root = <<>> \/ root = fatDisk[v].root
    BY Zenon
  <2>. QED  BY <1>2, <1>3, <2>1, Zenon DEF RootStays
<1> HIDE DEF root, data, block
<1>12. ASSUME NEW p \in FatPaths, kept[v][p] # <<>>
       PROVE  /\ root = fatDisk[v].root
              /\ StartOf(p) \in 1 .. DataSectors => data[StartOf(p)] = fatDisk[v].data[StartOf(p)]
  <2>1. start # F!Root /\ StartOf(p) \notin start .. start + n - 1
    BY <1>4, <1>12, Zenon
  <2>2. s \in start .. start + n - 1
    BY <1>1, <1>3, <1>6
  <2>3. StartOf(p) # s
    BY <2>1, <2>2, Zenon
  <2>. QED  BY <1>9, <1>10, <2>1, <2>3, Zenon
<1>13. FatTyped' /\ RootStays' /\ FilesKept' /\ fatDisk'[v].root = root /\ fatDisk'[v].data = data
  <2>1. UNCHANGED <<fatMounted, kept, old>> /\ fatPc' \in {"idle", "size", "data"}
    BY <1>1
  <2> HIDE DEF v
  <2>2. \A p \in FatPaths : kept[v][p] # <<>> =>
          /\ fatDisk[v].root # <<>> => root # <<>>
          /\ StartOf(p) \in 1 .. DataSectors => data[StartOf(p)] = fatDisk[v].data[StartOf(p)]
          /\ StartOf(p) \in 1 .. DataSectors => root[EntryAt(p)].size = fatDisk[v].root[EntryAt(p)].size \/ IsDir(p)
    BY <1>12, Zenon
  <2>3. SparesKept(v, root, data)
    BY <1>3, <1>8, <1>9, <1>10, <1>11, <2>1, <2>2, Zenon DEF SparesKept
  <2>. QED  BY <1>2, <2>3, DiskChanges, Zenon
<1>14. \A p : StartOf(p)' = StartOf(p) /\ EntryAt(p)' = EntryAt(p) /\ IsDir(p)' = IsDir(p)
  BY DEF StartOf, EntryAt, IsDir, F!Matching, F!First, F!NotFound, F!Root
<1>15. start # F!Root => data[start] = fatJob.content[1]
  <2>1. CASE next = 1
    <3>1. s = start /\ block = fatJob.content[1]
      BY <1>3, <2>1 DEF block
    <3>. QED  BY <1>4, <1>9, <3>1
  <2>2. CASE next # 1
    <3>1. s # start /\ next > 1
      BY <1>3, <2>2
    <3>. QED  BY <1>4, <1>9, <3>1
  <2>. QED  BY <2>1, <2>2
<1>16. FatJobRuns'
  <2>1. FatJobs' = FatJobs
    BY DEF FatJobs
  <2>. QED  BY <1>1, <1>4, <1>5, <1>10, <1>13, <1>14, <1>15, <2>1 DEF FatJobRuns
<1>17. SizeGoesFirst'
  <2>1. start # F!Root => root[EntryAt(path)].size = n \/ IsDir(path)
    BY <1>1, <1>10 DEF FatSound, SizeGoesFirst
  <2>. QED  BY <1>1, <1>5, <1>13, <1>14, <2>1 DEF SizeGoesFirst
<1>. QED  BY <1>13, <1>16, <1>17 DEF FatSound

(* The file is there: its first block, and its size.                       *)
LEMMA FatWritten ==
  ASSUME FatSound, F!FatWritten
  PROVE  FatSound'
<1> DEFINE v == fatJob.volume
           path == fatJob.path
           start == fatJob.start
           content == fatJob.content
<1>1. /\ fatPc = "data" /\ fatJob.next > Len(content)
      /\ kept' = IF start = F!Root THEN kept ELSE [kept EXCEPT ![v][path] = content]
      /\ fatPc' = "idle" /\ fatJob' = F!NoFatJob
      /\ UNCHANGED <<fatDisk, fatMounted, lastDir, lastIndex, old>>
  BY Zenon DEF F!FatWritten
<1>2. FatTyped /\ RootStays /\ FilesKept
  BY DEF FatSound
<1>3. v \in FatVolumes /\ path \in FatPaths /\ content \in Seq(Blocks) /\ content # <<>> /\ fatJob.next \in Nat
  BY <1>1, FatAssumption DEF FatSound, FatJobRuns, FatJobs
<1>4. fatJob.next > 1
  <2>1. Len(content) \in Nat \ {0}
    BY <1>3, EmptySeq
  <2>. QED  BY <1>1, <1>3, <2>1
<1>5. start # F!Root =>
        /\ fatDisk[v].root # <<>> /\ StartOf(path) \in 1 .. DataSectors
        /\ fatDisk[v].data[StartOf(path)] = content[1]
        /\ fatDisk[v].root[EntryAt(path)].size = Len(content) \/ IsDir(path)
  BY <1>1, <1>4 DEF FatSound, FatJobRuns, SizeGoesFirst
<1>6. kept \in [FatVolumes -> [FatPaths -> Seq(Blocks)]]
  BY <1>2 DEF FatTyped
<1>7. /\ kept' \in [FatVolumes -> [FatPaths -> Seq(Blocks)]]
      /\ \A w \in FatVolumes, p \in FatPaths :
           IF start # F!Root /\ w = v /\ p = path THEN kept'[w][p] = content ELSE kept'[w][p] = kept[w][p]
  BY <1>1, <1>3, <1>6
<1>8. \A p : StartOf(p)' = StartOf(p) /\ EntryAt(p)' = EntryAt(p) /\ IsDir(p)' = IsDir(p)
  BY DEF StartOf, EntryAt, IsDir, F!Matching, F!First, F!NotFound, F!Root
<1>9. FatTyped' /\ RootStays' /\ FatJobRuns'
  <2>1. RootStays'
    BY <1>1, <1>2 DEF RootStays, SameEntries
  <2>2. FatTyped'
    BY <1>1, <1>2, <1>7 DEF FatTyped
  <2>3. FatJobRuns'
    BY <1>1 DEF FatJobRuns
  <2>. QED  BY <2>1, <2>2, <2>3
<1>10. FilesKept'
  <2>1. SUFFICES ASSUME NEW w \in FatVolumes, NEW p \in FatPaths, kept'[w][p] # <<>>
                 PROVE  /\ fatDisk[w].root # <<>> /\ StartOf(p) \in 1 .. DataSectors
                        /\ fatDisk[w].data[StartOf(p)] = kept'[w][p][1]
                        /\ fatDisk[w].root[EntryAt(p)].size = Len(kept'[w][p]) \/ IsDir(p)
    BY <1>1, <1>8, Zenon DEF FilesKept
  <2>2. CASE start # F!Root /\ w = v /\ p = path
    <3>1. kept'[w][p] = content
      BY <1>7, <2>2, Zenon
    <3>. QED  BY <1>5, <2>2, <3>1
  <2>3. CASE ~(start # F!Root /\ w = v /\ p = path)
    <3>1. kept'[w][p] = kept[w][p]
      BY <1>7, <2>3, Zenon
    <3>. QED  BY <1>2, <2>1, <3>1 DEF FilesKept
  <2>. QED  BY <2>2, <2>3
<1>11. SizeGoesFirst'
  BY <1>1 DEF SizeGoesFirst, SizeBeforeData, F!SizeBeforeData
<1>. QED  BY <1>9, <1>10, <1>11 DEF FatSound

(* Every step of the machine.                                              *)
LEMMA FatStep ==
  ASSUME FatSound, [DevNext]_vars
  PROVE  FatSound'
<1>1. ASSUME UNCHANGED fat
      PROVE  FatSound'
  <2>1. \A p : StartOf(p)' = StartOf(p) /\ EntryAt(p)' = EntryAt(p) /\ IsDir(p)' = IsDir(p)
    BY DEF StartOf, EntryAt, IsDir, F!Matching, F!First, F!NotFound, F!Root
  <2>2. UNCHANGED <<fatDisk, fatMounted, lastDir, lastIndex, fatPc, fatJob, kept, old>>
    BY <1>1 DEF fat
  <2>3. SizeBeforeData => SizeBeforeData'
    BY <2>2, SizeStays
  <2>4. FatTyped' /\ RootStays' /\ FilesKept' /\ FatJobRuns'
    BY <2>1, <2>2 DEF FatSound, FatTyped, RootStays, SameEntries, FilesKept, FatJobRuns, FatJobs
  <2>5. SizeGoesFirst'
    <3>1. F!fat_read(fatJob.volume, fatJob.path)' = F!fat_read(fatJob.volume, fatJob.path)
      BY <2>2, Zenon DEF F!fat_read, F!FirstContent, F!SectorOf, F!Matching
    <3>. QED  BY <2>1, <2>2, <2>3, <3>1 DEF FatSound, SizeGoesFirst
  <2>. QED  BY <2>4, <2>5 DEF FatSound
<1>2. CASE Detect
  <2> DEFINE p == Partitions(machine[drive])[entry]
  <2>1. (p.volume \in FatVolumes /\ F!initialiseFAT(p.volume)) \/ UNCHANGED fat
    BY <1>2, Zenon DEF Detect
  <2> HIDE DEF p
  <2>. QED  BY <1>1, <2>1, FatMounts
<1>3. CASE NextDrive
  BY <1>1, <1>3 DEF NextDrive
<1>4. CASE Writing
  <2>1. F!FatWriting \/ UNCHANGED fat
    BY <1>4 DEF Writing
  <2>. QED  BY <1>1, <2>1, PutsSize, PutsBlock, FatWritten DEF F!FatWriting
<1>5. CASE PowerLoss
  <2>1. F!FatPowerLoss
    BY <1>5 DEF PowerLoss
  <2>. QED  BY <2>1, FatPowerGoes
<1>6. ASSUME NEW z \in DOMAIN devices, fwrite(z) \/ fread(z)
      PROVE  FatSound'
  <2>1. \/ \E path \in FatPaths, content \in FatContents : F!fat_write(devices[z].volume, path, content)
        \/ \E path \in FatPaths : F!FatLookup(devices[z].volume, path)
        \/ UNCHANGED fat
    BY <1>6, Zenon DEF fwrite, fread
  <2>2. ASSUME NEW path \in FatPaths, NEW content \in FatContents, F!fat_write(devices[z].volume, path, content)
        PROVE  FatSound'
    <3>1. devices[z].volume \in FatVolumes
      BY <2>2 DEF F!fat_write, FatSound, FatTyped
    <3>. QED  BY <2>2, <3>1, FatWriteBegins
  <2>3. ASSUME NEW path \in FatPaths, F!FatLookup(devices[z].volume, path)
        PROVE  FatSound'
    BY <2>3, FatLooks
  <2>. QED  BY <1>1, <2>1, <2>2, <2>3
<1>7. CASE UNCHANGED vars
  BY <1>1, <1>7 DEF vars
<1>. QED  BY <1>2, <1>3, <1>4, <1>5, <1>6, <1>7 DEF DevNext

-----------------------------------------------------------------------------
(* A CD: the answer is from the directory of dummy, which a path that      *)
(* exists has just set.                                                    *)
LEMMA SeenAreNumbers ==
  ASSUME NEW d \in DOMAIN PathTable
  PROVE  I!Seen(d) \subseteq Nat \ {0}
<1>1. FilesOf[d] \in Seq([name : DOMAIN Begins, length : Nat, mark : Nat])
  BY CdAssumption
<1>2. DOMAIN FilesOf[d] = 1 .. Len(FilesOf[d])
  BY <1>1
<1>. QED  BY <1>1, <1>2 DEF I!Seen

(* iso9660.c:225-232.  The first of the files that are alike is found.     *)
LEMMA FoundIsFirst ==
  ASSUME NEW d \in DOMAIN PathTable, NEW name
  PROVE  \/ I!Alike(d, name) = {} /\ I!Found(d, name) = I!NoEntry
         \/ /\ I!Found(d, name) \in I!Alike(d, name)
            /\ \A o \in I!Alike(d, name) : I!Found(d, name) <= o
<1>1. I!Alike(d, name) \subseteq Nat
  BY SeenAreNumbers DEF I!Alike
<1>2. CASE I!Alike(d, name) = {}
  BY <1>2, Zenon DEF I!Found
<1>3. CASE I!Alike(d, name) # {}
  <2>1. \E e \in I!Alike(d, name) : \A o \in I!Alike(d, name) : e <= o
    BY <1>1, <1>3, LeastElement
  <2>2. I!Found(d, name) = CHOOSE e \in I!Alike(d, name) : \A o \in I!Alike(d, name) : e <= o
    BY <1>3, Zenon DEF I!Found
  <2>. QED  BY <2>1, <2>2, Zenon
<1>. QED  BY <1>2, <1>3, Zenon

LEMMA IsoStep ==
  ASSUME IsoFindsIts, [DevNext]_vars
  PROVE  IsoFindsIts'
<1>1. ASSUME UNCHANGED answer
      PROVE  IsoFindsIts'
  BY <1>1, Zenon DEF IsoFindsIts, I!IsoFindsIts
<1>2. ASSUME NEW path \in IsoPaths, I!Finds(path)
      PROVE  IsoFindsIts'
  <2>. DEFINE d == I!Walk(path.dirs)
              found == I!Found(d, path.file)
  <2>1. /\ dummy' = IF path.dirs = <<>> \/ d = I!Nowhere THEN dummy ELSE d
        /\ answer' = <<path, dummy', I!Found(dummy', path.file)>>
    BY <1>2, Zenon DEF I!Finds, I!iso_9660_target
  <2>2. SUFFICES ASSUME path.dirs # <<>>, d \in DOMAIN PathTable
                 PROVE  /\ answer'[2] = d
                        /\ answer'[3] # I!NoEntry =>
                             answer'[3] \in I!Seen(d) /\ FilesOf[d][answer'[3]].name \in Begins[path.file]
                        /\ \A e \in I!Seen(d) : FilesOf[d][e].name = path.file => answer'[3] \in 1 .. e
                        /\ answer'[3] = I!NoEntry =>
                             \A e \in I!Seen(d) : FilesOf[d][e].name \notin Begins[path.file]
    <3>1. answer'[1] = path
      BY <2>1
    <3>. HIDE DEF d
    <3>. QED  BY <3>1, <2>2, Zenon DEF IsoFindsIts, I!IsoFindsIts, d
  <2>3. d # I!Nowhere
    <3>1. DOMAIN PathTable = 1 .. Len(PathTable) /\ Len(PathTable) \in Nat
      BY CdAssumption
    <3>. QED  BY <2>2, <3>1 DEF I!Nowhere
  <2>4. dummy' = d
    BY <2>1, <2>2, <2>3, Zenon
  <2>5. answer'[2] = d /\ answer'[3] = found
    BY <2>1, <2>4
  <2>6. \/ I!Alike(d, path.file) = {} /\ found = I!NoEntry
        \/ found \in I!Alike(d, path.file) /\ \A o \in I!Alike(d, path.file) : found <= o
    BY <2>2, FoundIsFirst, Zenon
  <2>7. I!Seen(d) \subseteq Nat \ {0}
    BY <2>2, SeenAreNumbers, Zenon
  <2>8. \A e : e \in I!Alike(d, path.file) <=> e \in I!Seen(d) /\ FilesOf[d][e].name \in Begins[path.file]
    BY Zenon DEF I!Alike
  <2>. HIDE DEF d, found
  <2>9. ASSUME NEW e \in I!Seen(d), FilesOf[d][e].name = path.file
        PROVE  found \in 1 .. e
    <3>1. FilesOf[d][e].name \in DOMAIN Begins
      <4>1. FilesOf[d] \in Seq([name : DOMAIN Begins, length : Nat, mark : Nat])
        BY <2>2, CdAssumption
      <4>2. e \in DOMAIN FilesOf[d]
        BY <2>9, Zenon DEF I!Seen
      <4>3. DOMAIN FilesOf[d] = 1 .. Len(FilesOf[d])
        BY <4>1
      <4>4. FilesOf[d][e] \in [name : DOMAIN Begins, length : Nat, mark : Nat]
        <5>. DEFINE records == [name : DOMAIN Begins, length : Nat, mark : Nat]
        <5>. HIDE DEF records
        <5>1. FilesOf[d] \in Seq(records)
          BY <4>1 DEF records
        <5>2. FilesOf[d][e] \in records
          BY <5>1, <4>2, <4>3, ElementOfSeq, Zenon
        <5>. QED  BY <5>2 DEF records
      <4>. QED  BY <4>4
    <3>2. e \in I!Alike(d, path.file)
      BY <2>8, <2>9, <3>1, CdAssumption, Zenon
    <3>3. found \in I!Alike(d, path.file) /\ found <= e
      BY <2>6, <3>2, Zenon
    <3>. QED  BY <2>7, <2>8, <2>9, <3>3
  <2>10. found # I!NoEntry => found \in I!Seen(d) /\ FilesOf[d][found].name \in Begins[path.file]
    BY <2>6, <2>8, Zenon
  <2>11. found = I!NoEntry => \A e \in I!Seen(d) : FilesOf[d][e].name \notin Begins[path.file]
    BY <2>6, <2>7, <2>8 DEF I!NoEntry
  <2>. QED  BY <2>5, <2>9, <2>10, <2>11, Zenon
<1>3. UNCHANGED answer \/ I!IsoPowerLoss \/ \E path \in IsoPaths : I!Finds(path)
  <2>1. CASE Detect
    BY <2>1, Zenon DEF Detect, iso
  <2>2. CASE NextDrive
    BY <2>2, Zenon DEF NextDrive, iso
  <2>3. CASE Writing
    BY <2>3, Zenon DEF Writing, iso
  <2>4. CASE PowerLoss
    BY <2>4, Zenon DEF PowerLoss
  <2>5. ASSUME NEW z \in DOMAIN devices, fwrite(z)
        PROVE  UNCHANGED answer
    BY <2>5, Zenon DEF fwrite, iso
  <2>6. ASSUME NEW z \in DOMAIN devices, fread(z)
        PROVE  UNCHANGED answer \/ \E path \in IsoPaths : I!Finds(path)
    <3>1. UNCHANGED iso \/ \E p \in IsoPaths : I!iso_9660_exists(p) \/ I!iso_9660_read(p) \/ I!iso_9660_dir(p)
      BY <2>6, Zenon DEF fread
    <3>. QED  BY <3>1, Zenon DEF iso, I!iso_9660_exists, I!iso_9660_read, I!iso_9660_dir
  <2>7. CASE UNCHANGED vars
    BY <2>7, Zenon DEF vars, iso
  <2>. QED  BY <2>1, <2>2, <2>3, <2>4, <2>5, <2>6, <2>7, Zenon DEF DevNext
<1>4. I!IsoPowerLoss => IsoFindsIts'
  BY Zenon DEF I!IsoPowerLoss, IsoFindsIts, I!IsoFindsIts
<1>. QED  BY <1>1, <1>2, <1>3, <1>4, Zenon

-----------------------------------------------------------------------------
(* The file systems, in every behaviour of the machine.                    *)

(* sfs.c:sfs_write, sfs_read.  What a write has come back for is read back *)
(* by its path, also after other writes, lookups and a loss of the power   *)
(* in the middle of a write of another file.                               *)
THEOREM WrittenIsReadBack ==
  ASSUME OneSfsVolume, NamedPaths
  PROVE  DevSpec => []ReadBack
<1>1. DevInit => SfsSound /\ MountedAreOurs
  BY SfsStarts
<1>2. SfsSound /\ MountedAreOurs /\ [DevNext]_vars => (SfsSound /\ MountedAreOurs)'
  BY SfsStep
<1>3. SfsSound => ReadBack
  BY SfsSoundSuffices
<1>. QED  BY <1>1, <1>2, <1>3, PTL DEF DevSpec

(* sfs.c:41-44, 157-158, 219.  The two tables in memory are those of the   *)
(* disk, or ahead of it by the write underway.                             *)
THEOREM MemoryIsTheDisk ==
  ASSUME OneSfsVolume, NamedPaths
  PROVE  DevSpec => []MemoryMatchesDisk
<1>1. DevInit => SfsSound /\ MountedAreOurs
  BY SfsStarts
<1>2. SfsSound /\ MountedAreOurs /\ [DevNext]_vars => (SfsSound /\ MountedAreOurs)'
  BY SfsStep
<1>3. SfsSound => MemoryMatchesDisk
  BY SfsSoundSuffices
<1>. QED  BY <1>1, <1>2, <1>3, PTL DEF DevSpec

(* fat.c:fat_write, fat_read.  A file of the volume, or one that a write   *)
(* has come back for, is read back with its size, unless a write went over *)
(* it.                                                                     *)
THEOREM FatIsReadBack ==
  ASSUME OneBlockFiles
  PROVE  DevSpec => []FatReadBack
<1>1. DevInit => FatSound
  BY FatStarts DEF DevInit
<1>2. FatSound /\ [DevNext]_vars => FatSound'
  BY FatStep
<1>3. FatSound => FatReadBack
  BY FatReadsBack
<1>. QED  BY <1>1, <1>2, <1>3, PTL DEF DevSpec

(* fat.c:208-236.  New data never stands under an old size, also when the  *)
(* power has gone between the two.                                         *)
THEOREM SizeIsFirst ==
  ASSUME OneBlockFiles
  PROVE  DevSpec => []SizeBeforeData
<1>1. DevInit => FatSound
  BY FatStarts DEF DevInit
<1>2. FatSound /\ [DevNext]_vars => FatSound'
  BY FatStep
<1>3. FatSound => SizeBeforeData
  BY SizeWasFirst
<1>. QED  BY <1>1, <1>2, <1>3, PTL DEF DevSpec

(* iso9660.c:iso_9660_target, iso_9660_exists.  In a directory that exists *)
(* the file found is the first of those looked at there that the name asked*)
(* for begins with, whatever dummy was left at before.                     *)
THEOREM IsoFinds == DevSpec => []IsoFindsIts
<1>1. DevInit => IsoFindsIts
  BY DEF DevInit, I!IsoInit, IsoFindsIts, I!IsoFindsIts
<1>2. IsoFindsIts /\ [DevNext]_vars => IsoFindsIts'
  BY IsoStep
<1>. QED  BY <1>1, <1>2, PTL DEF DevSpec
=============================================================================
