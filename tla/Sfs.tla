-------------------------------- MODULE Sfs ---------------------------------
(***************************************************************************)
(* kernel/fs/sfs.c: the file system SFS.                                   *)
(*                                                                         *)
(* A volume has a table that gives each sector the id of the file it       *)
(* belongs to (0: free), and a file table that gives each id a name.  The  *)
(* driver keeps one copy of both in memory, for all volumes together, and  *)
(* writes a table back as a whole sector.  Every sector written is a step; *)
(* between any two the power may go, which loses what is in memory.        *)
(*                                                                         *)
(* A path is a sequence of names; a content is a sequence of blocks of 512 *)
(* bytes, the last one not full.                                           *)
(***************************************************************************)
EXTENDS Integers, Sequences, FiniteSets

CONSTANTS
  Volumes,     (* the devices that hold a volume                           *)
  Names,       (* file names                                               *)
  Dotted,      (* those with a dot                                         *)
  Paths,       (* the paths programs use                                   *)
  Contents,    (* what they write                                          *)
  Blocks,      (* the blocks contents consist of                           *)
  NumSectors,  (* 512 in the code                                          *)
  NumEntries,  (* SFS_FILE_TABLE_ENTRIES                                   *)
  NoName, Blank

VARIABLES
  disk,        (* per volume: both tables and the data of the sectors      *)
  filetable, tabletable,   (* the copy of the tables in memory             *)
  pathbuffer,  (* the name sfs_get_detail found last                       *)
  mounted,     (* the devices whose function pointers are set              *)
  pc,          (* where sfs_write stands                                   *)
  job,         (* its volume, name, content and id; whether all of it fits *)
  i, sectoroffsettemp,     (* its loop over the sectors                    *)
  promised     (* per name: the last content written to it, or <<>>        *)

vars == <<disk, filetable, tabletable, pathbuffer, mounted, pc, job, i, sectoroffsettemp, promised>>

Sectors == 0 .. NumSectors - 1
Reserved == 0 .. 2
Entries == 1 .. NumEntries
Ids == 0 .. NumEntries + 2
Unused == [name |-> NoName, id |-> 0]

EmptyFiles == [e \in Entries |-> Unused]
NoTable == [s \in Sectors |-> 0]
(* A new volume; whether the first sectors are marked is up to the tool    *)
(* that made it.                                                           *)
Formatted(mark) ==
  [table |-> [s \in Sectors |-> IF s \in Reserved THEN mark ELSE 0],
   files |-> EmptyFiles,
   data |-> [s \in Sectors |-> Blank]]
NoJob == [volume |-> NoName, name |-> NoName, content |-> <<>>, id |-> 0, fits |-> FALSE]

TypeOK ==
  /\ disk \in [Volumes -> [table : [Sectors -> Ids],
                           files : [Entries -> [name : Names \union {NoName}, id : Ids]],
                           data : [Sectors -> Blocks \union {Blank}]]]
  /\ filetable \in [Entries -> [name : Names \union {NoName}, id : Ids]]
  /\ tabletable \in [Sectors -> Ids]
  /\ pathbuffer \in Names \union {NoName}
  /\ mounted \subseteq Volumes
  /\ pc \in {"idle", "files", "table", "data"}
  /\ job \in {NoJob} \union [volume : Volumes, name : Names, content : Contents, id : Ids,
                              fits : BOOLEAN]
  /\ i \in 0 .. NumSectors /\ sectoroffsettemp \in 0 .. 255
  /\ promised \in [Volumes -> [Names -> Contents \union {<<>>}]]

Init ==
  /\ \E mark \in {0, 1} : disk = [v \in Volumes |-> Formatted(mark)]
  /\ filetable = EmptyFiles /\ tabletable = NoTable
  /\ pathbuffer = NoName
  /\ mounted = {}
  /\ pc = "idle" /\ job = NoJob /\ i = 0 /\ sectoroffsettemp = 0
  /\ promised = [v \in Volumes |-> [n \in Names |-> <<>>]]

-----------------------------------------------------------------------------
Named(name) == {e \in Entries : filetable[e].name = name}
Lowest(S) == CHOOSE x \in S : \A y \in S : x <= y

(* sfs_get_detail walks the path as long as the names have no dot and      *)
(* exist; an empty path leaves the name of the call before.                *)
EndsPath(path, k) == path[k] \in Dotted \/ Named(path[k]) = {} \/ k = Len(path)
sfs_get_detail(path) ==
  IF path = <<>> THEN pathbuffer
  ELSE path[Lowest({k \in 1 .. Len(path) : EndsPath(path, k)})]

(* The id of a name in memory; 0 when there is none.                       *)
IdOf(name) == IF Named(name) = {} THEN 0 ELSE filetable[Lowest(Named(name))].id

(* Mutant: the number is counted up once too often.                        *)
FreeId_OneMore == 1 + Lowest({n \in 2 .. NumEntries + 2 : \A e \in Entries : filetable[e].id # n})

FreeId == Lowest({n \in 2 .. NumEntries + 2 : \A e \in Entries : filetable[e].id # n})
FreeEntries == {e \in Entries : filetable[e].id = 0}

(* sfs_new_file: an id that no entry has, and the first free entry, if any *)
WithNew(name) ==
  IF FreeEntries = {} THEN filetable
  ELSE [filetable EXCEPT ![Lowest(FreeEntries)] = [name |-> name, id |-> FreeId]]

Without(table, id) == [s \in Sectors |-> IF table[s] = id THEN 0 ELSE table[s]]

(* The first n free sectors from the third on are given to the file.       *)
Give(table, id, n) ==
  LET free == {s \in 3 .. NumSectors - 1 : table[s] = 0}
  IN  [s \in Sectors |-> IF s \in free /\ Cardinality({r \in free : r < s}) < n
                         THEN id ELSE table[s]]

(* History: there is an entry and there are sectors for all of a content.  *)
FreeSectors(table) == {s \in 3 .. NumSectors - 1 : table[s] = 0}
Fits(name, content) ==
  /\ Named(name) # {} \/ FreeEntries # {}
  /\ Cardinality(FreeSectors(IF Named(name) = {} THEN tabletable ELSE Without(tabletable, IdOf(name))))
       >= Len(content)

Reallocated(id, content) == Give(Without(tabletable, id), id, Len(content))

(* The sectors of a file are read in the order of the table.               *)
SectorsOf(table, id) == {s \in Sectors : table[s] = id}
NthSector(table, id, n) ==
  CHOOSE s \in SectorsOf(table, id) : Cardinality({r \in SectorsOf(table, id) : r < s}) = n - 1
FileContent(v, id) ==
  [n \in 1 .. Cardinality(SectorsOf(tabletable, id)) |-> disk[v].data[NthSector(tabletable, id, n)]]

-----------------------------------------------------------------------------
(* initialiseSFS: the tables in memory are those of this volume now.       *)
initialiseSFS(v) ==
  /\ pc = "idle"
  /\ v \notin mounted
  /\ filetable' = disk[v].files /\ tabletable' = disk[v].table
  /\ mounted' = mounted \union {v}
  /\ UNCHANGED <<disk, pathbuffer, pc, job, i, sectoroffsettemp, promised>>

(* sfs_write: the name is looked up, or made in memory.                    *)
WriteBegin(v, path, content) ==
  /\ pc = "idle"
  /\ v \in mounted
  /\ LET name == sfs_get_detail(path)
         id == IF Named(name) = {} THEN FreeId ELSE IdOf(name)
     IN  /\ pathbuffer' = name
         /\ job' = [volume |-> v, name |-> name, content |-> content, id |-> id,
                    fits |-> Fits(name, content)]
         /\ promised' = [promised EXCEPT ![v][name] = <<>>]
         /\ IF Named(name) # {}
            THEN /\ tabletable' = Reallocated(id, content)
                 /\ pc' = "table"
                 /\ UNCHANGED filetable
            ELSE /\ filetable' = WithNew(name)
                 /\ pc' = "files"
                 /\ UNCHANGED tabletable
  /\ UNCHANGED <<disk, mounted, i, sectoroffsettemp>>

(* sfs_new_file writes the file table; then sectors are given in memory.   *)
PutFiles ==
  /\ pc = "files"
  /\ disk' = [disk EXCEPT ![job.volume].files = filetable]
  /\ tabletable' = Reallocated(job.id, job.content)
  /\ pc' = "table"
  /\ UNCHANGED <<filetable, pathbuffer, mounted, job, i, sectoroffsettemp, promised>>

(* Mutant: the table of sectors is not written back.                       *)
PutTable_Not ==
  /\ pc = "table"
  /\ pc' = "data" /\ i' = 0 /\ sectoroffsettemp' = 0
  /\ UNCHANGED <<disk, filetable, tabletable, pathbuffer, mounted, job, promised>>

PutTable ==
  /\ pc = "table"
  /\ disk' = [disk EXCEPT ![job.volume].table = tabletable]
  /\ pc' = "data" /\ i' = 0 /\ sectoroffsettemp' = 0
  /\ UNCHANGED <<filetable, tabletable, pathbuffer, mounted, job, promised>>

(* The next sector of the file gets the block at sectoroffsettemp, an      *)
(* unsigned char that 512 is added to.                                     *)
PutData ==
  /\ pc = "data"
  /\ i < NumSectors
  /\ tabletable[i] = job.id
  /\ disk' = [disk EXCEPT ![job.volume].data[i] = job.content[1 + sectoroffsettemp \div 512]]
  /\ sectoroffsettemp' = (sectoroffsettemp + 512) % 256
  /\ i' = i + 1
  /\ UNCHANGED <<filetable, tabletable, pathbuffer, mounted, pc, job, promised>>

SkipSector ==
  /\ pc = "data"
  /\ i < NumSectors
  /\ tabletable[i] # job.id
  /\ i' = i + 1
  /\ UNCHANGED <<disk, filetable, tabletable, pathbuffer, mounted, pc, job, sectoroffsettemp, promised>>

(* sfs_write returns 1, whatever it found room for.                        *)
WriteReturn ==
  /\ pc = "data"
  /\ i = NumSectors
  /\ promised' = [promised EXCEPT ![job.volume][job.name] = IF job.fits THEN job.content ELSE <<>>]
  /\ pc' = "idle" /\ job' = NoJob /\ i' = 0 /\ sectoroffsettemp' = 0
  /\ UNCHANGED <<disk, filetable, tabletable, pathbuffer, mounted>>

sfs_write == PutFiles \/ PutTable \/ PutData \/ SkipSector \/ WriteReturn

(* sfs_read, sfs_exists and sfs_dir change nothing but the name buffer.    *)
Lookup(v, path) ==
  /\ pc = "idle"
  /\ v \in mounted
  /\ pathbuffer' = sfs_get_detail(path)
  /\ UNCHANGED <<disk, filetable, tabletable, mounted, pc, job, i, sectoroffsettemp, promised>>

(* The power goes: the memory is lost.                                     *)
PowerLoss ==
  /\ filetable' = EmptyFiles /\ tabletable' = NoTable /\ pathbuffer' = NoName
  /\ mounted' = {}
  /\ pc' = "idle" /\ job' = NoJob /\ i' = 0 /\ sectoroffsettemp' = 0
  /\ UNCHANGED <<disk, promised>>

Next ==
  \/ sfs_write
  \/ PowerLoss
  \/ \E v \in Volumes :
       \/ initialiseSFS(v)
       \/ \E p \in Paths : Lookup(v, p) \/ \E c \in Contents : WriteBegin(v, p, c)

Spec == Init /\ [][Next]_vars

-----------------------------------------------------------------------------
(* What sfs_read gives once the path has been walked to a name; nothing    *)
(* when there is no such name.                                             *)
sfs_read(v, name) == IF Named(name) = {} THEN <<>> ELSE FileContent(v, IdOf(name))

(* Once sfs_write has written a content it had room for, a read of the     *)
(* same name gives as many blocks and the same first block - all of a file *)
(* of one block - whatever other files and paths are written, whether or   *)
(* not they fit, however far a write has come, however often power goes.   *)
(* The sectors after the first get the first block again: their offset is  *)
(* kept in an unsigned char (sfs.c:219).                                   *)
ReadBack ==
  \A v \in mounted, n \in Names :
    LET content == promised[v][n]
    IN  content # <<>> => /\ Len(sfs_read(v, n)) = Len(content)
                          /\ sfs_read(v, n)[1] = content[1]

(* Between calls, the tables in memory are those on the volume.            *)
MemoryMatchesDisk ==
  \A v \in mounted :
    pc = "idle" => filetable = disk[v].files /\ tabletable = disk[v].table
=============================================================================
