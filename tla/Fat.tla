-------------------------------- MODULE Fat ---------------------------------
(***************************************************************************)
(* kernel/fs/fat.c: files of a FAT volume, found in the first sector of    *)
(* its root directory, read and written in place.                          *)
(*                                                                         *)
(* A write puts the new size in the directory and then as many sectors on  *)
(* the disk as the content has, one behind the other: no cluster is        *)
(* allocated and no file made.  A read gives the first sector.  Between    *)
(* any two sectors the power may go.                                       *)
(*                                                                         *)
(* A path is a sequence of names of at most eleven characters, a content a *)
(* sequence of blocks; one of a multiple of 512 bytes has a last block     *)
(* more, of what stands behind the buffer.  A directory other than the     *)
(* root is a sector like any other: its entries are never looked at,       *)
(* because the second name of a path is put behind the first in the buffer *)
(* it is compared with, where the first character stays empty.             *)
(***************************************************************************)
LOCAL INSTANCE Naturals
LOCAL INSTANCE Sequences

CONSTANTS
  FatVolumes,  (* the volumes                                              *)
  Begins,      (* per name: those it begins with, which all stand for it   *)
  FatPaths, FatContents,
  Blocks, Blank,
  Directory,   (* the root directory: name, isDir, start, size per entry   *)
  DataSectors  (* the sectors behind it, from 1                            *)

VARIABLES
  fatDisk,     (* per volume: entries of the root, content of the sectors  *)
  fatMounted,  (* volumes with their functions set                         *)
  lastDir, lastIndex,  (* last_dir_sector, last_file_selected_index        *)
  fatPc, fatJob,       (* where fat_write stands, and with what            *)
  \* the rest is history
  kept,        (* per path: the content it must still have; <<>>: none     *)
  old          (* what the file had when the last write to it began        *)

fatVars == <<fatDisk, fatMounted, lastDir, lastIndex, fatPc, fatJob, kept, old>>

Root == 0        (* the sector of the root directory, "none" below it      *)
NotFound == DataSectors + 1
Behind == Len(Directory) + 1   (* an entry behind the sector *)
NoFatJob == [volume |-> Blank, path |-> <<>>, start |-> Root, content |-> <<>>, next |-> 1]

Matching(entries, name) == {e \in 1 .. Len(entries) : name \in Begins[entries[e].name]}
First(S) == CHOOSE e \in S : \A f \in S : e <= f

(* fat_get_first_sector_of_file: the first entry that matches; an empty    *)
(* file has no sector, a path of more names finds none, one without any is *)
(* the root.                                                               *)
SectorOf(v, path) ==
  LET m == IF path = <<>> THEN {} ELSE Matching(fatDisk[v].root, path[1]) IN
    IF path = <<>> THEN Root
    ELSE IF m = {} \/ Len(path) > 1 THEN NotFound
    ELSE LET start == fatDisk[v].root[First(m)].start
         IN  IF start = 0 THEN NotFound ELSE start

(* What it leaves in its global variables.                                 *)
Looks(v, path) ==
  LET m == IF path = <<>> THEN {} ELSE Matching(fatDisk[v].root, path[1])
      e == fatDisk[v].root[First(m)]
  IN
    /\ lastIndex' = IF path = <<>> THEN lastIndex ELSE IF m = {} \/ Len(path) > 1 THEN Behind ELSE First(m)
    /\ lastDir' = IF m # {} /\ e.isDir THEN e.start ELSE Root

FirstContent(v, path) ==
  LET s == SectorOf(v, path) IN IF s \in {Root, NotFound} THEN <<>> ELSE <<fatDisk[v].data[s]>>

FatInit(initial) ==
  /\ fatDisk = [v \in FatVolumes |-> [root |-> Directory, data |-> initial]]
  /\ fatMounted = {} /\ lastDir = Root /\ lastIndex = 1
  /\ fatPc = "idle" /\ fatJob = NoFatJob
  /\ kept = [v \in FatVolumes |-> [p \in FatPaths |-> FirstContent(v, p)]]
  /\ old = [v \in FatVolumes |-> <<>>]

(* The boot sector says where the root is.                                 *)
initialiseFAT(v) ==
  /\ fatPc = "idle"
  /\ fatMounted' = fatMounted \union {v}
  /\ UNCHANGED <<fatDisk, lastDir, lastIndex, fatPc, fatJob, kept, old>>

(* fat_exists, fat_read and fat_dir.                                       *)
FatLookup(v, path) ==
  /\ fatPc = "idle" /\ v \in fatMounted
  /\ Looks(v, path)
  /\ UNCHANGED <<fatDisk, fatMounted, fatPc, fatJob, kept, old>>

(* A write of n sectors from s on touches the file that a path names.      *)
Touches(v, s, n, path) == s = Root \/ SectorOf(v, path) \in s .. s + n - 1

fat_write(v, path, content) ==
  LET s == SectorOf(v, path) IN
    /\ fatPc = "idle" /\ v \in fatMounted
    /\ Looks(v, path)
    /\ IF s = NotFound THEN UNCHANGED <<fatPc, fatJob, kept, old>>
       ELSE
         /\ fatPc' = "size"
         /\ fatJob' = [volume |-> v, path |-> path, start |-> s, content |-> content, next |-> 1]
         /\ kept' = [kept EXCEPT ![v] = [p \in FatPaths |-> IF Touches(v, s, Len(content), p) THEN <<>> ELSE @[p]]]
         /\ old' = [old EXCEPT ![v] = FirstContent(v, path)]
    /\ UNCHANGED <<fatDisk, fatMounted>>

(* Mutant: the directory is not written back.                              *)
PutSize_Not ==
  /\ fatPc = "size" /\ fatPc' = "data"
  /\ UNCHANGED <<fatDisk, fatMounted, lastDir, lastIndex, fatJob, kept, old>>

(* The sector of the directory is read, given the size, and written.  That *)
(* of another directory than the root is the directory written to.         *)
PutSize ==
  LET v == fatJob.volume IN
    /\ fatPc = "size" /\ fatPc' = "data"
    /\ fatDisk' =
         IF lastDir # Root THEN [fatDisk EXCEPT ![v].data[lastDir] = Blank]
         ELSE IF lastIndex \in DOMAIN fatDisk[v].root
         THEN [fatDisk EXCEPT ![v].root[lastIndex].size = Len(fatJob.content)]
         ELSE fatDisk
    /\ UNCHANGED <<fatMounted, lastDir, lastIndex, fatJob, kept, old>>

(* Mutant: the data goes one sector too far.                               *)
PutBlock_Next ==
  LET v == fatJob.volume
      s == fatJob.start + fatJob.next
  IN
    /\ fatPc = "data" /\ fatJob.next <= Len(fatJob.content)
    /\ fatDisk' = IF s > DataSectors THEN fatDisk ELSE [fatDisk EXCEPT ![v].data[s] = fatJob.content[fatJob.next]]
    /\ fatJob' = [fatJob EXCEPT !.next = @ + 1]
    /\ UNCHANGED <<fatMounted, lastDir, lastIndex, fatPc, kept, old>>

(* A file's bytes over the root leave no entry there.                      *)
PutBlock ==
  LET v == fatJob.volume
      s == fatJob.start + fatJob.next - 1
  IN
    /\ fatPc = "data" /\ fatJob.next <= Len(fatJob.content)
    /\ fatDisk' =
         IF s = Root THEN [fatDisk EXCEPT ![v].root = <<>>]
         ELSE IF s > DataSectors THEN fatDisk
         ELSE [fatDisk EXCEPT ![v].data[s] = fatJob.content[fatJob.next]]
    /\ fatJob' = [fatJob EXCEPT !.next = @ + 1]
    /\ UNCHANGED <<fatMounted, lastDir, lastIndex, fatPc, kept, old>>

FatWritten ==
  /\ fatPc = "data" /\ fatJob.next > Len(fatJob.content)
  /\ kept' = IF fatJob.start = Root THEN kept
             ELSE [kept EXCEPT ![fatJob.volume][fatJob.path] = fatJob.content]
  /\ fatPc' = "idle" /\ fatJob' = NoFatJob
  /\ UNCHANGED <<fatDisk, fatMounted, lastDir, lastIndex, old>>

FatWriting == PutSize \/ PutBlock \/ FatWritten

FatPowerLoss ==
  /\ fatMounted' = {} /\ lastDir' = Root /\ lastIndex' = 1
  /\ fatPc' = "idle"
  /\ UNCHANGED <<fatDisk, fatJob, kept, old>>

-----------------------------------------------------------------------------
(* What fat_read gives: one sector.                                        *)
fat_read(v, path) == FirstContent(v, path)
EntryOf(v, path) == fatDisk[v].root[First(Matching(fatDisk[v].root, path[1]))]
SizeOf(v, path) == EntryOf(v, path).size
IsDirectory(v, path) == EntryOf(v, path).isDir

(* A file that was on the volume, or that a write has come back for, is    *)
(* read back by its path, with that size in the directory - also after the *)
(* power went in a write of another file - unless a longer write of a file *)
(* before it, or a write without a name, went over it (fat.c:208-236).     *)
(* A directory that is written to has no size.                             *)
FatReadBack ==
  \A v \in FatVolumes, p \in FatPaths :
    kept[v][p] # <<>> =>
      /\ fat_read(v, p) = <<kept[v][p][1]>>
      /\ SizeOf(v, p) = Len(kept[v][p]) \/ IsDirectory(v, p)

(* The directory is written before the data: when the power has gone in a  *)
(* write, new data never stands under an old size (fat.c:233-235).         *)
SizeBeforeData ==
  LET v == fatJob.volume
      p == fatJob.path
      new == <<fatJob.content[1]>>
  IN
    fatJob # NoFatJob /\ fatJob.start # Root =>
      (fat_read(v, p) = new /\ new # old[v] => SizeOf(v, p) = Len(fatJob.content) \/ IsDirectory(v, p))
=============================================================================
