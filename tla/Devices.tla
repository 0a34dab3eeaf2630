------------------------------ MODULE Devices -------------------------------
(***************************************************************************)
(* kernel/dev/device.c and kernel/fs/mbr.c: at boot the drives are probed, *)
(* a file system is tried on each of their partitions, and each gets the   *)
(* next place in a table, its letter.  Calls go to the file system of the  *)
(* letter.  After the power went the machine boots again.                  *)
(*                                                                         *)
(* This module composes Sfs, Fat and Iso: a call to one of them is made by *)
(* the letter of its device only, and one at a time.                       *)
(*                                                                         *)
(* A drive is a CD, or a disk with the sequence of its partitions; one of  *)
(* type "efi" has a table of its own behind it.                            *)
(***************************************************************************)
EXTENDS Integers, Sequences, SequencesExt

CONSTANTS
  Machines,    (* sequences of drives                                      *)
  DeviceSlots, (* places in the table: 25 in the code                      *)
  Volumes, Names, Dotted, Paths, Contents, Blocks, NumSectors, NumEntries, NoName, Blank,
  FatVolumes, Begins, FatPaths, FatContents, Directory, DataSectors, Initial,
  PathTable, FilesOf, IsoPaths, Scanned, ScannedBytes, LongestName

ASSUME NamesAssumption == Dotted \subseteq Names /\ NoName \notin Names /\ Paths \subseteq Seq(Names)
ASSUME ContentsAssumption == Contents \subseteq Seq(Blocks) \ {<<>>} /\ Blank \notin Blocks
ASSUME SizesAssumption == NumSectors \in Nat /\ NumSectors > 3 /\ NumEntries \in Nat \ {0}
ASSUME FatAssumption ==
  /\ DataSectors \in Nat /\ Initial \in [1 .. DataSectors -> Blocks]
  /\ FatContents \subseteq Seq(Blocks) \ {<<>>}
  /\ Directory \in Seq([name : DOMAIN Begins, isDir : BOOLEAN, start : 0 .. DataSectors, size : Nat])
ASSUME CdAssumption ==
  /\ \A n \in DOMAIN Begins : n \in Begins[n]
  /\ PathTable \in Seq([name : DOMAIN Begins \cup {NoName}, parent : Nat]) /\ Len(FilesOf) = Len(PathTable)
  /\ FilesOf \in Seq(Seq([name : DOMAIN Begins, length : Nat, mark : Nat]))

VARIABLES
  machine,     (* the drives, in the order they are probed                 *)
  drive, entry,(* the partition looked at                                  *)
  devices,     (* the table: file system, volume, and whether it is written*)
  halted,      (* the processor has                                        *)
  disk, filetable, tabletable, pathbuffer, mounted, pc, job, i, sectoroffsettemp, promised,
  fatDisk, fatMounted, lastDir, lastIndex, fatPc, fatJob, kept, old,
  dummy, answer

S == INSTANCE Sfs
F == INSTANCE Fat
I == INSTANCE Iso

sfs == <<disk, filetable, tabletable, pathbuffer, mounted, pc, job, i, sectoroffsettemp, promised>>
fat == <<fatDisk, fatMounted, lastDir, lastIndex, fatPc, fatJob, kept, old>>
iso == <<dummy, answer>>
table == <<machine, drive, entry, devices, halted>>
vars == <<table, sfs, fat, iso>>

Known == {"sfs", "fat", "linux", "efi"}

(* detectFilesystemsOnMBR: the partitions that become devices, in order.   *)
(* A disk without a known type is taken for one that is a FAT as a whole.  *)
Partitions(d) ==
  LET known == SelectSeq(d.partitions, LAMBDA p : p.type \in Known)
      inside(p) == IF p.type = "efi" THEN SelectSeq(p.inside, LAMBDA q : q.type \in {"fat", "linux"}) ELSE <<p>>
  IN  IF d.kind = "cd" THEN <<[type |-> "cd", volume |-> NoName]>>
      ELSE IF known = <<>> THEN <<[type |-> "legacy", volume |-> d.whole]>>
      ELSE FlattenSeq([k \in 1 .. Len(known) |-> inside(known[k])])

(* The volumes of SFS partitions on a machine.                             *)
SfsVolumes(m) ==
  UNION {{Partitions(m[k])[e].volume : e \in {e \in DOMAIN Partitions(m[k]) : Partitions(m[k])[e].type = "sfs"}}
         : k \in DOMAIN m}

ASSUME MachinesAssumption ==
  \A m \in Machines :
    /\ m \in Seq(Range(m)) /\ \A k \in DOMAIN m : Partitions(m[k]) \in Seq(Range(Partitions(m[k])))
    /\ SfsVolumes(m) \subseteq Volumes

(* What the properties below rest on: the tables of SFS in memory are of   *)
(* one volume, and a machine has no other; a write to it is of a file that *)
(* has a name; the files of a FAT at first are of one block.               *)
OneSfsVolume == \A m \in Machines : \A v, w \in SfsVolumes(m) : v = w
NamedPaths == <<>> \notin Paths
OneBlockFiles ==
  \A e \in 1 .. Len(Directory) : Directory[e].isDir \/ Directory[e].start = 0 \/ Directory[e].size = 1

DevInit ==
  /\ machine \in Machines /\ drive = 1 /\ entry = 1 /\ devices = <<>> /\ halted = FALSE
  /\ S!Init /\ F!FatInit(Initial) /\ I!IsoInit

Probing == drive <= Len(machine) /\ ~halted
Running == drive > Len(machine)
Idle == pc = "idle" /\ fatPc = "idle"

(* A place is taken whether or not there is a file system to serve it.     *)
getNextFreeDevice(fs, volume, writes) ==
  /\ Len(devices) < DeviceSlots
  /\ devices' = Append(devices, [fs |-> fs, volume |-> volume, writes |-> writes])

(* It reads the volume and sets no function.                               *)
initialiseExt2(volume) == getNextFreeDevice("none", volume, FALSE)

Detect ==
  LET parts == Partitions(machine[drive])
      p == parts[entry]
  IN
    /\ Probing /\ entry <= Len(parts)
    /\ entry' = entry + 1
    /\ \/ p.type = "sfs" /\ getNextFreeDevice("sfs", p.volume, TRUE) /\ S!initialiseSFS(p.volume)
          /\ UNCHANGED <<fat, iso, halted>>
       \/ p.type \in {"fat", "legacy"} /\ p.volume \in FatVolumes
          /\ getNextFreeDevice("fat", p.volume, p.type = "fat") /\ F!initialiseFAT(p.volume)
          /\ UNCHANGED <<sfs, iso, halted>>
       \* a blank disk: initialiseFAT divides by the size of a sector
       \/ p.type = "legacy" /\ p.volume \notin FatVolumes /\ halted' = TRUE
          /\ UNCHANGED <<devices, sfs, fat, iso>>
       \/ p.type = "linux" /\ initialiseExt2(p.volume)
          /\ UNCHANGED <<sfs, fat, iso, halted>>
       \/ p.type = "cd" /\ getNextFreeDevice("iso", p.volume, FALSE)
          /\ UNCHANGED <<sfs, fat, iso, halted>>
    /\ UNCHANGED <<machine, drive>>

NextDrive ==
  /\ Probing /\ entry > Len(Partitions(machine[drive]))
  /\ drive' = drive + 1 /\ entry' = 1
  /\ UNCHANGED <<machine, devices, halted, sfs, fat, iso>>

-----------------------------------------------------------------------------
(* fwrite, with the letter's place in the table.                           *)
fwrite(z) ==
  LET d == devices[z] IN
    /\ Running /\ Idle /\ d.writes
    /\ \/ d.fs = "sfs" /\ (\E p \in Paths, c \in Contents : S!WriteBegin(d.volume, p, c)) /\ UNCHANGED <<fat, iso>>
       \/ d.fs = "fat" /\ (\E p \in FatPaths, c \in FatContents : F!fat_write(d.volume, p, c)) /\ UNCHANGED <<sfs, iso>>
    /\ UNCHANGED table

(* fexists, fread and dir.                                                 *)
fread(z) ==
  LET d == devices[z] IN
    /\ Running /\ Idle
    /\ \/ d.fs = "sfs" /\ (\E p \in Paths : S!Lookup(d.volume, p)) /\ UNCHANGED <<fat, iso>>
       \/ d.fs = "fat" /\ (\E p \in FatPaths : F!FatLookup(d.volume, p)) /\ UNCHANGED <<sfs, iso>>
       \/ d.fs = "iso" /\ (\E p \in IsoPaths : I!iso_9660_exists(p) \/ I!iso_9660_read(p) \/ I!iso_9660_dir(p)) /\ UNCHANGED <<sfs, fat>>
    /\ UNCHANGED table

Writing ==
  /\ \/ S!sfs_write /\ UNCHANGED <<fat, iso>>
     \/ F!FatWriting /\ UNCHANGED <<sfs, iso>>
  /\ UNCHANGED table

PowerLoss ==
  /\ drive' = 1 /\ entry' = 1 /\ devices' = <<>> /\ halted' = FALSE
  /\ S!PowerLoss /\ F!FatPowerLoss /\ I!IsoPowerLoss
  /\ UNCHANGED machine

DevNext ==
  \/ Detect \/ NextDrive \/ Writing \/ PowerLoss
  \/ \E z \in DOMAIN devices : fwrite(z) \/ fread(z)

DevSpec == DevInit /\ [][DevNext]_vars

-----------------------------------------------------------------------------
(* The properties of the file systems, for files written and read by the   *)
(* letter of their volume: each is stated in its module.                   *)
ReadBack == S!ReadBack
MemoryMatchesDisk == S!MemoryMatchesDisk
FatReadBack == F!FatReadBack
SizeBeforeData == F!SizeBeforeData
IsoFindsIts == I!IsoFindsIts
=============================================================================
