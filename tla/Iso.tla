-------------------------------- MODULE Iso ---------------------------------
(***************************************************************************)
(* kernel/fs/iso9660.c: files and directories of a CD.                     *)
(*                                                                         *)
(* The directories of a CD stand in its path table, each with its name and *)
(* the number of its parent, the root first.  The driver walks down the    *)
(* path from the root.  The sector of the last directory found stands in   *)
(* the global dummy, and it is there that a file is looked for - also when *)
(* the path has no directory, or one that does not exist.                  *)
(*                                                                         *)
(* A file is looked for by the ";1" that ends each name, in the first      *)
(* bytes of the sector only, and from there back to the byte with the      *)
(* length of the name.  As many characters are compared as the name on the *)
(* disc has: the one asked for may be longer, and the first file it begins *)
(* with is taken.                                                          *)
(***************************************************************************)
LOCAL INSTANCE Naturals
LOCAL INSTANCE Sequences

CONSTANTS
  PathTable,   (* sequence of name and parent of each directory            *)
  FilesOf,     (* per directory: the files in its first sector, with name, *)
               (* length of the name and byte where its ";1" stands        *)
  Begins,      (* per name: those it begins with, itself among them        *)
  IsoPaths,    (* directories and file of a path                           *)
  Scanned,     (* directories looked at: 20 in the code                    *)
  ScannedBytes,  (* of the sector of files: 1000 of 2048 in the code       *)
  LongestName    (* whose length byte is found: 28 in the code             *)

VARIABLES
  dummy,       (* the directory found last, 0 at first                     *)
  answer       (* history: the path looked for last, the directory it was  *)
               (* looked for in and the file found there                   *)

isoVars == <<dummy, answer>>

Nowhere == 0
TheRoot == 1

(* The first of the entries looked at with this name and parent.           *)
Child(parent, name) ==
  LET found == {d \in 1 .. Len(PathTable) : d <= Scanned /\ PathTable[d].parent = parent /\ PathTable[d].name = name}
  IN  IF found = {} THEN Nowhere ELSE CHOOSE d \in found : \A e \in found : d <= e

(* iso_9660_target: from the root, or from nowhere once a name is missing. *)
Walk(dirs) ==
  LET at[k \in 0 .. Len(dirs)] ==
        IF k = 0 THEN TheRoot ELSE IF at[k - 1] = Nowhere THEN Nowhere ELSE Child(at[k - 1], dirs[k])
  IN  at[Len(dirs)]

(* Mutant: dummy is kept when it is set already.                           *)
iso_9660_target_Once(path) ==
  dummy' = IF path.dirs = <<>> \/ Walk(path.dirs) = Nowhere \/ dummy # Nowhere THEN dummy ELSE Walk(path.dirs)

iso_9660_target(path) ==
  dummy' = IF path.dirs = <<>> \/ Walk(path.dirs) = Nowhere THEN dummy ELSE Walk(path.dirs)

IsoInit == dummy = Nowhere /\ answer = <<>>

(* The files of directory d that are looked at, and those the name begins  *)
(* with.                                                                   *)
Seen(d) == {e \in DOMAIN FilesOf[d] : FilesOf[d][e].mark < ScannedBytes /\ FilesOf[d][e].length <= LongestName}
Alike(d, name) == {e \in Seen(d) : FilesOf[d][e].name \in Begins[name]}

NoEntry == 0
Found(d, name) ==
  IF d \notin DOMAIN PathTable \/ Alike(d, name) = {} THEN NoEntry
  ELSE CHOOSE e \in Alike(d, name) : \A o \in Alike(d, name) : e <= o

(* The file is looked for in the directory of dummy.                       *)
Finds(path) ==
  /\ iso_9660_target(path)
  /\ answer' = <<path, dummy', Found(dummy', path.file)>>

iso_9660_exists(path) == Finds(path)
iso_9660_read(path) == Finds(path)
iso_9660_dir(path) == iso_9660_target(path) /\ UNCHANGED answer

IsoPowerLoss == dummy' = Nowhere /\ answer' = <<>>

-----------------------------------------------------------------------------
(* A file in a directory that exists is looked for in that directory, what-*)
(* ever was looked for before: what is found there is a file whose name    *)
(* the one asked for begins with; it is the file itself, or one before it, *)
(* if that is looked at; and nothing is found only if no name is such a    *)
(* beginning.  Of a file in the root, or in a directory that does not exist,*)
(* this is not so: it is looked for in the directory found last            *)
(* (iso9660.c:201,248).                                                    *)
IsoFindsIts ==
  answer # <<>> =>
    LET name == answer[1].file
        d == Walk(answer[1].dirs)
        found == answer[3]
    IN  answer[1].dirs # <<>> /\ d \in DOMAIN PathTable =>
          /\ answer[2] = d
          /\ found # NoEntry => found \in Seen(d) /\ FilesOf[d][found].name \in Begins[name]
          /\ \A e \in Seen(d) : FilesOf[d][e].name = name => found \in 1 .. e
          /\ found = NoEntry => \A e \in Seen(d) : FilesOf[d][e].name \notin Begins[name]
=============================================================================
