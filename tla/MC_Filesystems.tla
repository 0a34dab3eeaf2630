--------------------------- MODULE MC_Filesystems ---------------------------
(* Instances of Devices for TLC: machines with one or two drives.          *)
EXTENDS Devices

CONSTANTS f, g, sub, x, y, read, readme, long, v1, w1, w2

Part(type, volume) == [type |-> type, volume |-> volume]
Disk(partitions, whole) == [kind |-> "disk", partitions |-> partitions, whole |-> whole]
Cd == [kind |-> "cd"]
Gpt(inside) == [type |-> "efi", inside |-> inside]

(* An SFS volume behind a Linux partition; a FAT volume in a GUID table,   *)
(* one that is a whole disk, with a CD; a blank disk.                      *)
SomeMachines ==
  {<<Disk(<<Part("other", w1), Part("linux", w2), Part("sfs", v1)>>, w2)>>,
   <<Disk(<<Gpt(<<Part("linux", w2), Part("fat", w1)>>)>>, w2)>>,
   <<Disk(<<>>, w1), Cd>>,
   <<Disk(<<Part("fat", w1)>>, w2), Disk(<<>>, w2)>>}

(* Two files in the first directory, one in a directory that may not exist. *)
SomePaths == {<<f>>, <<g>>, <<sub, f>>}
(* Contents of one block and of two.                                       *)
SomeContents == {<<x>>, <<y, x>>}

(* On the disk g begins with f, on the CD readme with read.                *)
SomeBegins ==
  [n \in {f, g, sub, read, readme, long} |->
     IF n = g THEN {f, g} ELSE IF n = readme THEN {read, readme} ELSE {n}]
SomeDirectory ==
  <<[name |-> sub, isDir |-> TRUE, start |-> 1, size |-> 0],
    [name |-> g, isDir |-> FALSE, start |-> 2, size |-> 1],
    [name |-> f, isDir |-> FALSE, start |-> 3, size |-> 1]>>
SomeFatPaths == {<<>>, <<f>>, <<g>>, <<sub>>, <<sub, f>>}
SomeData == <<y, x, y>>

(* The root, two directories in it, one in the first.  Of the files two    *)
(* are not looked at: one stands too far behind, the other's name is long. *)
SomeTable == <<[name |-> NoName, parent |-> 1], [name |-> f, parent |-> 1],
               [name |-> g, parent |-> 1], [name |-> sub, parent |-> 2]>>
At(name, length, mark) == [name |-> name, length |-> length, mark |-> mark]
SomeFiles ==
  <<<<At(readme, 10, 110)>>,
    <<At(read, 8, 110), At(readme, 10, 150), At(long, 29, 200)>>,
    <<>>,
    <<At(readme, 10, 990), At(read, 8, 1030)>>>>
SomeIsoPaths ==
  {[dirs |-> d, file |-> n] : d \in {<<>>, <<f>>, <<g>>, <<f, sub>>, <<g, sub>>}, n \in {read, readme, long}}

(* The hypotheses of the theorems about the file systems.                  *)
ASSUME HypothesesHold == OneSfsVolume /\ NamedPaths /\ OneBlockFiles
=============================================================================
