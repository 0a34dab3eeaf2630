------------------------------- MODULE Files --------------------------------
(***************************************************************************)
(* kernel/hal/i386/interrupts.c: the files a program opens by INT 0x80,    *)
(* with the table filesymboltable[] of special_handler.                    *)
(*                                                                         *)
(* A file that is opened for reading is read whole into a block of memory, *)
(* and the calls work on that block.  The file system writes whole sectors *)
(* there, whatever the length of the file.  A name is a sequence of        *)
(* letters; a content a sequence of units, where 0 is the end of a string. *)
(* Beside the table the model keeps what the program is entitled to: for   *)
(* each of its files, the path, the data that is still to come, and whether*)
(* one of three things has gone over its memory (spoilt).                  *)
(***************************************************************************)
EXTENDS Naturals, Sequences, FiniteSets

CONSTANTS
  Slots,       (* MAX_FILE_SYMBOLS (10)                                    *)
  MaxOpen,     (* the files a program has open at once                     *)
  Names,       (* the paths the program uses                               *)
  Contents,    (* what files hold                                          *)
  Block,       (* the size of a block: malloc(0x100)                       *)
  Sector,      (* the size of a sector: 512 bytes                          *)
  Spacing,     (* how far apart the blocks of two files are                *)
  Blocks,      (* the blocks malloc can give                               *)
  Offsets,     (* the offsets it seeks to                                  *)
  Pushed,      (* the units it pushes back                                 *)
  MaxTell      (* bound: how far a program reads                           *)

Units == UNION {{c[i] : i \in DOMAIN c} : c \in Contents}
Letters == UNION {{n[i] : i \in DOMAIN n} : n \in Names}

ASSUME ConstantsAssumption ==
  /\ Slots \in Nat \ {0} /\ MaxOpen \in Nat \ {0}
  /\ Names # {} /\ Contents # {}
  /\ \A n \in Names : n \in Seq(Letters)
  /\ Block \in Nat \ {0} /\ Sector \in Nat /\ Spacing \in Nat /\ Block <= Spacing /\ Block <= Sector
  /\ IsFiniteSet(Blocks) /\ Blocks = 0 .. Cardinality(Blocks) - 1
  /\ MaxTell \in Nat /\ MaxTell <= Sector
  /\ \A c \in Contents : c \in Seq(Units) /\ Len(c) < Sector
  /\ Offsets \subseteq 0 .. MaxTell /\ Pushed \subseteq Units

VARIABLES
  table,       (* filesymboltable                                          *)
  mem, live,   (* the memory; the blocks that are given out                *)
  prog         (* the program's files: what it may expect of each          *)

vars == <<table, mem, live, prog>>

Handles == 1 .. MaxOpen
Slot == 0 .. Slots - 1
Null == Cardinality(Blocks)
Base(b) == b * Spacing
Memory == 0 .. Base(Null) + Sector
Closed == [slot |-> 0, mode |-> "closed", path |-> <<>>, rest |-> <<>>, content |-> <<>>,
           spoilt |-> FALSE]

(* Mutant: a name is copied only where there is none.                      *)
CopyOver_Once(new, old) == IF old = <<>> THEN new ELSE old

(* memcpy without the end of the string: what is longer in old stays.      *)
CopyOver(new, old) == new \o SubSeq(old, Len(new) + 1, Len(old))

TypeOK ==
  /\ table \in [Slot -> [ftell : Memory, inuse : BOOLEAN, pointer : Blocks \union {Null},
                         filename : Seq(Letters), maxsize : Memory]]
  /\ mem \in [Memory -> Units \union {0}]
  /\ live \subseteq Blocks
  /\ \A h \in Handles : /\ prog[h].slot \in Slot /\ prog[h].mode \in {"closed", "r", "w"}
                         /\ prog[h].spoilt \in BOOLEAN

Init ==
  /\ table = [s \in Slot |-> [ftell |-> 0, inuse |-> FALSE, pointer |-> Null, filename |-> <<>>, maxsize |-> 0]]
  /\ mem = [a \in Memory |-> 0] /\ live = {}
  /\ prog = [h \in Handles |-> Closed]

-----------------------------------------------------------------------------
(* History: of the other files open for reading, those with data among     *)
(* these addresses are spoilt.                                             *)
Promised(c) == SubSeq(c, 1, IF Len(c) < Block THEN Len(c) ELSE Block)
Reach(h) ==
  LET start == Base(table[prog[h].slot].pointer)
  IN  start .. start + Len(Promised(prog[h].content))
Spoil(h, addresses) ==
  [g \in Handles |->
     IF g # h /\ prog[g].mode = "r" /\ Reach(g) \cap addresses # {}
     THEN [prog[g] EXCEPT !.spoilt = TRUE] ELSE prog[g]]
BehindBlock(b) == Base(b) + Block .. Base(b) + Sector - 1
InBlock(b) == IF b = Null THEN {} ELSE Base(b) .. Base(b) + Block - 1

Address(s, i) == Base(table[s].pointer) + i

(* The first slot that is not in use; slot 0 when all are.                 *)
FreeSlot ==
  LET free == {s \in Slot : ~table[s].inuse}
  IN IF free = {} THEN 0 ELSE CHOOSE s \in free : \A t \in free : s <= t

(* Where the string that begins at address a ends.                         *)
EndOfString(m, a) == CHOOSE e \in Memory : a <= e /\ m[e] = 0 /\ \A x \in a .. e - 1 : m[x] # 0

(* A block that was freed before, else a new one above the others.         *)
FreeBlock == CHOOSE b \in Blocks \ live : \A c \in Blocks \ live : b <= c

(* malloc clears the block; the file system fills a sector.                *)
Loaded(b, c) ==
  [a \in Memory |-> IF a \notin Base(b) .. Base(b) + Sector - 1 THEN mem[a]
                   ELSE IF a - Base(b) < Len(c) THEN c[a - Base(b) + 1] ELSE 0]

(* A program's next file is the first one that is not open.                *)
NextFile(h) == prog[h] = Closed /\ \A g \in Handles : g < h => prog[g] # Closed

(* OPEN with mode r of a file that holds c.                                *)
OpenRead(h, path, c) ==
  /\ NextFile(h)
  /\ Blocks \ live # {}
  /\ LET s == FreeSlot
         b == FreeBlock
         m == Loaded(b, c)
     IN /\ live' = live \union {b}
        /\ mem' = m
        /\ table' = [table EXCEPT ![s] = [ftell |-> 0, inuse |-> TRUE, pointer |-> b,
                                          filename |-> CopyOver(path, @.filename),
                                          maxsize |-> EndOfString(m, Base(b)) - Base(b)]]
        /\ prog' = [Spoil(h, BehindBlock(b)) EXCEPT
                       ![h] = [slot |-> s, mode |-> "r", path |-> path, rest |-> c,
                               content |-> c, spoilt |-> FALSE]]

(* OPEN with another mode: nothing is read, pointer and maxsize stay.      *)
OpenWrite(h, path) ==
  /\ NextFile(h)
  /\ LET s == FreeSlot
     IN /\ table' = [table EXCEPT ![s].ftell = 0, ![s].inuse = TRUE, ![s].filename = CopyOver(path, @)]
        /\ prog' = [prog EXCEPT ![h] = [slot |-> s, mode |-> "w", path |-> path, rest |-> <<>>,
                                        content |-> <<>>, spoilt |-> FALSE]]
  /\ UNCHANGED <<mem, live>>

(* The file that WRITE writes to: fwrite is given the name in the table.   *)
WriteTarget(h) == table[prog[h].slot].filename

Cleared(b) ==
  [a \in Memory |-> IF a \in InBlock(b) THEN 0 ELSE mem[a]]

(* History: a file for writing has no block, and closing it frees the one  *)
(* that the slot had before.                                               *)
WithoutFile(h) ==
  LET b == table[prog[h].slot].pointer
      others == IF prog[h].mode = "w" \/ prog[h].spoilt THEN Spoil(h, InBlock(b)) ELSE prog
  IN  [others EXCEPT ![h] = Closed]

(* Mutant: the next slot's block is freed.                                 *)
Close_Next(h) ==
  /\ prog[h] # Closed
  /\ LET b == table[(prog[h].slot + 1) % Slots].pointer
     IN live' = live \ {b} /\ mem' = Cleared(b)
  /\ table' = [table EXCEPT ![prog[h].slot].inuse = FALSE]
  /\ prog' = WithoutFile(h)

(* CLOSE: free clears the block if it finds it in its table.               *)
Close(h) ==
  /\ prog[h] # Closed
  /\ LET b == table[prog[h].slot].pointer
     IN \/ live' = live \ {b} /\ mem' = Cleared(b)
        \/ UNCHANGED <<live, mem>>
  /\ table' = [table EXCEPT ![prog[h].slot].inuse = FALSE]
  /\ prog' = WithoutFile(h)

Drop(seq, n) == SubSeq(seq, n + 1, Len(seq))

(* Mutant: the position is moved first.                                    *)
GetcGives_After(h) ==
  LET t == table[prog[h].slot]
  IN  IF t.ftell >= t.maxsize THEN 0 ELSE mem[Address(prog[h].slot, t.ftell + 1)]

(* What GETC returns: nothing from maxsize on.                             *)
GetcGives(h) ==
  LET t == table[prog[h].slot]
  IN  IF t.ftell >= t.maxsize THEN 0 ELSE mem[Address(prog[h].slot, t.ftell)]

Getc(h) ==
  /\ prog[h].mode = "r" /\ table[prog[h].slot].ftell < MaxTell
  /\ table' = [table EXCEPT ![prog[h].slot].ftell = @ + 1]
  /\ prog' = [prog EXCEPT ![h].rest = Drop(@, 1)]
  /\ UNCHANGED <<mem, live>>

(* UNGETC: one further, and the unit is written there.  Bound: once per    *)
(* file that is open, and not to one that is spoilt already.               *)
Ungetc(h, u) ==
  LET s == prog[h].slot
  IN /\ prog[h].mode = "r" /\ ~prog[h].spoilt /\ table[s].ftell < MaxTell
     /\ table' = [table EXCEPT ![s].ftell = @ + 1]
     /\ mem' = [mem EXCEPT ![Address(s, table[s].ftell + 1)] = u]
     /\ prog' = [Spoil(h, {Address(s, table[s].ftell + 1)}) EXCEPT
                    ![h].rest = <<u>> \o @, ![h].spoilt = TRUE]
     /\ UNCHANGED live

(* SEEK to an offset from the start; to the end, which is looked for from  *)
(* the position on.                                                        *)
SeekStart(h, offset) ==
  /\ prog[h].mode = "r"
  /\ table' = [table EXCEPT ![prog[h].slot].ftell = offset]
  /\ prog' = [prog EXCEPT ![h].rest = Drop(prog[h].content, offset)]
  /\ UNCHANGED <<mem, live>>

SeekEnd(h) ==
  LET s == prog[h].slot
  IN /\ prog[h].mode = "r"
     /\ table' = [table EXCEPT ![s].ftell = EndOfString(mem, Address(s, @)) - Address(s, 0)]
     /\ prog' = [prog EXCEPT ![h].rest = <<>>]
     /\ UNCHANGED <<mem, live>>

Next ==
  \E h \in Handles :
    \/ \E path \in Names, c \in Contents : OpenRead(h, path, c)
    \/ \E path \in Names : OpenWrite(h, path)
    \/ Close(h) \/ Getc(h) \/ SeekEnd(h)
    \/ \E u \in Pushed : Ungetc(h, u)
    \/ \E offset \in Offsets : SeekStart(h, offset)

Spec == Init /\ [][Next]_vars

-----------------------------------------------------------------------------
Open(h) == prog[h].mode # "closed"

HandlesApart ==
  \A g, h \in Handles : g # h /\ Open(g) /\ Open(h) => prog[g].slot # prog[h].slot

(* Two files that are open at once are two slots of the table              *)
(* (interrupts.c:193-201).  Whatever is opened, closed, pushed back and    *)
(* written meanwhile, the memory of a file that is open for reading holds  *)
(* its content as it was when it was opened, up to the size of a block,    *)
(* its length is known, and its block is not free - unless the file is     *)
(* spoilt: the sector of a later OPEN went over it from the block before,  *)
(* a CLOSE freed the block of a slot's former file, or UNGETC wrote there. *)
HandleHasFile ==
  /\ TypeOK /\ HandlesApart
  /\ \A h \in Handles : prog[h].mode = "r" /\ ~prog[h].spoilt =>
       LET s == prog[h].slot
       IN /\ table[s].inuse /\ table[s].pointer \in live
          /\ table[s].maxsize = Len(prog[h].content)
          /\ \A i \in DOMAIN Promised(prog[h].content) : mem[Address(s, i - 1)] = prog[h].content[i]

(* GETC gives what is next in the file, and 0 when there is nothing left,  *)
(* up to the size of a block, unless the file is spoilt.                   *)
GetcGivesNext ==
  \A h \in Handles :
    /\ prog[h].mode = "r" /\ ~prog[h].spoilt
    /\ table[prog[h].slot].ftell < Block \/ Len(prog[h].content) < Block
    => GetcGives(h) = IF prog[h].rest = <<>> THEN 0 ELSE Head(prog[h].rest)

(* "WRITE ... TO FILE" (interrupts.c:172, 179): a write changes the file   *)
(* the program opened, and no other, unless its slot has held a longer     *)
(* path.                                                                   *)
HeldLonger(h) == Len(table[prog[h].slot].filename) > Len(prog[h].path)
WritesGoToFile ==
  \A h \in Handles : prog[h].mode = "w" /\ ~HeldLonger(h) => WriteTarget(h) = prog[h].path
=============================================================================
