---------------------------- MODULE FilesProofs -----------------------------
(***************************************************************************)
(* The files of INT 0x80, for tables, blocks and contents of any size: the *)
(* program that keeps within the table finds in each file what it opened.  *)
(***************************************************************************)
EXTENDS Files, FiniteSetTheorems, SequenceTheorems, WellFoundedInduction, TLAPS

Top == Base(Null) + Sector

SlotType == [ftell : Memory, inuse : BOOLEAN, pointer : Blocks \union {Null},
             filename : Seq(Letters), maxsize : Memory]
FileType == [slot : Slot, mode : {"closed", "r", "w"}, path : Names \union {<<>>}, rest : Seq(Units),
             content : Contents \union {<<>>}, spoilt : BOOLEAN]

(* The last unit of the memory is never written, so that every search for  *)
(* the end of a string finds one; a position is within the memory.         *)
Typed ==
  /\ table \in [Slot -> SlotType]
  /\ mem \in [Memory -> Units \union {0}] /\ mem[Top] = 0
  /\ live \subseteq Blocks
  /\ prog \in [Handles -> FileType]
  /\ \A s \in Slot : table[s].pointer # Null => Address(s, table[s].ftell) <= Top
  /\ \A h \in Handles :
       /\ prog[h].mode = "closed" => prog[h] = Closed
       /\ prog[h].mode = "r" => table[prog[h].slot].pointer # Null /\ prog[h].content \in Contents

-----------------------------------------------------------------------------
LEMMA LeastElement ==
  ASSUME NEW S, S \subseteq Nat, S # {}
  PROVE  \E d \in S : \A e \in S : d <= e
<1>1. PICK d \in S : \A e \in S : <<e, d>> \notin OpToRel(<, Nat)
  BY WFMin, NatLessThanWellFounded, Zenon
<1>2. \A e \in S : ~(e < d)
  BY <1>1, Zenon DEF OpToRel
<1>. QED  BY <1>2

(* Where blocks are: one after the other, each below the top.              *)
LEMMA Sizes ==
  ASSUME ConstantsAssumption
  PROVE  /\ Null \in Nat /\ Blocks = 0 .. Null - 1 /\ Sector \in Nat /\ Spacing \in Nat /\ Block \in Nat
         /\ 0 < Block /\ Block <= Spacing /\ Block <= Sector /\ MaxTell \in Nat /\ MaxTell <= Sector
         /\ Slots \in Nat /\ 0 < Slots /\ MaxOpen \in Nat
  BY FS_CardinalityType DEF ConstantsAssumption, Null

LEMMA BlocksInOrder ==
  ASSUME ConstantsAssumption
  PROVE  /\ \A b \in 0 .. Null : Base(b) \in Nat /\ Base(b) <= Base(Null)
         /\ \A b, c \in 0 .. Null : b < c => Base(b) + Spacing <= Base(c)
         /\ Top \in Nat /\ Memory = 0 .. Top
<1>. USE Sizes
<1>1. ASSUME NEW b \in 0 .. Null, NEW c \in 0 .. Null, b < c
      PROVE  b * Spacing + Spacing <= c * Spacing
  <2>1. PICK k \in Nat : c = b + 1 + k
    <3>1. c - b - 1 \in Nat /\ c = b + 1 + (c - b - 1)
      BY <1>1
    <3>. QED  BY <3>1
  <2>2. c * Spacing = b * Spacing + Spacing + k * Spacing
    BY <2>1
  <2>3. k * Spacing \in Nat /\ b * Spacing \in Nat
    BY <2>1
  <2>. QED  BY <2>2, <2>3
<1>2. ASSUME NEW b \in 0 .. Null
      PROVE  b * Spacing \in Nat
  OBVIOUS
<1>3. \A b \in 0 .. Null : Base(b) \in Nat
  BY <1>2 DEF Base
<1>4. \A b, c \in 0 .. Null : b < c => Base(b) + Spacing <= Base(c)
  BY <1>1 DEF Base
<1>5. \A b \in 0 .. Null : Base(b) <= Base(Null)
  BY <1>3, <1>4
<1>6. Base(Null) \in Nat
  BY <1>3
<1>7. Top \in Nat /\ Memory = 0 .. Top
  BY <1>6 DEF Top, Memory
<1>. QED  BY <1>3, <1>4, <1>5, <1>7

LEMMA Places ==
  ASSUME ConstantsAssumption
  PROVE  /\ Top \in Nat /\ Memory = 0 .. Top /\ Base(Null) \in Nat /\ Base(Null) <= Top
         /\ \A b \in Blocks : /\ b # Null /\ Base(b) \in Nat
                              /\ Base(b) + Sector <= Top /\ Base(b) + Block <= Top /\ Base(b) < Base(Null)
         /\ \A b, c \in Blocks : b # c => Base(b) + Spacing <= Base(c) \/ Base(c) + Spacing <= Base(b)
<1>1. \A b \in Blocks : b \in 0 .. Null /\ b < Null
  BY Sizes
<1>2. \A b, c \in Blocks : b # c => b < c \/ c < b
  BY Sizes
<1>3. Null \in 0 .. Null
  BY Sizes
<1>4. Base(Null) \in Nat /\ Base(Null) <= Top
  BY <1>3, BlocksInOrder, Sizes DEF Top
<1>5. ASSUME NEW b \in Blocks
      PROVE  /\ b # Null /\ Base(b) \in Nat
             /\ Base(b) + Sector <= Top /\ Base(b) + Block <= Top /\ Base(b) < Base(Null)
  <2>1. b \in 0 .. Null /\ b < Null /\ Null \in Nat
    BY <1>1, Sizes
  <2>2. Base(b) \in Nat /\ Base(b) + Spacing <= Base(Null)
    BY <1>3, <2>1, BlocksInOrder
  <2>3. b # Null
    BY <2>1
  <2>. QED  BY <1>4, <2>2, <2>3, Sizes DEF Top
<1>6. \A b, c \in Blocks : b # c => Base(b) + Spacing <= Base(c) \/ Base(c) + Spacing <= Base(b)
  BY <1>1, <1>2, BlocksInOrder
<1>. QED  BY <1>4, <1>5, <1>6, BlocksInOrder

LEMMA EndIsFound ==
  ASSUME ConstantsAssumption, NEW m \in [Memory -> Units \union {0}], m[Top] = 0, NEW a \in Memory
  PROVE  /\ EndOfString(m, a) \in Memory /\ a <= EndOfString(m, a) /\ m[EndOfString(m, a)] = 0
         /\ \A x \in a .. EndOfString(m, a) - 1 : m[x] # 0
<1>. DEFINE ends == {e \in Memory : a <= e /\ m[e] = 0}
<1>1. Memory = 0 .. Top /\ Top \in Nat
  BY BlocksInOrder
<1>2. Top \in ends /\ ends \subseteq Nat
  BY <1>1
<1>3. PICK e \in ends : \A x \in ends : e <= x
  BY <1>2, LeastElement
<1>4. \A x \in a .. e - 1 : m[x] # 0
  BY <1>1, <1>3
<1>5. e \in Memory /\ a <= e /\ m[e] = 0
  BY <1>3
<1>. QED  BY <1>4, <1>5 DEF EndOfString

LEMMA FreeBlockIsFree ==
  ASSUME ConstantsAssumption, Blocks \ live # {}
  PROVE  FreeBlock \in Blocks \ live
<1>1. Blocks \ live \subseteq Nat
  BY Sizes
<1>2. PICK b \in Blocks \ live : \A c \in Blocks \ live : b <= c
  BY <1>1, LeastElement
<1>. QED  BY <1>2 DEF FreeBlock

LEMMA FreeSlotIsFree ==
  ASSUME ConstantsAssumption
  PROVE  /\ FreeSlot \in Slot
         /\ (\E s \in Slot : ~table[s].inuse) => ~table[FreeSlot].inuse
<1>. DEFINE free == {s \in Slot : ~table[s].inuse}
<1>1. 0 \in Slot
  BY Sizes DEF Slot
<1>2. CASE free = {}
  BY <1>1, <1>2 DEF FreeSlot
<1>3. CASE free # {}
  <2>1. free \subseteq Nat
    BY DEF Slot
  <2>2. PICK s \in free : \A t \in free : s <= t
    BY <1>3, <2>1, LeastElement
  <2>3. FreeSlot \in free
    BY <1>3, <2>2 DEF FreeSlot
  <2>. QED  BY <2>3
<1>. QED  BY <1>2, <1>3
-----------------------------------------------------------------------------
(* What a file keeps when others are spoilt.                               *)
LEMMA SpoilKeeps ==
  ASSUME Typed, NEW h \in Handles, NEW A
  PROVE  /\ Spoil(h, A) \in [Handles -> FileType] /\ Spoil(h, A)[h] = prog[h]
         /\ \A g \in Handles :
              /\ Spoil(h, A)[g].slot = prog[g].slot /\ Spoil(h, A)[g].mode = prog[g].mode
              /\ Spoil(h, A)[g].path = prog[g].path /\ Spoil(h, A)[g].rest = prog[g].rest
              /\ Spoil(h, A)[g].content = prog[g].content
              /\ prog[g].mode # "r" => Spoil(h, A)[g] = prog[g]
              /\ ~Spoil(h, A)[g].spoilt =>
                   ~prog[g].spoilt /\ (g = h \/ prog[g].mode # "r" \/ Reach(g) \cap A = {})
<1>1. \A g \in Handles : prog[g] \in FileType
  BY DEF Typed
<1>2. \A g \in Handles : [prog[g] EXCEPT !.spoilt = TRUE] \in FileType
  BY <1>1, Zenon DEF FileType
<1>3. Spoil(h, A) \in [Handles -> FileType]
  BY <1>1, <1>2, Zenon DEF Spoil
<1>. QED  BY <1>1, <1>3 DEF Spoil, FileType

LEMMA TypedInit == ConstantsAssumption /\ Init => Typed
<1>. SUFFICES ASSUME ConstantsAssumption, Init PROVE Typed
  OBVIOUS
<1>. USE Sizes, BlocksInOrder DEF Init
<1>1. 0 \in Memory /\ 0 \in Slot /\ Null \in Nat
  BY DEF Slot
<1>2. <<>> \in Seq(Letters) /\ <<>> \in Seq(Units)
  OBVIOUS
<1>3. table \in [Slot -> SlotType]
  BY <1>1, <1>2, Zenon DEF SlotType
<1>4. Closed \in FileType
  BY <1>1, <1>2, Zenon DEF Closed, FileType
<1>5. Closed.mode = "closed"
  BY DEF Closed
<1>6. Top \in Memory
  BY <1>1
<1>7. mem \in [Memory -> Units \union {0}] /\ mem[Top] = 0 /\ live \subseteq Blocks
  BY <1>6, Zenon
<1>8. prog \in [Handles -> FileType] /\ \A g \in Handles : prog[g] = Closed /\ prog[g].mode # "r"
  BY <1>4, <1>5
<1>9. \A s \in Slot : table[s].pointer = Null
  OBVIOUS
<1>. QED  BY <1>3, <1>7, <1>8, <1>9, Zenon DEF Typed

LEMMA Copied ==
  ASSUME NEW S, NEW new \in Seq(S), NEW old \in Seq(S)
  PROVE  /\ CopyOver(new, old) \in Seq(S)
         /\ Len(CopyOver(new, old)) <= Len(new) => CopyOver(new, old) = new
<1>1. SubSeq(old, Len(new) + 1, Len(old)) \in Seq(S)
  OBVIOUS
<1>2. CASE Len(old) <= Len(new)
  BY <1>1, <1>2 DEF CopyOver
<1>3. CASE Len(old) > Len(new)
  BY <1>1, <1>3 DEF CopyOver
<1>. QED  BY <1>2, <1>3

(* What OPEN puts into the memory.                                         *)
LEMMA LoadedMemory ==
  ASSUME ConstantsAssumption, Typed, NEW b \in Blocks, NEW c \in Contents
  PROVE  /\ Loaded(b, c) \in [Memory -> Units \union {0}] /\ Loaded(b, c)[Top] = 0
         /\ Base(b) \in Memory
         /\ \A a \in Memory : a \notin Base(b) .. Base(b) + Sector - 1 => Loaded(b, c)[a] = mem[a]
         /\ \A n \in 0 .. Len(c) - 1 : Base(b) + n \in Memory /\ Loaded(b, c)[Base(b) + n] = c[n + 1]
         /\ Base(b) + Len(c) \in Memory /\ Loaded(b, c)[Base(b) + Len(c)] = 0
<1>1. /\ c \in Seq(Units) /\ Len(c) < Sector /\ Len(c) \in Nat
  BY DEF ConstantsAssumption
<1>2. /\ Base(b) \in Nat /\ Base(b) < Base(Null) /\ Base(Null) \in Nat
      /\ Memory = 0 .. Top /\ Top = Base(Null) + Sector /\ Sector \in Nat
  BY Sizes, BlocksInOrder DEF Top
<1>3. Top \in Memory /\ Top \notin Base(b) .. Base(b) + Sector - 1
  BY <1>2
<1>4. \A a \in Memory : a \in Base(b) .. Base(b) + Sector - 1 /\ a - Base(b) < Len(c) => c[a - Base(b) + 1] \in Units
  BY <1>1, <1>2
<1>5. Loaded(b, c) \in [Memory -> Units \union {0}]
  BY <1>4 DEF Loaded, Typed
<1>6. Loaded(b, c)[Top] = 0
  BY <1>3 DEF Loaded, Typed
<1>7. Base(b) \in Memory
  BY <1>2
<1>8. ASSUME NEW n \in 0 .. Len(c)
      PROVE  /\ Base(b) + n \in Memory /\ Base(b) + n \in Base(b) .. Base(b) + Sector - 1
             /\ Base(b) + n - Base(b) = n
  BY <1>1, <1>2
<1>9. ASSUME NEW n \in 0 .. Len(c), NEW a \in Memory, a = Base(b) + n
      PROVE  Loaded(b, c)[a] = IF n < Len(c) THEN c[n + 1] ELSE 0
  <2>1. a \in Base(b) .. Base(b) + Sector - 1 /\ a - Base(b) = n
    BY <1>1, <1>2, <1>9
  <2>2. Loaded(b, c)[a] = IF a - Base(b) < Len(c) THEN c[a - Base(b) + 1] ELSE 0
    BY <2>1, Zenon DEF Loaded
  <2>. QED  BY <2>1, <2>2, Zenon
<1>10. \A n \in 0 .. Len(c) - 1 : Base(b) + n \in Memory /\ Loaded(b, c)[Base(b) + n] = c[n + 1]
  BY <1>1, <1>8, <1>9
<1>12. Base(b) + Len(c) \in Memory /\ Loaded(b, c)[Base(b) + Len(c)] = 0
  BY <1>1, <1>8, <1>9
<1>11. \A a \in Memory : a \notin Base(b) .. Base(b) + Sector - 1 => Loaded(b, c)[a] = mem[a]
  BY DEF Loaded
<1>. QED  BY <1>5, <1>6, <1>7, <1>10, <1>11, <1>12, Zenon

(* What OPEN with mode r does, in terms of the slot, the block and the     *)
(* end of the string it finds there.                                       *)
Opened(h, path, c, s, b, end) ==
  /\ prog[h] = Closed /\ live' = live \union {b} /\ mem' = Loaded(b, c)
  /\ Base(b) <= end /\ mem'[end] = 0 /\ \A x \in Base(b) .. end - 1 : mem'[x] # 0
  /\ table' = [table EXCEPT ![s] = [ftell |-> 0, inuse |-> TRUE, pointer |-> b,
                                    filename |-> CopyOver(path, table[s].filename),
                                    maxsize |-> end - Base(b)]]
  /\ prog' = [Spoil(h, BehindBlock(b)) EXCEPT
                 ![h] = [slot |-> s, mode |-> "r", path |-> path, rest |-> c,
                         content |-> c, spoilt |-> FALSE]]

LEMMA OpenReadStep ==
  ASSUME ConstantsAssumption, Typed, NEW h \in Handles, NEW path \in Names, NEW c \in Contents,
         OpenRead(h, path, c)
  PROVE  \E b \in Blocks \ live, end \in Memory : FreeSlot \in Slot /\ Opened(h, path, c, FreeSlot, b, end)
<1>1. /\ FreeBlock \in Blocks \ live /\ FreeSlot \in Slot
  BY FreeBlockIsFree, FreeSlotIsFree DEF OpenRead
<1>2. EndOfString(Loaded(FreeBlock, c), Base(FreeBlock)) \in Memory
      /\ Base(FreeBlock) <= EndOfString(Loaded(FreeBlock, c), Base(FreeBlock))
      /\ Loaded(FreeBlock, c)[EndOfString(Loaded(FreeBlock, c), Base(FreeBlock))] = 0
      /\ \A x \in Base(FreeBlock) .. EndOfString(Loaded(FreeBlock, c), Base(FreeBlock)) - 1 :
            Loaded(FreeBlock, c)[x] # 0
  <2>1. /\ Loaded(FreeBlock, c) \in [Memory -> Units \union {0}] /\ Loaded(FreeBlock, c)[Top] = 0
        /\ Base(FreeBlock) \in Memory
    BY <1>1, LoadedMemory
  <2>. QED  BY <2>1, EndIsFound
<1>3. Opened(h, path, c, FreeSlot, FreeBlock, EndOfString(Loaded(FreeBlock, c), Base(FreeBlock)))
  BY <1>2, Zenon DEF OpenRead, NextFile, Opened
<1>. QED  BY <1>1, <1>2, <1>3, Zenon

LEMMA TypedOpenRead ==
  ASSUME ConstantsAssumption, Typed, NEW h \in Handles, NEW path \in Names, NEW c \in Contents,
         OpenRead(h, path, c)
  PROVE  Typed'
<1>. PICK s \in Slot, b \in Blocks \ live, end \in Memory : Opened(h, path, c, s, b, end)
  BY OpenReadStep, Zenon
<1>1. Opened(h, path, c, s, b, end)
  OBVIOUS
<1>. USE DEF Opened
<1>2. mem' \in [Memory -> Units \union {0}] /\ mem'[Top] = 0 /\ live' \subseteq Blocks
  BY <1>1, LoadedMemory DEF Typed
<1>3. /\ b \in Blocks /\ b # Null /\ Base(b) \in Nat /\ Base(b) <= Top /\ Top \in Nat /\ Memory = 0 .. Top
  <2>1. b \in 0 .. Null - 1 /\ Null \in Nat /\ Sector \in Nat
    BY Sizes
  <2>. QED  BY <2>1, BlocksInOrder DEF Top
<1>4. 0 \in Memory /\ end - Base(b) \in Memory
  BY <1>1, <1>3
<1>5. CopyOver(path, table[s].filename) \in Seq(Letters)
  BY Copied DEF ConstantsAssumption, Typed, SlotType
<1>6. [ftell |-> 0, inuse |-> TRUE, pointer |-> b, filename |-> CopyOver(path, table[s].filename),
       maxsize |-> end - Base(b)] \in SlotType
  BY <1>3, <1>4, <1>5, Zenon DEF SlotType
<1>7. table' \in [Slot -> SlotType]
  BY <1>1, <1>6 DEF Typed
<1>8. c \in Seq(Units)
  BY DEF ConstantsAssumption
<1>9. [slot |-> s, mode |-> "r", path |-> path, rest |-> c, content |-> c, spoilt |-> FALSE] \in FileType
  BY <1>8, Zenon DEF FileType
<1>10. prog' \in [Handles -> FileType]
  BY <1>1, <1>9, SpoilKeeps
<1>11. table'[s].pointer = b /\ table'[s].ftell = 0 /\ \A t \in Slot : t # s => table'[t] = table[t]
  BY <1>1 DEF Typed
<1>12. \A t \in Slot : table[t].pointer # Null => table'[t].pointer # Null
  BY <1>3, <1>11
<1>13. ASSUME NEW t \in Slot, table'[t].pointer # Null
       PROVE  Address(t, table[t].ftell)' <= Top
  <2>1. CASE t = s
    BY <1>3, <1>11, <2>1 DEF Address
  <2>2. CASE t # s
    BY <1>11, <1>13, <2>2 DEF Address, Typed
  <2>. QED  BY <2>1, <2>2
<1>14. ASSUME NEW g \in Handles
       PROVE  /\ prog'[g].mode = "closed" => prog'[g] = Closed
              /\ prog'[g].mode = "r" => table'[prog'[g].slot].pointer # Null /\ prog'[g].content \in Contents
  <2>1. CASE g = h
    BY <1>1, <1>3, <1>11, <2>1, SpoilKeeps
  <2>2. CASE g # h
    <3>1. prog'[g] = Spoil(h, BehindBlock(b))[g] /\ prog[g] \in FileType
      BY <1>1, <2>2, SpoilKeeps DEF Typed
    <3>2. /\ prog'[g].slot = prog[g].slot /\ prog'[g].mode = prog[g].mode
          /\ prog'[g].content = prog[g].content /\ (prog[g].mode # "r" => prog'[g] = prog[g])
      BY <3>1, SpoilKeeps
    <3>. QED  BY <1>12, <3>1, <3>2, Zenon DEF Typed, FileType
  <2>. QED  BY <2>1, <2>2
<1>. QED  BY <1>2, <1>7, <1>10, <1>13, <1>14 DEF Typed

(* The other calls leave the blocks of the slots as they are.              *)
LEMMA TypedKept ==
  ASSUME Typed, table' \in [Slot -> SlotType], mem' \in [Memory -> Units \union {0}], mem'[Top] = 0,
         live' \subseteq Blocks, prog' \in [Handles -> FileType],
         \A s \in Slot : /\ table'[s].pointer = table[s].pointer
                         /\ table[s].pointer # Null => Base(table[s].pointer) + table'[s].ftell <= Top,
         \A g \in Handles : /\ prog'[g].mode = "closed" => prog'[g] = Closed
                            /\ prog'[g].mode = "r" => /\ prog[g].mode = "r" /\ prog'[g].slot = prog[g].slot
                                                      /\ prog'[g].content = prog[g].content
  PROVE  Typed'
<1>1. \A s \in Slot : table'[s].pointer # Null => Address(s, table[s].ftell)' <= Top
  BY DEF Address
<1>2. \A g \in Handles : prog[g].mode = "r" => prog[g].slot \in Slot
  BY DEF Typed, FileType
<1>. QED  BY <1>1, <1>2 DEF Typed

LEMMA TypedOpenWrite ==
  ASSUME ConstantsAssumption, Typed, NEW h \in Handles, NEW path \in Names, OpenWrite(h, path)
  PROVE  Typed'
<1>. DEFINE s == FreeSlot
<1>. DEFINE name == CopyOver(path, table[s].filename)
<1>1. s \in Slot
  BY FreeSlotIsFree
<1>2. /\ table' = [table EXCEPT ![s] = [@ EXCEPT !.ftell = 0, !.inuse = TRUE, !.filename = name]]
      /\ prog' = [prog EXCEPT ![h] = [slot |-> s, mode |-> "w", path |-> path, rest |-> <<>>,
                                      content |-> <<>>, spoilt |-> FALSE]]
      /\ UNCHANGED <<mem, live>>
  BY DEF OpenWrite
<1>3. name \in Seq(Letters)
  BY <1>1, Copied DEF ConstantsAssumption, Typed, SlotType
<1>4. table[s] \in SlotType /\ 0 \in Memory /\ <<>> \in Seq(Units)
  BY <1>1, BlocksInOrder DEF Typed
<1>. HIDE DEF s, name
<1>5. [table[s] EXCEPT !.ftell = 0, !.inuse = TRUE, !.filename = name] \in SlotType
  BY <1>3, <1>4, Zenon DEF SlotType
<1>6. table' \in [Slot -> SlotType]
  BY <1>1, <1>2, <1>5 DEF Typed
<1>7. [slot |-> s, mode |-> "w", path |-> path, rest |-> <<>>, content |-> <<>>, spoilt |-> FALSE] \in FileType
  BY <1>1, <1>4, Zenon DEF FileType
<1>8. prog' \in [Handles -> FileType]
  BY <1>2, <1>7 DEF Typed
<1>9. ASSUME NEW t \in Slot
      PROVE  /\ table'[t].pointer = table[t].pointer
             /\ table[t].pointer # Null => Base(table[t].pointer) + table'[t].ftell <= Top
  <2>1. table'[t].pointer = table[t].pointer /\ (t # s => table'[t].ftell = table[t].ftell)
        /\ (t = s => table'[t].ftell = 0)
    BY <1>1, <1>2, <1>4 DEF Typed, SlotType
  <2>2. table[t].pointer \in Blocks \/ table[t].pointer = Null
    BY DEF Typed, SlotType
  <2>3. \A b \in Blocks : Base(b) + 0 <= Top
    BY Places, Sizes
  <2>. QED  BY <2>1, <2>2, <2>3 DEF Typed, Address
<1>10. \A g \in Handles : /\ prog'[g].mode = "closed" => prog'[g] = Closed
                          /\ prog'[g].mode = "r" => prog'[g] = prog[g]
  BY <1>2 DEF Typed
<1>. QED  BY <1>2, <1>6, <1>8, <1>9, <1>10, TypedKept DEF Typed

LEMMA TypedClose ==
  ASSUME ConstantsAssumption, Typed, NEW h \in Handles, Close(h)
  PROVE  Typed'
<1>. DEFINE s == prog[h].slot
            b == table[s].pointer
<1>1. s \in Slot /\ table[s] \in SlotType
  BY DEF Typed, FileType
<1>2. Top \in Memory /\ (b \in Blocks => Base(b) + Block <= Top)
  BY Places
<1>3. Top \notin InBlock(b)
  <2>1. b \in Blocks \/ b = Null
    BY <1>1 DEF SlotType
  <2>2. b \in Blocks => Base(b) \in Nat /\ Block \in Nat /\ Top \in Nat
    BY Sizes, BlocksInOrder
  <2>. QED  BY <1>2, <2>1, <2>2 DEF InBlock
<1>4. Cleared(b) \in [Memory -> Units \union {0}] /\ Cleared(b)[Top] = 0
  BY <1>2, <1>3, Zenon DEF Cleared, Typed
<1>5. mem' \in [Memory -> Units \union {0}] /\ mem'[Top] = 0 /\ live' \subseteq Blocks
  BY <1>4 DEF Close, Typed
<1>6. table' = [table EXCEPT ![s] = [@ EXCEPT !.inuse = FALSE]]
  BY DEF Close
<1>7. [table[s] EXCEPT !.inuse = FALSE] \in SlotType
  BY <1>1, Zenon DEF SlotType
<1>8. table' \in [Slot -> SlotType]
  BY <1>1, <1>6, <1>7 DEF Typed
<1>9. \A t \in Slot : table'[t].pointer = table[t].pointer /\ table'[t].ftell = table[t].ftell
  BY <1>1, <1>6 DEF Typed, SlotType
<1>10. Closed \in FileType
  <2>1. 0 \in Slot /\ <<>> \in Seq(Units)
    BY Sizes DEF Slot
  <2>. QED  BY <2>1, Zenon DEF Closed, FileType
<1>11. WithoutFile(h) \in [Handles -> FileType] /\ WithoutFile(h)[h] = Closed
       /\ \A g \in Handles : g # h =>
             WithoutFile(h)[g] = prog[g] \/ WithoutFile(h)[g] = Spoil(h, InBlock(b))[g]
  BY <1>10, SpoilKeeps DEF WithoutFile, Typed
<1>12. prog' = WithoutFile(h) /\ Closed.mode = "closed"
  BY DEF Close, Closed
<1>13. ASSUME NEW g \in Handles
       PROVE  /\ prog'[g].mode = "closed" => prog'[g] = Closed
              /\ prog'[g].mode = "r" => /\ prog[g].mode = "r" /\ prog'[g].slot = prog[g].slot
                                        /\ prog'[g].content = prog[g].content
  BY <1>11, <1>12, SpoilKeeps DEF Typed
<1>. QED  BY <1>5, <1>8, <1>9, <1>11, <1>12, <1>13, TypedKept DEF Typed, Address

(* The calls that move the position.                                       *)
LEMMA Moved ==
  ASSUME ConstantsAssumption, Typed, NEW h \in Handles, prog[h].mode = "r", NEW n \in Nat,
         Base(table[prog[h].slot].pointer) + n <= Top,
         table' = [table EXCEPT ![prog[h].slot].ftell = n]
  PROVE  /\ table' \in [Slot -> SlotType]
         /\ \A s \in Slot : /\ table'[s] = IF s = prog[h].slot THEN [table[s] EXCEPT !.ftell = n] ELSE table[s]
                            /\ table'[s].pointer = table[s].pointer /\ table'[s].inuse = table[s].inuse
                            /\ table'[s].filename = table[s].filename /\ table'[s].maxsize = table[s].maxsize
                            /\ table[s].pointer # Null => Base(table[s].pointer) + table'[s].ftell <= Top
<1>. DEFINE s == prog[h].slot
<1>1. s \in Slot /\ table[s] \in SlotType /\ table[s].pointer \in Blocks
  BY DEF Typed, FileType, SlotType
<1>2. n \in Memory
  BY <1>1, Places
<1>3. [table[s] EXCEPT !.ftell = n] \in SlotType
  BY <1>1, <1>2, Zenon DEF SlotType
<1>4. table' = [table EXCEPT ![s] = [table[s] EXCEPT !.ftell = n]]
  OBVIOUS
<1>. QED  BY <1>1, <1>3, <1>4 DEF Typed, Address, SlotType

LEMMA TypedMove ==
  ASSUME ConstantsAssumption, Typed, NEW h \in Handles, prog[h].mode = "r", NEW n \in Nat, NEW rest \in Seq(Units),
         Base(table[prog[h].slot].pointer) + n <= Top,
         table' = [table EXCEPT ![prog[h].slot].ftell = n],
         prog' = [prog EXCEPT ![h].rest = rest],
         UNCHANGED <<mem, live>>
  PROVE  Typed'
<1>1. prog[h] \in FileType
  BY DEF Typed
<1>2. [prog[h] EXCEPT !.rest = rest] \in FileType
  BY <1>1, Zenon DEF FileType
<1>3. prog' \in [Handles -> FileType]
  BY <1>2 DEF Typed
<1>4. \A g \in Handles : /\ prog'[g].mode = "closed" => prog'[g] = Closed
                         /\ prog'[g].mode = "r" => /\ prog[g].mode = "r" /\ prog'[g].slot = prog[g].slot
                                                   /\ prog'[g].content = prog[g].content
  BY <1>1 DEF Typed, FileType
<1>5. /\ table' \in [Slot -> SlotType]
      /\ \A s \in Slot : /\ table'[s].pointer = table[s].pointer
                         /\ table[s].pointer # Null => Base(table[s].pointer) + table'[s].ftell <= Top
  BY Moved
<1>. QED  BY <1>3, <1>4, <1>5, TypedKept DEF Typed

(* A read file's position; one that is not beyond the bound can be moved.  *)
LEMMA Position ==
  ASSUME ConstantsAssumption, Typed, NEW h \in Handles, prog[h].mode = "r"
  PROVE  LET s == prog[h].slot
         IN  /\ s \in Slot /\ table[s].pointer \in Blocks /\ table[s].ftell \in Nat
             /\ Address(s, 0) = Base(table[s].pointer) /\ Base(table[s].pointer) \in Nat
             /\ Address(s, table[s].ftell) \in Memory
             /\ Address(s, table[s].ftell) = Base(table[s].pointer) + table[s].ftell
             /\ \A n \in 0 .. MaxTell : Base(table[s].pointer) + n <= Top
<1>. DEFINE s == prog[h].slot
<1>1. s \in Slot /\ table[s].pointer \in Blocks /\ table[s].ftell \in Memory
  BY DEF Typed, FileType, SlotType
<1>2. /\ Base(table[s].pointer) \in Nat /\ Base(table[s].pointer) + Sector <= Top /\ table[s].ftell \in Nat
      /\ table[s].pointer # Null /\ Memory = 0 .. Top /\ Top \in Nat
  <2>1. Memory = 0 .. Top /\ Top \in Nat
    BY Places
  <2>2. /\ Base(table[s].pointer) \in Nat /\ Base(table[s].pointer) + Sector <= Top
        /\ table[s].pointer # Null
    BY <1>1, Places, Zenon
  <2>. QED  BY <1>1, <2>1, <2>2
<1>3. \A n \in 0 .. MaxTell : Base(table[s].pointer) + n <= Top
  BY <1>2, Sizes
<1>4. Address(s, table[s].ftell) <= Top
  BY <1>1, <1>2 DEF Typed
<1>. QED  BY <1>1, <1>2, <1>3, <1>4 DEF Address

LEMMA DropSeq ==
  ASSUME NEW S, NEW seq \in Seq(S), NEW n \in Nat
  PROVE  Drop(seq, n) \in Seq(S)
BY DEF Drop

LEMMA OneFurther ==
  ASSUME ConstantsAssumption, NEW t \in Nat, t < MaxTell
  PROVE  t + 1 \in Nat /\ t + 1 \in 0 .. MaxTell /\ t + 1 <= Sector
BY Sizes

LEMMA TypedGetc ==
  ASSUME ConstantsAssumption, Typed, NEW h \in Handles, Getc(h)
  PROVE  Typed'
<1>. DEFINE n == table[prog[h].slot].ftell + 1
<1>1. prog[h].mode = "r" /\ table[prog[h].slot].ftell < MaxTell
  BY DEF Getc
<1>2. n \in 0 .. MaxTell /\ n \in Nat
  <2>1. table[prog[h].slot].ftell \in Nat
    BY <1>1, Position, Zenon
  <2>. QED  BY <1>1, <2>1, OneFurther
<1>3. Base(table[prog[h].slot].pointer) + n <= Top
  BY <1>1, <1>2, Position
<1>4. Drop(prog[h].rest, 1) \in Seq(Units)
  BY DropSeq DEF Typed, FileType
<1>5. /\ table' = [table EXCEPT ![prog[h].slot].ftell = n]
      /\ prog' = [prog EXCEPT ![h].rest = Drop(prog[h].rest, 1)]
      /\ UNCHANGED <<mem, live>>
  BY DEF Getc
<1>. QED  BY <1>1, <1>2, <1>3, <1>4, <1>5, TypedMove

LEMMA TypedSeekStart ==
  ASSUME ConstantsAssumption, Typed, NEW h \in Handles, NEW offset \in Offsets, SeekStart(h, offset)
  PROVE  Typed'
<1>1. prog[h].mode = "r"
  BY DEF SeekStart
<1>2. offset \in 0 .. MaxTell /\ offset \in Nat
  BY Sizes DEF ConstantsAssumption
<1>3. Base(table[prog[h].slot].pointer) + offset <= Top
  BY <1>1, <1>2, Position
<1>4. prog[h].content \in Seq(Units)
  BY <1>1 DEF Typed, ConstantsAssumption
<1>5. Drop(prog[h].content, offset) \in Seq(Units)
  BY <1>2, <1>4, DropSeq
<1>6. /\ table' = [table EXCEPT ![prog[h].slot].ftell = offset]
      /\ prog' = [prog EXCEPT ![h].rest = Drop(prog[h].content, offset)]
      /\ UNCHANGED <<mem, live>>
  BY DEF SeekStart
<1>. QED  BY <1>1, <1>2, <1>3, <1>5, <1>6, TypedMove

(* The search for the end of the file goes on from the position.           *)
LEMMA SeekEndStep ==
  ASSUME ConstantsAssumption, Typed, NEW h \in Handles, SeekEnd(h)
  PROVE  LET s == prog[h].slot
         IN \E n \in Nat :
              /\ table[s].ftell <= n /\ Base(table[s].pointer) + n <= Top
              /\ mem[Base(table[s].pointer) + n] = 0
              /\ table' = [table EXCEPT ![prog[h].slot].ftell = n]
<1>. DEFINE s == prog[h].slot
            a == Address(s, table[s].ftell)
            e == EndOfString(mem, a)
<1>1. prog[h].mode = "r" /\ table' = [table EXCEPT ![s].ftell = e - Address(s, 0)]
  BY DEF SeekEnd
<1>2. /\ Address(s, 0) = Base(table[s].pointer) /\ Base(table[s].pointer) \in Nat
      /\ a \in Memory /\ a = Base(table[s].pointer) + table[s].ftell /\ table[s].ftell \in Nat
  BY <1>1, Position
<1>3. e \in Memory /\ a <= e /\ mem[e] = 0
  BY <1>2, EndIsFound DEF Typed
<1>4. Memory = 0 .. Top /\ Top \in Nat
  BY Places
<1>. HIDE DEF a, e
<1>5. PICK n \in Nat : n = e - Base(table[s].pointer) /\ Base(table[s].pointer) + n = e /\ table[s].ftell <= n
  <2>1. e \in Nat /\ Base(table[s].pointer) + table[s].ftell <= e
    BY <1>2, <1>3, <1>4
  <2>2. /\ e - Base(table[s].pointer) \in Nat /\ Base(table[s].pointer) + (e - Base(table[s].pointer)) = e
        /\ table[s].ftell <= e - Base(table[s].pointer)
    BY <1>2, <2>1
  <2>. QED  BY <2>2
<1>6. Base(table[s].pointer) + n <= Top
  BY <1>3, <1>4, <1>5
<1>. QED  BY <1>1, <1>2, <1>3, <1>5, <1>6, Zenon

LEMMA TypedSeekEnd ==
  ASSUME ConstantsAssumption, Typed, NEW h \in Handles, SeekEnd(h)
  PROVE  Typed'
<1>1. PICK n \in Nat : /\ Base(table[prog[h].slot].pointer) + n <= Top
                       /\ table' = [table EXCEPT ![prog[h].slot].ftell = n]
  BY SeekEndStep, Zenon
<1>2. prog[h].mode = "r" /\ prog' = [prog EXCEPT ![h].rest = <<>>] /\ UNCHANGED <<mem, live>>
  BY DEF SeekEnd
<1>3. <<>> \in Seq(Units)
  OBVIOUS
<1>. QED  BY <1>1, <1>2, <1>3, TypedMove

LEMMA TypedUngetc ==
  ASSUME ConstantsAssumption, Typed, NEW h \in Handles, NEW u \in Pushed, Ungetc(h, u)
  PROVE  Typed'
<1>. DEFINE s == prog[h].slot
            n == table[s].ftell + 1
            a == Base(table[s].pointer) + n
            f == Spoil(h, {a})
<1>1. prog[h].mode = "r" /\ table[s].ftell < MaxTell
  BY DEF Ungetc
<1>2. s \in Slot /\ table[s].pointer \in Blocks /\ table[s].ftell \in Nat /\ prog[h] \in FileType
  BY <1>1, Position, Zenon DEF Typed
<1>3. n \in Nat /\ n <= Sector
  BY <1>1, <1>2, OneFurther
<1>4. Base(table[s].pointer) \in Nat /\ Base(table[s].pointer) < Base(Null) /\ Base(Null) \in Nat
      /\ Memory = 0 .. Top /\ Top \in Nat /\ Sector \in Nat /\ Top = Base(Null) + Sector
  BY <1>2, Places, Sizes, Zenon DEF Top
<1>5. a \in Memory /\ a # Top /\ a <= Top
  <2>1. ASSUME NEW x \in Nat, NEW y \in Nat, NEW k \in Nat, NEW m \in Nat, x < y, k <= m
        PROVE  x + k \in 0 .. y + m /\ x + k # y + m
    <3>1. x + k \in Nat /\ y + m \in Nat /\ x + k < y + m
      BY <2>1
    <3>. QED  BY <3>1
  <2> HIDE DEF n
  <2>2. a \in 0 .. Base(Null) + Sector /\ a # Base(Null) + Sector
    BY <1>3, <1>4, <2>1, Zenon
  <2>. QED  BY <1>4, <2>2
<1>6. Address(s, n) = a
  BY DEF Address
<1>7. /\ table' = [table EXCEPT ![s].ftell = n]
      /\ mem' = [mem EXCEPT ![a] = u]
      /\ prog' = [f EXCEPT ![h].rest = <<u>> \o @, ![h].spoilt = TRUE]
      /\ UNCHANGED live
  BY <1>6 DEF Ungetc
<1>8. u \in Units
  BY DEF ConstantsAssumption
<1>9. mem' \in [Memory -> Units \union {0}] /\ mem'[Top] = 0
  <2>1. mem \in [Memory -> Units \union {0}] /\ mem[Top] = 0 /\ Top \in Memory
    BY <1>4 DEF Typed
  <2>. HIDE DEF a
  <2>. QED  BY <1>5, <1>7, <1>8, <2>1
<1>10. /\ table' \in [Slot -> SlotType]
       /\ \A t \in Slot : /\ table'[t].pointer = table[t].pointer
                          /\ table[t].pointer # Null => Base(table[t].pointer) + table'[t].ftell <= Top
  BY <1>1, <1>3, <1>5, <1>7, Moved
<1>11. /\ f \in [Handles -> FileType] /\ f[h] = prog[h]
       /\ \A g \in Handles : /\ f[g].slot = prog[g].slot /\ f[g].mode = prog[g].mode
                             /\ f[g].content = prog[g].content
                             /\ (prog[g].mode # "r" => f[g] = prog[g])
  BY SpoilKeeps
<1>. HIDE DEF s, n, a, f
<1>12. <<u>> \o prog[h].rest \in Seq(Units)
  BY <1>2, <1>8 DEF FileType
<1>13. [prog[h] EXCEPT !.rest = <<u>> \o @, !.spoilt = TRUE] \in FileType
  BY <1>2, <1>12, Zenon DEF FileType
<1>14. prog' = [f EXCEPT ![h] = [prog[h] EXCEPT !.rest = <<u>> \o @, !.spoilt = TRUE]]
  BY <1>2, <1>7, <1>11 DEF FileType
<1>15. prog' \in [Handles -> FileType]
  BY <1>11, <1>13, <1>14, Zenon
<1>16. /\ prog'[h].mode = "r" /\ prog'[h].slot = prog[h].slot /\ prog'[h].content = prog[h].content
       /\ \A g \in Handles : g # h => prog'[g] = f[g]
  BY <1>1, <1>2, <1>11, <1>14 DEF FileType
<1>17. \A g \in Handles : /\ prog'[g].mode = "closed" => prog'[g] = Closed
                          /\ prog'[g].mode = "r" => /\ prog[g].mode = "r" /\ prog'[g].slot = prog[g].slot
                                                    /\ prog'[g].content = prog[g].content
  BY <1>1, <1>11, <1>16 DEF Typed
<1>. QED  BY <1>7, <1>9, <1>10, <1>15, <1>17, TypedKept DEF Typed

LEMMA TypedStep ==
  ASSUME ConstantsAssumption, Typed, [Next]_vars
  PROVE  Typed'
<1>1. CASE UNCHANGED vars
  BY <1>1 DEF vars, Typed, Address
<1>2. CASE Next
  BY <1>2, TypedOpenRead, TypedOpenWrite, TypedClose, TypedGetc, TypedUngetc, TypedSeekStart, TypedSeekEnd
     DEF Next
<1>. QED  BY <1>1, <1>2

LEMMA TypedIsTypeOK == ConstantsAssumption /\ Typed => TypeOK
<1>. SUFFICES ASSUME ConstantsAssumption, Typed PROVE TypeOK
  OBVIOUS
<1>1. table \in [Slot -> [ftell : Memory, inuse : BOOLEAN, pointer : Blocks \union {Null},
                         filename : Seq(Letters), maxsize : Memory]]
  BY Zenon DEF Typed, SlotType
<1>2. \A h \in Handles : prog[h] \in FileType
  BY DEF Typed
<1>3. \A h \in Handles : /\ prog[h].slot \in Slot /\ prog[h].mode \in {"closed", "r", "w"}
                         /\ prog[h].spoilt \in BOOLEAN
  BY <1>2, Zenon DEF FileType
<1>. QED  BY <1>1, <1>3, Zenon DEF Typed, TypeOK

-----------------------------------------------------------------------------
(* A slot is in use for one open file, and only then.                      *)
SlotsApart ==
  /\ HandlesApart
  /\ \A s \in Slot : table[s].inuse <=> \E h \in Handles : Open(h) /\ prog[h].slot = s

LEMMA ApartInit == Init => SlotsApart
BY DEF Init, SlotsApart, HandlesApart, Open, Closed

(* While a program has fewer files than the table, OPEN finds a free slot. *)
LEMMA TableHasRoom ==
  ASSUME ConstantsAssumption, MaxOpen <= Slots, Typed, SlotsApart, NEW h \in Handles, ~Open(h)
  PROVE  FreeSlot \in Slot /\ ~table[FreeSlot].inuse
<1>1. SUFFICES ASSUME \A s \in Slot : table[s].inuse PROVE FALSE
  BY FreeSlotIsFree
<1>. DEFINE owner == [s \in Slot |-> CHOOSE g \in Handles : Open(g) /\ prog[g].slot = s]
<1>2. \A s \in Slot : owner[s] \in Handles /\ Open(owner[s]) /\ prog[owner[s]].slot = s
  BY <1>1 DEF SlotsApart
<1>3. owner \in [Slot -> Handles \ {h}]
  BY <1>2
<1>. HIDE DEF owner
<1>4. /\ IsFiniteSet(Slot) /\ Cardinality(Slot) = Slots
      /\ IsFiniteSet(Handles) /\ Cardinality(Handles) = MaxOpen
  <2>1. 0 \in Int /\ Slots - 1 \in Int /\ 1 \in Int /\ MaxOpen \in Int /\ ~(0 > Slots - 1)
    BY Sizes
  <2>2. IsFiniteSet(0 .. Slots - 1) /\ Cardinality(0 .. Slots - 1) = Slots - 1 - 0 + 1
    BY <2>1, FS_Interval, Zenon
  <2>3. IsFiniteSet(1 .. MaxOpen) /\ Cardinality(1 .. MaxOpen) = IF 1 > MaxOpen THEN 0 ELSE MaxOpen - 1 + 1
    BY <2>1, FS_Interval, Zenon
  <2>. QED  BY <2>2, <2>3, Sizes DEF Slot, Handles
<1>5. IsFiniteSet(Handles \ {h}) /\ Cardinality(Handles \ {h}) = MaxOpen - 1
  BY <1>4, FS_RemoveElement
<1>6. Cardinality(Handles \ {h}) < Cardinality(Slot)
  BY <1>4, <1>5, Sizes
<1>7. \E s, t \in Slot : s # t /\ owner[s] = owner[t]
  BY <1>3, <1>4, <1>5, <1>6, FS_PigeonHole
<1>. QED  BY <1>2, <1>7

LEMMA ApartOpened ==
  ASSUME SlotsApart, NEW h \in Handles, ~Open(h), NEW s \in Slot, ~table[s].inuse,
         prog'[h].slot = s, prog'[h].mode # "closed",
         \A g \in Handles : g # h => prog'[g].slot = prog[g].slot /\ prog'[g].mode = prog[g].mode,
         table'[s].inuse, \A t \in Slot : t # s => (table'[t].inuse <=> table[t].inuse)
  PROVE  SlotsApart'
<1>1. \A g \in Handles : g # h => (Open(g)' <=> Open(g))
  BY DEF Open
<1>2. Open(h)'
  BY DEF Open
<1>3. \A g \in Handles : Open(g) => prog[g].slot # s
  BY DEF SlotsApart
<1>4. HandlesApart'
  BY <1>1, <1>2, <1>3 DEF HandlesApart, SlotsApart
<1>5. ASSUME NEW t \in Slot
      PROVE  table'[t].inuse <=> \E g \in Handles : Open(g)' /\ prog'[g].slot = t
  <2>1. CASE t = s
    BY <1>2, <2>1
  <2>2. CASE t # s
    <3>1. (\E g \in Handles : Open(g)' /\ prog'[g].slot = t) <=> (\E g \in Handles : Open(g) /\ prog[g].slot = t)
      BY <1>1, <2>2
    <3>. QED  BY <2>2, <3>1 DEF SlotsApart
  <2>. QED  BY <2>1, <2>2
<1>. QED  BY <1>4, <1>5 DEF SlotsApart

LEMMA ApartClosed ==
  ASSUME SlotsApart, NEW h \in Handles, Open(h), prog[h].slot \in Slot, prog'[h].mode = "closed",
         \A g \in Handles : g # h => prog'[g].slot = prog[g].slot /\ prog'[g].mode = prog[g].mode,
         ~table'[prog[h].slot].inuse,
         \A t \in Slot : t # prog[h].slot => (table'[t].inuse <=> table[t].inuse)
  PROVE  SlotsApart'
<1>1. \A g \in Handles : g # h => (Open(g)' <=> Open(g))
  BY DEF Open
<1>2. ~Open(h)'
  BY DEF Open
<1>3. HandlesApart'
  BY <1>1, <1>2 DEF HandlesApart, SlotsApart
<1>4. ASSUME NEW t \in Slot
      PROVE  table'[t].inuse <=> \E g \in Handles : Open(g)' /\ prog'[g].slot = t
  <2>1. CASE t = prog[h].slot
    BY <1>1, <1>2, <2>1 DEF SlotsApart, HandlesApart
  <2>2. CASE t # prog[h].slot
    <3>1. (\E g \in Handles : Open(g)' /\ prog'[g].slot = t) <=> (\E g \in Handles : Open(g) /\ prog[g].slot = t)
      BY <1>1, <1>2, <2>2
    <3>. QED  BY <2>2, <3>1 DEF SlotsApart
  <2>. QED  BY <2>1, <2>2
<1>. QED  BY <1>3, <1>4 DEF SlotsApart

LEMMA ApartKept ==
  ASSUME SlotsApart,
         \A g \in Handles : prog'[g].slot = prog[g].slot /\ prog'[g].mode = prog[g].mode,
         \A t \in Slot : table'[t].inuse <=> table[t].inuse
  PROVE  SlotsApart'
BY DEF SlotsApart, HandlesApart, Open

LEMMA ApartStep ==
  ASSUME ConstantsAssumption, MaxOpen <= Slots, Typed, SlotsApart, [Next]_vars
  PROVE  SlotsApart'
<1>1. CASE UNCHANGED vars
  BY <1>1, Zenon DEF vars, SlotsApart, HandlesApart, Open
<1>2. ASSUME NEW h \in Handles, NEW path \in Names, NEW c \in Contents, OpenRead(h, path, c)
      PROVE  SlotsApart'
  <2>. DEFINE s == FreeSlot
  <2>1. PICK b \in Blocks \ live, end \in Memory : Opened(h, path, c, s, b, end)
    BY <1>2, OpenReadStep, Zenon
  <2>2. ~Open(h)
    BY <2>1 DEF Opened, Open, Closed
  <2>3. s \in Slot /\ ~table[s].inuse
    BY <2>2, TableHasRoom
  <2>. HIDE DEF s
  <2>4. prog'[h].slot = s /\ prog'[h].mode = "r"
    BY <2>1, SpoilKeeps DEF Opened
  <2>5. \A g \in Handles : g # h => prog'[g].slot = prog[g].slot /\ prog'[g].mode = prog[g].mode
    BY <2>1, SpoilKeeps DEF Opened
  <2>6. table'[s].inuse /\ \A t \in Slot : t # s => table'[t] = table[t]
    BY <2>1, <2>3 DEF Opened, Typed
  <2>. QED  BY <2>2, <2>3, <2>4, <2>5, <2>6, ApartOpened
<1>3. ASSUME NEW h \in Handles, NEW path \in Names, OpenWrite(h, path)
      PROVE  SlotsApart'
  <2>. DEFINE s == FreeSlot
  <2>1. /\ table' = [table EXCEPT ![s].ftell = 0, ![s].inuse = TRUE, ![s].filename = CopyOver(path, @)]
        /\ prog' = [prog EXCEPT ![h] = [slot |-> s, mode |-> "w", path |-> path, rest |-> <<>>,
                                        content |-> <<>>, spoilt |-> FALSE]]
    BY <1>3 DEF OpenWrite
  <2>2. ~Open(h)
    BY <1>3 DEF OpenWrite, NextFile, Open, Closed
  <2>3. s \in Slot /\ ~table[s].inuse
    BY <2>2, TableHasRoom
  <2>. HIDE DEF s
  <2>4. prog'[h].slot = s /\ prog'[h].mode = "w"
        /\ \A g \in Handles : g # h => prog'[g] = prog[g]
    BY <2>1 DEF Typed
  <2>6. table'[s].inuse /\ \A t \in Slot : t # s => table'[t] = table[t]
    BY <2>1, <2>3 DEF Typed, SlotType
  <2>. QED  BY <2>2, <2>3, <2>4, <2>6, ApartOpened
<1>4. ASSUME NEW h \in Handles, Close(h)
      PROVE  SlotsApart'
  <2>. DEFINE s == prog[h].slot
  <2>1. s \in Slot /\ table[s] \in SlotType /\ Open(h)
    BY <1>4 DEF Close, Typed, FileType, Open
  <2>2. table' = [table EXCEPT ![s].inuse = FALSE] /\ prog' = WithoutFile(h)
    BY <1>4 DEF Close
  <2>3. ~table'[s].inuse /\ \A t \in Slot : t # s => table'[t] = table[t]
    BY <2>1, <2>2 DEF Typed, SlotType
  <2>4. prog'[h].mode = "closed"
        /\ \A g \in Handles : g # h => prog'[g].slot = prog[g].slot /\ prog'[g].mode = prog[g].mode
    BY <2>2, SpoilKeeps DEF WithoutFile, Closed, Typed
  <2>. QED  BY <2>1, <2>3, <2>4, ApartClosed
<1>5. ASSUME NEW h \in Handles, Getc(h) \/ SeekEnd(h) \/ (\E offset \in Offsets : SeekStart(h, offset))
                                        \/ (\E u \in Pushed : Ungetc(h, u))
      PROVE  SlotsApart'
  <2>1. prog[h] \in FileType /\ prog[h].slot \in Slot /\ table[prog[h].slot] \in SlotType
    BY DEF Typed, FileType
  <2>2. \E n : table' = [table EXCEPT ![prog[h].slot].ftell = n]
    BY <1>5 DEF Getc, SeekEnd, SeekStart, Ungetc
  <2>3. \A t \in Slot : table'[t].inuse = table[t].inuse
    BY <2>1, <2>2 DEF Typed, SlotType
  <2>4. \/ \E r : prog' = [prog EXCEPT ![h].rest = r]
        \/ \E A, r : prog' = [Spoil(h, A) EXCEPT ![h].rest = r, ![h].spoilt = TRUE]
    BY <1>5 DEF Getc, SeekEnd, SeekStart, Ungetc
  <2>5. \A g \in Handles : prog'[g].slot = prog[g].slot /\ prog'[g].mode = prog[g].mode
    <3>1. CASE \E r : prog' = [prog EXCEPT ![h].rest = r]
      BY <2>1, <3>1 DEF Typed, FileType
    <3>2. ASSUME NEW A, NEW r, prog' = [Spoil(h, A) EXCEPT ![h].rest = r, ![h].spoilt = TRUE]
          PROVE  \A g \in Handles : prog'[g].slot = prog[g].slot /\ prog'[g].mode = prog[g].mode
      <4>1. Spoil(h, A)[h] \in FileType /\ DOMAIN Spoil(h, A) = Handles
        BY SpoilKeeps
      <4>2. \A g \in Handles : prog'[g].slot = Spoil(h, A)[g].slot /\ prog'[g].mode = Spoil(h, A)[g].mode
        BY <3>2, <4>1 DEF FileType
      <4>. QED  BY <4>2, SpoilKeeps
    <3>. QED  BY <2>4, <3>1, <3>2
  <2>. QED  BY <2>3, <2>5, ApartKept
<1>. QED  BY <1>1, <1>2, <1>3, <1>4, <1>5 DEF Next

-----------------------------------------------------------------------------
(* A file that is open for reading and not spoilt has its block and what   *)
(* of its content fits there; what the program expects next is what stands *)
(* at the position, as far as the block is known to go.                    *)
Sound(h) == prog[h].mode = "r" /\ ~prog[h].spoilt

HasBlock(h) ==
  LET t == table[prog[h].slot]
      c == prog[h].content
  IN  /\ t.pointer \in live /\ t.maxsize = Len(c)
      /\ \A n \in Nat : n < Block /\ n < Len(c) => mem[Base(t.pointer) + n] = c[n + 1]

Continues(h) ==
  LET t == table[prog[h].slot]
      c == prog[h].content
  IN  t.ftell < Block \/ Len(c) < Block => prog[h].rest = Drop(c, t.ftell)

Reads ==
  /\ \A h \in Handles : Sound(h) => HasBlock(h) /\ Continues(h)
  /\ \A g, h \in Handles :
       g # h /\ Sound(g) /\ Sound(h) => table[prog[g].slot].pointer # table[prog[h].slot].pointer

LEMMA ReadsInit == Init => Reads
BY DEF Init, Reads, Sound, Closed

LEMMA Contained ==
  ASSUME ConstantsAssumption, NEW c \in Contents
  PROVE  /\ c \in Seq(Units) /\ Len(c) \in Nat /\ Len(c) < Sector
         /\ \A n \in Nat : n < Len(c) => c[n + 1] \in Units
         /\ Drop(c, 0) = c
         /\ \A n \in Nat : n < Block /\ n < Len(c) => n < Len(Promised(c))
         /\ Len(Promised(c)) \in Nat
<1>1. c \in Seq(Units) /\ Len(c) < Sector
  BY DEF ConstantsAssumption
<1>2. Len(Promised(c)) = IF Len(c) < Block THEN Len(c) ELSE Block
  BY <1>1, Sizes DEF Promised
<1>. QED  BY <1>1, <1>2, Sizes DEF Drop

(* What is promised of a file is within its reach.                         *)
LEMMA WithinReach ==
  ASSUME ConstantsAssumption, Typed, NEW g \in Handles, prog[g].mode = "r"
  PROVE  LET b == table[prog[g].slot].pointer
         IN  /\ Base(b) \in Reach(g)
             /\ \A n \in Nat : n < Block /\ n < Len(prog[g].content) => Base(b) + n \in Reach(g)
<1>1. prog[g].content \in Contents /\ Base(table[prog[g].slot].pointer) \in Nat
  BY Position DEF Typed
<1>2. /\ Len(Promised(prog[g].content)) \in Nat
      /\ \A n \in Nat : n < Block /\ n < Len(prog[g].content) => n < Len(Promised(prog[g].content))
  BY <1>1, Contained, Zenon
<1>. QED  BY <1>1, <1>2 DEF Reach

(* A file that a call does not concern keeps its block and its position.   *)
LEMMA OtherKeeps ==
  ASSUME ConstantsAssumption, Typed, Reads, NEW g \in Handles, Sound(g),
         prog'[g].slot = prog[g].slot, prog'[g].content = prog[g].content, prog'[g].rest = prog[g].rest,
         table'[prog[g].slot] = table[prog[g].slot], table[prog[g].slot].pointer \in live',
         \A n \in Nat : n < Block /\ n < Len(prog[g].content) =>
            mem'[Base(table[prog[g].slot].pointer) + n] = mem[Base(table[prog[g].slot].pointer) + n]
  PROVE  HasBlock(g)' /\ Continues(g)'
<1>1. HasBlock(g) /\ Continues(g)
  BY DEF Reads
<1>2. HasBlock(g)'
  BY <1>1, Zenon DEF HasBlock
<1>3. Continues(g)'
  BY <1>1, Zenon DEF Continues
<1>. QED  BY <1>2, <1>3

(* The search for the length finds that of the content.                    *)
LEMMA LengthFound ==
  ASSUME ConstantsAssumption, 0 \notin Units, Typed, NEW b \in Blocks, NEW c \in Contents, NEW end \in Memory,
         Base(b) <= end, Loaded(b, c)[end] = 0, \A x \in Base(b) .. end - 1 : Loaded(b, c)[x] # 0
  PROVE  end - Base(b) = Len(c)
<1>1. /\ Base(b) \in Nat /\ Memory = 0 .. Top /\ Top \in Nat /\ Len(c) \in Nat
  BY Places, Contained
<1>2. /\ \A n \in 0 .. Len(c) - 1 : Loaded(b, c)[Base(b) + n] = c[n + 1]
      /\ Base(b) + Len(c) \in Memory /\ Loaded(b, c)[Base(b) + Len(c)] = 0
  BY LoadedMemory
<1>3. end <= Base(b) + Len(c)
  BY <1>1, <1>2
<1>4. ~(end < Base(b) + Len(c))
  <2>1. SUFFICES ASSUME end < Base(b) + Len(c) PROVE FALSE
    OBVIOUS
  <2>2. PICK n \in 0 .. Len(c) - 1 : end = Base(b) + n
    <3>1. end - Base(b) \in 0 .. Len(c) - 1 /\ end = Base(b) + (end - Base(b))
      BY <1>1, <2>1
    <3>. QED  BY <3>1
  <2>3. c[n + 1] \in Units
    <3>1. n \in Nat /\ n < Len(c)
      BY <1>1
    <3>. QED  BY <3>1, Contained
  <2>. QED  BY <1>2, <2>2, <2>3
<1>. QED  BY <1>1, <1>3, <1>4

LEMMA ReadsOpenRead ==
  ASSUME ConstantsAssumption, MaxOpen <= Slots, 0 \notin Units, Typed, SlotsApart, Reads,
         NEW h \in Handles, NEW path \in Names, NEW c \in Contents, OpenRead(h, path, c)
  PROVE  Reads'
<1>. DEFINE s == FreeSlot
<1>1. PICK b \in Blocks \ live, end \in Memory : Opened(h, path, c, s, b, end)
  BY OpenReadStep, Zenon
<1>2. ~Open(h) /\ prog[h] = Closed
  BY <1>1 DEF Opened, Open, Closed
<1>3. s \in Slot /\ ~table[s].inuse
  BY <1>2, TableHasRoom
<1>. HIDE DEF s
<1>4. table'[s].pointer = b /\ table'[s].ftell = 0 /\ table'[s].maxsize = end - Base(b)
      /\ \A t \in Slot : t # s => table'[t] = table[t]
  BY <1>1, <1>3 DEF Opened, Typed
<1>5. /\ prog'[h] = [slot |-> s, mode |-> "r", path |-> path, rest |-> c, content |-> c, spoilt |-> FALSE]
      /\ \A g \in Handles : g # h => prog'[g] = Spoil(h, BehindBlock(b))[g]
      /\ mem' = Loaded(b, c) /\ live' = live \union {b}
  BY <1>1, SpoilKeeps DEF Opened
<1>6. HasBlock(h)' /\ Continues(h)'
  <2>1. end - Base(b) = Len(c)
    BY <1>1, LengthFound DEF Opened
  <2>2. \A n \in Nat : n < Block /\ n < Len(c) => mem'[Base(b) + n] = c[n + 1]
    BY <1>5, LoadedMemory, Contained
  <2>3. Drop(c, 0) = c
    BY Contained
  <2>. QED  BY <1>4, <1>5, <2>1, <2>2, <2>3 DEF HasBlock, Continues
<1>7. ASSUME NEW g \in Handles, g # h, Sound(g)'
      PROVE  /\ Sound(g) /\ HasBlock(g)' /\ Continues(g)'
             /\ prog'[g].slot = prog[g].slot /\ prog[g].slot \in Slot
             /\ table'[prog[g].slot] = table[prog[g].slot]
             /\ table[prog[g].slot].pointer \in live
  <2>1. /\ prog'[g].slot = prog[g].slot /\ prog'[g].mode = prog[g].mode
        /\ prog'[g].rest = prog[g].rest /\ prog'[g].content = prog[g].content
        /\ ~prog'[g].spoilt => ~prog[g].spoilt /\ (prog[g].mode # "r" \/ Reach(g) \cap BehindBlock(b) = {})
    BY <1>5, <1>7, SpoilKeeps
  <2>2. Sound(g) /\ Reach(g) \cap BehindBlock(b) = {} /\ prog[g].mode = "r"
    BY <1>7, <2>1 DEF Sound
  <2>3. prog[g].slot \in Slot /\ table[prog[g].slot].inuse /\ prog[g].slot # s
    BY <1>3, <2>2 DEF SlotsApart, Sound, Open, Typed, FileType
  <2>4. table[prog[g].slot].pointer \in live /\ live \subseteq Blocks
    BY <2>2 DEF Reads, HasBlock, Typed
  <2>. DEFINE start == Base(table[prog[g].slot].pointer)
  <2>5. \A n \in Nat : n < Block /\ n < Len(prog[g].content) => start + n \in Reach(g)
    BY <2>2, WithinReach
  <2>6. /\ start \in Nat /\ start + Sector <= Top /\ start + Block <= Top /\ Base(b) \in Nat
        /\ (start + Spacing <= Base(b) \/ Base(b) + Spacing <= start)
        /\ Memory = 0 .. Top /\ Top \in Nat
    BY <2>4, Places
  <2>. HIDE DEF start
  <2>7. ASSUME NEW n \in Nat, n < Block, n < Len(prog[g].content)
        PROVE  mem'[start + n] = mem[start + n]
    <3>0. Block \in Nat /\ Spacing \in Nat /\ Sector \in Nat /\ Block <= Spacing
      BY Sizes
    <3>1. start + n \in Memory
      BY <2>6, <2>7, <3>0
    <3>2. start + n \notin Base(b) + Block .. Base(b) + Sector - 1
      BY <2>2, <2>5, <2>7, Zenon DEF BehindBlock
    <3>3. start + n \notin Base(b) .. Base(b) + Sector - 1
      BY <2>6, <2>7, <3>0, <3>2
    <3>. QED  BY <1>5, <3>1, <3>3, LoadedMemory
  <2>8. table'[prog[g].slot] = table[prog[g].slot] /\ table[prog[g].slot].pointer \in live'
    BY <1>4, <1>5, <2>3, <2>4
  <2>9. HasBlock(g)' /\ Continues(g)'
    BY <2>1, <2>2, <2>7, <2>8, OtherKeeps DEF start
  <2>. QED  BY <2>1, <2>2, <2>3, <2>4, <2>8, <2>9
<1>8. ASSUME NEW f \in Handles, NEW g \in Handles, f # g, Sound(f)', Sound(g)'
      PROVE  table'[prog'[f].slot].pointer # table'[prog'[g].slot].pointer
  <2>1. CASE f = h
    BY <1>4, <1>5, <1>7, <1>8, <2>1
  <2>2. CASE g = h
    <3>1. table'[prog'[f].slot].pointer \in live
      BY <1>7, <1>8, <2>2
    <3>2. table'[prog'[h].slot].pointer = b
      BY <1>4, <1>5
    <3>. QED  BY <2>2, <3>1, <3>2
  <2>3. CASE f # h /\ g # h
    BY <1>7, <1>8, <2>3 DEF Reads
  <2>. QED  BY <2>1, <2>2, <2>3
<1>. QED  BY <1>6, <1>7, <1>8 DEF Reads

LEMMA ReadsOpenWrite ==
  ASSUME ConstantsAssumption, MaxOpen <= Slots, Typed, SlotsApart, Reads,
         NEW h \in Handles, NEW path \in Names, OpenWrite(h, path)
  PROVE  Reads'
<1>. DEFINE s == FreeSlot
<1>1. /\ table' = [table EXCEPT ![s].ftell = 0, ![s].inuse = TRUE, ![s].filename = CopyOver(path, @)]
      /\ prog' = [prog EXCEPT ![h] = [slot |-> s, mode |-> "w", path |-> path, rest |-> <<>>,
                                      content |-> <<>>, spoilt |-> FALSE]]
      /\ mem' = mem /\ live' = live
  BY DEF OpenWrite
<1>2. ~Open(h)
  BY DEF OpenWrite, NextFile, Open, Closed
<1>3. s \in Slot /\ ~table[s].inuse
  BY <1>2, TableHasRoom
<1>. HIDE DEF s
<1>4. ~Sound(h)' /\ \A g \in Handles : g # h => prog'[g] = prog[g]
  BY <1>1 DEF Typed, Sound
<1>5. \A t \in Slot : t # s => table'[t] = table[t]
  BY <1>1 DEF Typed
<1>6. ASSUME NEW g \in Handles, Sound(g)'
      PROVE  /\ Sound(g) /\ HasBlock(g)' /\ Continues(g)' /\ prog'[g].slot = prog[g].slot
             /\ table'[prog[g].slot] = table[prog[g].slot]
  <2>1. Sound(g) /\ prog'[g] = prog[g]
    BY <1>4, <1>6 DEF Sound
  <2>2. prog[g].slot \in Slot /\ prog[g].slot # s
    BY <1>3, <2>1 DEF SlotsApart, Sound, Open, Typed, FileType
  <2>3. table'[prog[g].slot] = table[prog[g].slot] /\ table[prog[g].slot].pointer \in live'
    BY <1>1, <1>5, <2>1, <2>2 DEF Reads, HasBlock
  <2>. QED  BY <1>1, <2>1, <2>3, OtherKeeps
<1>7. ASSUME NEW f \in Handles, NEW g \in Handles, f # g, Sound(f)', Sound(g)'
      PROVE  table'[prog'[f].slot].pointer # table'[prog'[g].slot].pointer
  BY <1>6, <1>7 DEF Reads
<1>. QED  BY <1>6, <1>7 DEF Reads

LEMMA ReadsClose ==
  ASSUME ConstantsAssumption, Typed, SlotsApart, Reads, NEW h \in Handles, Close(h)
  PROVE  Reads'
<1>. DEFINE s == prog[h].slot
            b == table[s].pointer
<1>1. /\ prog[h] # Closed /\ s \in Slot /\ Open(h)
      /\ table' = [table EXCEPT ![s].inuse = FALSE] /\ prog' = WithoutFile(h)
      /\ \/ live' = live \ {b} /\ mem' = Cleared(b)
         \/ UNCHANGED <<live, mem>>
  BY DEF Close, Typed, FileType, Open
<1>2. ~Sound(h)' /\ \A t \in Slot : t # s => table'[t] = table[t]
  <2>1. WithoutFile(h)[h] = Closed
    BY SpoilKeeps DEF WithoutFile, Typed
  <2>2. Closed.mode = "closed"
    BY DEF Closed
  <2>3. \A t \in Slot : t # s => table'[t] = table[t]
    BY <1>1 DEF Typed
  <2>. QED  BY <1>1, <2>1, <2>2, <2>3 DEF Sound
<1>3. ASSUME NEW g \in Handles, Sound(g)'
      PROVE  /\ Sound(g) /\ HasBlock(g)' /\ Continues(g)' /\ prog'[g].slot = prog[g].slot
             /\ table'[prog[g].slot] = table[prog[g].slot]
  <2>1. g # h
    BY <1>2, <1>3
  <2>2. /\ prog'[g].slot = prog[g].slot /\ prog'[g].mode = prog[g].mode
        /\ prog'[g].rest = prog[g].rest /\ prog'[g].content = prog[g].content
        /\ ~prog'[g].spoilt =>
             /\ ~prog[g].spoilt
             /\ \/ prog[h].mode # "w" /\ ~prog[h].spoilt
                \/ prog[g].mode # "r"
                \/ Reach(g) \cap InBlock(b) = {}
    BY <1>1, <2>1, SpoilKeeps DEF WithoutFile, Typed
  <2>3. Sound(g) /\ (Sound(h) \/ Reach(g) \cap InBlock(b) = {})
    BY <1>1, <1>3, <2>2 DEF Sound, Typed, FileType
  <2>4. prog[g].slot \in Slot /\ prog[g].slot # s
    BY <1>1, <2>1, <2>3 DEF SlotsApart, HandlesApart, Sound, Open, Typed, FileType
  <2>. DEFINE own == table[prog[g].slot].pointer
              start == Base(own)
  <2>5. own \in live /\ own \in Blocks /\ own # Null
    BY <2>3, Places DEF Reads, HasBlock, Typed
  <2>6. /\ start \in Nat /\ start \in Reach(g) /\ start + Block <= Top
        /\ \A n \in Nat : n < Block /\ n < Len(prog[g].content) => start + n \in Reach(g)
    BY <2>3, <2>5, Places, WithinReach DEF Sound
  <2>7. own # b
    <3>1. CASE Sound(h)
      BY <2>1, <2>3, <3>1 DEF Reads
    <3>2. CASE Reach(g) \cap InBlock(b) = {}
      <4>1. own = b => start \in InBlock(b)
        BY <2>5, <2>6, Sizes DEF InBlock
      <4>. QED  BY <2>6, <3>2, <4>1
    <3>. QED  BY <2>3, <3>1, <3>2
  <2>8. own \in live'
    BY <1>1, <2>5, <2>7
  <2>9. ASSUME NEW n \in Nat, n < Block, n < Len(prog[g].content)
        PROVE  start + n \in Memory /\ start + n \notin InBlock(b)
    <3>0. /\ Block \in Nat /\ Spacing \in Nat /\ Block <= Spacing
          /\ Memory = 0 .. Top /\ Top \in Nat
      BY Sizes, Places
    <3>1. start + n \in Memory
      BY <2>6, <2>9, <3>0
    <3>2. b \in Blocks => Base(b) \in Nat /\ (start + Spacing <= Base(b) \/ Base(b) + Spacing <= start)
      BY <2>5, <2>7, Places
    <3>3. b \in Blocks \/ b = Null
      BY <1>1 DEF Typed, SlotType
    <3>. HIDE DEF b, start
    <3>4. b \in Blocks => start + n \notin Base(b) .. Base(b) + Block - 1
      BY <2>6, <2>9, <3>0, <3>2
    <3>. QED  BY <3>1, <3>3, <3>4 DEF InBlock
  <2>10. \A n \in Nat : n < Block /\ n < Len(prog[g].content) => mem'[start + n] = mem[start + n]
    BY <1>1, <2>9 DEF Cleared
  <2>11. table'[prog[g].slot] = table[prog[g].slot]
    BY <1>2, <2>4
  <2>. QED  BY <2>2, <2>3, <2>8, <2>10, <2>11, OtherKeeps
<1>. QED  BY <1>3 DEF Reads

(* A call that moves the position of one file, and may write one unit that *)
(* no other file is known by.                                              *)
LEMMA ReadsMoved ==
  ASSUME ConstantsAssumption, Typed, SlotsApart, Reads, NEW h \in Handles, prog[h].mode = "r", NEW n \in Nat,
         Base(table[prog[h].slot].pointer) + n <= Top,
         table' = [table EXCEPT ![prog[h].slot].ftell = n],
         UNCHANGED <<mem, live>>, NEW rest, prog' = [prog EXCEPT ![h].rest = rest],
         Sound(h) /\ (n < Block \/ Len(prog[h].content) < Block) => rest = Drop(prog[h].content, n)
  PROVE  Reads'
<1>. DEFINE s == prog[h].slot
<1>1. s \in Slot /\ prog[h] \in FileType /\ table[s] \in SlotType
  BY DEF Typed, FileType
<1>2. \A t \in Slot : /\ table'[t].pointer = table[t].pointer /\ table'[t].maxsize = table[t].maxsize
                      /\ t # s => table'[t] = table[t]
  BY Moved
<1>3. table'[s].ftell = n
  BY <1>1 DEF Typed, SlotType
<1>4. /\ \A g \in Handles : g # h => prog'[g] = prog[g]
      /\ prog'[h].slot = s /\ prog'[h].mode = prog[h].mode /\ prog'[h].content = prog[h].content
      /\ prog'[h].spoilt = prog[h].spoilt /\ prog'[h].rest = rest
  BY <1>1 DEF Typed, FileType
<1>5. \A g \in Handles : /\ prog'[g].slot = prog[g].slot /\ prog[g].slot \in Slot
                         /\ Sound(g)' => Sound(g)
  BY <1>4 DEF Sound, Typed, FileType
<1>6. ASSUME NEW g \in Handles, Sound(g)'
      PROVE  HasBlock(g)' /\ Continues(g)'
  <2>1. CASE g = h
    <3>1. HasBlock(h)
      BY <1>5, <1>6, <2>1 DEF Reads
    <3>2. HasBlock(h)'
      BY <1>1, <1>2, <1>4, <3>1 DEF HasBlock
    <3>3. Continues(h)'
      BY <1>3, <1>4, <1>5, <1>6, <2>1 DEF Continues
    <3>. QED  BY <2>1, <3>2, <3>3
  <2>2. CASE g # h
    <3>1. Sound(g) /\ prog'[g] = prog[g] /\ prog[g].slot \in Slot
      BY <1>4, <1>5, <1>6, <2>2
    <3>2. prog[g].slot # s
      BY <1>1, <2>2, <3>1 DEF SlotsApart, HandlesApart, Open, Sound
    <3>3. table'[prog[g].slot] = table[prog[g].slot] /\ table[prog[g].slot].pointer \in live'
      BY <1>2, <3>1, <3>2 DEF Reads, HasBlock
    <3>. QED  BY <3>1, <3>3, OtherKeeps
  <2>. QED  BY <2>1, <2>2
<1>7. ASSUME NEW f \in Handles, NEW g \in Handles, f # g, Sound(f)', Sound(g)'
      PROVE  table'[prog'[f].slot].pointer # table'[prog'[g].slot].pointer
  BY <1>2, <1>5, <1>7 DEF Reads
<1>. QED  BY <1>6, <1>7 DEF Reads

LEMMA DropElements ==
  ASSUME NEW S, NEW c \in Seq(S), NEW n \in Nat
  PROVE  /\ Drop(c, n) \in Seq(S) /\ Len(Drop(c, n)) = IF n < Len(c) THEN Len(c) - n ELSE 0
         /\ \A i \in 1 .. Len(Drop(c, n)) : Drop(c, n)[i] = c[n + i]
<1>1. Drop(c, n) \in Seq(S) /\ Len(Drop(c, n)) = IF n < Len(c) THEN Len(c) - n ELSE 0
  BY DEF Drop
<1>2. ASSUME NEW i \in 1 .. Len(Drop(c, n))
      PROVE  Drop(c, n)[i] = c[n + i]
  BY <1>1 DEF Drop
<1>. QED  BY <1>1, <1>2

LEMMA Dropped ==
  ASSUME NEW S, NEW c \in Seq(S), NEW n \in Nat
  PROVE  /\ Drop(Drop(c, n), 1) = Drop(c, n + 1)
         /\ n >= Len(c) => Drop(c, n) = <<>>
         /\ n < Len(c) => Drop(c, n) # <<>> /\ Head(Drop(c, n)) = c[n + 1]
<1>1. Drop(Drop(c, n), 1) = Drop(c, n + 1)
  <2>. DEFINE d == Drop(c, n)
              e == Drop(c, n + 1)
              f == Drop(d, 1)
  <2>1. /\ d \in Seq(S) /\ Len(d) = IF n < Len(c) THEN Len(c) - n ELSE 0
        /\ \A i \in 1 .. Len(d) : d[i] = c[n + i]
    BY DropElements
  <2>2. /\ e \in Seq(S) /\ Len(e) = IF n + 1 < Len(c) THEN Len(c) - (n + 1) ELSE 0
        /\ \A i \in 1 .. Len(e) : e[i] = c[n + 1 + i]
    BY DropElements
  <2>. HIDE DEF d, e
  <2>3. /\ f \in Seq(S) /\ Len(f) = IF 1 < Len(d) THEN Len(d) - 1 ELSE 0
        /\ \A i \in 1 .. Len(f) : f[i] = d[1 + i]
    BY <2>1, DropElements
  <2>. HIDE DEF f
  <2>4. Len(e) = Len(f) /\ Len(c) \in Nat
    BY <2>1, <2>2, <2>3
  <2>5. ASSUME NEW i \in 1 .. Len(f)
        PROVE  e[i] = f[i]
    <3>1. 1 + i \in 1 .. Len(d) /\ n + (1 + i) = n + 1 + i
      BY <2>1, <2>3, <2>4
    <3>2. f[i] = c[n + (1 + i)]
      BY <2>1, <2>3, <3>1
    <3>. QED  BY <2>2, <2>4, <3>1, <3>2
  <2>6. f = e
    BY <2>2, <2>3, <2>4, <2>5, SeqEqual
  <2>. QED  BY <2>6 DEF d, e, f
<1>2. n >= Len(c) => Drop(c, n) = <<>>
  BY DropElements, EmptySeq
<1>3. n < Len(c) => Drop(c, n) # <<>> /\ Head(Drop(c, n)) = c[n + 1]
  <2>1. SUFFICES ASSUME n < Len(c) PROVE Drop(c, n) # <<>> /\ Head(Drop(c, n)) = c[n + 1]
    OBVIOUS
  <2>2. Drop(c, n) \in Seq(S) /\ 1 \in 1 .. Len(Drop(c, n))
    BY <2>1, DropElements
  <2>3. Drop(c, n)[1] = c[n + 1]
    BY <2>2, DropElements
  <2>. QED  BY <2>2, <2>3
<1>. QED  BY <1>1, <1>2, <1>3

LEMMA ReadsGetc ==
  ASSUME ConstantsAssumption, Typed, SlotsApart, Reads, NEW h \in Handles, Getc(h)
  PROVE  Reads'
<1>. DEFINE t == table[prog[h].slot].ftell
            c == prog[h].content
<1>1. prog[h].mode = "r" /\ t < MaxTell
  BY DEF Getc
<1>2. t \in Nat /\ c \in Contents
  BY <1>1, Position, Zenon DEF Typed
<1>3. t + 1 \in Nat /\ Base(table[prog[h].slot].pointer) + (t + 1) <= Top
  BY <1>1, <1>2, OneFurther, Position
<1>4. /\ table' = [table EXCEPT ![prog[h].slot].ftell = t + 1]
      /\ prog' = [prog EXCEPT ![h].rest = Drop(prog[h].rest, 1)]
      /\ UNCHANGED <<mem, live>>
  BY DEF Getc
<1>5. ASSUME Sound(h), t + 1 < Block \/ Len(c) < Block
      PROVE  Drop(prog[h].rest, 1) = Drop(c, t + 1)
  <2>1. t < Block \/ Len(c) < Block
    BY <1>2, <1>5, Sizes
  <2>2. prog[h].rest = Drop(c, t)
    BY <1>5, <2>1 DEF Reads, Continues
  <2>3. c \in Seq(Units)
    BY <1>2, Contained
  <2>4. Drop(Drop(c, t), 1) = Drop(c, t + 1)
    BY <1>2, <2>3, Dropped
  <2>. QED  BY <2>2, <2>4
<1>. QED  BY <1>1, <1>3, <1>4, <1>5, ReadsMoved

LEMMA ReadsSeekStart ==
  ASSUME ConstantsAssumption, Typed, SlotsApart, Reads, NEW h \in Handles, NEW offset \in Offsets,
         SeekStart(h, offset)
  PROVE  Reads'
<1>1. prog[h].mode = "r"
  BY DEF SeekStart
<1>2. offset \in 0 .. MaxTell /\ offset \in Nat
  BY Sizes DEF ConstantsAssumption
<1>3. Base(table[prog[h].slot].pointer) + offset <= Top
  BY <1>1, <1>2, Position
<1>4. /\ table' = [table EXCEPT ![prog[h].slot].ftell = offset]
      /\ prog' = [prog EXCEPT ![h].rest = Drop(prog[h].content, offset)]
      /\ UNCHANGED <<mem, live>>
  BY DEF SeekStart
<1>. QED  BY <1>1, <1>2, <1>3, <1>4, ReadsMoved

(* No end of the string stands within what is promised of the content.     *)
LEMMA ReadsSeekEnd ==
  ASSUME ConstantsAssumption, 0 \notin Units, Typed, SlotsApart, Reads, NEW h \in Handles, SeekEnd(h)
  PROVE  Reads'
<1>. DEFINE b == table[prog[h].slot].pointer
            c == prog[h].content
<1>1. PICK n \in Nat : /\ table[prog[h].slot].ftell <= n /\ Base(b) + n <= Top /\ mem[Base(b) + n] = 0
                       /\ table' = [table EXCEPT ![prog[h].slot].ftell = n]
  BY SeekEndStep, Zenon
<1>2. prog[h].mode = "r" /\ prog' = [prog EXCEPT ![h].rest = <<>>] /\ UNCHANGED <<mem, live>>
  BY DEF SeekEnd
<1>3. c \in Contents
  BY <1>2 DEF Typed
<1>4. ASSUME Sound(h), n < Block \/ Len(c) < Block
      PROVE  <<>> = Drop(c, n)
  <2>1. HasBlock(h) /\ c \in Seq(Units) /\ Len(c) \in Nat
    BY <1>3, <1>4, Contained DEF Reads
  <2>2. n >= Len(c)
    <3>1. SUFFICES ASSUME n < Len(c) PROVE FALSE
      BY <2>1
    <3>2. n < Block
      BY <1>4, <2>1, <3>1, Sizes
    <3>3. mem[Base(b) + n] = c[n + 1]
      BY <2>1, <3>1, <3>2 DEF HasBlock
    <3>4. c[n + 1] \in Units
      BY <1>3, <3>1, Contained
    <3>. QED  BY <1>1, <3>3, <3>4
  <2>. QED  BY <2>1, <2>2, Dropped
<1>. QED  BY <1>1, <1>2, <1>4, ReadsMoved

LEMMA ReadsUngetc ==
  ASSUME ConstantsAssumption, Typed, SlotsApart, Reads, NEW h \in Handles, NEW u \in Pushed, Ungetc(h, u)
  PROVE  Reads'
<1>. DEFINE s == prog[h].slot
            n == table[s].ftell + 1
            a == Address(s, n)
            f == Spoil(h, {a})
<1>1. /\ prog[h].mode = "r" /\ table' = [table EXCEPT ![s].ftell = n] /\ mem' = [mem EXCEPT ![a] = u]
      /\ prog' = [f EXCEPT ![h].rest = <<u>> \o @, ![h].spoilt = TRUE] /\ live' = live
  BY DEF Ungetc
<1>2. s \in Slot /\ prog[h] \in FileType
  BY DEF Typed, FileType
<1>3. /\ f \in [Handles -> FileType] /\ f[h] = prog[h]
      /\ \A g \in Handles : /\ f[g].slot = prog[g].slot /\ f[g].mode = prog[g].mode
                            /\ f[g].content = prog[g].content /\ f[g].rest = prog[g].rest
                            /\ ~f[g].spoilt => ~prog[g].spoilt /\ (g = h \/ prog[g].mode # "r" \/ Reach(g) \cap {a} = {})
  BY SpoilKeeps
<1>. HIDE DEF s, n, a, f
<1>4. prog'[h].spoilt /\ \A g \in Handles : g # h => prog'[g] = f[g]
  BY <1>1, <1>2, <1>3 DEF FileType
<1>5. \A t \in Slot : t # s => table'[t] = table[t]
  BY <1>1 DEF Typed
<1>6. ASSUME NEW g \in Handles, Sound(g)'
      PROVE  /\ Sound(g) /\ HasBlock(g)' /\ Continues(g)' /\ prog'[g].slot = prog[g].slot
             /\ table'[prog[g].slot] = table[prog[g].slot]
  <2>1. g # h /\ prog'[g] = f[g]
    BY <1>4, <1>6 DEF Sound
  <2>2. Sound(g) /\ a \notin Reach(g)
    BY <1>3, <1>6, <2>1 DEF Sound
  <2>3. prog[g].slot \in Slot /\ prog[g].slot # s
    BY <1>1, <2>1, <2>2 DEF SlotsApart, HandlesApart, Sound, Open, Typed, FileType, s
  <2>4. table'[prog[g].slot] = table[prog[g].slot] /\ table[prog[g].slot].pointer \in live'
    BY <1>1, <1>5, <2>2, <2>3 DEF Reads, HasBlock
  <2>5. \A i \in Nat : i < Block /\ i < Len(prog[g].content) => Base(table[prog[g].slot].pointer) + i # a
    BY <2>2, WithinReach DEF Sound
  <2>6. \A i \in Nat : i < Block /\ i < Len(prog[g].content) =>
          mem'[Base(table[prog[g].slot].pointer) + i] = mem[Base(table[prog[g].slot].pointer) + i]
    BY <1>1, <2>5 DEF Typed
  <2>. QED  BY <1>3, <2>1, <2>2, <2>4, <2>6, OtherKeeps
<1>7. ASSUME NEW e \in Handles, NEW g \in Handles, e # g, Sound(e)', Sound(g)'
      PROVE  table'[prog'[e].slot].pointer # table'[prog'[g].slot].pointer
  BY <1>6, <1>7 DEF Reads
<1>. QED  BY <1>6, <1>7 DEF Reads

LEMMA ReadsStep ==
  ASSUME ConstantsAssumption, MaxOpen <= Slots, 0 \notin Units, Typed, SlotsApart, Reads, [Next]_vars
  PROVE  Reads'
<1>1. CASE UNCHANGED vars
  BY <1>1, Zenon DEF vars, Reads, Sound, HasBlock, Continues
<1>2. CASE Next
  BY <1>2, ReadsOpenRead, ReadsOpenWrite, ReadsClose, ReadsGetc, ReadsUngetc, ReadsSeekStart, ReadsSeekEnd
     DEF Next
<1>. QED  BY <1>1, <1>2

(* What the handles hold, and what GETC gives, follows.                    *)
LEMMA ReadsHasFile ==
  ASSUME ConstantsAssumption, Typed, SlotsApart, Reads
  PROVE  HandleHasFile
<1>1. TypeOK /\ HandlesApart
  BY TypedIsTypeOK DEF SlotsApart
<1>2. ASSUME NEW h \in Handles, prog[h].mode = "r", ~prog[h].spoilt
      PROVE  LET s == prog[h].slot
             IN  /\ table[s].inuse /\ table[s].pointer \in live
                 /\ table[s].maxsize = Len(prog[h].content)
                 /\ \A i \in DOMAIN Promised(prog[h].content) : mem[Address(s, i - 1)] = prog[h].content[i]
  <2>. DEFINE c == prog[h].content
              s == prog[h].slot
  <2>1. HasBlock(h) /\ c \in Contents /\ s \in Slot
    BY <1>2 DEF Reads, Sound, Typed, FileType
  <2>2. table[s].inuse
    BY <1>2, <2>1 DEF SlotsApart, Open
  <2>3. ASSUME NEW i \in DOMAIN Promised(c)
        PROVE  mem[Address(s, i - 1)] = c[i]
    <3>1. c \in Seq(Units) /\ Len(c) \in Nat /\ Block \in Nat
      BY <2>1, Contained, Sizes
    <3>2. i - 1 \in Nat /\ i - 1 < Block /\ i - 1 < Len(c) /\ i - 1 + 1 = i
      BY <3>1 DEF Promised
    <3>. QED  BY <2>1, <3>2 DEF HasBlock, Address
  <2>. QED  BY <2>1, <2>2, <2>3 DEF HasBlock
<1>. QED  BY <1>1, <1>2 DEF HandleHasFile

LEMMA ReadsGiveNext ==
  ASSUME ConstantsAssumption, Typed, Reads
  PROVE  GetcGivesNext
<1>. SUFFICES ASSUME NEW h \in Handles, prog[h].mode = "r", ~prog[h].spoilt,
                     table[prog[h].slot].ftell < Block \/ Len(prog[h].content) < Block
              PROVE  GetcGives(h) = IF prog[h].rest = <<>> THEN 0 ELSE Head(prog[h].rest)
  BY DEF GetcGivesNext
<1>. DEFINE t == table[prog[h].slot]
            c == prog[h].content
<1>1. HasBlock(h) /\ prog[h].rest = Drop(c, t.ftell)
  BY DEF Reads, Sound, Continues
<1>2. c \in Contents /\ t.ftell \in Nat
  BY Position, Zenon DEF Typed
<1>3. c \in Seq(Units) /\ Len(c) \in Nat /\ t.maxsize = Len(c)
  BY <1>1, <1>2, Contained DEF HasBlock
<1>4. CASE t.ftell >= Len(c)
  <2>1. GetcGives(h) = 0
    BY <1>3, <1>4 DEF GetcGives
  <2>2. prog[h].rest = <<>>
    BY <1>1, <1>2, <1>3, <1>4, Dropped
  <2>. QED  BY <2>1, <2>2
<1>5. CASE ~(t.ftell >= Len(c))
  <2>1. t.ftell < Len(c) /\ t.ftell < Block
    BY <1>2, <1>3, <1>5, Sizes
  <2>2. GetcGives(h) = c[t.ftell + 1]
    BY <1>1, <1>2, <1>3, <1>5, <2>1 DEF GetcGives, HasBlock, Address
  <2>3. prog[h].rest # <<>> /\ Head(prog[h].rest) = c[t.ftell + 1]
    BY <1>1, <1>2, <1>3, <2>1, Dropped
  <2>. QED  BY <2>2, <2>3
<1>. QED  BY <1>4, <1>5

-----------------------------------------------------------------------------
(* The name in the slot of a file for writing is its path, followed by     *)
(* what a longer one has left there.                                       *)
Written ==
  \A h \in Handles : prog[h].mode = "w" =>
    /\ prog[h].path \in Names
    /\ \E old \in Seq(Letters) : table[prog[h].slot].filename = CopyOver(prog[h].path, old)

LEMMA WrittenKept ==
  ASSUME Written,
         \A g \in Handles : prog'[g].mode = "w" =>
           prog'[g] = prog[g] /\ table'[prog[g].slot].filename = table[prog[g].slot].filename
  PROVE  Written'
BY DEF Written

LEMMA WrittenStep ==
  ASSUME ConstantsAssumption, MaxOpen <= Slots, Typed, SlotsApart, Written, [Next]_vars
  PROVE  Written'
<1>1. CASE UNCHANGED vars
  BY <1>1, Zenon DEF vars, Written
<1>2. ASSUME NEW h \in Handles, NEW path \in Names, NEW c \in Contents, OpenRead(h, path, c)
      PROVE  Written'
  <2>. DEFINE s == FreeSlot
  <2>1. PICK b \in Blocks \ live, end \in Memory : Opened(h, path, c, s, b, end)
    BY <1>2, OpenReadStep, Zenon
  <2>2. ~Open(h)
    BY <2>1 DEF Opened, Open, Closed
  <2>3. s \in Slot /\ ~table[s].inuse
    BY <2>2, TableHasRoom
  <2>. HIDE DEF s
  <2>4. prog'[h].mode = "r" /\ \A g \in Handles : g # h => prog'[g] = Spoil(h, BehindBlock(b))[g]
    BY <2>1, SpoilKeeps DEF Opened
  <2>5. \A t \in Slot : t # s => table'[t] = table[t]
    BY <2>1 DEF Opened, Typed
  <2>6. ASSUME NEW g \in Handles, prog'[g].mode = "w"
        PROVE  prog'[g] = prog[g] /\ table'[prog[g].slot].filename = table[prog[g].slot].filename
    <3>1. prog'[g] = prog[g]
      <4>1. g # h /\ prog'[g] = Spoil(h, BehindBlock(b))[g]
        BY <2>4, <2>6
      <4>2. Spoil(h, BehindBlock(b))[g].mode = prog[g].mode
            /\ (prog[g].mode # "r" => Spoil(h, BehindBlock(b))[g] = prog[g])
        BY SpoilKeeps
      <4>. QED  BY <2>6, <4>1, <4>2
    <3>2. prog[g].slot \in Slot /\ prog[g].slot # s
      BY <2>3, <2>6, <3>1 DEF SlotsApart, Open, Typed, FileType
    <3>. QED  BY <2>5, <3>1, <3>2
  <2>. QED  BY <2>6, WrittenKept
<1>3. ASSUME NEW h \in Handles, NEW path \in Names, OpenWrite(h, path)
      PROVE  Written'
  <2>. DEFINE s == FreeSlot
  <2>1. /\ table' = [table EXCEPT ![s].ftell = 0, ![s].inuse = TRUE, ![s].filename = CopyOver(path, @)]
        /\ prog' = [prog EXCEPT ![h] = [slot |-> s, mode |-> "w", path |-> path, rest |-> <<>>,
                                        content |-> <<>>, spoilt |-> FALSE]]
    BY <1>3 DEF OpenWrite
  <2>2. ~Open(h)
    BY <1>3 DEF OpenWrite, NextFile, Open, Closed
  <2>3. s \in Slot /\ ~table[s].inuse
    BY <2>2, TableHasRoom
  <2>. HIDE DEF s
  <2>4. prog'[h].slot = s /\ prog'[h].path = path /\ \A g \in Handles : g # h => prog'[g] = prog[g]
    BY <2>1 DEF Typed
  <2>5. table'[s].filename = CopyOver(path, table[s].filename) /\ table[s].filename \in Seq(Letters)
    BY <2>1, <2>3 DEF Typed, SlotType
  <2>6. \A t \in Slot : t # s => table'[t] = table[t]
    BY <2>1 DEF Typed
  <2>7. ASSUME NEW g \in Handles, prog'[g].mode = "w"
        PROVE  /\ prog'[g].path \in Names
               /\ \E old \in Seq(Letters) : table'[prog'[g].slot].filename = CopyOver(prog'[g].path, old)
    <3>1. CASE g = h
      BY <2>4, <2>5, <3>1, Zenon
    <3>2. CASE g # h
      <4>1. prog'[g] = prog[g] /\ prog[g].mode = "w"
        BY <2>4, <2>7, <3>2
      <4>2. prog[g].slot \in Slot /\ prog[g].slot # s
        BY <2>3, <4>1 DEF SlotsApart, Open, Typed, FileType
      <4>. QED  BY <2>6, <4>1, <4>2, Zenon DEF Written
    <3>. QED  BY <3>1, <3>2
  <2>. QED  BY <2>7 DEF Written
<1>4. ASSUME NEW h \in Handles, Close(h)
      PROVE  Written'
  <2>. DEFINE s == prog[h].slot
  <2>1. s \in Slot /\ table[s] \in SlotType
    BY DEF Typed, FileType
  <2>2. table' = [table EXCEPT ![s].inuse = FALSE] /\ prog' = WithoutFile(h)
    BY <1>4 DEF Close
  <2>3. \A t \in Slot : table'[t].filename = table[t].filename
    BY <2>1, <2>2 DEF Typed, SlotType
  <2>4. \A g \in Handles : prog'[g].mode = "w" => prog'[g] = prog[g]
    BY <2>2, SpoilKeeps DEF WithoutFile, Closed, Typed
  <2>5. \A g \in Handles : prog[g].slot \in Slot
    BY DEF Typed, FileType
  <2>. QED  BY <2>3, <2>4, <2>5, WrittenKept
<1>5. ASSUME NEW h \in Handles, Getc(h) \/ SeekEnd(h) \/ (\E offset \in Offsets : SeekStart(h, offset))
                                        \/ (\E u \in Pushed : Ungetc(h, u))
      PROVE  Written'
  <2>1. prog[h] \in FileType /\ prog[h].slot \in Slot /\ table[prog[h].slot] \in SlotType
    BY DEF Typed, FileType
  <2>2. prog[h].mode = "r" /\ \E n : table' = [table EXCEPT ![prog[h].slot].ftell = n]
    BY <1>5 DEF Getc, SeekEnd, SeekStart, Ungetc
  <2>3. \A t \in Slot : table'[t].filename = table[t].filename
    BY <2>1, <2>2 DEF Typed, SlotType
  <2>4. \/ \E r : prog' = [prog EXCEPT ![h].rest = r]
        \/ \E A, r : prog' = [Spoil(h, A) EXCEPT ![h].rest = r, ![h].spoilt = TRUE]
    BY <1>5 DEF Getc, SeekEnd, SeekStart, Ungetc
  <2>5. \A g \in Handles : prog'[g].mode = "w" => prog'[g] = prog[g]
    <3>1. CASE \E r : prog' = [prog EXCEPT ![h].rest = r]
      BY <2>1, <2>2, <3>1 DEF Typed, FileType
    <3>2. ASSUME NEW A, NEW r, prog' = [Spoil(h, A) EXCEPT ![h].rest = r, ![h].spoilt = TRUE]
          PROVE  \A g \in Handles : prog'[g].mode = "w" => prog'[g] = prog[g]
      <4>1. Spoil(h, A)[h] = prog[h] /\ DOMAIN Spoil(h, A) = Handles
        BY SpoilKeeps
      <4>2. prog'[h].mode = "r" /\ \A g \in Handles : g # h => prog'[g] = Spoil(h, A)[g]
        BY <2>1, <2>2, <3>2, <4>1 DEF FileType
      <4>. QED  BY <4>2, SpoilKeeps
    <3>. QED  BY <2>4, <3>1, <3>2
  <2>6. \A g \in Handles : prog[g].slot \in Slot
    BY DEF Typed, FileType
  <2>. QED  BY <2>3, <2>5, <2>6, WrittenKept
<1>. QED  BY <1>1, <1>2, <1>3, <1>4, <1>5 DEF Next

LEMMA WrittenHolds == ConstantsAssumption /\ Written => WritesGoToFile
<1>. SUFFICES ASSUME ConstantsAssumption, Written, NEW h \in Handles, prog[h].mode = "w", ~HeldLonger(h)
              PROVE  WriteTarget(h) = prog[h].path
  BY DEF WritesGoToFile
<1>1. PICK old \in Seq(Letters) : table[prog[h].slot].filename = CopyOver(prog[h].path, old)
  BY DEF Written
<1>2. prog[h].path \in Seq(Letters)
  BY DEF Written, ConstantsAssumption
<1>3. Len(CopyOver(prog[h].path, old)) <= Len(prog[h].path)
  <2>1. CopyOver(prog[h].path, old) \in Seq(Letters)
    BY <1>2, Copied
  <2>. QED  BY <1>1, <1>2, <2>1 DEF HeldLonger
<1>. QED  BY <1>1, <1>2, <1>3, Copied DEF WriteTarget

-----------------------------------------------------------------------------
LEMMA TablesAlways ==
  ASSUME ConstantsAssumption, MaxOpen <= Slots
  PROVE  Spec => [](Typed /\ SlotsApart /\ Written)
<1>1. Init => Typed /\ SlotsApart /\ Written
  BY TypedInit, ApartInit DEF Init, Written, Closed
<1>2. Typed /\ SlotsApart /\ Written /\ [Next]_vars => (Typed /\ SlotsApart /\ Written)'
  BY TypedStep, ApartStep, WrittenStep
<1>. QED  BY <1>1, <1>2, PTL DEF Spec

LEMMA ReadsAlways ==
  ASSUME ConstantsAssumption, MaxOpen <= Slots, 0 \notin Units
  PROVE  Spec => [](Typed /\ SlotsApart /\ Reads)
<1>1. Init => Typed /\ SlotsApart /\ Reads
  BY TypedInit, ApartInit, ReadsInit
<1>2. Typed /\ SlotsApart /\ Reads /\ [Next]_vars => (Typed /\ SlotsApart /\ Reads)'
  BY TypedStep, ApartStep, ReadsStep
<1>. QED  BY <1>1, <1>2, PTL DEF Spec

(* For a program that has no more files open than the table has slots, and *)
(* text: two files never share a slot, and a file that was opened for      *)
(* reading keeps its block and its content there until one of the three    *)
(* things that spoil it (interrupts.c:205-242, 285-294).                   *)
THEOREM FileKeepsContent ==
  ASSUME MaxOpen <= Slots, 0 \notin Units
  PROVE  Spec => []HandleHasFile
<1>. QED  BY ConstantsAssumption, ReadsAlways, ReadsHasFile, PTL

(* GETC gives such a file from its own position on, whatever the program   *)
(* does with the others (interrupts.c:257-309).                            *)
THEOREM GetcFollowsFile ==
  ASSUME MaxOpen <= Slots, 0 \notin Units
  PROVE  Spec => []GetcGivesNext
<1>. QED  BY ConstantsAssumption, ReadsAlways, ReadsGiveNext, PTL

(* A write goes to the file that was opened, unless its slot has held a    *)
(* longer path (interrupts.c:172-204).                                     *)
THEOREM WriteFindsFile ==
  ASSUME MaxOpen <= Slots
  PROVE  Spec => []WritesGoToFile
<1>. QED  BY ConstantsAssumption, TablesAlways, WrittenHolds, PTL
=============================================================================
