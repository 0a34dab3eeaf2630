---------------------------- MODULE MemoryProofs ----------------------------
(***************************************************************************)
(* The blocks the allocator hands out do not overlap, for a table of any   *)
(* length, any alignments, any number of callers and whatever entries free *)
(* misses, as long as no interrupt handler allocates and nobody asks for   *)
(* no bytes.                                                               *)
(***************************************************************************)
EXTENDS Memory, TLAPS, WellFoundedInduction

(* No interrupt handler calls the allocator.                               *)
OneFlow == Flows = {Main}

(* Nobody asks for a block of no bytes.                                    *)
NoEmptyBlocks == 0 \notin Sizes

USE LimitAssumption, StrideAssumption, BaseAssumption, RequestAssumption, FlowsAssumption
USE DEF Index, NotFound

LEMMA BlockIsBlock ==
  ASSUME NEW a \in Nat, NEW b \in Nat, NEW u \in BOOLEAN
  PROVE  Block(a, b, u) \in Blocks
BY DEF Block, Blocks

LEMMA BlockFields ==
  ASSUME NEW b \in Blocks
  PROVE  /\ b.from \in Nat /\ b.to \in Nat /\ b.used \in BOOLEAN
         /\ \A u \in BOOLEAN : [b EXCEPT !.used = u] \in Blocks
BY DEF Blocks

LEMMA LeastElement ==
  ASSUME NEW S, S \subseteq Nat, S # {}
  PROVE  \E d \in S : \A e \in S : d <= e
<1>1. PICK d \in S : \A e \in S : <<e, d>> \notin OpToRel(<, Nat)
  BY WFMin, NatLessThanWellFounded, Zenon
<1>2. \A e \in S : ~(e < d)
  BY <1>1, Zenon DEF OpToRel
<1>. QED  BY <1>2

(* The search for an empty slot returns one when there is one.             *)
LEMMA FirstEmptyExists ==
  ASSUME \E i \in Index : Empty(memreg[i])
  PROVE  /\ FirstEmpty \in Index
         /\ Empty(memreg[FirstEmpty])
         /\ \A j \in 0 .. FirstEmpty - 1 : ~Empty(memreg[j])
<1> DEFINE S == {i \in Index : Empty(memreg[i])}
<1>1. S \subseteq Nat /\ S # {}
  OBVIOUS
<1>2. PICK d \in S : \A e \in S : d <= e
  BY <1>1, LeastElement
<1>3. d \in Index /\ Empty(memreg[d]) /\ \A j \in 0 .. d - 1 : ~Empty(memreg[j])
  BY <1>2
<1>. QED  BY <1>3 DEF FirstEmpty

(* The search for a perfect fit returns a block that fits, or NotFound.    *)
LEMMA PerfectFitFits ==
  ASSUME NEW f \in Flows, PerfectFit(f) # NotFound
  PROVE  PerfectFit(f) \in Index /\ Fits(f, memreg[PerfectFit(f)])
<1> DEFINE fits == {i \in Index : Fits(f, memreg[i])}
           gaps == {Limit - i : i \in fits}
<1>1. fits # {}
  BY DEF PerfectFit
<1>2. gaps \subseteq Nat /\ gaps # {}
  BY <1>1
<1>3. PICK d \in gaps : \A e \in gaps : d <= e
  BY <1>2, LeastElement
<1>4. PICK i \in fits : d = Limit - i
  OBVIOUS
<1>5. ASSUME NEW j \in fits
      PROVE  j <= i
  <2>1. Limit - j \in gaps
    OBVIOUS
  <2>2. Limit - i <= Limit - j
    BY <1>3, <1>4, <2>1
  <2>. QED  BY <2>2
<1>. QED  BY <1>1, <1>5 DEF PerfectFit

LEMMA PerfectFitRange ==
  ASSUME NEW f \in Flows
  PROVE  PerfectFit(f) \in 0 .. Limit
BY PerfectFitFits

LEMMA AlignUpBound ==
  ASSUME NEW x \in Nat, NEW a \in Nat \ {0}
  PROVE  AlignUp(x, a) \in Nat /\ AlignUp(x, a) >= x
<1>1. (-x) % a \in 0 .. a - 1
  OBVIOUS
<1>. QED  BY <1>1 DEF AlignUp

-----------------------------------------------------------------------------
(* Where malloc_align marks and reads an entry, it has found one.          *)
HasFound ==
  \A f \in Flows : pc[f] \in {"mark", "return"} => found_something[f] \in Index

TypeInv == TypeOK /\ HasFound

LEMMA TypeInit == Init => TypeInv
<1>1. NoBlock \in Blocks
  BY BlockIsBlock DEF NoBlock
<1>. QED  BY <1>1 DEF Init, TypeInv, TypeOK, HasFound, Points

LEMMA TypeStep ==
  ASSUME TypeInv, [Next]_vars
  PROVE  TypeInv'
<1>. USE DEF TypeInv, TypeOK, HasFound, At, Goto
<1>0. NoBlock \in Blocks
  BY BlockIsBlock DEF NoBlock
<1>1. ASSUME NEW f \in Flows, NEW s \in Sizes, NEW a \in Alignments, Malloc(f, s, a)
      PROVE  TypeInv'
  BY <1>1 DEF Malloc, Points
<1>2. ASSUME NEW f \in Flows, NEW h \in Handles, Free(f, h)
      PROVE  TypeInv'
  <2>1. \A i \in Index : Freed(held[h].from)[i] \in Blocks
    BY BlockFields DEF Freed
  <2>2. memreg' \in [Index -> Blocks]
    BY <1>2, <2>1 DEF Free, Freed
  <2>3. held' \in [Handles -> Blocks]
    BY <1>0, <1>2 DEF Free
  <2>. QED  BY <1>2, <2>2, <2>3 DEF Free, Points
<1>3. ASSUME NEW f \in Flows, Compare(f)
      PROVE  TypeInv'
  <2>1. i1[f] \in 1 .. Limit - 1
    BY <1>3 DEF Compare
  <2>2. i1[f] - 1 \in Index /\ i1[f] \in Index /\ i1[f] + 1 \in 1 .. Limit
    BY <2>1
  <2>3. memreg' \in [Index -> Blocks]
    BY <1>3, <2>2 DEF Compare, Swapped
  <2>4. i1' \in [Flows -> 1 .. Limit]
    BY <1>3, <2>2 DEF Compare
  <2>5. foundsomething' \in [Flows -> BOOLEAN]
    BY <1>3 DEF Compare, OutOfOrder
  <2>. QED  BY <1>3, <2>3, <2>4, <2>5 DEF Compare
<1>4. ASSUME NEW f \in Flows, EndPass(f)
      PROVE  TypeInv'
  <2>1. pc' \in [Flows -> Points] /\ HasFound'
    BY <1>4 DEF EndPass, AfterSort, Points
  <2>2. i1' \in [Flows -> 1 .. Limit]
    <3>1. 1 \in 1 .. Limit
      OBVIOUS
    <3>. QED  BY <1>4, <3>1 DEF EndPass
  <2>3. foundsomething' \in [Flows -> BOOLEAN]
    BY <1>4 DEF EndPass
  <2>. QED  BY <1>4, <2>1, <2>2, <2>3 DEF EndPass
<1>5. ASSUME NEW f \in Flows, Scan(f)
      PROVE  TypeInv'
  BY <1>5, PerfectFitFits, PerfectFitRange DEF Scan, Points
<1>6. ASSUME NEW f \in Flows, Assign(f)
      PROVE  TypeInv'
  <2>1. HighestEnd \in Nat
    <3>1. memreg[0] \in Blocks
      OBVIOUS
    <3>2. memreg[0].to \in Nat
      BY <3>1, BlockFields
    <3>. QED  BY <3>2 DEF HighestEnd
  <2>2. request[f].align \in Nat \ {0}
    OBVIOUS
  <2>3. AlignUp(HighestEnd, request[f].align) \in Nat
    BY <2>1, <2>2, AlignUpBound
  <2>. QED  BY <1>6, <2>3 DEF Assign, Points
<1>7. ASSUME NEW f \in Flows, Place(f)
      PROVE  TypeInv'
  <2>1. CASE \E i \in Index : Empty(memreg[i])
    <3>1. FirstEmpty \in Index
      BY <2>1, FirstEmptyExists
    <3>2. Block(highestlocation[f], highestlocation[f] + request[f].size, FALSE) \in Blocks
      <4>1. highestlocation[f] \in Nat /\ request[f].size \in Nat
        OBVIOUS
      <4>2. highestlocation[f] + request[f].size \in Nat
        BY <4>1
      <4>. HIDE DEF TypeInv, TypeOK, HasFound
      <4>. QED  BY <4>1, <4>2, BlockIsBlock
    <3>3. memreg' \in [Index -> Blocks]
      BY <1>7, <2>1, <3>1, <3>2 DEF Place
    <3>4. found_something' = [found_something EXCEPT ![f] = FirstEmpty]
      BY <1>7, <2>1 DEF Place
    <3>5. found_something' \in [Flows -> 0 .. Limit] /\ found_something'[f] \in Index
      BY <3>1, <3>4
    <3>6. pc' = [pc EXCEPT ![f] = "mark"]
      BY <1>7, <2>1 DEF Place
    <3>7. HasFound'
      BY <3>4, <3>5, <3>6
    <3>8. TypeOK'
      BY <1>7, <3>3, <3>5, <3>6 DEF Place, Points
    <3>. QED  BY <3>7, <3>8
  <2>2. CASE ~\E i \in Index : Empty(memreg[i])
    BY <1>7, <2>2 DEF Place, Points
  <2>. QED  BY <2>1, <2>2
<1>8. ASSUME NEW f \in Flows, Mark(f)
      PROVE  TypeInv'
  <2>1. memreg' \in [Index -> Blocks]
    <3>1. [memreg[found_something[f]] EXCEPT !.used = TRUE] \in Blocks
      BY <1>8, BlockFields DEF Mark
    <3>. QED  BY <1>8, <3>1 DEF Mark
  <2>. QED  BY <1>8, <2>1 DEF Mark, Points
<1>9. ASSUME NEW f \in Flows, Return(f)
      PROVE  TypeInv'
  <2> DEFINE from == memreg[found_something[f]].from
  <2>1. from \in Nat /\ from + request[f].size \in Nat
    BY <1>9, BlockFields DEF Return
  <2>2. Block(from, from + request[f].size, TRUE) \in Blocks
    BY <2>1, BlockIsBlock
  <2>3. held' \in [Handles -> Blocks]
    BY <1>9, <2>2 DEF Return
  <2>. QED  BY <1>9, <2>3 DEF Return, Points
<1>10. CASE UNCHANGED vars
  BY <1>10 DEF vars
<1>. QED
  BY <1>1, <1>2, <1>3, <1>4, <1>5, <1>6, <1>7, <1>8, <1>9, <1>10
     DEF Next, Allocator, Callers, memcleanup, malloc_align

(* Type correctness, whoever calls the allocator and for whatever sizes.   *)
THEOREM TypeCorrect == Spec => []TypeOK
<1>1. Spec => []TypeInv
  BY TypeInit, TypeStep, PTL DEF Spec
<1>2. TypeInv => TypeOK
  BY DEF TypeInv
<1>. QED  BY <1>1, <1>2, PTL

-----------------------------------------------------------------------------
InUse(i) == memreg[i].from # 0
Holding == {h \in Handles : held[h] # NoBlock}
Sorting == pc[Main] \in {"sort", "sortAfterFree"}

(* A slot in use has a block of at least one byte, another has none.       *)
SlotsSound ==
  \A i \in Index :
    IF InUse(i) THEN memreg[i].from < memreg[i].to ELSE memreg[i] = NoBlock

(* The slots in use come first.                                            *)
UnusedLast ==
  \A i, j \in Index : i < j /\ InUse(j) => InUse(i)

(* Every block a caller holds is one of the table that is marked used, and *)
(* no two callers hold the same one.                                       *)
HeldSound ==
  \A h \in Holding :
    /\ held[h].from # 0
    /\ \E i \in Index : memreg[i] = held[h]
    /\ held[h].used
    /\ \A k \in Holding : h # k => held[h].from # held[k].from

(* The first entry starts highest among the first n.                       *)
FirstHighest(n) == \A i \in Index : i < n => memreg[i].from <= memreg[0].from

(* While a pass has not swapped, the entries it has seen are in order as   *)
(* far as the next step needs it, and so are all when the sort is done.    *)
Ordered ==
  /\ Sorting /\ ~foundsomething[Main] => FirstHighest(i1[Main])
  /\ pc[Main] \in {"scan", "assign"} => FirstHighest(Limit)

(* The place for the new block lies above all blocks.                      *)
AboveAll ==
  pc[Main] = "place" =>
    /\ highestlocation[Main] > 0
    /\ \A i \in Index : memreg[i].to <= highestlocation[Main]

(* The entry that was found is free until it is marked, and then nobody's  *)
(* until it is returned.                                                   *)
FoundSound ==
  LET b == memreg[found_something[Main]]
  IN  /\ pc[Main] \in {"mark", "return"} =>
           b.from # 0 /\ b.to = b.from + request[Main].size
      /\ pc[Main] = "mark" => ~b.used
      /\ pc[Main] = "return" => b.used /\ \A h \in Holding : held[h].from # b.from

IInv ==
  /\ TypeInv
  /\ SlotsSound
  /\ UnusedLast
  /\ TableApart
  /\ HeldSound
  /\ Ordered
  /\ AboveAll
  /\ FoundSound

LEMMA InitSafe == Init => IInv
<1>. SUFFICES ASSUME Init PROVE IInv
  OBVIOUS
<1>1. TypeInv
  BY TypeInit
<1>2. \A i \in Index : memreg[i] = NoBlock /\ memreg[i].from = 0
  BY DEF Init, NoBlock, Block
<1>3. Holding = {} /\ pc[Main] = "idle"
  BY DEF Init, Holding
<1>. QED
  BY <1>1, <1>2, <1>3
     DEF IInv, SlotsSound, UnusedLast, TableApart, HeldSound, Ordered, AboveAll, FoundSound,
         InUse, Sorting

(* What the other lemmas use of the types.                                 *)
LEMMA Typed ==
  ASSUME TypeInv
  PROVE  /\ \A i \in Index : /\ memreg[i] \in Blocks
                             /\ memreg[i].from \in Nat /\ memreg[i].to \in Nat
                             /\ memreg[i].used \in BOOLEAN
         /\ i1[Main] \in 1 .. Limit
         /\ highestlocation[Main] \in Nat
         /\ request[Main].size \in Nat /\ request[Main].size \in Sizes
         /\ request[Main].align \in Nat \ {0}
         /\ \A h \in Handles : held[h].from \in Nat /\ held[h].to \in Nat
BY BlockFields DEF TypeInv, TypeOK

(* Blocks that do not overlap start at different addresses.                *)
LEMMA StartsDiffer ==
  ASSUME TypeInv, SlotsSound, TableApart,
         NEW i \in Index, NEW j \in Index, i # j, InUse(i)
  PROVE  memreg[i].from # memreg[j].from
<1>1. CASE ~InUse(j)
  BY <1>1 DEF InUse
<1>2. CASE InUse(j)
  <2>1. memreg[i].from < memreg[i].to /\ memreg[j].from < memreg[j].to
    BY <1>2 DEF SlotsSound
  <2>2. memreg[i].to <= memreg[j].from \/ memreg[j].to <= memreg[i].from
    BY <1>2 DEF TableApart, InUse, Apart
  <2>. QED  BY <2>1, <2>2, Typed
<1>. QED  BY <1>1, <1>2

-----------------------------------------------------------------------------
(* A comparison of the sort moves the entries about, and leaves the unused *)
(* ones at the end: two entries are swapped only when both are in use.     *)
LEMMA CompareMoves ==
  ASSUME TypeInv, UnusedLast, Compare(Main)
  PROVE  \E p \in [Index -> Index] :
           /\ \A i \in Index : memreg'[i] = memreg[p[i]]
           /\ \A i \in Index : InUse(p[i]) <=> InUse(i)
           /\ \A i, j \in Index : i # j => p[i] # p[j]
           /\ \A i \in Index : \E j \in Index : p[j] = i
<1> DEFINE b == i1[Main]
           a == b - 1
           p == [i \in Index |-> IF ~OutOfOrder(a, b) THEN i
                                 ELSE IF i = a THEN b ELSE IF i = b THEN a ELSE i]
<1>1. a \in Index /\ b \in Index /\ a < b
  BY Typed DEF Compare
<1>2. p \in [Index -> Index]
  BY <1>1
<1>3. memreg' = Swapped(a, b)
  BY DEF Compare
<1>4. \A i \in Index : memreg'[i] = memreg[p[i]]
  <2>1. memreg = [i \in Index |-> memreg[i]]
    BY DEF TypeInv, TypeOK
  <2>. QED  BY <1>1, <1>3, <2>1 DEF Swapped
<1>5. OutOfOrder(a, b) => InUse(a) /\ InUse(b)
  <2>. SUFFICES ASSUME OutOfOrder(a, b) PROVE InUse(a) /\ InUse(b)
    OBVIOUS
  <2>1. InUse(b)
    BY <1>1, Typed DEF OutOfOrder, InUse
  <2>. QED  BY <1>1, <2>1 DEF UnusedLast
<1>6. \A i \in Index : InUse(p[i]) <=> InUse(i)
  BY <1>1, <1>5
<1>7. \A i, j \in Index : i # j => p[i] # p[j]
  BY <1>1
<1>8. \A i \in Index : p[p[i]] = i
  BY <1>1
<1>. QED  BY <1>2, <1>4, <1>6, <1>7, <1>8

LEMMA CompareSafe ==
  ASSUME IInv, TypeInv', Compare(Main)
  PROVE  IInv'
<1>1. PICK p \in [Index -> Index] :
        /\ \A i \in Index : memreg'[i] = memreg[p[i]]
        /\ \A i \in Index : InUse(p[i]) <=> InUse(i)
        /\ \A i, j \in Index : i # j => p[i] # p[j]
        /\ \A i \in Index : \E j \in Index : p[j] = i
  BY CompareMoves DEF IInv
<1>2. UNCHANGED <<held, pc>> /\ Sorting /\ Holding' = Holding
  BY DEF Compare, At, Sorting, Holding
<1>3. \A i \in Index : InUse(i)' <=> InUse(p[i])
  BY <1>1 DEF InUse
<1>4. SlotsSound'
  BY <1>1, <1>3 DEF IInv, SlotsSound
<1>5. UnusedLast'
  BY <1>1, <1>3 DEF IInv, UnusedLast
<1>6. TableApart'
  <2>. SUFFICES ASSUME NEW i \in Index, NEW j \in Index, i # j,
                       memreg'[i].from # 0, memreg'[j].from # 0
                PROVE  Apart(memreg'[i], memreg'[j])
    BY DEF TableApart, Apart
  <2>1. p[i] \in Index /\ p[j] \in Index /\ p[i] # p[j]
    BY <1>1
  <2>2. memreg'[i] = memreg[p[i]] /\ memreg'[j] = memreg[p[j]]
    BY <1>1
  <2>3. Apart(memreg[p[i]], memreg[p[j]])
    BY <2>1, <2>2 DEF IInv, TableApart
  <2>. QED  BY <2>2, <2>3
<1>7. HeldSound'
  <2>. SUFFICES ASSUME NEW h \in Holding PROVE \E i \in Index : memreg'[i] = held[h]
    BY <1>2 DEF IInv, HeldSound
  <2>1. PICK i \in Index : memreg[i] = held[h]
    BY DEF IInv, HeldSound
  <2>2. PICK j \in Index : p[j] = i
    BY <1>1
  <2>. QED  BY <1>1, <2>1, <2>2
<1>8. Ordered'
  <2> DEFINE b == i1[Main]
             a == b - 1
  <2>. SUFFICES ASSUME ~foundsomething'[Main] PROVE FirstHighest(i1[Main])'
    BY <1>2 DEF Ordered, Sorting
  <2>0. b \in Index /\ a \in Index /\ b >= 1
    BY Typed DEF IInv, Compare
  <2>1. ~foundsomething[Main] /\ ~OutOfOrder(a, b)
    BY DEF Compare, IInv, TypeInv, TypeOK
  <2>2. memreg' = memreg
    BY <2>1 DEF Compare, Swapped
  <2>3. \A i \in Index : i < b => memreg[i].from <= memreg[0].from
    BY <1>2, <2>1 DEF IInv, Ordered, FirstHighest
  <2>4. memreg[b].from <= memreg[0].from
    <3>0. \A i \in Index : memreg[i].from \in Nat
      BY Typed DEF IInv
    <3>1. memreg[b].from <= memreg[a].from
      BY <2>0, <2>1, <3>0 DEF OutOfOrder
    <3>2. memreg[a].from <= memreg[0].from
      BY <2>0, <2>3
    <3>3. 0 \in Index
      OBVIOUS
    <3>4. memreg[b].from \in Nat /\ memreg[a].from \in Nat /\ memreg[0].from \in Nat
      BY <2>0, <3>0, <3>3
    <3>. HIDE DEF a, b
    <3>. QED  BY <3>1, <3>2, <3>4
  <2>5. CASE BothUnused(a, b)
    <3>1. \A i \in Index : i > b => memreg[i].from = 0
      BY <2>0, <2>5 DEF BothUnused, IInv, UnusedLast, InUse
    <3>2. \A i \in Index : memreg[i].from <= memreg[0].from
      <4>. TAKE i \in Index
      <4>1. memreg[0].from \in Nat
        BY Typed DEF IInv
      <4>2. i < b \/ i = b \/ i > b
        BY <2>0
      <4>. QED  BY <2>3, <2>4, <3>1, <4>1, <4>2
    <3>. QED  BY <2>2, <3>2 DEF FirstHighest
  <2>6. CASE ~BothUnused(a, b)
    <3>1. i1'[Main] = b + 1
      BY <2>6 DEF Compare, IInv, TypeInv, TypeOK
    <3>2. \A i \in Index : i < b + 1 => memreg[i].from <= memreg[0].from
      <4>. SUFFICES ASSUME NEW i \in Index, i < b + 1
                    PROVE  memreg[i].from <= memreg[0].from
        OBVIOUS
      <4>1. i < b \/ i = b
        BY <2>0
      <4>. QED  BY <2>3, <2>4, <4>1, Zenon
    <3>. QED  BY <2>2, <3>1, <3>2 DEF FirstHighest
  <2>. QED  BY <2>5, <2>6
<1>9. AboveAll' /\ FoundSound'
  BY <1>2 DEF AboveAll, FoundSound, Sorting
<1>. QED  BY <1>4, <1>5, <1>6, <1>7, <1>8, <1>9 DEF IInv

-----------------------------------------------------------------------------
(* The steps that leave the table alone.                                   *)
LEMMA MallocSafe ==
  ASSUME IInv, TypeInv', NEW s \in Sizes, NEW a \in Alignments, Malloc(Main, s, a)
  PROVE  IInv'
<1>1. UNCHANGED <<memreg, held>> /\ Holding' = Holding
  BY DEF Malloc, Holding
<1>2. pc'[Main] = "sort" /\ i1'[Main] = 1
  BY DEF Malloc, Goto, IInv, TypeInv, TypeOK
<1>3. Ordered'
  <2>1. \A i \in Index : i < 1 => memreg[i].from <= memreg[0].from
    BY Typed DEF IInv
  <2>. QED  BY <1>1, <1>2, <2>1 DEF Ordered, FirstHighest
<1>4. SlotsSound' /\ UnusedLast' /\ TableApart' /\ HeldSound'
  BY <1>1 DEF IInv, SlotsSound, UnusedLast, TableApart, HeldSound, InUse
<1>5. AboveAll' /\ FoundSound'
  BY <1>2 DEF AboveAll, FoundSound
<1>. QED  BY <1>3, <1>4, <1>5 DEF IInv

LEMMA EndPassSafe ==
  ASSUME IInv, TypeInv', EndPass(Main)
  PROVE  IInv'
<1>1. UNCHANGED <<memreg, held>> /\ Holding' = Holding
  BY DEF EndPass, Holding
<1>2. SlotsSound' /\ UnusedLast' /\ TableApart' /\ HeldSound'
  BY <1>1 DEF IInv, SlotsSound, UnusedLast, TableApart, HeldSound, InUse
<1>3. CASE foundsomething[Main]
  <2>1. pc' = pc /\ Sorting /\ i1'[Main] = 1
    BY <1>3 DEF EndPass, At, Sorting, IInv, TypeInv, TypeOK
  <2>2. \A i \in Index : i < 1 => memreg[i].from <= memreg[0].from
    BY Typed DEF IInv
  <2>3. Ordered'
    BY <1>1, <2>1, <2>2 DEF Ordered, FirstHighest, Sorting
  <2>. QED  BY <1>2, <2>1, <2>3 DEF IInv, AboveAll, FoundSound, Sorting
<1>4. CASE ~foundsomething[Main]
  <2>1. pc'[Main] \in {"scan", "idle"}
    BY <1>4 DEF EndPass, Goto, AfterSort, IInv, TypeInv, TypeOK
  <2>2. FirstHighest(Limit)
    <3>1. Sorting /\ i1[Main] = Limit
      BY DEF EndPass, At, Sorting
    <3>. QED  BY <1>4, <3>1 DEF IInv, Ordered
  <2>3. Ordered'
    BY <1>1, <2>1, <2>2 DEF Ordered, FirstHighest, Sorting
  <2>. QED  BY <1>2, <2>1, <2>3 DEF IInv, AboveAll, FoundSound
<1>. QED  BY <1>3, <1>4

LEMMA ScanSafe ==
  ASSUME IInv, TypeInv', Scan(Main)
  PROVE  IInv'
<1>1. UNCHANGED <<memreg, held, request>> /\ Holding' = Holding
  BY DEF Scan, Holding
<1>2. SlotsSound' /\ UnusedLast' /\ TableApart' /\ HeldSound'
  BY <1>1 DEF IInv, SlotsSound, UnusedLast, TableApart, HeldSound, InUse
<1>3. pc[Main] = "scan" /\ pc'[Main] = (IF PerfectFit(Main) = NotFound THEN "assign" ELSE "mark")
  BY DEF Scan, At, Goto, IInv, TypeInv, TypeOK
<1>4. Ordered' /\ AboveAll'
  BY <1>1, <1>3 DEF IInv, Ordered, FirstHighest, Sorting, AboveAll
<1>5. FoundSound'
  <2>. SUFFICES ASSUME PerfectFit(Main) # NotFound PROVE FoundSound'
    BY <1>3 DEF FoundSound
  <2> DEFINE n == PerfectFit(Main)
  <2>1. n \in Index /\ Fits(Main, memreg[n])
    BY PerfectFitFits
  <2>2. found_something'[Main] = n
    BY DEF Scan, IInv, TypeInv, TypeOK
  <2>3. memreg[n].from \in Nat /\ memreg[n].to \in Nat /\ request[Main].size \in Nat
    BY <2>1, Typed DEF IInv
  <2>4. ~memreg[n].used /\ memreg[n].from # 0
    BY <2>1 DEF Fits
  <2>5. memreg[n].to = memreg[n].from + request[Main].size
    BY <2>1, <2>3 DEF Fits, SizeOf
  <2>. QED  BY <1>1, <1>3, <2>2, <2>4, <2>5 DEF FoundSound
<1>. QED  BY <1>2, <1>4, <1>5 DEF IInv

(* The first entry starts highest and the blocks do not overlap, so it is  *)
(* also the one that ends highest.                                         *)
LEMMA HighestEndsLast ==
  ASSUME TypeInv, SlotsSound, TableApart, FirstHighest(Limit)
  PROVE  HighestEnd > 0 /\ \A i \in Index : memreg[i].to <= HighestEnd
<1>0. /\ 0 \in Index
      /\ \A i \in Index : memreg[i].from \in Nat /\ memreg[i].to \in Nat
  BY Typed
<1>1. CASE InUse(0)
  <2>1. memreg[0].from < memreg[0].to
    BY <1>0, <1>1 DEF SlotsSound
  <2>2. HighestEnd = memreg[0].to
    BY <1>0, <2>1 DEF HighestEnd
  <2>3. ASSUME NEW i \in Index
        PROVE  memreg[i].to <= memreg[0].to
    <3>1. CASE i = 0
      BY <1>0, <3>1
    <3>2. CASE ~InUse(i)
      BY <1>0, <3>2 DEF SlotsSound, NoBlock, Block
    <3>3. CASE i # 0 /\ InUse(i)
      <4>1. memreg[i].from <= memreg[0].from /\ memreg[i].from < memreg[i].to
        BY <3>3 DEF FirstHighest, SlotsSound
      <4>2. memreg[i].to <= memreg[0].from \/ memreg[0].to <= memreg[i].from
        BY <1>0, <1>1, <3>3 DEF TableApart, Apart, InUse
      <4>. QED  BY <1>0, <2>1, <4>1, <4>2
    <3>. QED  BY <3>1, <3>2, <3>3
  <2>. QED  BY <1>0, <2>1, <2>2, <2>3
<1>2. CASE ~InUse(0)
  <2>1. \A i \in Index : memreg[i].from = 0
    BY <1>0, <1>2 DEF FirstHighest, InUse
  <2>2. \A i \in Index : memreg[i].to = 0
    BY <2>1 DEF SlotsSound, InUse, NoBlock, Block
  <2>. QED  BY <1>0, <2>2 DEF HighestEnd
<1>. QED  BY <1>1, <1>2

LEMMA AssignSafe ==
  ASSUME IInv, TypeInv', Assign(Main)
  PROVE  IInv'
<1>1. UNCHANGED <<memreg, held>> /\ Holding' = Holding
  BY DEF Assign, Holding
<1>2. SlotsSound' /\ UnusedLast' /\ TableApart' /\ HeldSound'
  BY <1>1 DEF IInv, SlotsSound, UnusedLast, TableApart, HeldSound, InUse
<1>3. pc'[Main] \in {"place", "outOfMemory"}
  BY DEF Assign, Goto, IInv, TypeInv, TypeOK
<1>4. Ordered' /\ FoundSound'
  BY <1>3 DEF Ordered, FoundSound, Sorting
<1>5. AboveAll'
  <2>. SUFFICES ASSUME pc'[Main] = "place" PROVE AboveAll'
    BY DEF AboveAll
  <2> DEFINE align == request[Main].align
  <2>1. highestlocation'[Main] = AlignUp(HighestEnd, align)
    BY DEF Assign, Goto, IInv, TypeInv, TypeOK
  <2>2. HighestEnd > 0 /\ \A i \in Index : memreg[i].to <= HighestEnd
    <3>1. FirstHighest(Limit)
      BY DEF Assign, At, IInv, Ordered
    <3>. QED  BY <3>1, HighestEndsLast DEF IInv
  <2>3. HighestEnd \in Nat
    <3>1. 0 \in Index
      OBVIOUS
    <3>2. memreg[0].to \in Nat
      BY <3>1, Typed DEF IInv
    <3>. QED  BY <3>2 DEF HighestEnd
  <2>4. AlignUp(HighestEnd, align) \in Nat /\ AlignUp(HighestEnd, align) >= HighestEnd
    BY <2>3, AlignUpBound, Typed DEF IInv
  <2>5. \A i \in Index : memreg[i].to \in Nat
    BY Typed DEF IInv
  <2>. QED  BY <1>1, <2>1, <2>2, <2>3, <2>4, <2>5 DEF AboveAll
<1>. QED  BY <1>2, <1>4, <1>5 DEF IInv

-----------------------------------------------------------------------------
(* The steps that change an entry.                                         *)
LEMMA PlaceSafe ==
  ASSUME IInv, TypeInv', NoEmptyBlocks, Place(Main)
  PROVE  IInv'
<1> DEFINE n == FirstEmpty
           from == highestlocation[Main]
           size == request[Main].size
           new == Block(from, from + size, FALSE)
<1>1. UNCHANGED <<held, request, highestlocation>> /\ Holding' = Holding
  BY DEF Place, Holding
<1>2. CASE ~\E i \in Index : Empty(memreg[i])
  <2>1. UNCHANGED memreg /\ pc'[Main] = "outOfMemory"
    BY <1>2 DEF Place, Goto, IInv, TypeInv, TypeOK
  <2>2. SlotsSound' /\ UnusedLast' /\ TableApart' /\ HeldSound'
    BY <1>1, <2>1 DEF IInv, SlotsSound, UnusedLast, TableApart, HeldSound, InUse
  <2>. QED  BY <2>1, <2>2 DEF IInv, Ordered, AboveAll, FoundSound, Sorting
<1>3. CASE \E i \in Index : Empty(memreg[i])
  <2>1. n \in Index /\ Empty(memreg[n]) /\ \A j \in 0 .. n - 1 : ~Empty(memreg[j])
    BY <1>3, FirstEmptyExists
  <2>2. /\ memreg' = [memreg EXCEPT ![n] = new]
        /\ found_something'[Main] = n
        /\ pc'[Main] = "mark"
    BY <1>3 DEF Place, Goto, IInv, TypeInv, TypeOK
  <2>3. /\ memreg'[n] = new
        /\ \A i \in Index \ {n} : memreg'[i] = memreg[i]
    BY <2>1, <2>2 DEF IInv, TypeInv, TypeOK
  <2>4. from > 0 /\ \A i \in Index : memreg[i].to <= from
    BY DEF Place, At, IInv, AboveAll
  <2>5. from \in Nat /\ size \in Nat /\ size > 0
    BY Typed DEF IInv, NoEmptyBlocks
  <2>6. new.from = from /\ new.to = from + size /\ ~new.used
    BY DEF Block
  <2>7. ~InUse(n)
    BY <2>1 DEF Empty, InUse
  <2>. HIDE DEF n, from, size, new
  <2>8. \A i \in Index : InUse(i)' <=> i = n \/ InUse(i)
    BY <2>1, <2>3, <2>4, <2>5, <2>6 DEF InUse
  <2>9. SlotsSound'
    <3>1. memreg'[n].from < memreg'[n].to
      BY <2>3, <2>5, <2>6
    <3>2. \A i \in Index \ {n} :
            IF InUse(i) THEN memreg'[i].from < memreg'[i].to ELSE memreg'[i] = NoBlock
      BY <2>3 DEF IInv, SlotsSound
    <3>. QED  BY <2>8, <3>1, <3>2 DEF SlotsSound
  <2>10. UnusedLast'
    <3>1. \A i \in Index : i < n => InUse(i)
      <4>. SUFFICES ASSUME NEW i \in Index, i < n, ~InUse(i) PROVE FALSE
        OBVIOUS
      <4>1. Empty(memreg[i])
        BY DEF IInv, SlotsSound, Empty, NoBlock, Block
      <4>. QED  BY <2>1, <4>1
    <3>2. \A i \in Index : n < i => ~InUse(i)
      BY <2>1, <2>7 DEF IInv, UnusedLast
    <3>. QED  BY <2>1, <2>8, <3>1, <3>2 DEF UnusedLast
  <2>11. TableApart'
    <3>1. \A i \in Index \ {n} : Apart(memreg'[i], memreg'[n]) /\ Apart(memreg'[n], memreg'[i])
      BY <2>3, <2>4, <2>6 DEF Apart
    <3>2. \A i, j \in Index \ {n} :
            i # j /\ memreg'[i].from # 0 /\ memreg'[j].from # 0 => Apart(memreg'[i], memreg'[j])
      BY <2>3 DEF IInv, TableApart
    <3>. QED  BY <3>1, <3>2 DEF TableApart, Apart
  <2>12. HeldSound'
    <3>. SUFFICES ASSUME NEW h \in Holding PROVE \E i \in Index : memreg'[i] = held[h]
      BY <1>1 DEF IInv, HeldSound
    <3>1. PICK i \in Index : memreg[i] = held[h]
      BY DEF IInv, HeldSound
    <3>2. i # n
      BY <2>7, <3>1 DEF IInv, HeldSound, InUse
    <3>. QED  BY <2>3, <3>1, <3>2
  <2>13. FoundSound'
    BY <1>1, <2>2, <2>3, <2>4, <2>6 DEF FoundSound, size
  <2>14. Ordered' /\ AboveAll'
    BY <2>2 DEF Ordered, AboveAll, Sorting
  <2>. QED  BY <2>9, <2>10, <2>11, <2>12, <2>13, <2>14 DEF IInv
<1>. QED  BY <1>2, <1>3

(* Entries that change their flag only: what is said of addresses stays.   *)
LEMMA FlagsOnly ==
  ASSUME IInv, TypeInv',
         \A i \in Index : memreg'[i].from = memreg[i].from /\ memreg'[i].to = memreg[i].to,
         \A i \in Index : ~InUse(i) => memreg'[i] = memreg[i]
  PROVE  SlotsSound' /\ UnusedLast' /\ TableApart'
<1>1. \A i \in Index : InUse(i)' <=> InUse(i)
  BY DEF InUse
<1>. QED  BY <1>1 DEF IInv, SlotsSound, UnusedLast, TableApart, Apart

LEMMA MarkSafe ==
  ASSUME IInv, TypeInv', Mark(Main)
  PROVE  IInv'
<1> DEFINE n == found_something[Main]
<1>1. UNCHANGED <<held, request, found_something>> /\ Holding' = Holding
  BY DEF Mark, Holding
<1>2. n \in Index /\ pc[Main] = "mark" /\ pc'[Main] = "return"
  BY DEF Mark, At, Goto, IInv, TypeInv, TypeOK, HasFound
<1>3. /\ memreg'[n].from = memreg[n].from /\ memreg'[n].to = memreg[n].to /\ memreg'[n].used
      /\ \A i \in Index \ {n} : memreg'[i] = memreg[i]
  <2>1. memreg' = [memreg EXCEPT ![n].used = TRUE] /\ memreg[n] \in Blocks
    BY <1>2 DEF Mark, IInv, TypeInv, TypeOK
  <2>. QED  BY <1>2, <2>1 DEF IInv, TypeInv, TypeOK, Blocks
<1>4. memreg[n].from # 0 /\ memreg[n].to = memreg[n].from + request[Main].size /\ ~memreg[n].used
  BY <1>2 DEF IInv, FoundSound
<1>. HIDE DEF n
<1>5. SlotsSound' /\ UnusedLast' /\ TableApart'
  BY <1>3, <1>4, FlagsOnly DEF InUse
<1>6. \A h \in Holding : \E i \in Index \ {n} : memreg[i] = held[h]
  BY <1>4 DEF IInv, HeldSound
<1>7. HeldSound'
  BY <1>1, <1>3, <1>6 DEF IInv, HeldSound
<1>8. \A h \in Holding : held[h].from # memreg[n].from
  <2>. TAKE h \in Holding
  <2>1. PICK i \in Index \ {n} : memreg[i] = held[h]
    BY <1>6
  <2>2. memreg[i].from # memreg[n].from
    BY <1>2, <1>4, <2>1, StartsDiffer DEF IInv, InUse
  <2>. QED  BY <2>1, <2>2
<1>9. FoundSound'
  BY <1>1, <1>2, <1>3, <1>4, <1>8 DEF FoundSound, n
<1>10. Ordered' /\ AboveAll'
  BY <1>2 DEF Ordered, AboveAll, Sorting
<1>. QED  BY <1>5, <1>7, <1>9, <1>10 DEF IInv

LEMMA ReturnSafe ==
  ASSUME IInv, TypeInv', Return(Main)
  PROVE  IInv'
<1> DEFINE n == found_something[Main]
           from == memreg[n].from
           new == Block(from, from + request[Main].size, TRUE)
<1>1. UNCHANGED memreg /\ pc'[Main] = "idle" /\ pc[Main] = "return" /\ n \in Index
  BY DEF Return, At, Goto, IInv, TypeInv, TypeOK, HasFound
<1>2. PICK h \in Handles : held[h] = NoBlock /\ held' = [held EXCEPT ![h] = new]
  BY DEF Return
<1>3. memreg[n] = new
  <2>1. memreg[n] \in Blocks /\ memreg[n].used
    BY <1>1 DEF IInv, TypeInv, TypeOK, FoundSound
  <2>2. memreg[n].to = from + request[Main].size
    BY <1>1 DEF IInv, FoundSound
  <2>. QED  BY <2>1, <2>2 DEF Blocks, Block
<1>4. from # 0 /\ \A k \in Holding : held[k].from # from
  BY <1>1 DEF IInv, FoundSound
<1>5. new.from = from /\ new.used /\ from \in Nat
  BY <1>1, Typed DEF Block, IInv
<1>. HIDE DEF n, from, new
<1>6. held'[h] = new /\ \A k \in Handles \ {h} : held'[k] = held[k]
  BY <1>2 DEF IInv, TypeInv, TypeOK
<1>7. new # NoBlock
  BY <1>4, <1>5 DEF NoBlock, Block
<1>8. Holding' = Holding \union {h} /\ h \notin Holding
  BY <1>2, <1>6, <1>7 DEF Holding
<1>9. HeldSound'
  <2>. SUFFICES ASSUME NEW k \in Holding'
                PROVE  /\ held'[k].from # 0
                       /\ \E i \in Index : memreg[i] = held'[k]
                       /\ held'[k].used
                       /\ \A l \in Holding' : k # l => held'[k].from # held'[l].from
    BY <1>1 DEF HeldSound
  <2>1. CASE k = h
    <3>1. \A l \in Holding' : l # h => held'[l].from # from
      BY <1>4, <1>6, <1>8 DEF Holding
    <3>. QED  BY <1>1, <1>3, <1>4, <1>5, <1>6, <2>1, <3>1
  <2>2. CASE k # h
    <3>1. k \in Holding /\ k \in Handles
      BY <1>8, <2>2 DEF Holding
    <3>2. \A l \in Holding' : k # l => held'[k].from # held'[l].from
      <4>. SUFFICES ASSUME NEW l \in Holding', k # l PROVE held'[k].from # held'[l].from
        OBVIOUS
      <4>1. CASE l = h
        BY <1>4, <1>5, <1>6, <2>2, <3>1, <4>1
      <4>2. CASE l # h
        <5>1. l \in Holding /\ l \in Handles
          BY <1>8, <4>2 DEF Holding
        <5>. QED  BY <1>6, <2>2, <3>1, <4>2, <5>1 DEF IInv, HeldSound
      <4>. QED  BY <4>1, <4>2
    <3>. QED  BY <1>6, <2>2, <3>1, <3>2 DEF IInv, HeldSound
  <2>. QED  BY <2>1, <2>2
<1>10. SlotsSound' /\ UnusedLast' /\ TableApart'
  BY <1>1 DEF IInv, SlotsSound, UnusedLast, TableApart, InUse
<1>11. Ordered' /\ AboveAll' /\ FoundSound'
  BY <1>1 DEF Ordered, AboveAll, FoundSound, Sorting
<1>. QED  BY <1>9, <1>10, <1>11 DEF IInv

(* free marks only entries that start at the address given, and the caller *)
(* that held it holds it no more; nobody else has that address.            *)
LEMMA FreeSafe ==
  ASSUME IInv, TypeInv', NEW h \in Handles, Free(Main, h)
  PROVE  IInv'
<1> DEFINE p == held[h].from
<1>1. memreg' = Freed(p) /\ held[h] # NoBlock /\ pc'[Main] = "sortAfterFree"
  BY DEF Free, Goto, IInv, TypeInv, TypeOK
<1>2. i1'[Main] = 1
  BY DEF Free, IInv, TypeInv, TypeOK
<1>3. h \in Holding /\ p # 0
  BY <1>1 DEF Holding, IInv, HeldSound
<1>4. /\ held'[h] = NoBlock
      /\ \A k \in Handles \ {h} : held'[k] = held[k]
  BY DEF Free, IInv, TypeInv, TypeOK
<1>5. Holding' = Holding \ {h}
  BY <1>4 DEF Holding
<1>. HIDE DEF p
<1>6. \A i \in Index : /\ memreg'[i].from = memreg[i].from /\ memreg'[i].to = memreg[i].to
                       /\ memreg[i].from # p => memreg'[i] = memreg[i]
  BY <1>1, Typed DEF Freed, IInv, Blocks
<1>7. SlotsSound' /\ UnusedLast' /\ TableApart'
  BY <1>3, <1>6, FlagsOnly DEF InUse
<1>8. HeldSound'
  <2>. SUFFICES ASSUME NEW k \in Holding, k # h
                PROVE  \E i \in Index : memreg'[i] = held[k]
    BY <1>4, <1>5 DEF IInv, HeldSound, Holding
  <2>1. PICK i \in Index : memreg[i] = held[k]
    BY DEF IInv, HeldSound
  <2>2. memreg[i].from # p
    BY <1>3, <2>1 DEF IInv, HeldSound, p
  <2>. QED  BY <1>6, <2>1, <2>2
<1>9. Ordered'
  <2>1. memreg'[0].from <= memreg'[0].from
    <3>1. 0 \in Index
      OBVIOUS
    <3>. QED  BY <1>6, <3>1, Typed DEF IInv
  <2>. QED  BY <1>1, <1>2, <2>1 DEF Ordered, FirstHighest
<1>10. AboveAll' /\ FoundSound'
  BY <1>1 DEF AboveAll, FoundSound
<1>. QED  BY <1>7, <1>8, <1>9, <1>10 DEF IInv

-----------------------------------------------------------------------------
LEMMA NextSafe ==
  ASSUME OneFlow, NoEmptyBlocks, IInv, [Next]_vars
  PROVE  IInv'
<1>1. TypeInv'
  BY TypeStep DEF IInv
<1>2. ASSUME Next
      PROVE  IInv'
  <2>1. Allocator(Main) \/ Callers(Main)
    BY <1>2 DEF Next, OneFlow
  <2>. QED
    BY <1>1, <2>1, CompareSafe, EndPassSafe, ScanSafe, AssignSafe, PlaceSafe, MarkSafe,
       ReturnSafe, MallocSafe, FreeSafe
       DEF Allocator, Callers, memcleanup, malloc_align
<1>3. CASE UNCHANGED vars
  BY <1>1, <1>3
     DEF vars, IInv, SlotsSound, UnusedLast, TableApart, HeldSound, Ordered, AboveAll, FoundSound,
         InUse, Sorting, Holding, FirstHighest
<1>. QED  BY <1>2, <1>3

(* The invariant the results below follow from.                            *)
THEOREM InductiveInvariant ==
  ASSUME OneFlow, NoEmptyBlocks
  PROVE  Spec => []IInv
BY InitSafe, NextSafe, PTL DEF Spec

(* While no handler allocates, a new block lies above all others: nothing  *)
(* is ever put over a block that is in use.                                *)
THEOREM AssignsAboveAll ==
  ASSUME OneFlow, NoEmptyBlocks
  PROVE  Spec => []AssignsHighest
<1>1. IInv => AssignsHighest
  BY DEF IInv, AboveAll, AssignsHighest, OneFlow
<1>. QED  BY <1>1, InductiveInvariant, PTL

(* While no handler allocates, the blocks of the table never overlap.      *)
THEOREM TableNeverOverlaps ==
  ASSUME OneFlow, NoEmptyBlocks
  PROVE  Spec => []TableApart
<1>1. IInv => TableApart
  BY DEF IInv
<1>. QED  BY <1>1, InductiveInvariant, PTL

(* While no handler allocates, no two callers hold memory that overlaps,   *)
(* whatever free misses and however blocks are given out again.            *)
THEOREM HeldNeverOverlap ==
  ASSUME OneFlow, NoEmptyBlocks
  PROVE  Spec => []HeldApart
<1>1. ASSUME IInv PROVE HeldApart
  <2>. SUFFICES ASSUME NEW h \in Holding, NEW k \in Holding, h # k
                PROVE  Apart(held[h], held[k])
    BY DEF HeldApart, Holding
  <2>1. PICK i \in Index : memreg[i] = held[h]
    BY <1>1 DEF IInv, HeldSound
  <2>2. PICK j \in Index : memreg[j] = held[k]
    BY <1>1 DEF IInv, HeldSound
  <2>3. i # j /\ memreg[i].from # 0 /\ memreg[j].from # 0
    BY <1>1, <2>1, <2>2 DEF IInv, HeldSound
  <2>4. Apart(memreg[i], memreg[j])
    BY <1>1, <2>3 DEF IInv, TableApart
  <2>. QED  BY <2>1, <2>2, <2>4
<1>. QED  BY <1>1, InductiveInvariant, PTL
=============================================================================
