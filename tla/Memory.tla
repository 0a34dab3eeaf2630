------------------------------- MODULE Memory -------------------------------
(***************************************************************************)
(* kernel/dev/memory.c: the table memreg[] of memory blocks, malloc_align  *)
(* and free.                                                               *)
(*                                                                         *)
(* The table is all the state the allocator has.  It is kept from high to  *)
(* low addresses by memcleanup, a bubble sort of one comparison per step   *)
(* here; a slot that was never used has from = to = 0.  malloc_align sorts *)
(* the table, looks for a free block of exactly the size wanted, else puts *)
(* a new block after the highest one.                                      *)
(*                                                                         *)
(* Several flows call the allocator: the main flow, and the interrupt      *)
(* handlers, which print (debugf allocates its text, dev/video.c:1564) and *)
(* answer packets (dev/ethernet.c).  A handler runs to its end before the  *)
(* main flow goes on.  What is stored in the blocks is not modelled.       *)
(***************************************************************************)
EXTENDS Integers

CONSTANTS
  Limit,       (* MEMORY_BLOCK_LIMIT: 0x2000 in the code                   *)
  Stride,      (* the step free() takes over the table: sizeof(MemoryBlock)*)
  Base,        (* &endKernelMemory                                         *)
  Sizes,       (* the sizes callers ask for                                *)
  Alignments,  (* the alignments they ask for: tag + 1                     *)
  Flows,       (* the flows of control that call the allocator             *)
  Main,        (* the one the handlers interrupt                           *)
  Handles      (* the blocks callers can hold at once                      *)

ASSUME LimitAssumption == Limit \in Nat /\ Limit > 1
ASSUME StrideAssumption == Stride \in Nat /\ Stride > 0
ASSUME BaseAssumption == Base \in Nat /\ Base > 0
ASSUME RequestAssumption == Sizes \subseteq Nat /\ Alignments \subseteq Nat \ {0}
ASSUME FlowsAssumption == Main \in Flows

VARIABLES
  memreg,      (* memreg[i]: a block from..to and its used flag            *)
  pc,          (* where each flow stands in the allocator                  *)
  request,     (* malloc_align's size and tag, per flow                    *)
  i1,          (* memcleanup's index                                       *)
  foundsomething, (* memcleanup's flag: this pass has swapped              *)
  found_something, (* malloc_align's index; Limit stands for its -1        *)
  highestlocation, (* malloc_align's local of that name                    *)
  held         (* what the callers hold: a block, or NoBlock               *)

vars == <<memreg, pc, request, i1, foundsomething, found_something, highestlocation, held>>

Index == 0 .. Limit - 1
NotFound == Limit
Block(a, b, u) == [from |-> a, to |-> b, used |-> u]
NoBlock == Block(0, 0, FALSE)
Blocks == [from : Nat, to : Nat, used : BOOLEAN]
Points == {"idle", "sort", "sortAfterFree", "scan", "assign", "place", "mark", "return", "outOfMemory"}

TypeOK ==
  /\ memreg \in [Index -> Blocks]
  /\ pc \in [Flows -> Points]
  /\ request \in [Flows -> [size : Sizes, align : Alignments]]
  /\ i1 \in [Flows -> 1 .. Limit]
  /\ foundsomething \in [Flows -> BOOLEAN]
  /\ found_something \in [Flows -> 0 .. Limit]
  /\ highestlocation \in [Flows -> Nat]
  /\ held \in [Handles -> Blocks]

Init ==
  /\ memreg = [i \in Index |-> NoBlock]
  /\ pc = [f \in Flows |-> "idle"]
  /\ request \in [Flows -> [size : Sizes, align : Alignments]]
  /\ i1 = [f \in Flows |-> 1]
  /\ foundsomething = [f \in Flows |-> FALSE]
  /\ found_something = [f \in Flows |-> NotFound]
  /\ highestlocation = [f \in Flows |-> 0]
  /\ held = [h \in Handles |-> NoBlock]

(* A handler that interrupts the main flow runs to its end first.          *)
MayRun(f) == f = Main => \A g \in Flows \ {Main} : pc[g] = "idle"
At(f, p) == pc[f] = p /\ MayRun(f)
Goto(f, p) == pc' = [pc EXCEPT ![f] = p]

Empty(b) == ~b.used /\ b.from = 0 /\ b.to = 0
SizeOf(b) == b.to - b.from
Aligned(x, a) == x % a = 0

-----------------------------------------------------------------------------
(* malloc_align is called: its memcleanup begins a pass.                   *)
Malloc(f, size, align) ==
  /\ At(f, "idle")
  /\ request' = [request EXCEPT ![f] = [size |-> size, align |-> align]]
  /\ i1' = [i1 EXCEPT ![f] = 1]
  /\ foundsomething' = [foundsomething EXCEPT ![f] = FALSE]
  /\ Goto(f, "sort")
  /\ UNCHANGED <<memreg, found_something, highestlocation, held>>

(* Mutant: entries that are equal are swapped too.                         *)
OutOfOrder_Equal(a, b) == memreg[a].from <= memreg[b].from

(* memcleanup: entries a and b = a + 1 are compared, and swapped when the  *)
(* first lies lower.                                                       *)
OutOfOrder(a, b) == memreg[a].from < memreg[b].from
Swapped(a, b) ==
  IF OutOfOrder(a, b) THEN [memreg EXCEPT ![a] = memreg[b], ![b] = memreg[a]] ELSE memreg
BothUnused(a, b) == memreg[a].from = 0 /\ memreg[b].from = 0

AfterSort(p) == IF p = "sort" THEN "scan" ELSE "idle"

Compare(f) ==
  /\ At(f, "sort") \/ At(f, "sortAfterFree")
  /\ i1[f] < Limit
  /\ memreg' = Swapped(i1[f] - 1, i1[f])
  /\ foundsomething' = [foundsomething EXCEPT ![f] = @ \/ OutOfOrder(i1[f] - 1, i1[f])]
  /\ i1' = [i1 EXCEPT ![f] = IF BothUnused(@ - 1, @) THEN Limit ELSE @ + 1]
  /\ UNCHANGED <<pc, request, found_something, highestlocation, held>>

(* Mutant: one pass over the table is all there is.                        *)
EndPass_Once(f) ==
  /\ At(f, "sort") \/ At(f, "sortAfterFree")
  /\ i1[f] = Limit
  /\ Goto(f, AfterSort(pc[f]))
  /\ UNCHANGED <<memreg, request, i1, foundsomething, found_something, highestlocation, held>>

(* The end of a pass: another one after a swap, else the table is sorted.  *)
EndPass(f) ==
  /\ At(f, "sort") \/ At(f, "sortAfterFree")
  /\ i1[f] = Limit
  /\ IF foundsomething[f]
     THEN /\ i1' = [i1 EXCEPT ![f] = 1]
          /\ foundsomething' = [foundsomething EXCEPT ![f] = FALSE]
          /\ UNCHANGED pc
     ELSE /\ Goto(f, AfterSort(pc[f]))
          /\ UNCHANGED <<i1, foundsomething>>
  /\ UNCHANGED <<memreg, request, found_something, highestlocation, held>>

(* Mutant: a block that is in use may fit.                                 *)
Fits_EvenUsed(f, b) ==
  /\ b.from # 0 /\ b.to # 0
  /\ SizeOf(b) = request[f].size
  /\ Aligned(b.from, request[f].align)

Fits(f, b) ==
  /\ ~b.used /\ b.from # 0 /\ b.to # 0
  /\ SizeOf(b) = request[f].size
  /\ Aligned(b.from, request[f].align)

(* The last free block that fits perfectly, or none.                       *)
PerfectFit(f) ==
  LET fits == {i \in Index : Fits(f, memreg[i])}
  IN  IF fits = {} THEN NotFound ELSE CHOOSE i \in fits : \A j \in fits : j <= i

Scan(f) ==
  /\ At(f, "scan")
  /\ found_something' = [found_something EXCEPT ![f] = PerfectFit(f)]
  /\ Goto(f, IF PerfectFit(f) = NotFound THEN "assign" ELSE "mark")
  /\ UNCHANGED <<memreg, request, i1, foundsomething, highestlocation, held>>

(* The first address at or above x with the alignment.                     *)
AlignUp(x, a) == x + ((-x) % a)

(* The end of the first block of the table, which is the highest.          *)
HighestEnd == IF memreg[0].to = 0 THEN Base ELSE memreg[0].to

Assign(f) ==
  /\ At(f, "assign")
  /\ IF Empty(memreg[Limit - 1])
     THEN /\ highestlocation' = [highestlocation EXCEPT ![f] = AlignUp(HighestEnd, request[f].align)]
          /\ Goto(f, "place")
     ELSE /\ Goto(f, "outOfMemory")
          /\ UNCHANGED highestlocation
  /\ UNCHANGED <<memreg, request, i1, foundsomething, found_something, held>>

(* The new block goes to the first empty slot; it is not marked used yet.  *)
FirstEmpty == CHOOSE i \in Index : Empty(memreg[i]) /\ \A j \in 0 .. i - 1 : ~Empty(memreg[j])

Place(f) ==
  /\ At(f, "place")
  /\ IF \E i \in Index : Empty(memreg[i])
     THEN /\ memreg' = [memreg EXCEPT ![FirstEmpty] =
                          Block(highestlocation[f], highestlocation[f] + request[f].size, FALSE)]
          /\ found_something' = [found_something EXCEPT ![f] = FirstEmpty]
          /\ Goto(f, "mark")
     ELSE /\ Goto(f, "outOfMemory")
          /\ UNCHANGED <<memreg, found_something>>
  /\ UNCHANGED <<request, i1, foundsomething, highestlocation, held>>

(* The entry is marked by its index and zeroed.                            *)
Mark(f) ==
  /\ At(f, "mark")
  /\ memreg' = [memreg EXCEPT ![found_something[f]].used = TRUE]
  /\ Goto(f, "return")
  /\ UNCHANGED <<request, i1, foundsomething, found_something, highestlocation, held>>

(* The address is read from the entry once more, and the caller holds a    *)
(* block of the size it asked for at that address.                         *)
Return(f) ==
  /\ At(f, "return")
  /\ LET from == memreg[found_something[f]].from
     IN  \E h \in Handles :
           /\ held[h] = NoBlock
           /\ held' = [held EXCEPT ![h] = Block(from, from + request[f].size, TRUE)]
  /\ Goto(f, "idle")
  /\ UNCHANGED <<memreg, request, i1, foundsomething, found_something, highestlocation>>

(* free reads memreg + sizeof(MemoryBlock) * i, a pointer to MemoryBlock:  *)
(* it meets every Stride-th entry of the table only, and then memory that  *)
(* lies behind the table.                                                  *)
Freed(p) ==
  [i \in Index |-> IF i % Stride = 0 /\ memreg[i].from = p
                   THEN [memreg[i] EXCEPT !.used = FALSE] ELSE memreg[i]]

Free(f, h) ==
  /\ At(f, "idle")
  /\ held[h] # NoBlock
  /\ memreg' = Freed(held[h].from)
  /\ held' = [held EXCEPT ![h] = NoBlock]
  /\ i1' = [i1 EXCEPT ![f] = 1]
  /\ foundsomething' = [foundsomething EXCEPT ![f] = FALSE]
  /\ Goto(f, "sortAfterFree")
  /\ UNCHANGED <<request, found_something, highestlocation>>

memcleanup(f) == Compare(f) \/ EndPass(f)
malloc_align(f) == Scan(f) \/ Assign(f) \/ Place(f) \/ Mark(f) \/ Return(f)

Allocator(f) == memcleanup(f) \/ malloc_align(f)
Callers(f) ==
  \/ \E s \in Sizes, a \in Alignments : Malloc(f, s, a)
  \/ \E h \in Handles : Free(f, h)

Next == \E f \in Flows : Allocator(f) \/ Callers(f)

Spec == Init /\ [][Next]_vars

(* A flow inside the allocator is not stopped for ever.                    *)
FairSpec == Spec /\ \A f \in Flows : WF_vars(Allocator(f))

-----------------------------------------------------------------------------
Apart(a, b) == a.to <= b.from \/ b.to <= a.from

(* No two callers are given memory that overlaps.                          *)
HeldApart ==
  \A h, k \in Handles : h # k /\ held[h] # NoBlock /\ held[k] # NoBlock => Apart(held[h], held[k])

(* The blocks of the table do not overlap, used or not.                    *)
TableApart ==
  \A i, j \in Index : i # j /\ memreg[i].from # 0 /\ memreg[j].from # 0 => Apart(memreg[i], memreg[j])

(* A new block gets the address the comment at memory.c:114 names: it lies *)
(* above every block there is.                                             *)
AssignsHighest ==
  \A f \in Flows : pc[f] = "place" => \A i \in Index : memreg[i].to <= highestlocation[f]

(* A call of the allocator comes back, unless the table is full or no      *)
(* caller can hold one more.                                               *)
CallsReturn ==
  \A f \in Flows :
    pc[f] # "idle" ~> pc[f] \in {"idle", "outOfMemory"} \/ \A h \in Handles : held[h] # NoBlock
=============================================================================
