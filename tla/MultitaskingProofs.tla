------------------------- MODULE MultitaskingProofs -------------------------
(***************************************************************************)
(* The process table keeps every task, for a table of any length and any   *)
(* tasks, as long as a single task calls createTask.                       *)
(***************************************************************************)
EXTENDS Multitasking, TLAPS, WellFoundedInduction

(* At most one task's code calls createTask: the cli..sti of createTask    *)
(* does not cover the store of regcount, so two callers could share a slot *)
OneCreator == \A t, u \in Creators : t = u

(* A nonempty set of naturals has a least element.                         *)
LEMMA LeastElement ==
  ASSUME NEW S, S \subseteq Nat, S # {}
  PROVE  \E d \in S : \A e \in S : d <= e
<1>1. PICK d \in S : \A e \in S : <<e, d>> \notin OpToRel(<, Nat)
  BY WFMin, NatLessThanWellFounded, Zenon
<1>2. \A e \in S : ~(e < d)
  BY <1>1, Zenon DEF OpToRel
<1>. QED  BY <1>2

(* When some slot in use is active, the rotation stops at one, and it      *)
(* stops there after the fewest turns.                                     *)
LEMMA FirstStopExists ==
  ASSUME regcount \in 0 .. MaxProc, \E d \in Turns : Stops(d)
  PROVE  /\ FirstStop \in Turns
         /\ Stops(FirstStop)
         /\ \A e \in Turns : Stops(e) => FirstStop <= e
<1> DEFINE S == {d \in Turns : Stops(d)}
<1>1. S \subseteq Nat /\ S # {}
  BY DEF Turns
<1>2. PICK d \in S : \A e \in S : d <= e
  BY <1>1, LeastElement
<1>3. d \in Turns /\ Stops(d) /\ \A e \in Turns : Stops(e) => d <= e
  BY <1>2
<1>. QED  BY <1>3 DEF FirstStop

-----------------------------------------------------------------------------
Filling == {t \in Tasks : at[t] = "filled"}
Filled == {s \in Slots : owner[s] # NoTask}

(* createTask between its sti and the store of regcount: the task in it    *)
(* remembers the first slot beyond the rotation.                           *)
FillingSound ==
  \A t \in Filling :
    /\ t \in Creators
    /\ regcount > 0
    /\ regcount < MaxProc
    /\ cup[t] = regcount
    /\ registers[regcount].image = Image(owner[regcount], "run", owner[regcount])

(* The filled slots are those in use and the one createTask is adding.     *)
FilledSound ==
  \A s \in Slots :
    s \in Filled <=> s \in InUse \/ (s = regcount /\ Filling # {})

(* ResumesWhereItStood, for every filled slot.                             *)
Place ==
  \A s \in Filled : HeldBy(s).task = owner[s] /\ HeldBy(s).at = at[owner[s]]

OneOwner == \A r, s \in Filled : owner[r] = owner[s] => r = s
UnstartedTasks == \A t \in Tasks : (\A s \in Slots : owner[s] # t) => at[t] = "run"

IInv ==
  /\ TypeOK
  /\ owner[0] = Main
  /\ FillingSound
  /\ FilledSound
  /\ Place
  /\ OneOwner
  /\ UnstartedTasks
  /\ CurrentInUse

USE MaxProcAssumption, TasksAssumption
USE DEF HeldBy, Saved, NewSlot, TableFull

LEMMA InitIInv == Init => IInv
<1> SUFFICES ASSUME Init PROVE IInv
  OBVIOUS
<1>1. TypeOK
  <2>1. Image(NoTask, "run", NoTask) \in Images /\ Image(Main, "run", Main) \in Images
    BY DEF Image, Images, Points
  <2>2. registers \in [Slots -> [image : Images, active : BOOLEAN]]
    <3>1. \A s \in Slots : (s = 0) \in BOOLEAN
      OBVIOUS
    <3>. QED  BY <2>1, <3>1, Zenon DEF Init
  <2>3. owner \in [Slots -> Tasks \cup {NoTask}]
    BY DEF Init
  <2>4. regnow \in Slots /\ regcount \in 0 .. MaxProc
    BY DEF Init, Slots
  <2>5. cpu \in Images /\ at \in [Tasks -> Points]
    BY <2>1 DEF Init, Points
  <2>6. cup \in [Tasks -> Slots] /\ waited \in [Slots -> Nat]
    BY DEF Init, Slots
  <2>7. intr \in BOOLEAN /\ hung \in BOOLEAN
    BY Zenon DEF Init
  <2>. QED  BY <2>2, <2>3, <2>4, <2>5, <2>6, <2>7, Zenon DEF TypeOK
<1>2. owner[0] = Main /\ CurrentInUse
  BY DEF Init, CurrentInUse, InUse, Slots
<1>3. Filling = {} /\ Filled = {0} /\ InUse = {0}
  <2>1. 0 \in Slots /\ Main # NoTask
    BY DEF Slots
  <2>2. Filling = {}
    BY DEF Init, Filling
  <2>3. Filled = {0}
    BY <2>1 DEF Init, Filled
  <2>4. InUse = {0}
    BY <2>1 DEF Init, InUse, Slots
  <2>. QED  BY <2>2, <2>3, <2>4
<1>4. FillingSound /\ FilledSound /\ OneOwner /\ UnstartedTasks
  BY <1>3 DEF Init, FillingSound, FilledSound, OneOwner, UnstartedTasks
<1>5. Place
  BY <1>3 DEF Init, Place, Image, Slots
<1>. QED  BY <1>1, <1>2, <1>4, <1>5 DEF IInv

(* The interrupt that switches: the saved image goes to the slot the       *)
(* processor ran, so the loaded slot's task is the only one to leave the   *)
(* table for the processor.                                                *)
LEMMA TickIInv == IInv /\ Tick => IInv'
<1> SUFFICES ASSUME IInv, Tick PROVE IInv'
  OBVIOUS
<1> USE DEF IInv
<1> DEFINE next == Rotate(regnow, FirstStop)
<1>1. /\ registers' = Saved
      /\ cpu' = [Saved[next].image EXCEPT !.stack = cpu.stack]
      /\ regnow' = next
      /\ UNCHANGED <<regcount, cup, intr, hung, owner, at>>
      /\ regcount > 0
  BY DEF Tick
<1>2. FirstStop \in Turns /\ Stops(FirstStop)
  BY FirstStopExists DEF Tick, TypeOK
<1>3. next \in InUse /\ next \in Slots /\ next < regcount
  BY <1>1, <1>2 DEF TypeOK, CurrentInUse, InUse, Slots, Turns, Rotate
<1>4. TypeOK'
  <2>1. registers' \in [Slots -> [image : Images, active : BOOLEAN]]
    BY <1>1 DEF TypeOK
  <2>2. cpu' \in Images
    <3>1. Saved[next].image \in Images /\ cpu \in Images
      BY <1>3 DEF TypeOK
    <3>2. PICK im \in Images : im = Saved[next].image
      BY <3>1
    <3>3. cpu' = [im EXCEPT !.stack = cpu.stack]
      BY <1>1, <3>2
    <3>. QED  BY <3>1, <3>3 DEF Images
  <2>3. waited' \in [Slots -> Nat]
    BY DEF Tick, TypeOK
  <2>. QED  BY <2>1, <2>2, <2>3, <1>1, <1>3 DEF TypeOK
<1>5. Filled' = Filled /\ Filling' = Filling /\ InUse' = InUse
  BY <1>1 DEF Filled, Filling, InUse
<1>6. Place'
  <2> SUFFICES ASSUME NEW s \in Filled
               PROVE  HeldBy(s)'.task = owner[s] /\ HeldBy(s)'.at = at[owner[s]]
    BY <1>1, <1>5, Zenon DEF Place
  <2>1. s \in Slots /\ regnow \in Slots
    BY DEF Filled, TypeOK
  <2>2. Saved[s].image.task = owner[s] /\ Saved[s].image.at = at[owner[s]]
    BY <2>1 DEF Place, TypeOK
  <2>3. CASE s = next
    <3>1. PICK im \in Images : im = Saved[next].image
      BY <1>3 DEF TypeOK
    <3>2. cpu' = [im EXCEPT !.stack = cpu.stack]
      BY <1>1, <3>1
    <3>3. cpu'.task = im.task /\ cpu'.at = im.at
      BY <3>2 DEF Images
    <3>. QED  BY <1>1, <2>2, <2>3, <3>1, <3>3
  <2>4. CASE s # next
    BY <1>1, <2>2, <2>4
  <2>. QED  BY <2>3, <2>4
<1>7. CurrentInUse'
  BY <1>1, <1>3, <1>5 DEF CurrentInUse
<1>8. FillingSound'
  <2> SUFFICES ASSUME NEW t \in Filling
               PROVE  /\ t \in Creators /\ regcount > 0 /\ regcount < MaxProc
                      /\ cup[t] = regcount
                      /\ registers'[regcount].image
                           = Image(owner[regcount], "run", owner[regcount])
    BY <1>1, <1>5, Zenon DEF FillingSound
  <2>1. regnow # regcount /\ regcount \in Slots
    BY <1>1 DEF CurrentInUse, InUse, FillingSound, TypeOK, Slots
  <2>. QED  BY <1>1, <2>1 DEF FillingSound, TypeOK
<1>. QED
  BY <1>1, <1>4, <1>5, <1>6, <1>7, <1>8
     DEF FilledSound, OneOwner, UnstartedTasks

(* Only one task can be inside createTask, and it is the processor's when  *)
(* a fill happens: the slot at regcount is free.                           *)
LEMMA CreateFillIInv ==
  ASSUME OneCreator, IInv, NEW t \in Tasks, NEW new \in Tasks \ {Main}, CreateFill(t, new)
  PROVE  IInv'
<1> USE DEF IInv
<1>1. /\ t \in Creators /\ cpu.task = t /\ cpu.at = "run"
      /\ \A s \in Slots : owner[s] # new
      /\ regcount < MaxProc
      /\ regcount' = NewSlot
      /\ cup' = [cup EXCEPT ![t] = NewSlot]
      /\ registers' = [registers EXCEPT
                         ![NewSlot] = [image |-> Image(new, "run", new), active |-> TRUE]]
      /\ owner' = [owner EXCEPT ![NewSlot] = new]
      /\ cpu' = [cpu EXCEPT !.at = "filled"]
      /\ at' = [at EXCEPT ![t] = "filled"]
      /\ intr' = TRUE
      /\ UNCHANGED <<regnow, hung, waited>>
  BY DEF CreateFill, Runs, MoveTo, TypeOK
<1>2. NewSlot \in Slots /\ NewSlot # 0 /\ NewSlot \notin InUse /\ InUse' = InUse
  BY <1>1 DEF TypeOK, Slots, InUse
<1>3. regnow \in Filled /\ owner[regnow] = t /\ at[t] = "run"
  BY <1>1 DEF CurrentInUse, FilledSound, Place, InUse
<1>4. Filling = {}
  BY <1>1, <1>3 DEF FillingSound, OneCreator, Filling
<1>5. NewSlot \notin Filled
  BY <1>2, <1>4 DEF FilledSound
<1>6. at[new] = "run" /\ new # t
  BY <1>1, <1>3 DEF UnstartedTasks, Filled
<1>7. Filling' = {t}
  BY <1>1, <1>4 DEF Filling, TypeOK
<1>8. Filled' = Filled \cup {NewSlot}
  BY <1>1, <1>2 DEF Filled, TypeOK
<1>9. TypeOK'
  <2>1. Image(new, "run", new) \in Images
    BY DEF Image, Images, Points
  <2>2. registers' \in [Slots -> [image : Images, active : BOOLEAN]]
    BY <1>1, <1>2, <2>1 DEF TypeOK
  <2>3. cpu' \in Images
    BY <1>1 DEF TypeOK, Images, Points
  <2>4. NewSlot \in 0 .. MaxProc
    BY <1>1 DEF TypeOK, Slots
  <2>. QED  BY <1>1, <1>2, <2>2, <2>3, <2>4 DEF TypeOK, Points
<1>10. FillingSound'
  BY <1>1, <1>2, <1>7 DEF FillingSound, TypeOK, Slots
<1>11. FilledSound'
  BY <1>1, <1>2, <1>4, <1>7, <1>8 DEF FilledSound, TypeOK, Slots
<1>12. Place'
  <2> SUFFICES ASSUME NEW s \in Filled'
               PROVE  HeldBy(s)'.task = owner'[s] /\ HeldBy(s)'.at = at'[owner'[s]]
    BY <1>1, Zenon DEF Place
  <2>1. CASE s = NewSlot
    BY <1>1, <1>2, <1>3, <1>5, <1>6, <2>1 DEF Image, TypeOK
  <2>2. CASE s = regnow
    BY <1>1, <1>3, <1>5, <2>2 DEF TypeOK, Images, Filled, Place
  <2>3. CASE s \in Filled /\ s # regnow /\ s # NewSlot
    <3>1. owner[s] # t /\ owner[s] \in Tasks
      BY <1>3, <2>3 DEF OneOwner, TypeOK, Filled
    <3>. QED  BY <1>1, <2>3, <3>1 DEF TypeOK, Place, Filled
  <2>. QED  BY <1>8, <2>1, <2>2, <2>3
<1>13. OneOwner'
  BY <1>1, <1>2, <1>8 DEF OneOwner, TypeOK, Filled
<1>14. UnstartedTasks'
  <2> SUFFICES ASSUME NEW u \in Tasks, \A s \in Slots : owner'[s] # u
               PROVE  at'[u] = "run"
    BY DEF UnstartedTasks
  <2>1. u # t
    BY <1>1, <1>3, <1>5 DEF Filled, TypeOK
  <2>2. \A s \in Slots : owner[s] # u
    BY <1>1, <1>2, <1>5 DEF Filled, TypeOK
  <2>. QED  BY <1>1, <2>1, <2>2 DEF UnstartedTasks, TypeOK
<1>15. owner'[0] = Main /\ CurrentInUse'
  BY <1>1, <1>2 DEF TypeOK, CurrentInUse, Slots
<1>. QED
  BY <1>9, <1>10, <1>11, <1>12, <1>13, <1>14, <1>15

(* The store of regcount brings the filled slot into the rotation.         *)
LEMMA CreateReturnIInv ==
  ASSUME OneCreator, IInv, NEW t \in Tasks, CreateReturn(t)
  PROVE  IInv'
<1> USE DEF IInv
<1>1. /\ cpu.task = t /\ cpu.at = "filled"
      /\ regcount' = cup[t] + 1
      /\ cpu' = [cpu EXCEPT !.at = "run"]
      /\ at' = [at EXCEPT ![t] = "run"]
      /\ UNCHANGED <<registers, regnow, cup, intr, hung, owner, waited>>
  BY DEF CreateReturn, Runs, MoveTo
<1>2. regnow \in Filled /\ owner[regnow] = t /\ at[t] = "filled"
  BY <1>1 DEF CurrentInUse, FilledSound, Place, InUse
<1>3. Filling = {t} /\ cup[t] = regcount /\ regcount > 0 /\ regcount < MaxProc
  BY <1>2 DEF FillingSound, OneCreator, Filling
<1>4. Filling' = {} /\ Filled' = Filled
  BY <1>1, <1>3 DEF Filling, Filled, TypeOK
<1>5. regcount' = regcount + 1 /\ InUse' = InUse \cup {regcount}
  BY <1>1, <1>3 DEF InUse, Slots, TypeOK
<1>6. TypeOK'
  <2>1. regcount' \in 0 .. MaxProc
    BY <1>3, <1>5 DEF TypeOK
  <2>2. cpu' \in Images /\ at' \in [Tasks -> Points]
    BY <1>1 DEF TypeOK, Images, Points
  <2>. QED  BY <1>1, <2>1, <2>2 DEF TypeOK
<1>7. FilledSound' /\ FillingSound'
  BY <1>3, <1>4, <1>5 DEF FilledSound, FillingSound, Slots, InUse
<1>8. Place'
  <2> SUFFICES ASSUME NEW s \in Filled
               PROVE  HeldBy(s)'.task = owner[s] /\ HeldBy(s)'.at = at'[owner[s]]
    BY <1>1, <1>4, Zenon DEF Place
  <2>1. CASE s = regnow
    BY <1>1, <1>2, <2>1 DEF TypeOK, Images
  <2>2. CASE s # regnow
    <3>1. owner[s] # t
      BY <1>2, <2>2 DEF OneOwner
    <3>. QED  BY <1>1, <2>2, <3>1 DEF Place, TypeOK
  <2>. QED  BY <2>1, <2>2
<1>9. OneOwner' /\ owner'[0] = Main
  BY <1>1, <1>4 DEF OneOwner
<1>10. UnstartedTasks'
  BY <1>1 DEF UnstartedTasks, TypeOK
<1>11. CurrentInUse'
  BY <1>1, <1>5 DEF CurrentInUse
<1>. QED  BY <1>6, <1>7, <1>8, <1>9, <1>10, <1>11

(* What neither moves a task nor fills a slot keeps every part of IInv.    *)
LEMMA QuietIInv ==
  ASSUME IInv, TypeOK', UNCHANGED <<regnow, regcount, cpu, cup, owner, at>>,
         \A s \in Slots : s # regnow => registers'[s].image = registers[s].image
  PROVE  IInv'
<1> USE DEF IInv
<1>1. Filling' = Filling /\ Filled' = Filled /\ InUse' = InUse
  BY DEF Filling, Filled, InUse
<1>2. Place'
  <2> SUFFICES ASSUME NEW s \in Filled
               PROVE  HeldBy(s)'.task = owner[s] /\ HeldBy(s)'.at = at[owner[s]]
    BY <1>1, Zenon DEF Place
  <2>. QED  BY DEF Place, Filled
<1>3. FillingSound'
  <2> SUFFICES ASSUME NEW t \in Filling
               PROVE  /\ t \in Creators /\ regcount > 0 /\ regcount < MaxProc
                      /\ cup[t] = regcount
                      /\ registers'[regcount].image
                           = Image(owner[regcount], "run", owner[regcount])
    BY <1>1, Zenon DEF FillingSound
  <2>1. regnow # regcount /\ regcount \in Slots
    BY DEF CurrentInUse, InUse, FillingSound, TypeOK, Slots
  <2>. QED  BY <2>1 DEF FillingSound, TypeOK
<1>. QED
  BY <1>1, <1>2, <1>3 DEF FilledSound, OneOwner, UnstartedTasks, CurrentInUse

LEMMA OtherIInv ==
  ASSUME IInv, NEW t \in Tasks,
         \/ TickAlone
         \/ TickHangs
         \/ CreateRefused(t)
         \/ PortIO(t)
         \/ killTask(t)
         \/ UNCHANGED vars
  PROVE  IInv'
<1> USE DEF IInv
<1>1. CASE TickAlone \/ UNCHANGED vars
  <2>1. UNCHANGED <<registers, regnow, regcount, cpu, cup, intr, hung, owner, at, waited>>
    BY <1>1 DEF TickAlone, vars, code, history
  <2>2. TypeOK'
    BY <2>1 DEF TypeOK
  <2>. QED  BY <2>1, <2>2, QuietIInv
<1>2. CASE TickHangs
  <2>1. /\ registers' = [registers EXCEPT ![regnow].image = cpu]
        /\ hung' = TRUE
        /\ UNCHANGED <<regnow, regcount, cpu, cup, intr, owner, at, waited>>
    BY <1>2 DEF TickHangs
  <2>2. registers' \in [Slots -> [image : Images, active : BOOLEAN]]
    BY <2>1 DEF TypeOK
  <2>3. hung' \in BOOLEAN
    BY <2>1, Zenon
  <2>4. TypeOK'
    BY <2>1, <2>2, <2>3 DEF TypeOK
  <2>. QED  BY <2>1, <2>4, QuietIInv DEF TypeOK
<1>3. CASE CreateRefused(t)
  <2>1. intr' = FALSE
        /\ UNCHANGED <<registers, regnow, regcount, cpu, cup, hung, owner, at, waited>>
    BY <1>3 DEF CreateRefused, history
  <2>2. intr' \in BOOLEAN
    BY <2>1, Zenon
  <2>3. TypeOK'
    BY <2>1, <2>2 DEF TypeOK
  <2>. QED  BY <2>1, <2>3, QuietIInv
<1>4. CASE PortIO(t)
  <2>1. intr' = TRUE
        /\ UNCHANGED <<registers, regnow, regcount, cpu, cup, hung, owner, at, waited>>
    BY <1>4 DEF PortIO, history
  <2>2. intr' \in BOOLEAN
    BY <2>1, Zenon
  <2>3. TypeOK'
    BY <2>1, <2>2 DEF TypeOK
  <2>. QED  BY <2>1, <2>3, QuietIInv
<1>5. CASE killTask(t)
  <2>1. PICK pid \in Slots :
           /\ registers' = [registers EXCEPT ![pid].active = FALSE]
           /\ UNCHANGED <<regnow, regcount, cpu, cup, intr, hung, owner, at, waited>>
    BY <1>5 DEF killTask, Kill, history
  <2>2. registers' \in [Slots -> [image : Images, active : BOOLEAN]]
    BY <2>1 DEF TypeOK
  <2>3. TypeOK'
    BY <2>1, <2>2 DEF TypeOK
  <2>4. \A s \in Slots : registers'[s].image = registers[s].image
    BY <2>1 DEF TypeOK
  <2>. QED  BY <2>1, <2>3, <2>4, QuietIInv
<1>. QED  BY <1>1, <1>2, <1>3, <1>4, <1>5

LEMMA NextIInv == OneCreator /\ IInv /\ [Next]_vars => IInv'
<1> SUFFICES ASSUME OneCreator, IInv, [Next]_vars PROVE IInv'
  OBVIOUS
<1>1. CASE Tick
  BY <1>1, TickIInv
<1>2. ASSUME NEW t \in Tasks, createTask(t) PROVE IInv'
  BY <1>2, CreateFillIInv, CreateReturnIInv, OtherIInv DEF createTask
<1>3. ASSUME NEW t \in Tasks, killTask(t) \/ PortIO(t) PROVE IInv'
  BY <1>3, OtherIInv
<1>4. CASE TickAlone \/ TickHangs \/ UNCHANGED vars
  BY <1>4, OtherIInv
<1>. QED  BY <1>1, <1>2, <1>3, <1>4 DEF Next, irq_multitasking

(* With one creator the strengthened invariant holds in every state.       *)
THEOREM InductiveInvariant ==
  ASSUME OneCreator
  PROVE  Spec => []IInv
<1>1. Init => IInv
  BY InitIInv
<1>2. IInv /\ [Next]_vars => IInv'
  BY NextIInv
<1>. QED  BY <1>1, <1>2, PTL DEF Spec

(* A task goes on exactly where it stood, whatever the interrupt, kills    *)
(* and createTask of the one creator do in between (multitasking.c:15-71). *)
THEOREM TasksResume ==
  ASSUME OneCreator
  PROVE  Spec => []ResumesWhereItStood
<1>1. IInv => ResumesWhereItStood
  BY DEF IInv, FilledSound, Place, ResumesWhereItStood, InUse
<1>. QED  BY <1>1, InductiveInvariant, PTL

(* Between the sti and the store of regcount++ in createTask nobody reuses *)
(* the filled slot (multitasking.c:98-100).                                *)
THEOREM FilledSlotIsKept ==
  ASSUME OneCreator
  PROVE  Spec => []FilledSlotUntouched
<1>1. IInv => FilledSlotUntouched
  <2> SUFFICES ASSUME IInv, NEW t \in Tasks, at[t] = "filled"
               PROVE  /\ cup[t] = regcount
                      /\ owner[cup[t]] \notin {Main, NoTask}
                      /\ registers[cup[t]].image
                           = Image(owner[cup[t]], "run", owner[cup[t]])
    BY Zenon DEF FilledSlotUntouched
  <2>1. t \in Filling /\ cup[t] = regcount /\ regcount > 0 /\ regcount \in Slots
    BY DEF Filling, IInv, FillingSound, TypeOK, Slots
  <2>2. regcount \in Filled /\ 0 \in Filled /\ owner[0] = Main
    BY <2>1 DEF IInv, FilledSound, InUse, Slots
  <2>. QED  BY <2>1, <2>2 DEF IInv, OneOwner, Filled, FillingSound
<1>. QED  BY <1>1, InductiveInvariant, PTL

-----------------------------------------------------------------------------
(* A slot beyond the rotation has not waited, nor has the current one.     *)
WaitInv ==
  /\ \A s \in Slots : s >= regcount => waited[s] = 0
  /\ waited[regnow] = 0
  /\ BoundedWait

(* Turning d slots brings every slot that is not passed d turns nearer.    *)
LEMMA TurnsShrink ==
  ASSUME NEW n \in Nat, NEW r \in 0 .. n - 1, NEW s \in 0 .. n - 1,
         NEW d \in 1 .. n, NEW e \in 1 .. n, d < e,
         e = IF s = r THEN n ELSE IF s >= r THEN s - r ELSE s + n - r,
         NEW x, x = IF r + d < n THEN r + d ELSE r + d - n
  PROVE  (IF s >= x THEN s - x ELSE s + n - x) = e - d
OBVIOUS

(* The turns from the current slot to another ready one bring the rotation *)
(* there, so it cannot be passed over by FirstStop.                        *)
LEMMA TickWaitInv == IInv /\ WaitInv /\ Tick => WaitInv'
<1> SUFFICES ASSUME IInv, WaitInv, Tick PROVE WaitInv'
  OBVIOUS
<1> DEFINE d == FirstStop
           next == Rotate(regnow, d)
<1>1. /\ registers' = Saved
      /\ regnow' = next
      /\ waited' = [s \in Slots |->
                      IF s = next \/ s >= regcount \/ ~registers[s].active
                      THEN 0 ELSE waited[s] + 1]
      /\ regcount' = regcount
      /\ regcount > 0
  BY DEF Tick
<1>2. /\ d \in Turns
      /\ Stops(d)
      /\ \A e \in Turns : Stops(e) => d <= e
  BY FirstStopExists DEF Tick, IInv, TypeOK
<1>3. next \in Slots /\ next < regcount /\ regnow \in Slots /\ regnow < regcount
  BY <1>1, <1>2 DEF IInv, TypeOK, CurrentInUse, InUse, Slots, Turns, Rotate
<1>4. ASSUME NEW s \in Slots, Ready(s)'
      PROVE  waited'[s] + TurnsTo(s)' <= regcount'
  <2>1. s < regcount /\ registers[s].active
    BY <1>1, <1>4 DEF Ready, InUse, IInv, TypeOK
  <2>2. waited[s] + TurnsTo(s) <= regcount /\ waited[s] \in Nat /\ regcount \in Nat
    BY <1>1, <2>1 DEF WaitInv, BoundedWait, Ready, InUse, IInv, TypeOK
  <2>3. CASE s = next
    BY <1>1, <1>3, <2>2, <2>3 DEF TurnsTo, Slots
  <2>4. CASE s # next
    <3> DEFINE e == IF s = regnow THEN regcount ELSE TurnsTo(s)
    <3>1. e \in Turns /\ Rotate(regnow, e) = s
      BY <1>3, <2>1, <2>2 DEF TurnsTo, Turns, Rotate, Slots
    <3>2. d <= e /\ d # e
      BY <1>2, <2>1, <2>4, <3>1 DEF Stops
    <3>3. TurnsTo(s)' = e - d
      <4>1. TurnsTo(s)' = IF s >= next THEN s - next ELSE s + regcount - next
        BY <1>1 DEF TurnsTo
      <4>2. d \in 1 .. regcount /\ e \in 1 .. regcount /\ d < e
        BY <1>2, <3>1, <3>2, <2>2 DEF Turns
      <4>3. s \in 0 .. regcount - 1 /\ regnow \in 0 .. regcount - 1
        BY <1>3, <2>1, <2>2 DEF Slots
      <4>. QED  BY <2>2, <4>1, <4>2, <4>3, TurnsShrink DEF Rotate, TurnsTo
    <3>4. waited'[s] = waited[s] + 1
      BY <1>1, <2>1, <2>2, <2>4 DEF Slots
    <3>5. waited[s] + e <= regcount
      BY <2>2 DEF WaitInv
    <3>6. d \in Nat /\ e \in Nat /\ d < e /\ 0 < d
      BY <1>2, <2>2, <3>1, <3>2 DEF Turns
    <3> HIDE DEF d, e
    <3>. QED  BY <1>1, <2>2, <3>3, <3>4, <3>5, <3>6
  <2>. QED  BY <2>3, <2>4
<1>5. BoundedWait'
  BY <1>1, <1>4 DEF BoundedWait, InUse
<1>. QED  BY <1>1, <1>3, <1>5 DEF WaitInv

LEMMA CreateReturnWaitInv ==
  ASSUME OneCreator, IInv, WaitInv, NEW t \in Tasks, CreateReturn(t)
  PROVE  WaitInv'
<1>1. /\ cpu.task = t /\ cpu.at = "filled"
      /\ regcount' = cup[t] + 1
      /\ UNCHANGED <<registers, regnow, waited>>
  BY DEF CreateReturn, Runs, MoveTo
<1>2. regnow \in Filled /\ owner[regnow] = t /\ at[t] = "filled"
  BY <1>1 DEF IInv, CurrentInUse, FilledSound, Place, InUse
<1>3. cup[t] = regcount /\ regcount > 0 /\ regcount \in Nat /\ regnow \in Slots
  BY <1>2 DEF IInv, FillingSound, Filling, TypeOK
<1>4. regnow < regcount /\ \A s \in Slots : waited[s] \in Nat
  BY <1>3 DEF IInv, TypeOK, CurrentInUse, InUse
<1>5. ASSUME NEW s \in Slots, Ready(s)'
      PROVE  waited[s] + TurnsTo(s)' <= regcount'
  <2>1. CASE s = regcount
    BY <1>1, <1>3, <1>4, <2>1 DEF WaitInv, TurnsTo, Slots
  <2>2. CASE s # regcount
    <3>1. Ready(s) /\ s < regcount
      BY <1>1, <1>3, <1>5, <2>2 DEF Ready, InUse, Slots
    <3>2. waited[s] + TurnsTo(s) <= regcount
      BY <1>3, <3>1 DEF WaitInv, BoundedWait, Ready
    <3>. QED  BY <1>1, <1>3, <1>4, <3>1, <3>2 DEF TurnsTo, Slots
  <2>. QED  BY <2>1, <2>2
<1>6. BoundedWait'
  BY <1>1, <1>5 DEF BoundedWait, InUse
<1>. QED  BY <1>1, <1>3, <1>6 DEF WaitInv, Slots

LEMMA OtherWaitInv ==
  ASSUME IInv, WaitInv, NEW t \in Tasks,
         \/ TickAlone
         \/ TickHangs
         \/ \E new \in Tasks \ {Main} : CreateFill(t, new)
         \/ CreateRefused(t)
         \/ PortIO(t)
         \/ killTask(t)
         \/ UNCHANGED vars
  PROVE  WaitInv'
<1>1. CASE \E new \in Tasks \ {Main} : CreateFill(t, new)
  <2>1. /\ regcount' = NewSlot
        /\ UNCHANGED <<regnow, waited>>
        /\ \A s \in Slots : s # NewSlot => registers'[s] = registers[s]
    BY <1>1 DEF CreateFill, IInv, TypeOK
  <2>2. CASE regcount = 0
    <3>1. \A s \in Slots : waited'[s] = 0
      BY <2>1, <2>2 DEF WaitInv, Slots
    <3>2. regnow = 0
      BY <2>2 DEF IInv, CurrentInUse, InUse, Slots, TypeOK
    <3>3. \A s \in InUse' : s = 0
      BY <2>1, <2>2 DEF InUse, Slots
    <3>. QED  BY <2>1, <2>2, <3>1, <3>2, <3>3 DEF WaitInv, BoundedWait, TurnsTo, InUse, Slots
  <2>3. CASE regcount # 0
    <3>1. regcount' = regcount /\ NewSlot \notin InUse /\ InUse' = InUse
      BY <2>1, <2>3 DEF InUse, Slots, IInv, TypeOK
    <3>2. \A s \in InUse : Ready(s)' => Ready(s)
      BY <2>1, <3>1 DEF Ready, InUse
    <3>. QED  BY <2>1, <3>1, <3>2 DEF WaitInv, BoundedWait, TurnsTo
  <2>. QED  BY <2>2, <2>3
<1>2. CASE ~ \E new \in Tasks \ {Main} : CreateFill(t, new)
  <2>1. UNCHANGED <<regnow, regcount, waited>>
    BY <1>2 DEF TickAlone, TickHangs, CreateRefused, PortIO, killTask, Kill, vars, code, history
  <2>2. \A s \in Slots : registers'[s].active => registers[s].active
    <3>1. CASE registers' = registers
      BY <3>1
    <3>2. CASE TickHangs
      BY <3>2 DEF TickHangs, IInv, TypeOK
    <3>3. CASE killTask(t)
      BY <3>3 DEF killTask, Kill, IInv, TypeOK
    <3>. QED  BY <1>2, <3>1, <3>2, <3>3 DEF TickAlone, CreateRefused, PortIO, vars, code
  <2>3. InUse' = InUse /\ \A s \in InUse : Ready(s)' => Ready(s)
    BY <2>1, <2>2 DEF Ready, InUse
  <2>. QED  BY <2>1, <2>3 DEF WaitInv, BoundedWait, TurnsTo
<1>. QED  BY <1>1, <1>2

(* No ready task is passed over for a whole round (multitasking.c:39-47),  *)
(* for a table of any length and any pattern of killed slots.              *)
THEOREM NobodyPassedOver ==
  ASSUME OneCreator
  PROVE  Spec => []BoundedWait
<1>1. Init => WaitInv
  <2> SUFFICES ASSUME Init PROVE WaitInv
    OBVIOUS
  <2>1. regnow = 0 /\ regcount = 0 /\ \A s \in Slots : waited[s] = 0
    BY DEF Init
  <2>. QED  BY <2>1 DEF WaitInv, BoundedWait, Slots
<1>2. IInv /\ WaitInv /\ [Next]_vars => WaitInv'
  <2> SUFFICES ASSUME IInv, WaitInv, [Next]_vars PROVE WaitInv'
    OBVIOUS
  <2>1. CASE Tick
    BY <2>1, TickWaitInv
  <2>2. ASSUME NEW t \in Tasks, createTask(t) PROVE WaitInv'
    BY <2>2, CreateReturnWaitInv, OtherWaitInv DEF createTask
  <2>3. ASSUME NEW t \in Tasks, killTask(t) \/ PortIO(t) PROVE WaitInv'
    BY <2>3, OtherWaitInv
  <2>4. CASE TickAlone \/ TickHangs \/ UNCHANGED vars
    BY <2>4, OtherWaitInv
  <2>. QED  BY <2>1, <2>2, <2>3, <2>4 DEF Next, irq_multitasking
<1>3. WaitInv => BoundedWait
  BY DEF WaitInv
<1>. QED  BY <1>1, <1>2, <1>3, InductiveInvariant, PTL DEF Spec

-----------------------------------------------------------------------------
(***************************************************************************)
(* Several tasks inside createTask at once can lose a slot, yet the table  *)
(* stays consistent: a task calls createTask from a slot below the one it  *)
(* fills, so a late store of regcount never puts it outside the rotation.  *)
(***************************************************************************)
Held == \A s \in Slots : HeldBy(s).task = owner[s]
FillsAbove ==
  \A s \in Slots :
    HeldBy(s).at = "filled" =>
      owner[s] \in Tasks /\ s < cup[owner[s]] /\ cup[owner[s]] < MaxProc

(* No hole in the rotation, nor below a slot createTask is adding.         *)
NoHoles ==
  /\ \A r \in InUse : owner[r] # NoTask
  /\ \A s \in Slots :
       HeldBy(s).at = "filled" => \A r \in Slots : r <= cup[owner[s]] => owner[r] # NoTask

RaceInv == TypeOK /\ CurrentInUse /\ OneOwner /\ Held /\ FillsAbove /\ NoHoles

LEMMA InitRaceInv == Init => RaceInv
<1> SUFFICES ASSUME Init PROVE RaceInv
  OBVIOUS
<1>1. TypeOK /\ CurrentInUse /\ OneOwner
  BY InitIInv DEF IInv
<1>2. \A s \in Slots : HeldBy(s).task = owner[s] /\ HeldBy(s).at = "run"
  BY DEF Init, HeldBy, Image
<1>3. InUse = {0} /\ owner[0] = Main /\ Main # NoTask
  BY DEF Init, InUse, Slots
<1>. QED  BY <1>1, <1>2, <1>3 DEF RaceInv, Held, FillsAbove, NoHoles

(* Steps that only save images, switch between them or change flags.       *)
LEMMA KeepRaceInv ==
  ASSUME RaceInv, TypeOK', CurrentInUse', UNCHANGED <<owner, cup, regcount>>,
         \A s \in Slots :
           HeldBy(s)'.task = HeldBy(s).task /\ HeldBy(s)'.at = HeldBy(s).at
  PROVE  RaceInv'
<1>1. Filled' = Filled
  BY DEF Filled
<1>2. OneOwner'
  BY <1>1 DEF RaceInv, OneOwner
<1>. QED  BY <1>2 DEF RaceInv, Held, FillsAbove, NoHoles, InUse

LEMMA TickRaceInv == RaceInv /\ Tick => RaceInv'
<1> SUFFICES ASSUME RaceInv, Tick PROVE RaceInv'
  OBVIOUS
<1> USE DEF RaceInv
<1> DEFINE next == Rotate(regnow, FirstStop)
<1>1. /\ registers' = Saved
      /\ cpu' = [Saved[next].image EXCEPT !.stack = cpu.stack]
      /\ regnow' = next
      /\ UNCHANGED <<regcount, cup, intr, hung, owner, at>>
      /\ regcount > 0
  BY DEF Tick
<1>2. FirstStop \in Turns /\ Stops(FirstStop)
  BY FirstStopExists DEF Tick, TypeOK
<1>3. next \in InUse /\ next \in Slots
  BY <1>1, <1>2 DEF TypeOK, CurrentInUse, InUse, Slots, Turns, Rotate
<1>4. TypeOK'
  <2>1. registers' \in [Slots -> [image : Images, active : BOOLEAN]]
    BY <1>1 DEF TypeOK
  <2>2. cpu' \in Images
    <3>1. Saved[next].image \in Images /\ cpu \in Images
      BY <1>3 DEF TypeOK
    <3>2. PICK im \in Images : im = Saved[next].image
      BY <3>1
    <3>3. cpu' = [im EXCEPT !.stack = cpu.stack]
      BY <1>1, <3>2
    <3>. QED  BY <3>1, <3>3 DEF Images
  <2>3. waited' \in [Slots -> Nat]
    BY DEF Tick, TypeOK
  <2>. QED  BY <2>1, <2>2, <2>3, <1>1, <1>3 DEF TypeOK
<1>5. CurrentInUse'
  BY <1>1, <1>3 DEF CurrentInUse, InUse
<1>6. ASSUME NEW s \in Slots
      PROVE  HeldBy(s)'.task = HeldBy(s).task /\ HeldBy(s)'.at = HeldBy(s).at
  <2>1. Saved[s].image = HeldBy(s) /\ Saved[s].image \in Images
    BY DEF HeldBy, TypeOK
  <2>. QED  BY <1>1, <2>1 DEF HeldBy, Images
<1>. QED  BY <1>1, <1>4, <1>5, <1>6, KeepRaceInv

LEMMA CreateFillRaceInv ==
  ASSUME RaceInv, NEW t \in Tasks, NEW new \in Tasks \ {Main}, CreateFill(t, new)
  PROVE  RaceInv'
<1> USE DEF RaceInv
<1>1. /\ cpu.task = t /\ cpu.at = "run"
      /\ \A s \in Slots : owner[s] # new
      /\ regcount < MaxProc
      /\ regcount' = NewSlot
      /\ cup' = [cup EXCEPT ![t] = NewSlot]
      /\ registers' = [registers EXCEPT
                         ![NewSlot] = [image |-> Image(new, "run", new), active |-> TRUE]]
      /\ owner' = [owner EXCEPT ![NewSlot] = new]
      /\ cpu' = [cpu EXCEPT !.at = "filled"]
      /\ at' = [at EXCEPT ![t] = "filled"]
      /\ intr' = TRUE
      /\ UNCHANGED <<regnow, hung, waited>>
  BY DEF CreateFill, Runs, MoveTo, TypeOK
<1>2. NewSlot \in Slots /\ NewSlot # regnow /\ regnow < NewSlot /\ InUse' = InUse
  BY <1>1 DEF TypeOK, Slots, InUse, CurrentInUse
<1>3. owner[regnow] = t
  BY <1>1 DEF TypeOK, Held, HeldBy
<1>4. TypeOK'
  <2>1. Image(new, "run", new) \in Images
    BY DEF Image, Images, Points
  <2>2. registers' \in [Slots -> [image : Images, active : BOOLEAN]]
    BY <1>1, <1>2, <2>1 DEF TypeOK
  <2>3. cpu' \in Images
    BY <1>1 DEF TypeOK, Images, Points
  <2>4. NewSlot \in 0 .. MaxProc
    BY <1>1 DEF TypeOK, Slots
  <2>. QED  BY <1>1, <1>2, <2>2, <2>3, <2>4 DEF TypeOK, Points
<1>5. CurrentInUse'
  BY <1>1, <1>2 DEF CurrentInUse
<1>6. HeldBy(NewSlot)' = Image(new, "run", new)
  BY <1>1, <1>2 DEF HeldBy, TypeOK
<1>7. HeldBy(regnow)' = cpu' /\ cpu'.task = t
  BY <1>1 DEF HeldBy, TypeOK, Images
<1>8. ASSUME NEW s \in Slots, s # NewSlot, s # regnow
      PROVE  HeldBy(s)' = HeldBy(s) /\ owner'[s] = owner[s]
  BY <1>1, <1>8 DEF HeldBy, TypeOK
<1>9. Held'
  <2> SUFFICES ASSUME NEW s \in Slots PROVE HeldBy(s)'.task = owner'[s]
    BY DEF Held
  <2>1. CASE s = NewSlot
    BY <1>1, <1>2, <1>6, <2>1 DEF Image, TypeOK
  <2>2. CASE s = regnow
    BY <1>1, <1>2, <1>3, <1>7, <2>2 DEF TypeOK
  <2>3. CASE s # NewSlot /\ s # regnow
    BY <1>8, <2>3 DEF Held
  <2>. QED  BY <2>1, <2>2, <2>3
<1>10. OneOwner'
  BY <1>1, <1>2 DEF OneOwner, TypeOK, Filled
<1>11. FillsAbove'
  <2> SUFFICES ASSUME NEW s \in Slots, HeldBy(s)'.at = "filled"
               PROVE  owner'[s] \in Tasks /\ s < cup'[owner'[s]] /\ cup'[owner'[s]] < MaxProc
    BY DEF FillsAbove
  <2>1. s # NewSlot
    BY <1>1, <1>2 DEF HeldBy, Image, TypeOK
  <2>2. CASE s = regnow
    BY <1>1, <1>2, <1>3, <2>2 DEF TypeOK, Slots
  <2>3. CASE s # regnow
    <3>1. owner'[s] = owner[s] /\ owner[s] \in Tasks /\ HeldBy(s).at = "filled"
      BY <1>8, <2>1, <2>3 DEF FillsAbove
    <3>2. owner[s] # t
      BY <1>3, <2>3, <3>1 DEF OneOwner, Filled, TypeOK
    <3>. QED  BY <1>1, <3>1, <3>2 DEF FillsAbove, TypeOK
  <2>. QED  BY <2>2, <2>3
<1>12. \A r \in Slots : r <= NewSlot => owner'[r] # NoTask
  BY <1>1, <1>2 DEF NoHoles, InUse, TypeOK, Slots
<1>13. NoHoles'
  <2>1. \A r \in InUse : owner'[r] # NoTask
    BY <1>1, <1>2 DEF NoHoles, InUse, TypeOK
  <2>2. ASSUME NEW s \in Slots, HeldBy(s)'.at = "filled", NEW r \in Slots, r <= cup'[owner'[s]]
        PROVE  owner'[r] # NoTask
    <3>1. s # NewSlot
      BY <1>1, <1>2, <2>2 DEF HeldBy, Image, TypeOK
    <3>2. CASE s = regnow
      BY <1>1, <1>2, <1>3, <1>12, <2>2, <3>2 DEF TypeOK
    <3>3. CASE s # regnow
      <4>1. owner'[s] = owner[s] /\ owner[s] \in Tasks /\ HeldBy(s).at = "filled"
        BY <1>8, <2>2, <3>1, <3>3 DEF FillsAbove
      <4>2. owner[s] # t
        BY <1>3, <3>3, <4>1 DEF OneOwner, Filled, TypeOK
      <4>3. owner[r] # NoTask
        BY <1>1, <2>2, <4>1, <4>2 DEF NoHoles, TypeOK
      <4>. QED  BY <1>1, <4>3 DEF TypeOK
    <3>. QED  BY <3>2, <3>3
  <2>. QED  BY <1>2, <2>1, <2>2 DEF NoHoles
<1>. QED  BY <1>4, <1>5, <1>9, <1>10, <1>11, <1>13

LEMMA CreateReturnRaceInv ==
  ASSUME RaceInv, NEW t \in Tasks, CreateReturn(t)
  PROVE  RaceInv'
<1> USE DEF RaceInv
<1>1. /\ cpu.task = t /\ cpu.at = "filled"
      /\ regcount' = cup[t] + 1
      /\ cpu' = [cpu EXCEPT !.at = "run"]
      /\ at' = [at EXCEPT ![t] = "run"]
      /\ UNCHANGED <<registers, regnow, cup, intr, hung, owner, waited>>
  BY DEF CreateReturn, Runs, MoveTo
<1>2. owner[regnow] = t /\ regnow < cup[t] /\ cup[t] < MaxProc
  BY <1>1 DEF TypeOK, Held, HeldBy, FillsAbove
<1>3. cup[t] \in Nat /\ regnow \in Slots
  BY DEF TypeOK, Slots
<1>4. TypeOK'
  <2>1. regcount' \in 0 .. MaxProc
    BY <1>1, <1>2, <1>3
  <2>2. cpu' \in Images /\ at' \in [Tasks -> Points]
    BY <1>1 DEF TypeOK, Images, Points
  <2>. QED  BY <1>1, <2>1, <2>2 DEF TypeOK
<1>5. CurrentInUse'
  BY <1>1, <1>2, <1>3 DEF CurrentInUse, InUse, Slots
<1>6. \A s \in Slots : HeldBy(s)'.task = HeldBy(s).task
  BY <1>1 DEF HeldBy, TypeOK, Images
<1>7. \A s \in Slots : HeldBy(s)'.at = "filled" => HeldBy(s).at = "filled"
  BY <1>1 DEF HeldBy, TypeOK, Images
<1>8. Filled' = Filled
  BY <1>1 DEF Filled
<1>9. OneOwner' /\ Held' /\ FillsAbove'
  BY <1>1, <1>6, <1>7, <1>8 DEF OneOwner, Held, FillsAbove
<1>10. NoHoles'
  <2>1. \A r \in Slots : r <= cup[t] => owner[r] # NoTask
    BY <1>1, <1>2, <1>3 DEF NoHoles, HeldBy
  <2>2. \A r \in InUse' : r \in Slots /\ r <= cup[t]
    BY <1>1, <1>2, <1>3 DEF InUse, Slots
  <2>. QED  BY <1>1, <1>7, <2>1, <2>2 DEF NoHoles
<1>. QED  BY <1>4, <1>5, <1>9, <1>10

LEMMA OtherRaceInv ==
  ASSUME RaceInv, NEW t \in Tasks,
         \/ TickAlone
         \/ TickHangs
         \/ CreateRefused(t)
         \/ PortIO(t)
         \/ killTask(t)
         \/ UNCHANGED vars
  PROVE  RaceInv'
<1> USE DEF RaceInv
<1>1. CASE TickAlone \/ UNCHANGED vars
  <2>1. UNCHANGED <<registers, regnow, regcount, cpu, cup, intr, hung, owner, at, waited>>
    BY <1>1 DEF TickAlone, vars, code, history
  <2>. QED  BY <2>1, KeepRaceInv DEF TypeOK, CurrentInUse, InUse, HeldBy
<1>2. CASE TickHangs
  <2>1. /\ registers' = [registers EXCEPT ![regnow].image = cpu]
        /\ hung' = TRUE
        /\ UNCHANGED <<regnow, regcount, cpu, cup, intr, owner, at, waited>>
    BY <1>2 DEF TickHangs
  <2>2. registers' \in [Slots -> [image : Images, active : BOOLEAN]]
    BY <2>1 DEF TypeOK
  <2>3. hung' \in BOOLEAN
    BY <2>1, Zenon
  <2>4. TypeOK' /\ CurrentInUse'
    BY <2>1, <2>2, <2>3 DEF TypeOK, CurrentInUse, InUse
  <2>5. \A s \in Slots : HeldBy(s)'.task = HeldBy(s).task /\ HeldBy(s)'.at = HeldBy(s).at
    BY <2>1 DEF HeldBy, TypeOK
  <2>. QED  BY <2>1, <2>4, <2>5, KeepRaceInv
<1>3. CASE CreateRefused(t) \/ PortIO(t)
  <2>1. /\ intr' = FALSE \/ intr' = TRUE
        /\ UNCHANGED <<registers, regnow, regcount, cpu, cup, hung, owner, at, waited>>
    BY <1>3 DEF CreateRefused, PortIO, history
  <2>2. intr' \in BOOLEAN
    BY <2>1, Zenon
  <2>3. TypeOK' /\ CurrentInUse'
    BY <2>1, <2>2 DEF TypeOK, CurrentInUse, InUse
  <2>. QED  BY <2>1, <2>3, KeepRaceInv DEF HeldBy
<1>4. CASE killTask(t)
  <2>1. PICK pid \in Slots :
           /\ registers' = [registers EXCEPT ![pid].active = FALSE]
           /\ UNCHANGED <<regnow, regcount, cpu, cup, intr, hung, owner, at, waited>>
    BY <1>4 DEF killTask, Kill, history
  <2>2. registers' \in [Slots -> [image : Images, active : BOOLEAN]]
    BY <2>1 DEF TypeOK
  <2>3. TypeOK' /\ CurrentInUse'
    BY <2>1, <2>2 DEF TypeOK, CurrentInUse, InUse
  <2>4. \A s \in Slots : HeldBy(s)'.task = HeldBy(s).task /\ HeldBy(s)'.at = HeldBy(s).at
    BY <2>1 DEF HeldBy, TypeOK
  <2>. QED  BY <2>1, <2>3, <2>4, KeepRaceInv
<1>. QED  BY <1>1, <1>2, <1>3, <1>4

THEOREM RaceInvariant == Spec => []RaceInv
<1>1. Init => RaceInv
  BY InitRaceInv
<1>2. RaceInv /\ [Next]_vars => RaceInv'
  <2> SUFFICES ASSUME RaceInv, [Next]_vars PROVE RaceInv'
    OBVIOUS
  <2>1. CASE Tick
    BY <2>1, TickRaceInv
  <2>2. ASSUME NEW t \in Tasks, createTask(t) PROVE RaceInv'
    BY <2>2, CreateFillRaceInv, CreateReturnRaceInv, OtherRaceInv DEF createTask
  <2>3. ASSUME NEW t \in Tasks, killTask(t) \/ PortIO(t) PROVE RaceInv'
    BY <2>3, OtherRaceInv
  <2>4. CASE TickAlone \/ TickHangs \/ UNCHANGED vars
    BY <2>4, OtherRaceInv
  <2>. QED  BY <2>1, <2>2, <2>3, <2>4 DEF Next, irq_multitasking
<1>. QED  BY <1>1, <1>2, PTL DEF Spec

(* Type correctness, for any number of tasks inside createTask at once.    *)
THEOREM TypeCorrect == Spec => []TypeOK
<1>1. RaceInv => TypeOK
  BY DEF RaceInv
<1>. QED  BY <1>1, RaceInvariant, PTL

(* regnow always names a slot of the rotation, although createTask stores  *)
(* regcount after its sti and may store it late (multitasking.c:98-100).   *)
THEOREM CurrentStaysInUse == Spec => []CurrentInUse
<1>1. RaceInv => CurrentInUse
  BY DEF RaceInv
<1>. QED  BY <1>1, RaceInvariant, PTL

(* No task is in two slots of the rotation, however the creators race.     *)
THEOREM TasksHaveOneSlot == Spec => []OneSlotPerTask
<1>1. RaceInv => OneSlotPerTask
  <2> SUFFICES ASSUME RaceInv, NEW r \in InUse, NEW s \in InUse,
                      HeldBy(r).task = HeldBy(s).task
               PROVE  r = s
    BY Zenon DEF OneSlotPerTask
  <2>1. r \in Filled /\ s \in Filled
    BY DEF RaceInv, NoHoles, Filled, InUse
  <2>2. owner[r] = owner[s]
    BY <2>1 DEF RaceInv, Held, Filled
  <2>. QED  BY <2>1, <2>2 DEF RaceInv, OneOwner
<1>. QED  BY <1>1, RaceInvariant, PTL
=============================================================================
