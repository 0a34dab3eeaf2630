---------------------------- MODULE Multitasking ----------------------------
(***************************************************************************)
(* kernel/hal/i386/multitasking.c: the process table registers[], the      *)
(* timer interrupt that rotates through it, createTask and killTask.       *)
(*                                                                         *)
(* A register image is what a task needs to go on: whose registers they    *)
(* are, the point of its code they stand at and the stack esp points into. *)
(* The processor holds one (cpu), every slot of registers[] another.  The  *)
(* stub timerirq ends with popa and a same-ring iret, and neither loads    *)
(* esp: a switch loads everything of an image but its stack.               *)
(* createTask is cut where interrupts are on: its cli..sti part is one     *)
(* step, the store of regcount++ is another.                               *)
(*                                                                         *)
(* multitasking.c is built with -O2 (kernel/build.sh), so the index of       *)
(* the filled slot, cup and the operand of regcount++ are one load.  The   *)
(* body of irq_multitasking runs in microseconds, the timer fires every    *)
(* 10 ms: the switch is one step.  The per-process clocks that irq_timer   *)
(* keeps are module Timer.                                                 *)
(***************************************************************************)
EXTENDS Integers

CONSTANTS
  MaxProc,     (* length of registers[]: 10 in the code                    *)
  Tasks,       (* every task that can ever run, identified by its entry    *)
  Main,        (* the flow of kernel_main, running before any createTask   *)
  Creators,    (* the tasks whose code calls createTask                    *)
  NoTask       (* the zeroed register image of a slot never filled         *)

ASSUME MaxProcAssumption == MaxProc \in Nat /\ MaxProc > 1
ASSUME TasksAssumption == Main \in Tasks /\ Creators \subseteq Tasks /\ NoTask \notin Tasks

VARIABLES
  registers,   (* registers[slot]: the saved image and the active flag     *)
  regnow,      (* the slot whose task the processor runs                   *)
  regcount,    (* slots in use; 0 until the first createTask               *)
  cpu,         (* the image in the processor's registers                   *)
  cup,         (* createTask's local of that name, per task                *)
  intr,        (* the interrupt flag                                       *)
  hung,        (* irq_multitasking spins: no slot is active                *)
  \* the rest is history; only the freshness of a created task reads it
  owner,       (* the task a slot was filled for                           *)
  at,          (* where each task's own code stands                        *)
  waited       (* switches since the task of a slot last ran               *)

code == <<registers, regnow, regcount, cpu, cup, intr, hung>>
history == <<owner, at, waited>>
vars == <<code, history>>

Slots == 0 .. MaxProc - 1
Points == {"run", "filled"}
Image(t, p, k) == [task |-> t, at |-> p, stack |-> k]
Images == [task : Tasks \cup {NoTask}, at : Points, stack : Tasks \cup {NoTask}]

TypeOK ==
  /\ registers \in [Slots -> [image : Images, active : BOOLEAN]]
  /\ regnow \in Slots
  /\ regcount \in 0 .. MaxProc
  /\ cpu \in Images
  /\ cup \in [Tasks -> Slots]
  /\ intr \in BOOLEAN
  /\ hung \in BOOLEAN
  /\ owner \in [Slots -> Tasks \cup {NoTask}]
  /\ at \in [Tasks -> Points]
  /\ waited \in [Slots -> Nat]

-----------------------------------------------------------------------------
(* init_multitasking: slot 0 is active and belongs to the running code.    *)
Init ==
  /\ registers = [s \in Slots |-> [image |-> Image(NoTask, "run", NoTask), active |-> s = 0]]
  /\ regnow = 0
  /\ regcount = 0
  /\ cpu = Image(Main, "run", Main)
  /\ cup = [t \in Tasks |-> 0]
  /\ intr = TRUE
  /\ hung = FALSE
  /\ owner = [s \in Slots |-> IF s = 0 THEN Main ELSE NoTask]
  /\ at = [t \in Tasks |-> "run"]
  /\ waited = [s \in Slots |-> 0]

Runs(t, p) == ~hung /\ cpu.task = t /\ cpu.at = p

(* The running task's own code moves to point p.                           *)
MoveTo(t, p) ==
  /\ cpu' = [cpu EXCEPT !.at = p]
  /\ at' = [at EXCEPT ![t] = p]

(* Mutant: the interrupted task is saved in the slot after its own.        *)
Saved_NextSlot ==
  [registers EXCEPT ![IF regnow + 1 < regcount THEN regnow + 1 ELSE 0].image = cpu]

(* What the table holds once the interrupt has saved the running task.     *)
Saved == [registers EXCEPT ![regnow].image = cpu]

(* regnow++ with its wrap at regcount, d times.                            *)
Rotate(s, d) == IF s + d < regcount THEN s + d ELSE s + d - regcount
Turns == 1 .. regcount
Stops(d) == registers[Rotate(regnow, d)].active

(* Mutant: the loop goes on to the last active slot it can find.           *)
FirstStop_Last == CHOOSE d \in Turns : Stops(d) /\ \A e \in Turns : Stops(e) => e <= d

(* The loop's first active slot: the smallest number of turns that stops.  *)
FirstStop == CHOOSE d \in Turns : Stops(d) /\ \A e \in Turns : Stops(e) => d <= e

-----------------------------------------------------------------------------
(* irq_multitasking before the first createTask: nothing to switch.        *)
TickAlone ==
  /\ intr /\ ~hung
  /\ regcount = 0
  /\ UNCHANGED vars

(* irq_multitasking: save the interrupted image, rotate to the next active *)
(* slot, load its image.  Every image in the table has the interrupt flag  *)
(* set, as it was either interrupted or built with eflags 0x202.           *)
Tick ==
  /\ intr /\ ~hung
  /\ regcount > 0
  /\ \E d \in Turns : Stops(d)
  /\ LET next == Rotate(regnow, FirstStop)
     IN  /\ registers' = Saved
         /\ cpu' = [Saved[next].image EXCEPT !.stack = cpu.stack]
         /\ regnow' = next
         /\ waited' = [s \in Slots |->
                         IF s = next \/ s >= regcount \/ ~registers[s].active
                         THEN 0 ELSE waited[s] + 1]
  /\ UNCHANGED <<regcount, cup, intr, hung, owner, at>>

(* The same interrupt with every slot killed: the loop never breaks.       *)
TickHangs ==
  /\ intr /\ ~hung
  /\ regcount > 0
  /\ \A d \in Turns : ~Stops(d)
  /\ registers' = Saved
  /\ hung' = TRUE
  /\ UNCHANGED <<regnow, regcount, cpu, cup, intr, owner, at, waited>>

(* createTask: regcount > 9.                                               *)
TableFull == regcount >= MaxProc

(* The first call also counts slot 0, which init_multitasking filled.      *)
NewSlot == IF regcount = 0 THEN 1 ELSE regcount

(* createTask up to its sti: the slot beyond the last one is filled for a  *)
(* new task.                                                               *)
CreateFill(t, new) ==
  /\ Runs(t, "run") /\ t \in Creators
  /\ \A s \in Slots : owner[s] # new
  /\ ~TableFull
  /\ regcount' = NewSlot
  /\ cup' = [cup EXCEPT ![t] = NewSlot]
  /\ registers' = [registers EXCEPT
                     ![NewSlot] = [image |-> Image(new, "run", new), active |-> TRUE]]
  /\ owner' = [owner EXCEPT ![NewSlot] = new]
  /\ intr' = TRUE
  /\ MoveTo(t, "filled")
  /\ UNCHANGED <<regnow, hung, waited>>

(* createTask with a full table returns -1 between its cli and its sti.    *)
CreateRefused(t) ==
  /\ Runs(t, "run") /\ t \in Creators
  /\ TableFull
  /\ intr' = FALSE
  /\ UNCHANGED <<registers, regnow, regcount, cpu, cup, hung, history>>

(* createTask after its sti: the new slot becomes visible to the rotation. *)
CreateReturn(t) ==
  /\ Runs(t, "filled")
  /\ regcount' = cup[t] + 1
  /\ MoveTo(t, "run")
  /\ UNCHANGED <<registers, regnow, cup, intr, hung, owner, waited>>

(* killTask takes any pid; the slot is never given out again.              *)
Kill(t, pid) ==
  /\ Runs(t, "run")
  /\ registers' = [registers EXCEPT ![pid].active = FALSE]
  /\ UNCHANGED <<regnow, regcount, cpu, cup, intr, hung, history>>

(* Any in or out instruction of the running task: the functions of         *)
(* io_ports.c end with sti whatever the flag was before.                   *)
PortIO(t) ==
  /\ Runs(t, "run")
  /\ intr' = TRUE
  /\ UNCHANGED <<registers, regnow, regcount, cpu, cup, hung, history>>

irq_multitasking == TickAlone \/ Tick \/ TickHangs

createTask(t) ==
  \/ \E new \in Tasks \ {Main} : CreateFill(t, new)
  \/ CreateRefused(t)
  \/ CreateReturn(t)

killTask(t) == \E pid \in Slots : Kill(t, pid)

Next ==
  \/ irq_multitasking
  \/ \E t \in Tasks : createTask(t) \/ killTask(t) \/ PortIO(t)

Spec == Init /\ [][Next]_vars

(* The timer chip keeps interrupting.  Nothing forces a task to create,    *)
(* kill, touch a port or even to leave createTask.                         *)
FairSpec == Spec /\ WF_vars(Tick)

-----------------------------------------------------------------------------
InUse == {s \in Slots : s = 0 \/ s < regcount}
Ready(s) == s \in InUse /\ registers[s].active

(* The image of a slot in use: the processor's if the slot is current.     *)
HeldBy(s) == IF s = regnow THEN cpu ELSE registers[s].image

(* The task a slot in use was created for is in exactly one place, at the  *)
(* point it had reached: in the processor if the slot is the current one,  *)
(* in the slot's saved image otherwise.  The interrupt saves into regnow   *)
(* before it moves regnow, and createTask never fills a slot in use.       *)
ResumesWhereItStood ==
  \A s \in InUse : HeldBy(s).task = owner[s] /\ HeldBy(s).at = at[owner[s]]

(* No task is held twice by the rotation: a task saved into a slot that is *)
(* not its own would from then on run in two places.                       *)
OneSlotPerTask == \A r, s \in InUse : HeldBy(r).task = HeldBy(s).task => r = s

(* The saved index always names a slot the rotation can reach, also while  *)
(* several tasks race through createTask and regcount is stored late.      *)
CurrentInUse == regnow \in InUse

(* The slot createTask fills stays beyond the rotation, and its image the  *)
(* untouched entry of a new task, from the sti to the store of regcount,   *)
(* whoever runs meanwhile.                                                 *)
FilledSlotUntouched ==
  \A t \in Tasks :
    at[t] = "filled" =>
      LET new == owner[cup[t]]
      IN  /\ cup[t] = regcount
          /\ new \notin {Main, NoTask}
          /\ registers[cup[t]].image = Image(new, "run", new)

(* No ready task is passed over: a ready task has waited no longer than    *)
(* the turns that separate regnow from it allow, hence less than a round.  *)
TurnsTo(s) == IF s >= regnow THEN s - regnow ELSE s + regcount - regnow
BoundedWait ==
  \A s \in InUse : Ready(s) /\ regcount > 0 => waited[s] + TurnsTo(s) <= regcount

(* What the comment at multitasking.c:50 says ("then pop all registers     *)
(* from stack") and createTask's registers[regcount].registers.esp = to    *)
(* rely on: a task runs on the stack of its own image.                     *)
RunsOnOwnStack == cpu.stack = cpu.task

(* Every created task that is not killed gets the processor again, unless  *)
(* a refused createTask left the interrupts off.                           *)
EveryReadyTaskRuns ==
  \A s \in Slots :
    (s < regcount /\ registers[s].active)
      ~> (cpu.task = owner[s] \/ ~registers[s].active \/ ~intr)
=============================================================================
