-------------------------------- MODULE Ide ---------------------------------
(***************************************************************************)
(* kernel/dev/ide.c: reading and writing sectors of an ATA drive.          *)
(*                                                                         *)
(* The driver talks to the drive through its registers, and learns that a  *)
(* command is done from the flag ideXirq, which the interrupt handler      *)
(* sets.  The drive is modelled as the ATA standard has it, as far as the  *)
(* driver uses it: a command makes it busy, it asks for the data of one    *)
(* sector at a time, and raises its interrupt when a sector can be read,   *)
(* was written, or the cache is flushed.  A command given while the drive  *)
(* is busy is ignored; one given while it wants data aborts the transfer.  *)
(***************************************************************************)
EXTENDS Integers

CONSTANTS
  Addresses,   (* the sectors that are used                                *)
  Data,        (* what a sector can hold                                   *)
  Counts,      (* the sectors a write asks for: 1 but in fat_write         *)
  Blank, Junk  (* a sector never written; what a port gives without data   *)

ASSUME ConstantsAssumption ==
  /\ Addresses \subseteq Nat /\ Addresses # {}
  /\ Counts \subseteq Nat \ {0} /\ 1 \in Counts
  /\ Blank \notin Data /\ Junk \notin Data \union {Blank}

VARIABLES
  ideXirq,     (* the flag                                                 *)
  latched,     (* the interrupt controller holds an interrupt of the drive *)
  drive,       (* the drive: what it does, for which sector, how many left *)
  buf,         (* its sector buffer                                        *)
  cache, platter,          (* what it was given; what it keeps             *)
  pc,          (* where the driver stands                                  *)
  op,          (* the call: kind, sector, count and data                   *)
  location,    (* the caller's buffer                                      *)
  \* the rest is history
  stored,      (* everything writes have put into each sector              *)
  late         (* a wait has given up while the drive was still busy       *)

device == <<drive, buf, cache, platter>>
history == <<stored, late>>
vars == <<ideXirq, latched, device, pc, op, location, history>>

Sectors == Addresses \union {a + 1 : a \in Addresses}
Content == Data \union {Blank}
Commands == {"none", "read", "write", "flush"}

TypeOK ==
  /\ ideXirq \in BOOLEAN /\ latched \in BOOLEAN
  /\ drive \in [state : {"ready", "busy", "data"}, command : Commands, lba : Sectors, left : Nat]
  /\ buf \in Content
  /\ cache \in [Sectors -> Content] /\ platter \in [Sectors -> Content]
  /\ pc \in {"idle", "command", "poll", "data", "settle", "reset", "flush", "wait", "take", "hung"}
  /\ op \in [kind : {"read", "write"}, lba : Addresses, count : Counts, data : Content]
  /\ location \in Content \union {Junk}
  /\ stored \in [Sectors -> SUBSET Content]
  /\ late \in BOOLEAN

Init ==
  /\ ideXirq = FALSE /\ latched = FALSE
  /\ op = [kind |-> "read", lba |-> CHOOSE a \in Addresses : TRUE, count |-> 1, data |-> Blank]
  /\ drive = [state |-> "ready", command |-> "none", lba |-> op.lba, left |-> 0]
  /\ buf = Blank
  /\ cache = [s \in Sectors |-> Blank] /\ platter = cache
  /\ pc = "idle"
  /\ location = Blank
  /\ stored = [s \in Sectors |-> {Blank}]
  /\ late = FALSE

-----------------------------------------------------------------------------
(* The drive.                                                              *)
Busy == drive.state = "busy"

(* The drive gets a command from the registers.                            *)
Take(command, lba, count) ==
  drive' = IF Busy THEN drive
           ELSE [state |-> "busy", command |-> command, lba |-> lba, left |-> count]

DriveRead ==
  /\ Busy /\ drive.command = "read"
  /\ buf' = cache[drive.lba]
  /\ drive' = [drive EXCEPT !.state = "data"]
  /\ latched' = TRUE
  /\ UNCHANGED <<cache, platter>>

(* The drive is ready for the data of the first sector: no interrupt.      *)
DriveAsks ==
  /\ Busy /\ drive.command = "write" /\ buf = Blank
  /\ drive' = [drive EXCEPT !.state = "data"]
  /\ UNCHANGED <<buf, latched, cache, platter>>

DriveWrite ==
  /\ Busy /\ drive.command = "write" /\ buf # Blank
  /\ cache' = [cache EXCEPT ![drive.lba] = buf]
  /\ buf' = Blank
  /\ drive' = IF drive.left = 1 THEN [drive EXCEPT !.state = "ready", !.command = "none", !.left = 0]
              ELSE [drive EXCEPT !.state = "data", !.lba = @ + 1, !.left = @ - 1]
  /\ latched' = TRUE
  /\ UNCHANGED platter

DriveFlush ==
  /\ Busy /\ drive.command = "flush"
  /\ platter' = cache
  /\ drive' = [drive EXCEPT !.state = "ready", !.command = "none"]
  /\ latched' = TRUE
  /\ UNCHANGED <<buf, cache>>

Drive ==
  /\ DriveRead \/ DriveAsks \/ DriveWrite \/ DriveFlush
  /\ UNCHANGED <<ideXirq, pc, op, location, history>>

(* irq_ide sets the flag and acknowledges.                                 *)
irq_ide ==
  /\ latched
  /\ latched' = FALSE
  /\ ideXirq' = TRUE
  /\ UNCHANGED <<device, pc, op, location, history>>

-----------------------------------------------------------------------------
(* The driver.  An interrupt that is latched is handled before its next    *)
(* step: the access of a port that went before has ended with sti.         *)
At(p) == pc = p /\ ~latched

(* ata_read_sector and ata_write_sector begin with resetIDEFire.           *)
Call(kind, lba, count, data) ==
  /\ At("idle")
  /\ op' = [kind |-> kind, lba |-> lba, count |-> count, data |-> data]
  /\ ideXirq' = FALSE
  /\ IF kind = "write"
     THEN stored' = [stored EXCEPT ![lba] = @ \union {data}]
     ELSE UNCHANGED stored
  /\ pc' = "command"
  /\ UNCHANGED <<latched, device, location, late>>

(* Mutant: the sector registers are left as they were.                     *)
Command_OldSector ==
  /\ At("command")
  /\ Take(op.kind, drive.lba, op.count)
  /\ buf' = IF Busy THEN buf ELSE Blank
  /\ pc' = IF op.kind = "read" THEN "wait" ELSE "poll"
  /\ UNCHANGED <<ideXirq, latched, cache, platter, op, location, history>>

Command ==
  /\ At("command")
  /\ Take(op.kind, op.lba, op.count)
  /\ buf' = IF Busy THEN buf ELSE Blank
  /\ pc' = IF op.kind = "read" THEN "wait" ELSE "poll"
  /\ UNCHANGED <<ideXirq, latched, cache, platter, op, location, history>>

(* Mutant: a drive that wants its data counts as not ready.                *)
WaitForReady_Idle(from, to) ==
  /\ At(from)
  /\ drive.state = "ready"
  /\ pc' = to
  /\ UNCHANGED <<ideXirq, latched, device, op, location, history>>

(* ide_wait_for_ready returns when the drive is not busy, or gives up      *)
(* without a word.                                                         *)
WaitForReady(from, to) ==
  /\ At(from)
  /\ pc' = to
  /\ late' = (late \/ Busy)
  /\ UNCHANGED <<ideXirq, latched, device, op, location, stored>>

(* 256 words to the data port.                                             *)
WriteData ==
  /\ At("data")
  /\ IF drive.state = "data" /\ drive.command = "write"
     THEN buf' = op.data /\ drive' = [drive EXCEPT !.state = "busy"]
     ELSE UNCHANGED <<buf, drive>>
  /\ pc' = "settle"
  /\ UNCHANGED <<ideXirq, latched, cache, platter, op, location, history>>

(* Mutant: the flag is not cleared before the flush.                       *)
ResetFire_Not ==
  /\ At("reset")
  /\ pc' = "flush"
  /\ UNCHANGED <<ideXirq, latched, device, op, location, history>>

ResetFire ==
  /\ At("reset")
  /\ ideXirq' = FALSE
  /\ pc' = "flush"
  /\ UNCHANGED <<latched, device, op, location, history>>

Flush ==
  /\ At("flush")
  /\ Take("flush", drive.lba, 0)
  /\ pc' = "wait"
  /\ UNCHANGED <<ideXirq, latched, buf, cache, platter, op, location, history>>

(* waitForIDEFire.                                                         *)
WaitForFire ==
  /\ At("wait")
  /\ ideXirq
  /\ pc' = IF op.kind = "read" THEN "take" ELSE "idle"
  /\ UNCHANGED <<ideXirq, latched, device, op, location, history>>

(* waitForIDEFire gives up after nine ticks, and the system stops.         *)
TimesOut ==
  /\ At("wait")
  /\ ~ideXirq
  /\ pc' = "hung"
  /\ late' = (late \/ Busy)
  /\ UNCHANGED <<ideXirq, latched, device, op, location, stored>>

(* 256 words from the data port: one sector, whatever count is.            *)
ReadData ==
  /\ At("take")
  /\ IF drive.state = "data" /\ drive.command = "read"
     THEN /\ location' = buf
          /\ drive' = IF drive.left = 1
                      THEN [drive EXCEPT !.state = "ready", !.command = "none", !.left = 0]
                      ELSE [drive EXCEPT !.state = "busy", !.lba = @ + 1, !.left = @ - 1]
     ELSE location' = Junk /\ UNCHANGED drive
  /\ pc' = "idle"
  /\ UNCHANGED <<ideXirq, latched, buf, cache, platter, op, history>>

Driver ==
  \/ Command \/ WaitForReady("poll", "data") \/ WriteData
  \/ WaitForReady("settle", "reset") \/ ResetFire \/ Flush
  \/ WaitForFire \/ TimesOut \/ ReadData

Callers ==
  \/ \E a \in Addresses : Call("read", a, 1, Blank)
  \/ \E a \in Addresses, n \in Counts, d \in Data : Call("write", a, n, d)

Next == Drive \/ irq_ide \/ Driver \/ Callers

Spec == Init /\ [][Next]_vars

(* The drive works, interrupts are handled, the driver goes on.  Nothing   *)
(* says how slow the drive is: a wait may give up as soon as it begins.    *)
FairSpec == Spec /\ WF_vars(Drive) /\ WF_vars(irq_ide) /\ WF_vars(Driver)

-----------------------------------------------------------------------------
(* What the file systems see is a disk: reads give what is on the platter, *)
(* and when ata_write_sector has returned the sector is there, flushed - a *)
(* write of several sectors sends the first one only - until a wait has    *)
(* given up on a busy drive (ide.c:126,236-291).                           *)
Block == INSTANCE BlockDevice WITH
  Values <- Content \union {Junk},
  content <- platter, got <- location, failed <- late,
  call <- IF pc = "idle" THEN [kind |-> "none"] ELSE [kind |-> op.kind, lba |-> op.lba, data |-> op.data]

IdeIsDisk == Block!BlockSpec

(* However slow the drive, and whichever of the driver's waits give up, a  *)
(* sector holds nothing but what a call wrote to it (ide.c:108-132 returns *)
(* without a word when the drive stays busy).                              *)
NothingForeign ==
  \A s \in Sectors : platter[s] \in stored[s] /\ cache[s] \in stored[s]

(* Every call comes back while the drive is not slower than the waits: no  *)
(* interrupt is lost or taken for the answer to another command.           *)
CallsReturn == pc # "idle" ~> pc = "idle" \/ late
=============================================================================
