------------------------------ MODULE MC_Disks ------------------------------
(***************************************************************************)
(* The drivers of disks: an ATA drive behind the IDE registers, or a drive *)
(* behind AHCI.  A behaviour is of one of them.                            *)
(***************************************************************************)
EXTENDS Ide

CONSTANTS Lbas, Descriptor, Search, Slots, MaxReads, MaxErrors

VARIABLES sata, engine, ci, table, active, tfes, stage, at, job, slot, room, returned, left, gaveUp, dead, stray

Sata == INSTANCE Ahci WITH drive <- sata, location <- room

ASSUME AhciAssumption == Sata!AhciConstants

port == <<sata, engine, ci, table, active, tfes, stage, at, job, slot, room, returned, left, gaveUp, dead, stray>>
allVars == <<vars, port>>

MCInit == Init /\ Sata!AhciInit

IdeUnused == pc = "idle" /\ stored = [s \in Sectors |-> {Blank}] /\ location = Blank
SataUnused == stage = "boot" /\ at = "idle"

MCNext ==
  \/ SataUnused /\ Next /\ UNCHANGED port
  \/ IdeUnused /\ Sata!AhciNext /\ UNCHANGED vars

MCSpec ==
  /\ MCInit /\ [][MCNext]_allVars
  /\ WF_allVars(Drive /\ UNCHANGED port) /\ WF_allVars(irq_ide /\ UNCHANGED port) /\ WF_allVars(Driver /\ UNCHANGED port)
  /\ WF_allVars(Sata!Controller /\ UNCHANGED vars) /\ WF_allVars(Sata!Waiting /\ UNCHANGED vars)

AhciIsDisk == Sata!AhciIsDisk
(* With the types.                                                         *)
DataInTime == TypeOK /\ Sata!AhciType /\ Sata!DataInTime
CommandsReturn == CallsReturn /\ Sata!CommandsReturn
=============================================================================
