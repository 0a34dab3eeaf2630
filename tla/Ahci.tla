-------------------------------- MODULE Ahci --------------------------------
(***************************************************************************)
(* kernel/dev/AHCI.c: one port of an AHCI controller with an ATA or ATAPI  *)
(* drive: setting it up, the first reads that decide whether it becomes a  *)
(* device, and the reads of the file systems, one sector each.             *)
(*                                                                         *)
(* A command stands in a slot of the command list; its bit in ci goes when *)
(* the controller has carried it out.  After an error the controller keeps *)
(* the bits and carries out nothing until the port is started again, which *)
(* nothing does.  The data goes to memory whenever it comes, also when the *)
(* call has given up by then.                                              *)
(***************************************************************************)
EXTENDS Naturals, FiniteSets, FiniteSetsExt

CONSTANTS
  Lbas,               (* sectors of the disk                               *)
  Descriptor,         (* the one with the mark of ISO 9660                 *)
  Search,             (* sectors looked at for it, in order: 10 in the code*)
  Slots,              (* slots of the command list: 32 in the code         *)
  MaxReads, MaxErrors (* bounds: reads of file systems; errors of a drive  *)

(* The sectors looked for the mark are of the disk, and one is the last.   *)
AhciConstants ==
  /\ Lbas \subseteq Nat /\ 0 \in Lbas
  /\ Search \subseteq Lbas /\ \E last \in Search : \A a \in Search : a <= last
  /\ Slots \in Nat \ {0} /\ MaxReads \in Nat /\ MaxErrors \in Nat

VARIABLES
  drive,       (* what is attached: "ata" or "atapi"                       *)
  engine,      (* the port's command engine                                *)
  ci,          (* slots issued                                             *)
  table,       (* what stands in each slot: sector and buffer              *)
  active,      (* the slot being carried out: BSY in tfd                   *)
  tfes,        (* TFES in PxIS                                             *)
  stage,       (* what the main flow reads for                             *)
  at,          (* where it stands in it                                    *)
  job,         (* the command: "read" or "eject", the sector, its buffer   *)
  slot,
  location,    (* what the buffer holds                                    *)
  returned,    (* what the last read of a file system gave                 *)
  left,        (* reads and errors left                                    *)
  \* the rest is history
  gaveUp,      (* a wait gave up, or a read came back with an error        *)
  dead,        (* the engine had halted when the call began                *)
  stray        (* data came after its call had ended                       *)

hba == <<engine, ci, active>>
ahciVars == <<drive, hba, table, tfes, stage, at, job, slot, location, returned, left, gaveUp, dead, stray>>

Nothing == Max(Lbas) + 1
NoSlot == Slots
Working == at \in {"busy", "issue", "wait"}

AhciType ==
  /\ drive \in {"ata", "atapi"} /\ engine \in {"running", "stopping", "stopped", "halted"}
  /\ ci \subseteq 0 .. Slots - 1 /\ active \in 0 .. NoSlot /\ slot \in 0 .. NoSlot
  /\ table \in [0 .. Slots - 1 -> [cmd : {"read", "eject"}, lba : Lbas, buf : 0 .. MaxReads]]
  /\ tfes \in BOOLEAN
  /\ stage \in {"boot", "probe", "search", "eject", "ready", "absent"}
  /\ at \in {"idle", "stopping", "busy", "issue", "wait"}
  /\ job \in [cmd : {"read", "eject"}, lba : Lbas, buf : 0 .. MaxReads]
  /\ {location, returned} \subseteq Lbas \union {Nothing}
  /\ left \in [reads : 0 .. MaxReads, errors : 0 .. MaxErrors]
  /\ {gaveUp, dead, stray} \subseteq BOOLEAN

AhciInit ==
  /\ drive \in {"ata", "atapi"}
  /\ engine \in {"running", "stopped"}
  /\ ci = {} /\ active = NoSlot /\ tfes = FALSE
  /\ job = [cmd |-> "read", lba |-> CHOOSE a \in Lbas : TRUE, buf |-> 0]
  /\ table = [s \in 0 .. Slots - 1 |-> job]
  /\ stage = "boot" /\ at = "idle" /\ slot = NoSlot
  /\ location = Nothing /\ returned = Nothing
  /\ left = [reads |-> MaxReads, errors |-> MaxErrors]
  /\ gaveUp = FALSE /\ dead = FALSE /\ stray = FALSE

-----------------------------------------------------------------------------
(* The controller and its drive.                                           *)
Fetches ==
  /\ engine = "running" /\ active = NoSlot /\ ci # {}
  /\ active' = Min(ci)
  /\ UNCHANGED <<engine, ci, tfes, location, stray, left>>

(* The sector goes to the slot's buffer.                                   *)
Completes ==
  LET done == table[active]
      hit == done.cmd = "read" /\ done.buf = job.buf /\ (Working \/ stage \in {"probe", "search"})
  IN
    /\ active # NoSlot
    /\ ci' = ci \ {active} /\ active' = NoSlot
    /\ location' = IF hit THEN done.lba ELSE location
    /\ stray' = (stray \/ (done.cmd = "read" /\ ~hit))
    /\ UNCHANGED <<engine, tfes, left>>

Errs ==
  /\ active # NoSlot /\ left.errors > 0
  /\ active' = NoSlot /\ tfes' = TRUE /\ engine' = "halted"
  /\ left' = [left EXCEPT !.errors = @ - 1]
  /\ UNCHANGED <<ci, location, stray>>

Stops ==
  /\ engine = "stopping" /\ engine' = "stopped"
  /\ UNCHANGED <<ci, active, tfes, location, stray, left>>

Controller ==
  /\ Fetches \/ Completes \/ Errs \/ Stops
  /\ UNCHANGED <<drive, table, stage, at, job, slot, returned, gaveUp, dead>>

-----------------------------------------------------------------------------
(* A read or an eject begins: what is pending is cleared, a free slot is   *)
(* looked for, the command is written into it.                             *)
Free == (0 .. Slots - 1) \ ci
find_cmdslot == Min(Free)

Begins(cmd, lba, buf) ==
  /\ job' = [cmd |-> cmd, lba |-> lba, buf |-> buf]
  /\ slot' = find_cmdslot
  /\ table' = [table EXCEPT ![slot'] = job']
  /\ tfes' = FALSE
  /\ dead' = (engine = "halted")
  /\ at' = "busy"

(* Without a slot it returns 0.                                            *)
CanBegin == Free # {}

(* The port is stopped; its list and tables are set up; it is started.     *)
stop_cmd ==
  /\ stage = "boot" /\ at = "idle"
  /\ engine' = IF engine = "running" THEN "stopping" ELSE engine
  /\ at' = "stopping"
  /\ UNCHANGED <<drive, ci, active, table, tfes, stage, job, slot, location, returned, left, gaveUp, dead, stray>>

(* ahci_ata_init and ahci_atapi_init go on with a read of sector 0.        *)
port_rebase ==
  /\ at = "stopping" /\ engine = "stopped"
  /\ engine' = "running"
  /\ stage' = "probe" /\ Begins("read", 0, 0)
  /\ UNCHANGED <<drive, ci, active, location, returned, left, gaveUp, stray>>

(* The wait for the port to be idle, which gives up in time;               *)
PortIdle ==
  /\ at = "busy" /\ active = NoSlot
  /\ at' = "issue"
  /\ UNCHANGED <<drive, hba, table, tfes, stage, job, slot, location, returned, left, gaveUp, dead, stray>>

Issue ==
  /\ at = "issue"
  /\ ci' = ci \union {slot}
  /\ at' = "wait"
  /\ UNCHANGED <<drive, engine, active, table, tfes, stage, job, slot, location, returned, left, gaveUp, dead, stray>>

-----------------------------------------------------------------------------
(* What follows when the command comes back with result ok.  A device is   *)
(* registered after sector 0 (ATA) or when the mark is found (ATAPI); the  *)
(* reads in between do not look at the result, and the buffer is one.      *)
Ends(next) == stage' = next /\ at' = "idle" /\ UNCHANGED <<table, tfes, job, slot, dead>>
Again(next, cmd, lba) ==
  IF CanBegin THEN stage' = next /\ Begins(cmd, lba, 0) ELSE Ends("absent")

NextSought == IF stage = "probe" THEN Min(Search) ELSE Min({a \in Search : a > job.lba})
Sought == stage = "search" /\ location = Descriptor

Returns(ok) ==
  /\ gaveUp' = (gaveUp \/ ~ok)
  /\ CASE stage = "ready" -> Ends("ready") /\ returned' = location
       [] stage = "eject" -> Ends("absent") /\ UNCHANGED returned
       [] stage = "probe" /\ drive = "ata" -> Ends(IF ok THEN "ready" ELSE "absent") /\ UNCHANGED returned
       [] stage = "probe" /\ drive = "atapi" /\ ~ok -> Again("eject", "eject", 0) /\ UNCHANGED returned
       [] OTHER ->
            /\ UNCHANGED returned
            /\ IF Sought THEN Ends("ready")
               ELSE IF stage = "search" /\ job.lba = Max(Search) THEN Ends("absent")
               ELSE Again("search", "read", NextSought)
  /\ UNCHANGED <<drive, hba, location, left, stray>>

(* Mutant: it waits for the port to be idle, not for the bit to go.        *)
Completed_Idle ==
  /\ at = "wait"
  /\ \/ active = NoSlot /\ Returns(~tfes)
     \/ tfes /\ Returns(FALSE)

(* The bit has gone, or there is an error.                                 *)
Completed ==
  /\ at = "wait"
  /\ \/ slot \notin ci /\ Returns(~tfes)
     \/ tfes /\ Returns(FALSE)

(* Mutant: the wait for data of an ATA drive gives up as well.             *)
GivesUp_Ata == at = "wait" /\ Returns(FALSE)

(* Five ticks, or a million looks: for the port always, for the command    *)
(* only with ATAPI.                                                        *)
GivesUp ==
  /\ \/ at = "busy" /\ active # NoSlot
     \/ at = "wait" /\ slot \in ci /\ drive = "atapi"
  /\ Returns(FALSE)

(* ahci_ata_read_ext and ahci_atapi_read_ext: the result is thrown away.   *)
Reads(lba) ==
  /\ stage = "ready" /\ at = "idle" /\ left.reads > 0
  /\ left' = [left EXCEPT !.reads = @ - 1]
  /\ location' = Nothing
  /\ IF CanBegin
     THEN Begins("read", lba, left.reads) /\ UNCHANGED <<returned, gaveUp>>
     ELSE /\ gaveUp' = TRUE /\ returned' = Nothing
          /\ UNCHANGED <<at, job, slot, table, tfes, dead>>
  /\ UNCHANGED <<drive, hba, stage, stray>>

Boot == stop_cmd \/ port_rebase
Waiting == PortIdle \/ Issue \/ Completed \/ GivesUp

AhciNext == Controller \/ Boot \/ Waiting \/ \E a \in Lbas : Reads(a)

AhciSpec == AhciInit /\ [][AhciNext]_ahciVars

-----------------------------------------------------------------------------
(* To a file system the drive is a disk that holds what it holds.          *)
Block == INSTANCE BlockDevice WITH
  Sectors <- Lbas, Values <- Lbas \union {Nothing},
  content <- [a \in Lbas |-> a],
  call <- IF stage = "ready" /\ Working THEN [kind |-> "read", lba |-> job.lba, data |-> Nothing]
          ELSE [kind |-> "none"],
  got <- returned, failed <- gaveUp

(* An ATA or ATAPI drive behind AHCI is such a disk until a wait gives up  *)
(* or an error comes (AHCI.c:688-694 do not pass it on).                   *)
AhciIsDisk == Block!BlockSpec

(* No data arrives for a call that has ended, whose buffer may be in other *)
(* hands by then, unless a wait for an ATAPI drive has given up            *)
(* (AHCI.c:495-498).                                                       *)
DataInTime == stray => gaveUp /\ drive = "atapi"

(* A command comes back: one for an ATAPI drive always, one for an ATA     *)
(* drive unless an earlier one has failed, for it waits without a time-out *)
(* (AHCI.c:665-677) on a port that carries out nothing any more.           *)
CommandsReturn ==
  \A n \in 0 .. MaxReads : Working /\ left.reads = n ~> ~Working \/ left.reads # n \/ (dead /\ drive = "ata")
=============================================================================
