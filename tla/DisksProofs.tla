----------------------------- MODULE DisksProofs ----------------------------
(***************************************************************************)
(* The two drivers of disks implement the disk that BlockDevice says, until*)
(* a wait has given up; a sector of the IDE drive never holds what was not *)
(* written to it, also after that, and the data of an ATA drive behind     *)
(* AHCI never comes too late: for any sectors, data, slots and errors.     *)
(***************************************************************************)
EXTENDS MC_Disks, TLAPS, WellFoundedInduction

(* The IDE driver.                                                         *)
USE ConstantsAssumption
USE DEF At, Busy, Content, Commands

-----------------------------------------------------------------------------
(* What the drive does fits to its command: of a read one sector is left,  *)
(* of a write at least one, and what it asks data for it has none of.      *)
DriveSound ==
  /\ drive.state = "ready" <=> drive.command = "none"
  /\ drive.command = "flush" => Busy
  /\ drive.command = "read" => drive.left = 1
  /\ drive.command = "write" => drive.left # 0
  /\ drive.command = "write" /\ drive.state = "data" => buf = Blank

(* What the driver's point says of its call.                               *)
OpSound ==
  /\ op.kind = "write" => op.data \in Data /\ op.data \in stored[op.lba]
  /\ op.kind = "read" => op.count = 1
  /\ pc \in {"poll", "data", "settle", "reset", "flush"} => op.kind = "write"
  /\ pc = "take" => op.kind = "read"

(* A drive that is busy with a write is so for this call, with its sector  *)
(* and its data; and when the flag has been cleared for the flush, it      *)
(* stays so until the write is done.                                       *)
WriteSound ==
  drive.command = "write" =>
    /\ Busy => /\ op.kind = "write" /\ pc \notin {"idle", "command"}
               /\ drive.lba = op.lba /\ buf \in {Blank, op.data}
    /\ pc \in {"poll", "data"} => drive.lba = op.lba /\ buf = Blank
    /\ pc \in {"flush", "wait"} /\ Busy => ~ideXirq /\ ~latched

Sound == TypeOK /\ DriveSound /\ OpSound /\ WriteSound /\ NothingForeign

LEMMA SoundInit == Init => Sound
<1>. SUFFICES ASSUME Init PROVE Sound
  OBVIOUS
<1>1. op.lba \in Addresses
  BY DEF Init
<1>2. TypeOK
  BY <1>1 DEF Init, TypeOK, Sectors
<1>. QED  BY <1>2 DEF Init, Sound, DriveSound, OpSound, WriteSound, NothingForeign

LEMMA SoundDrive ==
  ASSUME Sound, Drive
  PROVE  Sound'
<1>. USE DEF Sound, TypeOK, DriveSound, OpSound, WriteSound, NothingForeign, device, history
<1>1. CASE DriveRead
  BY <1>1 DEF Drive, DriveRead
<1>2. CASE DriveAsks
  BY <1>2 DEF Drive, DriveAsks
<1>3. CASE DriveWrite
  <2>1. op.kind = "write" /\ drive.lba = op.lba /\ buf = op.data
    BY <1>3 DEF DriveWrite
  <2>2. cache' \in [Sectors -> Content] /\ \A s \in Sectors : cache'[s] \in stored[s]
    BY <1>3, <2>1 DEF DriveWrite
  <2>3. CASE drive.left = 1
    BY <1>3, <2>1, <2>2, <2>3 DEF Drive, DriveWrite
  <2>4. CASE drive.left # 1
    <3>1. drive.lba + 1 \in Sectors /\ drive.left - 1 \in Nat \ {0}
      BY <2>1, <2>4, <1>3 DEF Sectors, DriveWrite
    <3>2. drive' = [drive EXCEPT !.state = "data", !.lba = drive.lba + 1, !.left = drive.left - 1]
      BY <1>3, <2>4 DEF DriveWrite
    <3>3. drive' \in [state : {"ready", "busy", "data"}, command : Commands, lba : Sectors, left : Nat]
      BY <3>1, <3>2
    <3>4. drive'.state = "data" /\ drive'.command = "write" /\ drive'.left # 0
      BY <3>1, <3>2, <1>3 DEF DriveWrite
    <3>. QED  BY <1>3, <2>1, <2>2, <3>3, <3>4 DEF Drive, DriveWrite
  <2>. QED  BY <2>3, <2>4
<1>4. CASE DriveFlush
  BY <1>4 DEF Drive, DriveFlush
<1>. QED  BY <1>1, <1>2, <1>3, <1>4 DEF Drive

LEMMA SoundDriver ==
  ASSUME Sound, Driver
  PROVE  Sound'
<1>. USE DEF Sound, TypeOK, DriveSound, OpSound, WriteSound, NothingForeign, device, history
<1>0. op.lba \in Sectors /\ op.count \in Nat \ {0}
  BY DEF Sectors
<1>1. CASE Command
  BY <1>0, <1>1 DEF Command, Take
<1>2. CASE WaitForReady("poll", "data")
  BY <1>2 DEF WaitForReady
<1>3. CASE WriteData
  BY <1>3 DEF WriteData
<1>4. CASE WaitForReady("settle", "reset")
  BY <1>4 DEF WaitForReady
<1>5. CASE ResetFire
  BY <1>5 DEF ResetFire
<1>6. CASE Flush
  BY <1>6 DEF Flush, Take
<1>7. CASE WaitForFire
  BY <1>7 DEF WaitForFire
<1>8. CASE TimesOut
  BY <1>8 DEF TimesOut
<1>9. CASE ReadData
  <2>1. CASE drive.state = "data" /\ drive.command = "read"
    <3>1. drive' = [drive EXCEPT !.state = "ready", !.command = "none", !.left = 0]
      BY <1>9, <2>1 DEF ReadData
    <3>2. drive' \in [state : {"ready", "busy", "data"}, command : Commands, lba : Sectors, left : Nat]
      BY <3>1
    <3>. QED  BY <1>9, <2>1, <3>1, <3>2 DEF ReadData
  <2>2. CASE ~(drive.state = "data" /\ drive.command = "read")
    BY <1>9, <2>2 DEF ReadData
  <2>. QED  BY <2>1, <2>2
<1>. QED  BY <1>1, <1>2, <1>3, <1>4, <1>5, <1>6, <1>7, <1>8, <1>9 DEF Driver

LEMMA SoundStep ==
  ASSUME Sound, [Next]_vars
  PROVE  Sound'
<1>. USE DEF Sound, TypeOK, DriveSound, OpSound, WriteSound, NothingForeign
<1>1. CASE irq_ide
  <2>1. TypeOK'
    BY <1>1 DEF irq_ide, device, history
  <2>2. ~(drive.command = "write" /\ pc \in {"flush", "wait"} /\ Busy)
    BY <1>1 DEF irq_ide
  <2>3. DriveSound' /\ OpSound' /\ WriteSound' /\ NothingForeign'
    BY <1>1, <2>2 DEF irq_ide, device, history
  <2>. QED  BY <2>1, <2>3
<1>2. ASSUME NEW a \in Addresses, Call("read", a, 1, Blank)
      PROVE  Sound'
  BY <1>2 DEF Call, device
<1>3. ASSUME NEW a \in Addresses, NEW n \in Counts, NEW d \in Data, Call("write", a, n, d)
      PROVE  Sound'
  <2>1. a \in Sectors
    BY DEF Sectors
  <2>2. /\ stored' \in [Sectors -> SUBSET Content]
        /\ d \in stored'[a]
        /\ \A s \in Sectors : stored[s] \subseteq stored'[s]
    BY <1>3, <2>1 DEF Call
  <2>. QED  BY <1>3, <2>1, <2>2 DEF Call, device
<1>4. CASE UNCHANGED vars
  BY <1>4 DEF vars, device, history
<1>. QED  BY <1>1, <1>2, <1>3, <1>4, SoundDrive, SoundDriver DEF Next, Callers

LEMMA SoundAlways == Spec => []Sound
BY SoundInit, SoundStep, PTL DEF Spec

(* Type correctness, for any sectors, data and counts.                     *)
THEOREM TypeCorrect == Spec => []TypeOK
<1>1. Sound => TypeOK
  BY DEF Sound
<1>. QED  BY <1>1, SoundAlways, PTL

(* Whatever waits give up, and whatever commands the drive therefore       *)
(* ignores (ide.c:108-132), no sector gets what was not written to it.     *)
THEOREM SectorsKeepTheirOwn == Spec => []NothingForeign
<1>1. Sound => NothingForeign
  BY DEF Sound
<1>. QED  BY <1>1, SoundAlways, PTL

-----------------------------------------------------------------------------
(* As long as no wait has given up: which command the drive is at, what is *)
(* in its cache and whether its interrupt is still to come, at each point  *)
(* of the driver.                                                          *)
Kept == cache = platter
Cached == cache = [platter EXCEPT ![op.lba] = op.data]
Silent == ~ideXirq /\ ~latched
AtWrite == drive.command = "write" /\ drive.lba = op.lba

Punctual ==
  ~late =>
    /\ pc = "idle" => ~Busy /\ ~latched /\ Kept
    /\ pc = "command" => ~Busy /\ Silent /\ Kept
    /\ pc = "poll" => AtWrite /\ ~latched /\ Kept
    /\ pc = "data" => AtWrite /\ drive.state = "data" /\ ~latched /\ Kept
    /\ pc = "settle" =>
         \/ AtWrite /\ Busy /\ buf = op.data /\ Kept
         \/ ~Busy /\ Cached
    /\ pc = "reset" => ~Busy /\ Cached
    /\ pc = "flush" => ~Busy /\ Silent /\ Cached
    /\ pc = "wait" /\ op.kind = "write" =>
         \/ drive.command = "flush" /\ Silent /\ Cached
         \/ ~Busy /\ Kept /\ cache[op.lba] = op.data
    /\ pc = "wait" /\ op.kind = "read" =>
         /\ drive.command = "read" /\ drive.lba = op.lba /\ Kept
         /\ \/ Busy /\ Silent
            \/ drive.state = "data" /\ buf = cache[op.lba]
    /\ pc = "take" =>
         /\ drive.command = "read" /\ drive.state = "data" /\ buf = cache[op.lba]
         /\ ~latched /\ Kept
    /\ pc = "hung" => ~Busy

LEMMA PunctualInit == Init => Punctual
BY DEF Init, Punctual, Kept

LEMMA PunctualStep ==
  ASSUME Sound, Punctual, [Next]_vars
  PROVE  Punctual'
<1>. SUFFICES ASSUME ~late'
              PROVE  Punctual'
  BY DEF Punctual
<1>. USE DEF Sound, TypeOK, DriveSound, OpSound, Punctual, Kept, Cached, Silent, AtWrite
<1>0. op.lba \in Sectors
  BY DEF Sectors
<1>1. CASE Drive
  <2>1. CASE DriveRead
    BY <1>0, <1>1, <2>1 DEF Drive, DriveRead, history
  <2>2. CASE DriveAsks
    BY <1>0, <1>1, <2>2 DEF Drive, DriveAsks, history
  <2>3. CASE DriveWrite
    BY <1>0, <1>1, <2>3 DEF Drive, DriveWrite, history, WriteSound
  <2>4. CASE DriveFlush
    BY <1>0, <1>1, <2>4 DEF Drive, DriveFlush, history
  <2>. QED  BY <1>1, <2>1, <2>2, <2>3, <2>4 DEF Drive
<1>2. CASE irq_ide
  BY <1>2 DEF irq_ide, device, history
<1>3. CASE Driver
  <2>. USE DEF device, history
  <2>1. CASE Command
    BY <1>0, <2>1 DEF Command, Take
  <2>2. CASE WaitForReady("poll", "data")
    BY <2>2 DEF WaitForReady
  <2>3. CASE WriteData
    BY <2>3 DEF WriteData
  <2>4. CASE WaitForReady("settle", "reset")
    BY <2>4 DEF WaitForReady
  <2>5. CASE ResetFire
    BY <2>5 DEF ResetFire
  <2>6. CASE Flush
    BY <2>6 DEF Flush, Take
  <2>7. CASE WaitForFire
    BY <2>7 DEF WaitForFire
  <2>8. CASE TimesOut
    BY <2>8 DEF TimesOut
  <2>9. CASE ReadData
    BY <2>9 DEF ReadData
  <2>. QED  BY <1>3, <2>1, <2>2, <2>3, <2>4, <2>5, <2>6, <2>7, <2>8, <2>9 DEF Driver
<1>4. CASE Callers
  BY <1>4 DEF Callers, Call, device
<1>5. CASE UNCHANGED vars
  BY <1>5 DEF vars, device, history
<1>. QED  BY <1>1, <1>2, <1>3, <1>4, <1>5 DEF Next

-----------------------------------------------------------------------------
(* Every step of driver and drive is a step of the disk, or none.          *)
LEMMA StepIsOfDisk ==
  ASSUME Sound, Punctual, [Next]_vars
  PROVE  [Block!BlockNext]_(Block!blockVars)
<1>. USE DEF Block!blockVars, Block!NoCall
<1>. SUFFICES ASSUME ~late', late' => late
              PROVE  [Block!BlockNext]_(Block!blockVars)
  BY DEF Block!BlockNext, Block!GivesUp
<1>. USE DEF Sound, TypeOK
<1>0. op.lba \in Sectors
  BY DEF Sectors
<1>1. CASE Drive
  <2>1. UNCHANGED <<pc, op, location, late>>
    BY <1>1 DEF Drive, history
  <2>2. CASE DriveFlush
    <3>1. pc = "wait" /\ op.kind = "write" /\ Cached
      BY <2>1, <2>2 DEF DriveFlush, Punctual, DriveSound, OpSound, AtWrite
    <3>2. platter' = [platter EXCEPT ![op.lba] = op.data]
      BY <2>2, <3>1 DEF DriveFlush, Cached
    <3>3. Block!Writes
      BY <2>1, <3>1, <3>2 DEF Block!Writes
    <3>. QED  BY <3>3 DEF Block!BlockNext
  <2>3. CASE DriveRead \/ DriveAsks \/ DriveWrite
    BY <2>1, <2>3 DEF DriveRead, DriveAsks, DriveWrite
  <2>. QED  BY <1>1, <2>2, <2>3 DEF Drive
<1>2. CASE irq_ide
  BY <1>2 DEF irq_ide, device, history
<1>3. CASE Driver
  <2>1. CASE WaitForFire
    <3>1. CASE op.kind = "write"
      <4>1. platter[op.lba] = op.data
        BY <2>1, <3>1 DEF WaitForFire, Punctual, Kept, Silent, history
      <4>2. Block!Returns
        BY <2>1, <3>1, <4>1 DEF WaitForFire, Block!Returns, device, history
      <4>. QED  BY <4>2 DEF Block!BlockNext
    <3>2. CASE op.kind = "read"
      BY <2>1, <3>2 DEF WaitForFire, device, history
    <3>. QED  BY <3>1, <3>2
  <2>2. CASE ReadData
    <3>1. drive.state = "data" /\ drive.command = "read" /\ buf = platter[op.lba] /\ op.kind = "read"
      BY <2>2 DEF ReadData, Punctual, Kept, OpSound, history
    <3>2. Block!Returns
      BY <2>2, <3>1 DEF ReadData, Block!Returns, history
    <3>. QED  BY <3>2 DEF Block!BlockNext
  <2>3. CASE Command \/ WaitForReady("poll", "data") \/ WriteData \/ WaitForReady("settle", "reset")
               \/ ResetFire \/ Flush \/ TimesOut
    BY <2>3 DEF Command, WaitForReady, WriteData, ResetFire, Flush, TimesOut, device, history
  <2>. QED  BY <1>3, <2>1, <2>2, <2>3 DEF Driver
<1>4. CASE Callers
  <2>1. PICK k \in {"read", "write"}, a \in Addresses, n \in Counts, d \in Content : Call(k, a, n, d)
    BY <1>4 DEF Callers
  <2>2. op' = [kind |-> k, lba |-> a, count |-> n, data |-> d] /\ pc = "idle" /\ pc' = "command"
    BY <2>1 DEF Call
  <2>3. a \in Sectors /\ UNCHANGED <<platter, location, late>>
    BY <2>1 DEF Call, device, Sectors
  <2>4. Block!Calls
    BY <2>2, <2>3 DEF Block!Calls
  <2>. QED  BY <2>4 DEF Block!BlockNext
<1>5. CASE UNCHANGED vars
  BY <1>5 DEF vars, device, history
<1>. QED  BY <1>1, <1>2, <1>3, <1>4, <1>5 DEF Next

LEMMA InitIsOfDisk == Init => Block!BlockInit
BY DEF Init, Block!BlockInit, Block!NoCall

(* ata_read_sector and ata_write_sector, with the interrupt and the flag   *)
(* between them and the drive, implement a disk: a read gives what is on   *)
(* the platter, and a write that has returned is there - until a wait has  *)
(* given up on a busy drive (ide.c:126,236-291).                           *)
THEOREM ImplementsDisk == Spec => IdeIsDisk
<1>1. Init => Sound /\ Punctual
  BY SoundInit, PunctualInit
<1>2. Sound /\ Punctual /\ [Next]_vars => (Sound /\ Punctual)'
  BY SoundStep, PunctualStep
<1>3. Sound /\ Punctual /\ [Next]_vars => [Block!BlockNext]_(Block!blockVars)
  BY StepIsOfDisk
<1>. QED  BY <1>1, <1>2, <1>3, InitIsOfDisk, PTL DEF Spec, IdeIsDisk, Block!BlockSpec

HIDE ConstantsAssumption
HIDE DEF At, Busy, Content, Commands

-----------------------------------------------------------------------------
(* A port of an AHCI controller, as MC_Disks instantiates it.              *)
USE DEF Sata!Working, Sata!NoSlot

LEMMA LeastIsMin ==
  ASSUME NEW S, S \subseteq Nat, S # {}
  PROVE  Sata!Min(S) \in S
<1>1. PICK d \in S : \A e \in S : <<e, d>> \notin OpToRel(<, Nat)
  BY WFMin, NatLessThanWellFounded, Zenon
<1>2. \A e \in S : ~(e < d)
  BY <1>1, Zenon DEF OpToRel
<1>3. \A e \in S : d <= e
  BY <1>2
<1>. QED  BY <1>3 DEF Sata!Min

LEMMA AhciFreeSlot ==
  ASSUME Sata!AhciConstants, Sata!Free # {}
  PROVE  Sata!find_cmdslot \in 0 .. Slots - 1 /\ Sata!find_cmdslot \notin ci
<1>1. Sata!Free \subseteq Nat
  BY DEF Sata!Free, Sata!AhciConstants
<1>. QED  BY <1>1, LeastIsMin DEF Sata!Free, Sata!find_cmdslot

LEMMA AhciEmptyListHasSlot ==
  ASSUME Sata!AhciConstants, ci = {}
  PROVE  Sata!Free # {}
<1>1. 0 \in 0 .. Slots - 1
  BY DEF Sata!AhciConstants
<1>. QED  BY <1>1 DEF Sata!Free

(* The search goes on with a sector of it until the last.                  *)
LEMMA AhciSearchGoesOn ==
  ASSUME Sata!AhciConstants, stage \in {"probe", "search"},
         stage = "search" => job.lba \in Search /\ job.lba # Sata!Max(Search)
  PROVE  Sata!NextSought \in Search
<1>. USE DEF Sata!AhciConstants
<1>1. CASE stage = "probe"
  BY <1>1, LeastIsMin DEF Sata!NextSought
<1>2. CASE stage = "search"
  <2>1. Sata!Max(Search) \in Search /\ \A a \in Search : a <= Sata!Max(Search)
    BY DEF Sata!Max
  <2>2. Sata!Max(Search) > job.lba
    <3>1. /\ Sata!Max(Search) \in Nat /\ job.lba \in Nat
          /\ job.lba <= Sata!Max(Search) /\ job.lba # Sata!Max(Search)
      BY <1>2, <2>1
    <3>. QED  BY <3>1
  <2>. DEFINE later == {a \in Search : a > job.lba}
  <2>3. later \subseteq Nat /\ later # {}
    BY <2>1, <2>2
  <2>4. Sata!Min(later) \in later
    BY <2>3, LeastIsMin
  <2>. QED  BY <1>2, <2>4 DEF Sata!NextSought
<1>. QED  BY <1>1, <1>2

-----------------------------------------------------------------------------
(* What the main flow reads for, where it stands, and its command.         *)
AhciFlowSound ==
  /\ stage = "boot" => at \in {"idle", "stopping"} /\ ~gaveUp
  /\ at = "stopping" => stage = "boot"
  /\ stage \in {"probe", "search"} => Sata!Working /\ job.cmd = "read" /\ job.buf = 0
  /\ stage = "search" => job.lba \in Search
  /\ stage = "eject" => Sata!Working /\ gaveUp
  /\ stage = "absent" => at = "idle"
  /\ Sata!Working => slot \in 0 .. Slots - 1 /\ table[slot] = job
  /\ stage = "ready" /\ Sata!Working => job.cmd = "read"

(* The command list holds the command underway alone, and once it is done  *)
(* the buffer holds the sector.                                            *)
AhciOrderly ==
  /\ ~tfes
  /\ at # "wait" => ci = {} /\ active = Sata!NoSlot
  /\ at = "wait" => \/ ci = {slot} /\ active \in {slot, Sata!NoSlot}
                    \/ ci = {} /\ active = Sata!NoSlot /\ (job.cmd = "read" => room = job.lba)

(* So it is until an error or, with ATAPI, until a wait gives up.  After   *)
(* an error nothing is carried out any more.                               *)
AhciPortSound ==
  /\ engine # "halted" /\ (sata = "ata" \/ ~gaveUp) => AhciOrderly
  /\ engine = "halted" => active = Sata!NoSlot /\ stage # "boot"
  /\ engine = "halted" /\ ~gaveUp => at = "wait" /\ tfes

AhciSound == Sata!AhciType /\ AhciFlowSound /\ AhciPortSound /\ Sata!DataInTime

LEMMA AhciSoundInit == Sata!AhciConstants /\ Sata!AhciInit => AhciSound
<1>. SUFFICES ASSUME Sata!AhciConstants, Sata!AhciInit PROVE AhciSound
  OBVIOUS
<1>1. job.lba \in Lbas
  BY DEF Sata!AhciInit, Sata!AhciConstants
<1>2. job \in [cmd : {"read", "eject"}, lba : Lbas, buf : 0 .. MaxReads]
  BY <1>1 DEF Sata!AhciInit, Sata!AhciConstants
<1>3. table \in [0 .. Slots - 1 -> [cmd : {"read", "eject"}, lba : Lbas, buf : 0 .. MaxReads]]
  BY <1>2 DEF Sata!AhciInit
<1>4. Sata!AhciType
  <2>1. left \in [reads : 0 .. MaxReads, errors : 0 .. MaxErrors]
    BY DEF Sata!AhciInit, Sata!AhciConstants
  <2>2. Sata!NoSlot \in 0 .. Sata!NoSlot /\ ci \subseteq 0 .. Slots - 1
    BY DEF Sata!AhciInit, Sata!AhciConstants
  <2>. QED  BY <1>2, <1>3, <2>1, <2>2 DEF Sata!AhciInit, Sata!AhciType
<1>5. AhciFlowSound /\ AhciPortSound /\ Sata!DataInTime
  BY DEF Sata!AhciInit, AhciFlowSound, AhciPortSound, AhciOrderly, Sata!DataInTime
<1>. QED  BY <1>4, <1>5 DEF AhciSound

LEMMA AhciSoundController ==
  ASSUME Sata!AhciConstants, AhciSound, Sata!Controller
  PROVE  AhciSound'
<1>. USE DEF Sata!AhciConstants, AhciSound, Sata!AhciType, AhciFlowSound, AhciPortSound,
             AhciOrderly, Sata!DataInTime
<1>0. UNCHANGED <<sata, table, stage, at, job, slot, returned, gaveUp, dead>>
  BY DEF Sata!Controller
<1>1. CASE Sata!Fetches
  <2>1. active' \in ci
    <3>1. ci \subseteq Nat /\ ci # {}
      BY <1>1 DEF Sata!Fetches
    <3>. QED  BY <1>1, <3>1, LeastIsMin DEF Sata!Fetches
  <2>. QED  BY <1>0, <1>1, <2>1 DEF Sata!Fetches
<1>2. CASE Sata!Completes
  <2>. DEFINE done == table[active]
              hit == done.cmd = "read" /\ done.buf = job.buf /\ (Sata!Working \/ stage \in {"probe", "search"})
  <2>1. active \in 0 .. Slots - 1 /\ done.lba \in Lbas /\ engine # "halted"
    BY <1>2 DEF Sata!Completes
  <2>2. /\ ci' = ci \ {active} /\ active' = Sata!NoSlot /\ UNCHANGED <<engine, tfes, left>>
        /\ room' = IF hit THEN done.lba ELSE room
        /\ stray' = (stray \/ (done.cmd = "read" /\ ~hit))
    BY <1>2 DEF Sata!Completes
  <2>3. CASE sata = "ata" \/ ~gaveUp
    <3>1. at = "wait" /\ active = slot /\ ci = {slot} /\ done = job
      BY <2>1, <2>3
    <3>2. stray' = stray /\ ci' = {} /\ (job.cmd = "read" => room' = job.lba)
      BY <2>2, <3>1
    <3>. QED  BY <1>0, <2>1, <2>2, <3>1, <3>2
  <2>4. CASE sata = "atapi" /\ gaveUp
    BY <1>0, <2>1, <2>2, <2>4
  <2>. QED  BY <2>3, <2>4
<1>3. CASE Sata!Errs
  <2>1. left' \in [reads : 0 .. MaxReads, errors : 0 .. MaxErrors]
    <3>1. left.errors - 1 \in 0 .. MaxErrors
      BY <1>3 DEF Sata!Errs
    <3>. QED  BY <1>3, <3>1 DEF Sata!Errs
  <2>2. active' = Sata!NoSlot /\ tfes' = TRUE /\ engine' = "halted" /\ stage # "boot"
    BY <1>3 DEF Sata!Errs
  <2>3. ~gaveUp => at = "wait"
    BY <1>3 DEF Sata!Errs
  <2>. QED  BY <1>0, <1>3, <2>1, <2>2, <2>3 DEF Sata!Errs
<1>4. CASE Sata!Stops
  BY <1>0, <1>4 DEF Sata!Stops
<1>. QED  BY <1>1, <1>2, <1>3, <1>4 DEF Sata!Controller

(* A command begins in a free slot.                                        *)
AhciBegun(cmd, lba, into) ==
  /\ job' = [cmd |-> cmd, lba |-> lba, buf |-> into]
  /\ job' \in [cmd : {"read", "eject"}, lba : Lbas, buf : 0 .. MaxReads]
  /\ slot' \in 0 .. Slots - 1
  /\ table' \in [0 .. Slots - 1 -> [cmd : {"read", "eject"}, lba : Lbas, buf : 0 .. MaxReads]]
  /\ table'[slot'] = job' /\ tfes' = FALSE /\ at' = "busy" /\ dead' \in BOOLEAN

LEMMA AhciBeginsSound ==
  ASSUME Sata!AhciConstants, Sata!AhciType, Sata!Free # {},
         NEW cmd \in {"read", "eject"}, NEW lba \in Lbas, NEW into \in 0 .. MaxReads,
         Sata!Begins(cmd, lba, into)
  PROVE  AhciBegun(cmd, lba, into)
<1>1. job' \in [cmd : {"read", "eject"}, lba : Lbas, buf : 0 .. MaxReads]
  BY DEF Sata!Begins
<1>2. slot' \in 0 .. Slots - 1
  BY AhciFreeSlot DEF Sata!Begins
<1>3. table' = [table EXCEPT ![slot'] = job']
  BY DEF Sata!Begins
<1>4. table' \in [0 .. Slots - 1 -> [cmd : {"read", "eject"}, lba : Lbas, buf : 0 .. MaxReads]]
  BY <1>1, <1>2, <1>3 DEF Sata!AhciType
<1>5. table'[slot'] = job'
  BY <1>2, <1>3 DEF Sata!AhciType
<1>. QED  BY <1>1, <1>2, <1>4, <1>5 DEF Sata!Begins, AhciBegun

LEMMA AhciBegunTyped ==
  ASSUME Sata!AhciConstants, Sata!AhciType, NEW cmd, NEW lba, NEW into, AhciBegun(cmd, lba, into),
         stage' \in {"boot", "probe", "search", "eject", "ready", "absent"},
         engine' \in {"running", "stopping", "stopped", "halted"},
         {room', returned'} \subseteq Lbas \union {Sata!Nothing},
         left' \in [reads : 0 .. MaxReads, errors : 0 .. MaxErrors],
         gaveUp' \in BOOLEAN, UNCHANGED <<sata, ci, active, stray>>
  PROVE  Sata!AhciType'
<1>1. slot' \in 0 .. Sata!NoSlot
  BY DEF AhciBegun, Sata!AhciConstants
<1>2. at' \in {"idle", "stopping", "busy", "issue", "wait"} /\ tfes' \in BOOLEAN
  BY DEF AhciBegun
<1>3. {gaveUp', dead', stray'} \subseteq BOOLEAN
  <2>1. dead' \in BOOLEAN
    BY DEF AhciBegun
  <2>2. stray' \in BOOLEAN
    BY DEF Sata!AhciType
  <2>. QED  BY <2>1, <2>2
<1>4. /\ job' \in [cmd : {"read", "eject"}, lba : Lbas, buf : 0 .. MaxReads]
      /\ table' \in [0 .. Slots - 1 -> [cmd : {"read", "eject"}, lba : Lbas, buf : 0 .. MaxReads]]
  BY DEF AhciBegun
<1>5. /\ sata' \in {"ata", "atapi"}
      /\ ci' \subseteq 0 .. Slots - 1 /\ active' \in 0 .. Sata!NoSlot
  BY DEF Sata!AhciType
<1>6. Sata!Nothing' = Sata!Nothing
  BY DEF Sata!Nothing
<1>. QED  BY <1>1, <1>2, <1>3, <1>4, <1>5, <1>6 DEF Sata!AhciType

LEMMA AhciSoundBoot ==
  ASSUME Sata!AhciConstants, AhciSound, Sata!Boot
  PROVE  AhciSound'
<1>0. Sata!AhciType
  BY DEF AhciSound
<1>. USE DEF AhciSound, Sata!AhciType, AhciFlowSound, AhciPortSound, AhciOrderly, Sata!DataInTime
<1>1. CASE Sata!stop_cmd
  BY <1>1 DEF Sata!stop_cmd
<1>2. CASE Sata!port_rebase
  <2>1. stage = "boot" /\ ci = {} /\ active = Sata!NoSlot /\ ~gaveUp /\ ~tfes
    BY <1>2 DEF Sata!port_rebase
  <2>2. Sata!Free # {} /\ 0 \in Lbas /\ 0 \in 0 .. MaxReads
    BY <2>1, AhciEmptyListHasSlot DEF Sata!AhciConstants
  <2>3. Sata!Begins("read", 0, 0)
    BY <1>2 DEF Sata!port_rebase
  <2>4. AhciBegun("read", 0, 0)
    BY <1>0, <2>2, <2>3, AhciBeginsSound, Zenon
  <2>5. /\ engine' = "running" /\ stage' = "probe"
        /\ UNCHANGED <<sata, ci, active, room, returned, left, gaveUp, stray>>
    BY <1>2 DEF Sata!port_rebase
  <2>6. Sata!AhciType'
    BY <1>0, <2>4, <2>5, AhciBegunTyped
  <2>7. AhciFlowSound'
    BY <2>4, <2>5 DEF AhciBegun
  <2>8. AhciPortSound' /\ Sata!DataInTime'
    BY <2>1, <2>4, <2>5 DEF AhciBegun
  <2>. QED  BY <2>6, <2>7, <2>8
<1>. QED  BY <1>1, <1>2 DEF Sata!Boot

(* What follows when a command has come back, if a wait that gives up is   *)
(* one for an ATAPI drive, and one that succeeds is so for its sector.     *)
LEMMA AhciSoundReturns ==
  ASSUME Sata!AhciConstants, AhciSound, NEW ok \in BOOLEAN, Sata!Returns(ok), Sata!Working,
         engine # "halted" /\ (sata = "ata" \/ ~gaveUp') => ci = {} /\ active = Sata!NoSlot /\ ~tfes,
         engine = "halted" /\ ~gaveUp => ~ok
  PROVE  AhciSound'
<1>0. Sata!AhciType
  BY DEF AhciSound
<1>. USE DEF AhciSound, Sata!AhciType, AhciFlowSound, AhciPortSound, AhciOrderly, Sata!DataInTime
<1>1. /\ gaveUp' = (gaveUp \/ ~ok)
      /\ UNCHANGED <<sata, engine, ci, active, room, left, stray>>
  BY DEF Sata!Returns, Sata!hba
<1>2. ASSUME NEW next \in {"ready", "absent"}, Sata!Ends(next),
             returned' \in {returned, room}
      PROVE  AhciSound'
  BY <1>1, <1>2 DEF Sata!Ends
<1>3. ASSUME NEW next \in {"eject", "search"}, NEW cmd \in {"read", "eject"}, NEW lba \in Lbas,
             Sata!Again(next, cmd, lba), UNCHANGED returned,
             next = "eject" => ~ok, next = "search" => cmd = "read" /\ lba \in Search
      PROVE  AhciSound'
  <2>1. CASE Sata!CanBegin
    <3>1. stage' = next /\ Sata!Begins(cmd, lba, 0)
      BY <1>3, <2>1 DEF Sata!Again
    <3>2. Sata!Free # {} /\ 0 \in 0 .. MaxReads
      BY <2>1 DEF Sata!CanBegin, Sata!AhciConstants
    <3>3. AhciBegun(cmd, lba, 0)
      BY <1>0, <3>1, <3>2, AhciBeginsSound, Zenon
    <3>a. job'.cmd = cmd /\ job'.lba = lba /\ job'.buf = 0
      BY <3>3 DEF AhciBegun
    <3>4. Sata!AhciType'
      <4>1. returned' = returned /\ gaveUp' \in BOOLEAN
        BY <1>1, <1>3
      <4>. QED  BY <1>0, <1>1, <1>3, <3>1, <3>3, <4>1, AhciBegunTyped
    <3>5. AhciFlowSound'
      BY <1>1, <1>3, <3>1, <3>3, <3>a DEF AhciBegun
    <3>6. AhciPortSound' /\ Sata!DataInTime'
      BY <1>1, <1>3, <3>1, <3>3 DEF AhciBegun
    <3>. QED  BY <3>4, <3>5, <3>6
  <2>2. CASE ~Sata!CanBegin
    <3>1. Sata!Ends("absent")
      BY <1>3, <2>2 DEF Sata!Again
    <3>. QED  BY <1>2, <1>3, <3>1
  <2>. QED  BY <2>1, <2>2
<1>4. CASE stage = "ready"
  BY <1>2, <1>4 DEF Sata!Returns
<1>5. CASE stage = "eject"
  BY <1>2, <1>5 DEF Sata!Returns
<1>6. CASE stage = "probe" /\ sata = "ata"
  BY <1>2, <1>6 DEF Sata!Returns
<1>7. CASE stage = "probe" /\ sata = "atapi" /\ ~ok
  BY <1>3, <1>7 DEF Sata!Returns, Sata!AhciConstants
<1>8. CASE (stage = "probe" /\ sata = "atapi" /\ ok) \/ stage = "search"
  <2>1. /\ UNCHANGED returned
        /\ IF Sata!Sought THEN Sata!Ends("ready")
           ELSE IF stage = "search" /\ job.lba = Sata!Max(Search) THEN Sata!Ends("absent")
           ELSE Sata!Again("search", "read", Sata!NextSought)
    BY <1>8 DEF Sata!Returns
  <2>2. CASE Sata!Sought \/ (stage = "search" /\ job.lba = Sata!Max(Search))
    BY <1>2, <2>1, <2>2
  <2>3. CASE ~Sata!Sought /\ ~(stage = "search" /\ job.lba = Sata!Max(Search))
    <3>1. Sata!NextSought \in Search
      BY <1>8, <2>3, AhciSearchGoesOn
    <3>2. Sata!NextSought \in Lbas /\ Sata!Again("search", "read", Sata!NextSought) /\ UNCHANGED returned
      BY <2>1, <2>3, <3>1 DEF Sata!AhciConstants
    <3>. QED  BY <1>3, <3>1, <3>2
  <2>. QED  BY <2>2, <2>3
<1>. QED  BY <1>4, <1>5, <1>6, <1>7, <1>8

LEMMA AhciSoundWaiting ==
  ASSUME Sata!AhciConstants, AhciSound, Sata!Waiting
  PROVE  AhciSound'
<1>. USE DEF AhciSound, Sata!AhciType, AhciFlowSound, AhciPortSound, AhciOrderly, Sata!DataInTime
<1>1. CASE Sata!PortIdle
  BY <1>1 DEF Sata!PortIdle, Sata!hba
<1>2. CASE Sata!Issue
  <2>1. /\ at = "issue" /\ at' = "wait" /\ ci' = ci \union {slot} /\ slot \in 0 .. Slots - 1
        /\ UNCHANGED <<sata, engine, active, table, tfes, stage, job, slot, room, returned, left, gaveUp, dead, stray>>
    BY <1>2 DEF Sata!Issue
  <2>. QED  BY <2>1
<1>3. CASE Sata!Completed
  <2>1. CASE slot \notin ci /\ Sata!Returns(~tfes)
    <3>1. Sata!Working /\ (~tfes) \in BOOLEAN /\ gaveUp' = (gaveUp \/ tfes)
      BY <1>3, <2>1 DEF Sata!Completed, Sata!Returns
    <3>2. engine # "halted" /\ (sata = "ata" \/ ~gaveUp') => ci = {} /\ active = Sata!NoSlot /\ ~tfes
      BY <1>3, <2>1, <3>1 DEF Sata!Completed
    <3>3. engine = "halted" /\ ~gaveUp => tfes
      OBVIOUS
    <3>. QED  BY <2>1, <3>1, <3>2, <3>3, AhciSoundReturns
  <2>2. CASE tfes /\ Sata!Returns(FALSE)
    <3>1. Sata!Working /\ gaveUp' = TRUE
      BY <1>3, <2>2 DEF Sata!Completed, Sata!Returns
    <3>2. engine # "halted" /\ (sata = "ata" \/ ~gaveUp') => ci = {} /\ active = Sata!NoSlot /\ ~tfes
      BY <2>2, <3>1
    <3>. QED  BY <2>2, <3>1, <3>2, AhciSoundReturns
  <2>. QED  BY <1>3, <2>1, <2>2 DEF Sata!Completed
<1>4. CASE Sata!GivesUp
  <2>1. Sata!Returns(FALSE) /\ Sata!Working /\ gaveUp' = TRUE
    BY <1>4 DEF Sata!GivesUp, Sata!Returns
  <2>2. engine # "halted" /\ (sata = "ata" \/ ~gaveUp') => ci = {} /\ active = Sata!NoSlot /\ ~tfes
    BY <1>4, <2>1 DEF Sata!GivesUp
  <2>. QED  BY <2>1, <2>2, AhciSoundReturns
<1>. QED  BY <1>1, <1>2, <1>3, <1>4 DEF Sata!Waiting

LEMMA AhciSoundReads ==
  ASSUME Sata!AhciConstants, AhciSound, NEW a \in Lbas, Sata!Reads(a)
  PROVE  AhciSound'
<1>0. Sata!AhciType
  BY DEF AhciSound
<1>. USE DEF AhciSound, Sata!AhciType, AhciFlowSound, AhciPortSound, AhciOrderly, Sata!DataInTime
<1>1. /\ stage = "ready" /\ at = "idle" /\ left.reads \in 0 .. MaxReads /\ room' = Sata!Nothing
      /\ UNCHANGED <<sata, engine, ci, active, stage, stray>>
  BY DEF Sata!Reads, Sata!hba
<1>2. left' \in [reads : 0 .. MaxReads, errors : 0 .. MaxErrors]
  <2>1. left.reads - 1 \in 0 .. MaxReads
    BY DEF Sata!Reads, Sata!AhciConstants
  <2>. QED  BY <2>1 DEF Sata!Reads
<1>3. engine = "halted" => gaveUp
  BY <1>1
<1>4. CASE Sata!CanBegin
  <2>1. Sata!Begins("read", a, left.reads) /\ UNCHANGED <<returned, gaveUp>> /\ Sata!Free # {}
    BY <1>4 DEF Sata!Reads, Sata!CanBegin
  <2>2. AhciBegun("read", a, left.reads)
    BY <1>0, <1>1, <2>1, AhciBeginsSound
  <2>a. job'.cmd = "read"
    BY <2>2 DEF AhciBegun
  <2>3. Sata!AhciType'
    BY <1>0, <1>1, <1>2, <2>1, <2>2, AhciBegunTyped
  <2>4. AhciFlowSound'
    BY <1>1, <2>1, <2>2, <2>a DEF AhciBegun
  <2>5. AhciPortSound' /\ Sata!DataInTime'
    BY <1>1, <1>3, <2>1, <2>2 DEF AhciBegun
  <2>. QED  BY <2>3, <2>4, <2>5
<1>5. CASE ~Sata!CanBegin
  <2>1. gaveUp' = TRUE /\ returned' = Sata!Nothing /\ UNCHANGED <<at, job, slot, table, tfes, dead>>
    BY <1>5 DEF Sata!Reads
  <2>2. Sata!AhciType'
    BY <1>1, <1>2, <2>1 DEF Sata!Nothing
  <2>3. AhciFlowSound' /\ AhciPortSound' /\ Sata!DataInTime'
    BY <1>1, <2>1
  <2>. QED  BY <2>2, <2>3
<1>. QED  BY <1>4, <1>5

LEMMA AhciSoundStep ==
  ASSUME Sata!AhciConstants, AhciSound, [Sata!AhciNext]_(Sata!ahciVars)
  PROVE  AhciSound'
<1>1. CASE Sata!Controller
  BY <1>1, AhciSoundController
<1>2. CASE Sata!Boot
  BY <1>2, AhciSoundBoot
<1>3. CASE Sata!Waiting
  BY <1>3, AhciSoundWaiting
<1>4. CASE \E a \in Lbas : Sata!Reads(a)
  BY <1>4, AhciSoundReads
<1>5. CASE UNCHANGED Sata!ahciVars
  BY <1>5 DEF Sata!ahciVars, Sata!hba, AhciSound, Sata!AhciType, AhciFlowSound, AhciPortSound,
       AhciOrderly, Sata!DataInTime, Sata!Nothing
<1>. QED  BY <1>1, <1>2, <1>3, <1>4, <1>5 DEF Sata!AhciNext

LEMMA AhciSoundAlways ==
  ASSUME Sata!AhciConstants
  PROVE  Sata!AhciSpec => []AhciSound
<1>1. Sata!AhciInit => AhciSound
  BY AhciSoundInit
<1>2. AhciSound /\ [Sata!AhciNext]_(Sata!ahciVars) => AhciSound'
  BY AhciSoundStep
<1>. QED  BY <1>1, <1>2, PTL DEF Sata!AhciSpec

(* The types of the variables, for any disk and any command list.          *)
THEOREM AhciTypeCorrect ==
  ASSUME Sata!AhciConstants
  PROVE  Sata!AhciSpec => []Sata!AhciType
<1>1. AhciSound => Sata!AhciType
  BY DEF AhciSound
<1>. QED  BY <1>1, AhciSoundAlways, PTL

(* The data of an ATA drive never comes after its read has ended, whatever *)
(* the errors: the wait for it has no time-out (AHCI.c:665-677), and after *)
(* an error the port carries out nothing.                                  *)
THEOREM AhciDataComesInTime ==
  ASSUME Sata!AhciConstants
  PROVE  Sata!AhciSpec => []Sata!DataInTime
<1>1. AhciSound => Sata!DataInTime
  BY DEF AhciSound
<1>. QED  BY <1>1, AhciSoundAlways, PTL

-----------------------------------------------------------------------------
(* The port implements the disk: setting up, and what leads to a command's *)
(* end, change nothing of it; a read begins as a call and returns what the *)
(* sector holds; a wait that gives up, or an error, is the disk's.         *)
LEMMA AhciInitImplements == Sata!AhciConstants /\ Sata!AhciInit => Sata!Block!BlockInit
<1>. SUFFICES ASSUME Sata!AhciConstants, Sata!AhciInit PROVE Sata!Block!BlockInit
  OBVIOUS
<1>1. [a \in Lbas |-> a] \in [Lbas -> Lbas \union {Sata!Nothing}]
  OBVIOUS
<1>. QED  BY <1>1 DEF Sata!AhciInit, Sata!Block!BlockInit, Sata!Block!NoCall

(* The disk's state functions, and what changes none of them.              *)
LEMMA AhciStutters ==
  ASSUME UNCHANGED <<returned, gaveUp>>,
         \/ UNCHANGED <<stage, job>> /\ (Sata!Working' <=> Sata!Working)
         \/ stage # "ready" /\ (stage' # "ready" \/ ~Sata!Working')
  PROVE  UNCHANGED (Sata!Block!blockVars)
<1>. DEFINE call == IF stage = "ready" /\ Sata!Working
                    THEN [kind |-> "read", lba |-> job.lba, data |-> Sata!Nothing] ELSE [kind |-> "none"]
<1>1. call' = call
  BY DEF Sata!Nothing
<1>. QED  BY <1>1 DEF Sata!Block!blockVars

LEMMA AhciReturnImplements ==
  ASSUME Sata!AhciConstants, AhciSound, Sata!Completed, gaveUp' = FALSE
  PROVE  [Sata!Block!BlockNext]_(Sata!Block!blockVars)
<1>. USE DEF AhciSound, Sata!AhciType, AhciFlowSound, AhciPortSound, AhciOrderly
<1>1. at = "wait" /\ slot \notin ci /\ Sata!Returns(~tfes) /\ ~tfes /\ ~gaveUp
  <2>1. ~(tfes /\ Sata!Returns(FALSE))
    BY DEF Sata!Returns
  <2>2. Sata!Completed => at = "wait" /\ slot \notin ci /\ Sata!Returns(~tfes)
    BY <2>1 DEF Sata!Completed
  <2>3. Sata!Returns(~tfes) => ~tfes /\ ~gaveUp
    BY DEF Sata!Returns
  <2>. QED  BY <2>2, <2>3
<1>2. CASE stage = "ready"
  <2>1. at' = "idle" /\ returned' = room /\ stage' = "ready" /\ UNCHANGED gaveUp
    BY <1>1, <1>2 DEF Sata!Returns, Sata!Ends
  <2>2. room = job.lba /\ job.lba \in Lbas
    BY <1>1, <1>2
  <2>3. Sata!Block!Returns
    BY <1>1, <1>2, <2>1, <2>2 DEF Sata!Block!Returns, Sata!Block!NoCall
  <2>. QED  BY <2>3 DEF Sata!Block!BlockNext
<1>3. CASE stage # "ready"
  <2>1. UNCHANGED <<returned, gaveUp>>
    BY <1>1, <1>3 DEF Sata!Returns
  <2>2. stage' # "ready" \/ ~Sata!Working'
    BY <1>1, <1>3 DEF Sata!Returns, Sata!Ends, Sata!Again
  <2>. QED  BY <1>3, <2>1, <2>2, AhciStutters
<1>. QED  BY <1>2, <1>3

LEMMA AhciReadImplements ==
  ASSUME Sata!AhciConstants, NEW a \in Lbas, Sata!Reads(a), gaveUp' = FALSE
  PROVE  [Sata!Block!BlockNext]_(Sata!Block!blockVars)
<1>1. /\ stage = "ready" /\ stage' = "ready" /\ at = "idle" /\ at' = "busy"
      /\ job'.lba = a /\ UNCHANGED <<returned, gaveUp>>
  BY DEF Sata!Reads, Sata!Begins
<1>2. Sata!Block!Calls
  BY <1>1 DEF Sata!Block!Calls, Sata!Block!NoCall
<1>. QED  BY <1>2 DEF Sata!Block!BlockNext

LEMMA AhciStepImplements ==
  ASSUME Sata!AhciConstants, AhciSound, [Sata!AhciNext]_(Sata!ahciVars)
  PROVE  [Sata!Block!BlockNext]_(Sata!Block!blockVars)
<1>1. CASE gaveUp' = TRUE
  BY <1>1 DEF Sata!Block!BlockNext, Sata!Block!GivesUp
<1>2. CASE gaveUp' = FALSE
  <2>1. CASE Sata!Controller \/ UNCHANGED Sata!ahciVars
    BY <2>1, AhciStutters DEF Sata!Controller, Sata!ahciVars
  <2>2. CASE Sata!Boot
    <3>1. stage # "ready"
      BY <2>2 DEF Sata!Boot, Sata!stop_cmd, Sata!port_rebase, AhciSound, AhciFlowSound
    <3>. QED  BY <2>2, <3>1, AhciStutters DEF Sata!Boot, Sata!stop_cmd, Sata!port_rebase
  <2>3. CASE Sata!PortIdle \/ Sata!Issue
    BY <2>3, AhciStutters DEF Sata!PortIdle, Sata!Issue
  <2>4. CASE Sata!Completed
    BY <1>2, <2>4, AhciReturnImplements
  <2>5. CASE Sata!GivesUp
    BY <1>2, <2>5 DEF Sata!GivesUp, Sata!Returns
  <2>6. CASE \E a \in Lbas : Sata!Reads(a)
    BY <1>2, <2>6, AhciReadImplements
  <2>. QED  BY <2>1, <2>2, <2>3, <2>4, <2>5, <2>6 DEF Sata!AhciNext, Sata!Waiting
<1>3. gaveUp' \in BOOLEAN
  BY AhciSoundStep DEF AhciSound, Sata!AhciType
<1>. QED  BY <1>1, <1>2, <1>3

(* Until a wait gives up or an error comes, a drive behind AHCI is to the  *)
(* file systems a disk: a read gives what its own sector holds, whatever   *)
(* else the port was used for.                                             *)
THEOREM AhciImplementsDisk ==
  ASSUME Sata!AhciConstants
  PROVE  Sata!AhciSpec => Sata!AhciIsDisk
<1>1. Sata!AhciInit => AhciSound
  BY AhciSoundInit
<1>2. AhciSound /\ [Sata!AhciNext]_(Sata!ahciVars) => AhciSound'
  BY AhciSoundStep
<1>3. AhciSound /\ [Sata!AhciNext]_(Sata!ahciVars) => [Sata!Block!BlockNext]_(Sata!Block!blockVars)
  BY AhciStepImplements
<1>4. Sata!AhciInit => Sata!Block!BlockInit
  BY AhciInitImplements
<1>. QED  BY <1>1, <1>2, <1>3, <1>4, PTL DEF Sata!AhciSpec, Sata!AhciIsDisk, Sata!Block!BlockSpec

-----------------------------------------------------------------------------
(* Both in one behaviour: each step is one of either driver and none of    *)
(* the other, so both invariants hold throughout.                          *)
BothSound == Sound /\ Punctual /\ AhciSound

LEMMA BothInit == MCInit => BothSound
BY AhciAssumption, SoundInit, PunctualInit, AhciSoundInit DEF MCInit, BothSound

LEMMA StepOfEither ==
  ASSUME [MCNext]_allVars
  PROVE  [Next]_vars /\ [Sata!AhciNext]_(Sata!ahciVars)
<1>1. UNCHANGED port => UNCHANGED Sata!ahciVars
  BY DEF port, Sata!ahciVars, Sata!hba
<1>. QED  BY <1>1 DEF MCNext, allVars

LEMMA BothStep ==
  ASSUME BothSound, [MCNext]_allVars
  PROVE  BothSound'
BY AhciAssumption, StepOfEither, SoundStep, PunctualStep, AhciSoundStep DEF BothSound

LEMMA BothAlways == MCSpec => []BothSound
BY BothInit, BothStep, PTL DEF MCSpec

(* In every behaviour of either driver the types hold, and no data of an   *)
(* ATA drive behind AHCI comes after its read has ended (AHCI.c:665-677).  *)
THEOREM DisksDataInTime == MCSpec => []DataInTime
<1>1. BothSound => DataInTime
  BY DEF BothSound, Sound, AhciSound, DataInTime
<1>. QED  BY <1>1, BothAlways, PTL

(* In every behaviour of either driver, whichever waits give up, a sector  *)
(* of the IDE drive holds only what was written to it (ide.c:108-132).     *)
THEOREM DisksKeepTheirOwn == MCSpec => []NothingForeign
<1>1. BothSound => NothingForeign
  BY DEF BothSound, Sound
<1>. QED  BY <1>1, BothAlways, PTL

(* The IDE driver is a disk to the file systems, beside the AHCI driver.   *)
THEOREM IdeImplementsDisk == MCSpec => IdeIsDisk
<1>1. MCInit => Block!BlockInit
  BY InitIsOfDisk DEF MCInit
<1>2. BothSound /\ [MCNext]_allVars => [Block!BlockNext]_(Block!blockVars)
  BY StepOfEither, StepIsOfDisk DEF BothSound
<1>. QED  BY <1>1, <1>2, BothAlways, PTL DEF MCSpec, IdeIsDisk, Block!BlockSpec

(* The AHCI driver is a disk to the file systems, beside the IDE driver.   *)
THEOREM PortImplementsDisk == MCSpec => AhciIsDisk
<1>1. MCInit => Sata!Block!BlockInit
  BY AhciAssumption, AhciInitImplements DEF MCInit
<1>2. BothSound /\ [MCNext]_allVars => [Sata!Block!BlockNext]_(Sata!Block!blockVars)
  BY AhciAssumption, StepOfEither, AhciStepImplements DEF BothSound
<1>. QED  BY <1>1, <1>2, BothAlways, PTL DEF MCSpec, AhciIsDisk, Sata!AhciIsDisk, Sata!Block!BlockSpec
=============================================================================
