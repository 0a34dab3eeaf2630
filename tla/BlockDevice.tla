----------------------------- MODULE BlockDevice ----------------------------
(***************************************************************************)
(* What readRawSector and writeRawSector of a Device promise to a file     *)
(* system, whichever driver stands behind them: one call at a time; a read *)
(* gives what the sector holds, a write is on the disk when it returns -   *)
(* until a driver has given up on its disk, which neither of them says:    *)
(* the functions return nothing, and from then on nothing is promised.     *)
(***************************************************************************)
CONSTANTS Sectors, Values

VARIABLES
  content,     (* what the disk keeps                                      *)
  call,        (* the call underway: kind, sector and data, or NoCall      *)
  got,         (* what the last read gave                                  *)
  failed       (* a driver has given up                                    *)

blockVars == <<content, call, got, failed>>

NoCall == [kind |-> "none"]

BlockInit ==
  /\ content \in [Sectors -> Values]
  /\ call = NoCall
  /\ failed = FALSE

Calls ==
  /\ call = NoCall
  /\ call' \in [kind : {"read", "write"}, lba : Sectors, data : Values]
  /\ UNCHANGED <<content, got, failed>>

Writes ==
  /\ call.kind = "write"
  /\ content' = [content EXCEPT ![call.lba] = call.data]
  /\ UNCHANGED <<call, got, failed>>

Returns ==
  /\ call' = NoCall
  /\ \/ call.kind = "read" /\ got' = content[call.lba]
     \/ call.kind = "write" /\ content[call.lba] = call.data /\ UNCHANGED got
  /\ UNCHANGED <<content, failed>>

GivesUp == failed'

BlockNext == Calls \/ Writes \/ Returns \/ GivesUp

BlockSpec == BlockInit /\ [][BlockNext]_blockVars
=============================================================================
