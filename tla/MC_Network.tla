----------------------------- MODULE MC_Network -----------------------------
(***************************************************************************)
(* The network stack: the clients of Network, which the main flow runs     *)
(* alone, a TCP session of a program, or the headers of what is sent.  A   *)
(* behaviour is of one of them.                                            *)
(***************************************************************************)
EXTENDS Network

CONSTANTS MaxOut, MaxIn, MaxResent, Byte, Words, Payload, MaxHeaders

VARIABLES at, ethjmplist, taaaX, taaaY, seq, down, up, peer, resent, delivered, missed, numbers, early, crossed

Session == INSTANCE Tcp

ASSUME SessionAssumption == Session!TcpConstants

VARIABLES ipv4count, filling, last, filled, shared

Sent == INSTANCE Headers

ASSUME HeaderAssumption == Sent!HeaderConstants

MCBlocks == [f \in Files |-> CASE f = "short" -> 1 [] f = "long" -> 2 [] OTHER -> 0]

session == <<at, ethjmplist, taaaX, taaaY, seq, down, up, peer, resent, delivered, missed, numbers, early, crossed>>
headers == <<ipv4count, filling, last, filled, shared>>
allVars == <<vars, session, headers>>

MCInit == Init /\ Session!TcpInit /\ Sent!HeaderInit
MCNext ==
  \/ at = "closed" /\ filled = 0 /\ filling = <<>> /\ Next /\ UNCHANGED <<session, headers>>
  \/ Init /\ filled = 0 /\ filling = <<>> /\ Session!TcpNext /\ UNCHANGED <<vars, headers>>
  \/ Init /\ at = "closed" /\ Sent!HeaderNext /\ UNCHANGED <<vars, session>>

MCSpec ==
  /\ MCInit /\ [][MCNext]_allVars
  /\ WF_allVars(Wire /\ UNCHANGED <<session, headers>>) /\ WF_allVars(Waits /\ UNCHANGED <<session, headers>>)

(* Of the session, with the types.                                         *)
SessionHolds ==
  /\ TypeOK /\ Session!TcpType
  /\ Session!AckedIsDelivered /\ Session!NumbersFollow
(* Of the headers, with their types.                                       *)
ChecksumsVerify == Sent!HeaderType /\ Sent!ChecksumsVerify
=============================================================================
