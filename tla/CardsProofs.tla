----------------------------- MODULE CardsProofs ----------------------------
(***************************************************************************)
(* The two drivers and their cards, for rings of any length, any packets   *)
(* and any sends: no packet is returned twice, a send returns with its     *)
(* packet out, no request holds the RTL8169 back for ever, and the E1000   *)
(* hears on while descriptors are given back in order.                     *)
(***************************************************************************)
EXTENDS MC_Cards, TLAPS

(* The RTL8169.                                                            *)
USE DEF Slots, Packets, None, Mine, Main, cardVars, mainVars

HandlerType == [at : {"off", "scan", "sending", "ack"}, z : 0 .. Scan, status : SUBSET {"rx", "tx"}]
RingType == [Slots -> [own : BOOLEAN, pkt : 0 .. MaxPackets]]

(* What every variable holds; a descriptor that is not the card's holds a  *)
(* packet that has arrived.                                                *)
RingTyped ==
  /\ ring \in RingType
  /\ kind \in Seq(Kinds) /\ Len(kind) <= MaxPackets
  /\ card \in Slots
  /\ \A s \in Slots : ring[s].pkt <= Len(kind) /\ (~ring[s].own => ring[s].pkt # 0)

HandlerTyped ==
  /\ isr \subseteq {"rx", "tx"}
  /\ h \in HandlerType
  /\ h.at = "sending" => h.z < Scan /\ ~ring[h.z].own

SendTyped ==
  /\ tx \in [own : BOOLEAN, pkt : Outgoing]
  /\ package_send_ack \in 0 .. 1
  /\ sends \in 0 .. MaxSends /\ sent \subseteq Outgoing

MainTyped ==
  /\ pc \in {"idle", "clear", "ring", "wait", "scan", "take"} /\ z \in 0 .. Scan - 1
  /\ got \subseteq Packets /\ behind \subseteq Packets
  /\ pc = "take" => ring[z].pkt # 0

Flags == doorbell \in BOOLEAN /\ twice \in BOOLEAN /\ replied \in BOOLEAN

Typed == RingTyped /\ HandlerTyped /\ SendTyped /\ MainTyped

LEMMA GivenBack ==
  ASSUME ring \in RingType, NEW s \in Slots, ring' = [ring EXCEPT ![s].own = TRUE]
  PROVE  /\ ring' \in RingType /\ ring'[s].own
         /\ \A t \in Slots : ring'[t].pkt = ring[t].pkt /\ (t # s => ring'[t] = ring[t])
<1>1. [ring[s] EXCEPT !.own = TRUE] \in [own : BOOLEAN, pkt : 0 .. MaxPackets]
  BY DEF RingType
<1>. QED  BY <1>1 DEF RingType

LEMMA FlagsStep ==
  ASSUME Flags, [Next]_vars
  PROVE  Flags'
<1>1. CASE UNCHANGED vars \/ Card
  BY <1>1, Zenon DEF vars, Flags, Card, CardSends, CardReceives
<1>2. CASE irq_rtl8169
  BY <1>2, Zenon DEF Flags, irq_rtl8169, HandlerEnters, HandlerSkips, HandlerSends, HandlerSent,
       HandlerScanned, HandlerLeaves
<1>3. CASE rtl_sendPackage
  BY <1>3, Zenon DEF Flags, rtl_sendPackage, SendWrites, SendClears, SendRings, SendReturns
<1>4. CASE rtl_recievePackage
  BY <1>4, Zenon DEF Flags, rtl_recievePackage, ReceiveCalled, ReceiveLooks, ReceiveTakes, ReceiveGivesUp, Got
<1>. QED  BY <1>1, <1>2, <1>3, <1>4 DEF Next

LEMMA TypedIsTypeOK == ConstantsAssumption /\ Typed /\ Flags => TypeOK
<1>. SUFFICES ASSUME ConstantsAssumption, Typed, Flags PROVE TypeOK
  OBVIOUS
<1>. USE DEF Typed, RingTyped, HandlerTyped, SendTyped, MainTyped, Flags, RingType, HandlerType
<1>1. Packets \union {None} = 0 .. MaxPackets
  BY DEF ConstantsAssumption
<1>. QED  BY <1>1 DEF TypeOK

LEMMA TypedInit == ConstantsAssumption /\ Init => Typed /\ Flags
<1>. SUFFICES ASSUME ConstantsAssumption, Init PROVE Typed /\ Flags
  OBVIOUS
<1>. USE DEF ConstantsAssumption, Init, RingType, HandlerType
<1>1. RingTyped
  BY DEF RingTyped
<1>2. HandlerTyped
  BY DEF HandlerTyped
<1>3. SendTyped
  BY DEF SendTyped, Outgoing
<1>4. MainTyped
  BY DEF MainTyped
<1>5. Flags
  BY Zenon DEF Flags
<1>. QED  BY <1>1, <1>2, <1>3, <1>4, <1>5 DEF Typed

LEMMA TypedCard ==
  ASSUME ConstantsAssumption, Typed, Card
  PROVE  Typed'
<1>. USE DEF ConstantsAssumption, Typed, RingTyped, HandlerTyped, SendTyped, MainTyped, RingType, HandlerType
<1>1. CASE CardSends
  BY <1>1 DEF CardSends
<1>2. ASSUME NEW k \in Kinds, CardReceives(k)
      PROVE  Typed'
  <2>. DEFINE new == Len(kind) + 1
  <2>1. kind' \in Seq(Kinds) /\ Len(kind') = new /\ new \in 1 .. MaxPackets
    BY <1>2 DEF CardReceives
  <2>2. card' \in Slots
    BY <1>2 DEF CardReceives
  <2>. HIDE DEF new
  <2>a. ring' = IF ring[card].own THEN [ring EXCEPT ![card] = [own |-> FALSE, pkt |-> new]] ELSE ring
    BY <1>2 DEF CardReceives, new
  <2>b. [own |-> FALSE, pkt |-> new] \in [own : BOOLEAN, pkt : 0 .. MaxPackets]
    BY <2>1
  <2>3. ring' \in [Slots -> [own : BOOLEAN, pkt : 0 .. MaxPackets]]
    BY <2>a, <2>b
  <2>c. Len(kind) \in Nat /\ new = Len(kind) + 1
    BY DEF new
  <2>4. \A s \in Slots : ring'[s].pkt <= new /\ (~ring'[s].own => ring'[s].pkt # 0)
    BY <2>1, <2>a, <2>c
  <2>5. h' = h /\ \A s \in Slots : ring[s].own \/ ~ring'[s].own
    BY <1>2 DEF CardReceives
  <2>6. isr' \subseteq {"rx", "tx"} /\ behind' \subseteq Packets
    BY <1>2, <2>1 DEF CardReceives, new
  <2>7. RingTyped'
    BY <2>1, <2>2, <2>3, <2>4
  <2>8. HandlerTyped'
    <3>1. h.at = "sending" => h.z \in Slots
      OBVIOUS
    <3>2. h.at = "sending" => ~ring'[h.z].own
      BY <2>5, <3>1
    <3>. QED  BY <2>5, <2>6, <3>2
  <2>9. SendTyped'
    BY <1>2 DEF CardReceives
  <2>10. MainTyped'
    <3>1. \A s \in Slots : ring[s].pkt # 0 => ring'[s].pkt # 0
      BY <2>1, <2>a, <2>c
    <3>2. UNCHANGED <<pc, z, got>>
      BY <1>2 DEF CardReceives
    <3>. QED  BY <2>6, <3>1, <3>2
  <2>. QED  BY <2>7, <2>8, <2>9, <2>10
<1>. QED  BY <1>1, <1>2 DEF Card

(* What the two senders send.                                              *)
LEMMA Sendable ==
  /\ \A p \in Packets : Reply(p) \in Outgoing
  /\ \A n \in 0 .. MaxSends : Mine(n) \in Outgoing
BY Zenon DEF Outgoing

LEMMA TypedHandler ==
  ASSUME ConstantsAssumption, Typed, irq_rtl8169
  PROVE  Typed'
<1>. USE DEF ConstantsAssumption, Typed, RingTyped, HandlerTyped, SendTyped, MainTyped
<1>0. h.z \in 0 .. Scan /\ (h.z < Scan => h.z \in Slots)
  BY DEF HandlerType
<1>1. CASE HandlerEnters
  <2>1. h' \in HandlerType /\ h'.at # "sending"
    BY <1>1 DEF HandlerEnters, HandlerType
  <2>. QED  BY <1>1, <2>1 DEF HandlerEnters
<1>2. CASE HandlerSkips
  <2>1. h' \in HandlerType /\ h'.at # "sending"
    <3>1. h.z + 1 \in 0 .. Scan
      BY <1>0, <1>2 DEF HandlerSkips
    <3>. QED  BY <1>2, <3>1 DEF HandlerSkips, HandlerType
  <2>. QED  BY <1>2, <2>1 DEF HandlerSkips
<1>3. CASE HandlerSends
  <2>1. h' \in HandlerType /\ h'.z = h.z /\ h.z < Scan /\ ~ring[h.z].own
    BY <1>3 DEF HandlerSends, Answerable, HandlerType
  <2>2. Reply(ring[h.z].pkt) \in Outgoing
    <3>1. ring[h.z].pkt \in 0 .. MaxPackets
      BY <1>0, <2>1 DEF RingType
    <3>2. ring[h.z].pkt # 0
      BY <1>0, <2>1
    <3>3. ring[h.z].pkt \in Packets
      BY <3>1, <3>2
    <3>. QED  BY <3>3, Sendable, Zenon
  <2>3. tx' \in [own : BOOLEAN, pkt : Outgoing]
    BY <1>3, <2>2 DEF HandlerSends
  <2>4. UNCHANGED <<ring, cardVars, mainVars>> /\ package_send_ack' = 0
    BY <1>3 DEF HandlerSends
  <2>5. SendTyped'
    BY <2>3, <2>4
  <2>. QED  BY <2>1, <2>4, <2>5
<1>4. CASE HandlerSent
  <2>1. h' \in HandlerType /\ h'.at # "sending"
    <3>1. h.z + 1 \in 0 .. Scan
      BY <1>0, <1>4 DEF HandlerSent
    <3>. QED  BY <1>4, <3>1 DEF HandlerSent, HandlerType
  <2>2. /\ ring' \in RingType
        /\ \A s \in Slots : ring'[s].pkt = ring[s].pkt /\ (~ring'[s].own => ~ring[s].own)
    <3>1. CASE ring' = ring
      BY <3>1
    <3>2. CASE ring' = [ring EXCEPT ![h.z].own = TRUE]
      BY <1>0, <1>4, <3>2, GivenBack DEF HandlerSent
    <3>. QED  BY <1>4, <3>1, <3>2 DEF HandlerSent
  <2>3. UNCHANGED <<tx, cardVars, mainVars>> /\ package_send_ack' = 0
    BY <1>4 DEF HandlerSent
  <2>4. RingTyped'
    BY <2>2, <2>3
  <2>5. HandlerTyped' /\ SendTyped'
    BY <2>1, <2>3
  <2>6. MainTyped'
    BY <2>2, <2>3
  <2>. QED  BY <2>4, <2>5, <2>6
<1>5. CASE HandlerScanned
  BY <1>5 DEF HandlerScanned, HandlerType
<1>6. CASE HandlerLeaves
  <2>1. h' \in HandlerType /\ h'.at # "sending" /\ isr' \subseteq isr
    BY <1>6 DEF HandlerLeaves, HandlerType
  <2>2. package_send_ack' \in 0 .. 1
    BY <1>6 DEF HandlerLeaves
  <2>3. UNCHANGED <<ring, kind, card, tx, sent, behind, mainVars>>
    BY <1>6 DEF HandlerLeaves
  <2>. QED  BY <2>1, <2>2, <2>3
<1>. QED  BY <1>1, <1>2, <1>3, <1>4, <1>5, <1>6 DEF irq_rtl8169

LEMMA TypedMain ==
  ASSUME ConstantsAssumption, Typed, rtl_sendPackage \/ rtl_recievePackage
  PROVE  Typed'
<1>. USE DEF ConstantsAssumption, Typed, RingTyped, HandlerTyped, SendTyped, MainTyped
<1>1. CASE SendWrites
  <2>1. Mine(sends + 1) \in Outgoing
    <3>1. sends + 1 \in 0 .. MaxSends
      BY <1>1 DEF SendWrites
    <3>. QED  BY <3>1, Sendable, Zenon
  <2>2. SendTyped'
    BY <1>1, <2>1 DEF SendWrites
  <2>3. UNCHANGED <<ring, kind, card, isr, h>> /\ MainTyped'
    BY <1>1 DEF SendWrites
  <2>. QED  BY <2>2, <2>3
<1>2. CASE SendClears \/ SendRings \/ SendReturns
  <2>1. UNCHANGED <<ring, kind, card, isr, h>> /\ SendTyped'
    BY <1>2 DEF SendClears, SendRings, SendReturns
  <2>2. MainTyped'
    BY <1>2 DEF SendClears, SendRings, SendReturns
  <2>. QED  BY <2>1, <2>2
<1>3. CASE ReceiveCalled \/ ReceiveGivesUp
  <2>1. UNCHANGED <<ring, kind, card, isr, h>> /\ SendTyped'
    BY <1>3 DEF ReceiveCalled, ReceiveGivesUp
  <2>2. z' \in 0 .. Scan - 1 /\ pc' \in {"idle", "scan"} /\ UNCHANGED <<got, behind>>
    BY <1>3 DEF ReceiveCalled, ReceiveGivesUp
  <2>3. MainTyped'
    BY <2>2
  <2>. QED  BY <2>1, <2>3
<1>4. CASE ReceiveLooks
  <2>1. z' \in 0 .. Scan - 1 /\ (pc' = "take" => ring[z'].pkt # 0)
    BY <1>4 DEF ReceiveLooks
  <2>. QED  BY <1>4, <2>1 DEF ReceiveLooks
<1>5. CASE ReceiveTakes
  <2>1. z \in Slots /\ ring[z].pkt \in Packets
    BY <1>5 DEF ReceiveTakes, RingType
  <2>2. /\ ring' \in RingType
        /\ \A s \in Slots : ring'[s].pkt = ring[s].pkt /\ (~ring'[s].own => ~ring[s].own)
    BY <1>5, <2>1, GivenBack DEF ReceiveTakes
  <2>3. RingTyped'
    BY <1>5, <2>2 DEF ReceiveTakes
  <2>4. MainTyped'
    BY <1>5, <2>1 DEF ReceiveTakes, Got
  <2>5. HandlerTyped' /\ SendTyped'
    BY <1>5 DEF ReceiveTakes
  <2>. QED  BY <2>3, <2>4, <2>5
<1>. QED  BY <1>1, <1>2, <1>3, <1>4, <1>5 DEF rtl_sendPackage, rtl_recievePackage

LEMMA TypedStep ==
  ASSUME ConstantsAssumption, Typed, [Next]_vars
  PROVE  Typed'
<1>1. CASE UNCHANGED vars
  BY <1>1 DEF vars, Typed, RingTyped, HandlerTyped, SendTyped, MainTyped
<1>. QED  BY <1>1, TypedCard, TypedHandler, TypedMain DEF Next

-----------------------------------------------------------------------------
(* No packet stands in two descriptors, and none that the network code has *)
(* taken stands in one that is not the card's, or in the one it has looked *)
(* at: the handler may give that back, the card may fill it again, and the *)
(* take then gets another packet, but never one it has had.                *)
TakenOnce ==
  /\ \A s, t \in Slots : ring[s].pkt = ring[t].pkt /\ ring[s].pkt # 0 => s = t
  /\ \A s \in Slots : ~ring[s].own => ring[s].pkt \notin got
  /\ pc = "take" => ring[z].pkt \notin got
  /\ \A p \in got : p <= Len(kind)
  /\ ~twice

LEMMA TakenOnceStep ==
  ASSUME ConstantsAssumption, Typed, TakenOnce, [Next]_vars
  PROVE  TakenOnce'
<1>. USE DEF ConstantsAssumption, Typed, RingTyped, MainTyped, TakenOnce
<1>1. ASSUME UNCHANGED <<ring, kind, got, twice, z>>, pc' = "take" => pc = "take"
      PROVE  TakenOnce'
  BY <1>1
<1>2. ASSUME NEW k \in Kinds, CardReceives(k)
      PROVE  TakenOnce'
  <2>1. /\ Len(kind') = Len(kind) + 1 /\ Len(kind) \in Nat
        /\ UNCHANGED <<got, twice, pc, z>>
    BY <1>2 DEF CardReceives
  <2>2. CASE ring' = ring
    BY <2>1, <2>2 DEF RingType
  <2>3. CASE ring' = [ring EXCEPT ![card] = [own |-> FALSE, pkt |-> Len(kind) + 1]]
    <3>1. \A s \in Slots : ring'[s] = IF s = card THEN [own |-> FALSE, pkt |-> Len(kind) + 1] ELSE ring[s]
      BY <2>3 DEF RingType
    <3>2. \A s \in Slots : ring[s].pkt \in Nat /\ ring[s].pkt <= Len(kind)
      BY DEF RingType
    <3>3. Len(kind) + 1 \notin got
      BY <2>1
    <3>4. \A s, t \in Slots : ring'[s].pkt = ring'[t].pkt /\ ring'[s].pkt # 0 => s = t
      BY <2>1, <3>1, <3>2
    <3>5. \A s \in Slots : (~ring'[s].own => ring'[s].pkt \notin got) /\ (ring[s].pkt \notin got => ring'[s].pkt \notin got)
      BY <3>1, <3>3
    <3>6. \A p \in got : p <= Len(kind')
      BY <2>1
    <3>7. z \in Slots
      OBVIOUS
    <3>. QED  BY <2>1, <3>4, <3>5, <3>6, <3>7
  <2>. QED  BY <1>2, <2>2, <2>3 DEF CardReceives
<1>3. CASE HandlerSent
  <2>1. UNCHANGED <<kind, got, twice, pc, z>> /\ h.z \in Slots
    BY <1>3 DEF HandlerSent, HandlerTyped, HandlerType
  <2>2. \A s \in Slots : ring'[s].pkt = ring[s].pkt /\ (~ring'[s].own => ~ring[s].own)
    <3>1. CASE ring' = ring
      BY <3>1
    <3>2. CASE ring' = [ring EXCEPT ![h.z].own = TRUE]
      BY <2>1, <3>2, GivenBack
    <3>. QED  BY <1>3, <3>1, <3>2 DEF HandlerSent
  <2>. QED  BY <2>1, <2>2
<1>4. CASE ReceiveLooks
  BY <1>4 DEF ReceiveLooks
<1>5. CASE ReceiveTakes
  <2>1. z \in Slots /\ ring[z].pkt # 0 /\ ring[z].pkt \notin got /\ pc' = "idle" /\ UNCHANGED kind
    BY <1>5 DEF ReceiveTakes
  <2>2. got' = got \union {ring[z].pkt} /\ ~twice'
    BY <1>5, <2>1 DEF ReceiveTakes, Got
  <2>3. /\ ring'[z].own
        /\ \A s \in Slots : ring'[s].pkt = ring[s].pkt /\ (s # z => ring'[s] = ring[s])
    BY <1>5, <2>1, GivenBack DEF ReceiveTakes
  <2>4. \A s \in Slots : ~ring'[s].own => ring'[s].pkt \notin got'
    BY <2>1, <2>2, <2>3
  <2>. QED  BY <2>1, <2>2, <2>3, <2>4
<1>6. CASE CardSends \/ HandlerEnters \/ HandlerSkips \/ HandlerSends \/ HandlerScanned \/ HandlerLeaves
  BY <1>1, <1>6 DEF CardSends, HandlerEnters, HandlerSkips, HandlerSends, HandlerScanned, HandlerLeaves
<1>7. CASE rtl_sendPackage
  BY <1>1, <1>7 DEF rtl_sendPackage, SendWrites, SendClears, SendRings, SendReturns
<1>8. CASE ReceiveCalled \/ ReceiveGivesUp
  <2>1. UNCHANGED <<ring, kind, got, twice>> /\ pc' # "take"
    BY <1>8 DEF ReceiveCalled, ReceiveGivesUp
  <2>. QED  BY <2>1
<1>9. CASE UNCHANGED vars
  BY <1>1, <1>9 DEF vars
<1>. QED  BY <1>2, <1>3, <1>4, <1>5, <1>6, <1>7, <1>8, <1>9 DEF Next, Card, irq_rtl8169, rtl_recievePackage

LEMMA TakenOnceInit == ConstantsAssumption /\ Init => TakenOnce
  BY DEF ConstantsAssumption, Init, TakenOnce

-----------------------------------------------------------------------------
(* As long as the handler answers nothing, the packet of the main flow     *)
(* stands in the descriptor or has gone out; from the doorbell on it is on *)
(* its way, also when another packet's interrupt ends the wait.            *)
OneSend ==
  sends > 0 /\ ~replied =>
    IF pc \in {"clear", "ring"}
    THEN Mine(sends) \in sent \/ tx = [own |-> TRUE, pkt |-> Mine(sends)]
    ELSE OnTheWay(Mine(sends))

LEMMA OneSendStep ==
  ASSUME ConstantsAssumption, Typed, Flags, OneSend, [Next]_vars
  PROVE  OneSend'
<1>. USE DEF OneSend, OnTheWay
<1>0. tx = [own |-> tx.own, pkt |-> tx.pkt] /\ pc \in {"idle", "clear", "ring", "wait", "scan", "take"}
  BY DEF Typed, SendTyped, MainTyped
<1>1. ASSUME UNCHANGED <<sends, replied, sent, tx, doorbell>>, pc' \in {"clear", "ring"} <=> pc \in {"clear", "ring"}
      PROVE  OneSend'
  BY <1>1
<1>2. CASE CardSends
  BY <1>0, <1>2 DEF CardSends
<1>3. CASE \E k \in Kinds : CardReceives(k)
  BY <1>1, <1>3 DEF CardReceives
<1>4. CASE HandlerSends
  BY <1>4 DEF HandlerSends
<1>5. CASE HandlerEnters \/ HandlerSkips \/ HandlerSent \/ HandlerScanned \/ HandlerLeaves
  BY <1>1, <1>5 DEF HandlerEnters, HandlerSkips, HandlerSent, HandlerScanned, HandlerLeaves
<1>6. CASE SendWrites
  BY <1>6 DEF SendWrites
<1>7. CASE SendClears \/ SendRings \/ SendReturns
  BY <1>7 DEF SendClears, SendRings, SendReturns
<1>8. CASE rtl_recievePackage
  BY <1>1, <1>8 DEF rtl_recievePackage, ReceiveCalled, ReceiveLooks, ReceiveTakes, ReceiveGivesUp
<1>9. CASE UNCHANGED vars
  BY <1>1, <1>9 DEF vars
<1>. QED  BY <1>2, <1>3, <1>4, <1>5, <1>6, <1>7, <1>8, <1>9 DEF Next, Card, irq_rtl8169, rtl_sendPackage

LEMMA OneSendInit == Init => OneSend
  BY DEF Init, OneSend

LEMMA OneSendHolds == OneSend => SentOnReturn
  BY DEF OneSend, SentOnReturn

-----------------------------------------------------------------------------
(* A request in a descriptor that the handler looks at, and that came      *)
(* while it was not running, has its interrupt still, or is ahead of it.   *)
Unanswered(s) ==
  ~ring[s].own /\ KindOf(ring[s].pkt) = "request" /\ ring[s].pkt \notin behind

AllAhead ==
  \A s \in 0 .. Scan - 1 : Unanswered(s) =>
    \/ h.at = "off" /\ "rx" \in isr
    \/ h.at \in {"scan", "sending"} /\ h.z <= s

LEMMA AllAheadStep ==
  ASSUME ConstantsAssumption, Typed, AllAhead, [Next]_vars
  PROVE  AllAhead'
<1>. USE DEF AllAhead, Unanswered, KindOf
<1>0. 0 .. Scan - 1 \subseteq Slots /\ h.z \in 0 .. Scan /\ h.at \in {"off", "scan", "sending", "ack"}
  BY DEF ConstantsAssumption, Typed, HandlerTyped, HandlerType
<1>1. ASSUME UNCHANGED <<kind, h, isr, behind>>, \A s \in Slots : ring'[s] = ring[s] \/ ring'[s].own
      PROVE  AllAhead'
  BY <1>0, <1>1
<1>2. ASSUME NEW k \in Kinds, CardReceives(k)
      PROVE  AllAhead'
  <2>. DEFINE new == Len(kind) + 1
  <2>1. \A s \in Slots : ~ring[s].own => ring[s].pkt \in 1 .. Len(kind)
    BY DEF Typed, RingTyped, RingType
  <2>2. /\ \A p \in 1 .. Len(kind) : kind'[p] = kind[p]
        /\ Len(kind) \in Nat
    BY <1>2 DEF CardReceives, Typed, RingTyped
  <2>3. h' = h /\ behind \subseteq behind' /\ (h.at # "off" => new \in behind')
    BY <1>2 DEF CardReceives
  <2>4. CASE UNCHANGED <<ring, isr>>
    BY <1>0, <2>1, <2>2, <2>3, <2>4
  <2>5. CASE ring' = [ring EXCEPT ![card] = [own |-> FALSE, pkt |-> new]] /\ isr' = isr \union {"rx"}
    <3>1. \A s \in Slots : ring'[s] = IF s = card THEN [own |-> FALSE, pkt |-> new] ELSE ring[s]
      BY <2>5 DEF Typed, RingTyped, RingType
    <3>. HIDE DEF new
    <3>2. SUFFICES ASSUME NEW s \in 0 .. Scan - 1, Unanswered(s)'
                   PROVE  \/ h.at = "off" /\ "rx" \in isr'
                          \/ h.at \in {"scan", "sending"} /\ h.z <= s
      BY <2>3
    <3>3. CASE h.at = "off"
      BY <2>5, <3>3
    <3>4. CASE h.at # "off"
      <4>1. s # card
        BY <1>0, <2>3, <3>1, <3>2, <3>4
      <4>2. Unanswered(s)
        BY <1>0, <2>1, <2>2, <2>3, <3>1, <3>2, <4>1
      <4>. QED  BY <3>4, <4>2
    <3>. QED  BY <3>3, <3>4
  <2>. QED  BY <1>2, <2>4, <2>5 DEF CardReceives
<1>3. CASE CardSends
  BY <1>3 DEF CardSends
<1>4. CASE HandlerEnters
  BY <1>0, <1>4 DEF HandlerEnters
<1>5. CASE HandlerSkips
  <2>1. h.at = "scan" /\ h'.at = "scan" /\ h'.z = h.z + 1 /\ UNCHANGED <<ring, kind, behind>>
    BY <1>5 DEF HandlerSkips, Typed, HandlerTyped, HandlerType
  <2>2. ~Unanswered(h.z)
    BY <1>5 DEF HandlerSkips, Answerable
  <2>. QED  BY <1>0, <2>1, <2>2
<1>6. CASE HandlerSends
  BY <1>6 DEF HandlerSends, Typed, HandlerTyped, HandlerType
<1>7. CASE HandlerSent
  <2>1. h.at = "sending" /\ h'.at = "scan" /\ h'.z = h.z + 1 /\ UNCHANGED <<kind, behind>>
    BY <1>7 DEF HandlerSent, Typed, HandlerTyped, HandlerType
  <2>2. \A s \in Slots : ring'[s] = ring[s] \/ ring'[s].own
    <3>1. CASE ring' = [ring EXCEPT ![h.z].own = TRUE]
      BY <3>1 DEF Typed, RingTyped, RingType
    <3>. QED  BY <1>7, <3>1 DEF HandlerSent
  <2>3. h.z \in Slots /\ (KindOf(ring[h.z].pkt) = "request" => ring'[h.z].own)
    BY <1>0, <1>7 DEF HandlerSent, Typed, HandlerTyped, RingTyped, RingType
  <2>. QED  BY <1>0, <2>1, <2>2, <2>3
<1>8. CASE HandlerScanned
  BY <1>0, <1>8 DEF HandlerScanned
<1>9. CASE HandlerLeaves
  BY <1>9 DEF HandlerLeaves
<1>10. CASE rtl_sendPackage
  BY <1>1, <1>10 DEF rtl_sendPackage, SendWrites, SendClears, SendRings, SendReturns
<1>11. CASE ReceiveTakes
  BY <1>1, <1>11 DEF ReceiveTakes, Typed, RingTyped, RingType
<1>12. CASE ReceiveCalled \/ ReceiveLooks \/ ReceiveGivesUp
  BY <1>1, <1>12 DEF ReceiveCalled, ReceiveLooks, ReceiveGivesUp
<1>13. CASE UNCHANGED vars
  BY <1>1, <1>13 DEF vars
<1>. QED  BY <1>2, <1>3, <1>4, <1>5, <1>6, <1>7, <1>8, <1>9, <1>10, <1>11, <1>12, <1>13
          DEF Next, Card, irq_rtl8169, rtl_recievePackage

LEMMA AllAheadInit == ConstantsAssumption /\ Init => AllAhead
  BY DEF Init, AllAhead, Unanswered, ConstantsAssumption

(* When the card is at rest, its next descriptor is held back by no        *)
(* request that came while the handler was not running, if the handler     *)
(* looks at that descriptor at all.                                        *)
LEMMA AllAheadHolds == ConstantsAssumption /\ Typed /\ AllAhead => OnlyLeftoversBlock
  BY DEF AllAhead, Unanswered, OnlyLeftoversBlock, Typed, RingTyped, ConstantsAssumption

-----------------------------------------------------------------------------
(* The E1000, as MC_Cards instantiates it.                                 *)
USE DEF E!Packets, E!Mine, E!Main, E!receiving, E!sending, E!main, E!Rx, E!Tx

E1000Outgoing == {E!Mine(n) : n \in 0 .. SendsE} \union {E!Reply(p) : p \in 0 .. MaxPackets}
E1000RxType == [E!Rx -> [done : BOOLEAN, pkt : 0 .. MaxPackets]]
E1000TxType == [E!Tx -> [done : BOOLEAN, pkt : E1000Outgoing]]
E1000HandlerType == [at : {"off", "scan", "sending", "leave"}, i : 0 .. RxDescs, tx : E!Tx]

(* What every variable holds; a descriptor that is done holds a packet.    *)
E1000RxTyped ==
  /\ rx \in E1000RxType /\ head \in E!Rx /\ rdt \in E!Rx
  /\ kindE \in Seq(Kinds) /\ Len(kindE) <= MaxPackets /\ links \in 0 .. MaxPackets
  /\ \A d \in E!Rx : rx[d].pkt <= Len(kindE) /\ (rx[d].done => rx[d].pkt # 0)

E1000TxTyped ==
  /\ txs \in E1000TxType /\ tdh \in E!Tx /\ tdt \in E!Tx /\ tx_cur \in E!Tx

E1000HandlerTyped ==
  /\ icr \subseteq {"rx", "tx", "link"} /\ hE \in E1000HandlerType
  /\ hE.at = "sending" => hE.i < RxDescs /\ rx[hE.i].done

E1000MainTyped ==
  /\ pcE \in {"idle", "fill", "next", "store", "ring", "wait", "scan", "take", "give"} /\ i \in E!Rx
  /\ oldTx \in E!Tx /\ newTx \in E!Tx
  /\ sendsE \in 0 .. SendsE /\ gotE \subseteq E!Packets
  /\ pcE \in {"take", "give"} => rx[i].pkt # 0

E1000Typed == E1000RxTyped /\ E1000TxTyped /\ E1000HandlerTyped /\ E1000MainTyped

LEMMA E1000NextIndex ==
  ASSUME NEW n \in Nat \ {0}, NEW d \in 0 .. n - 1
  PROVE  (d + 1) % n = IF d = n - 1 THEN 0 ELSE d + 1
<1>1. CASE d = n - 1
  BY <1>1
<1>2. CASE d # n - 1
  BY <1>2
<1>. QED  BY <1>1, <1>2

LEMMA E1000TxGoesRound ==
  ASSUME E!E1000Constants, NEW d \in E!Tx
  PROVE  (d + 1) % TxDescs \in E!Tx
  BY DEF E!E1000Constants

LEMMA E1000RxGoesRound ==
  ASSUME E!E1000Constants, NEW d \in E!Rx
  PROVE  (d + 1) % RxDescs \in E!Rx
  BY DEF E!E1000Constants

(* A descriptor is emptied.                                                *)
LEMMA E1000Emptied ==
  ASSUME rx \in E1000RxType, NEW d \in E!Rx, rx' = [rx EXCEPT ![d].done = FALSE]
  PROVE  /\ rx' \in E1000RxType /\ ~rx'[d].done
         /\ \A e \in E!Rx : rx'[e].pkt = rx[e].pkt /\ (e # d => rx'[e] = rx[e])
<1>1. [rx[d] EXCEPT !.done = FALSE] \in [done : BOOLEAN, pkt : 0 .. MaxPackets]
  BY DEF E1000RxType
<1>. QED  BY <1>1 DEF E1000RxType

LEMMA E1000Sendable ==
  /\ \A p \in 0 .. MaxPackets : E!Reply(p) \in E1000Outgoing
  /\ \A n \in 0 .. SendsE : E!Mine(n) \in E1000Outgoing
BY Zenon DEF E1000Outgoing

LEMMA E1000TypedInit == E!E1000Constants /\ E!E1000Init => E1000Typed
<1>. SUFFICES ASSUME E!E1000Constants, E!E1000Init PROVE E1000Typed
  OBVIOUS
<1>. USE DEF E!E1000Constants, E!E1000Init, E1000RxType, E1000TxType, E1000HandlerType
<1>1. E1000RxTyped
  BY DEF E1000RxTyped
<1>2. E1000TxTyped
  <2>1. E!Junk \in E1000Outgoing
    BY DEF E!Junk, E1000Outgoing
  <2>2. txs = [d \in E!Tx |-> [done |-> TRUE, pkt |-> E!Junk]]
    BY Zenon
  <2>3. txs \in E1000TxType
    BY <2>1, <2>2
  <2>4. tdh \in E!Tx /\ tdt \in E!Tx /\ tx_cur \in E!Tx
    OBVIOUS
  <2>. QED  BY <2>3, <2>4 DEF E1000TxTyped
<1>3. E1000HandlerTyped
  BY DEF E1000HandlerTyped
<1>4. E1000MainTyped
  BY DEF E1000MainTyped
<1>. QED  BY <1>1, <1>2, <1>3, <1>4 DEF E1000Typed

(* The card fills a descriptor, whatever it held.                          *)
LEMMA E1000Filling ==
  ASSUME E!E1000Constants, E1000RxTyped, NEW k \in Kinds, E!CardReceives(k)
  PROVE  /\ E1000RxTyped' /\ Len(kindE') = Len(kindE) + 1 /\ Len(kindE) \in Nat
         /\ \A d \in E!Rx : rx'[d] = rx[d] \/ (rx'[d].done /\ rx'[d].pkt = Len(kindE) + 1)
<1>. USE DEF E!E1000Constants, E1000RxTyped
<1>. DEFINE new == Len(kindE) + 1
<1>1. kindE' \in Seq(Kinds) /\ Len(kindE') = new /\ new \in 1 .. MaxPackets /\ Len(kindE) \in Nat
  BY DEF E!CardReceives
<1>2. rx' = rx \/ rx' = [rx EXCEPT ![head] = [done |-> TRUE, pkt |-> new]]
  BY DEF E!CardReceives
<1>. HIDE DEF new
<1>3. rx' \in E1000RxType
  <2>1. [done |-> TRUE, pkt |-> new] \in [done : BOOLEAN, pkt : 0 .. MaxPackets]
    BY <1>1
  <2>. QED  BY <1>2, <2>1 DEF E1000RxType
<1>4. \A d \in E!Rx : rx'[d] = rx[d] \/ (rx'[d].done /\ rx'[d].pkt = new)
  BY <1>2 DEF E1000RxType
<1>5. head' \in E!Rx /\ rdt' = rdt
  BY E1000RxGoesRound DEF E!CardReceives
<1>6. \A d \in E!Rx : rx'[d].pkt <= new /\ (rx'[d].done => rx'[d].pkt # 0)
  <2>1. new = Len(kindE) + 1
    BY DEF new
  <2>. HIDE DEF E1000RxTyped
  <2>2. SUFFICES ASSUME NEW d \in E!Rx
                 PROVE  rx'[d].pkt <= new /\ (rx'[d].done => rx'[d].pkt # 0)
    OBVIOUS
  <2>3. rx[d].pkt \in Nat /\ rx[d].pkt <= Len(kindE) /\ (rx[d].done => rx[d].pkt # 0)
    BY DEF E1000RxTyped, E1000RxType
  <2>4. CASE rx'[d] = rx[d]
    BY <1>1, <2>1, <2>3, <2>4
  <2>5. CASE rx'[d].done /\ rx'[d].pkt = new
    BY <1>1, <2>5
  <2>. QED  BY <1>4, <2>4, <2>5
<1>7. E1000RxTyped'
  <2>1. links' = links
    BY Zenon DEF E!CardReceives
  <2>. QED  BY <1>1, <1>3, <1>5, <1>6, <2>1
<1>. QED  BY <1>1, <1>4, <1>7 DEF new

(* It fills its head, if the tail is not there, and goes on.               *)
LEMMA E1000FillsHead ==
  ASSUME E1000RxTyped, NEW k \in Kinds, E!CardReceives(k)
  PROVE  \/ UNCHANGED <<rx, head, lost>>
         \/ /\ head # rdt /\ head' = (head + 1) % RxDescs /\ lost' = (lost \/ rx[head].done)
            /\ \A d \in E!Rx : d # head => rx'[d] = rx[d]
            /\ rx'[head] = [done |-> TRUE, pkt |-> Len(kindE) + 1]
  BY DEF E!CardReceives, E1000RxTyped, E1000RxType

LEMMA E1000TypedCard ==
  ASSUME E!E1000Constants, E1000Typed, E!Card
  PROVE  E1000Typed'
<1>1. CASE E!CardSends
  <2>1. tdh' \in E!Tx /\ icr' \subseteq {"rx", "tx", "link"} /\ UNCHANGED <<tdt, tx_cur, E!receiving, E!main, hE>>
    BY <1>1, E1000TxGoesRound DEF E!CardSends, E1000Typed, E1000TxTyped, E1000HandlerTyped
  <2>2. txs' \in E1000TxType
    <3>1. [txs[tdh] EXCEPT !.done = TRUE] \in [done : BOOLEAN, pkt : E1000Outgoing]
      BY DEF E1000Typed, E1000TxTyped, E1000TxType
    <3>. QED  BY <1>1, <3>1 DEF E!CardSends, E1000Typed, E1000TxTyped, E1000TxType
  <2>3. E1000TxTyped'
    BY <2>1, <2>2 DEF E1000Typed, E1000TxTyped
  <2>4. E1000RxTyped' /\ E1000HandlerTyped' /\ E1000MainTyped'
    BY <2>1 DEF E1000Typed, E1000RxTyped, E1000HandlerTyped, E1000MainTyped
  <2>. QED  BY <2>3, <2>4 DEF E1000Typed
<1>2. ASSUME NEW k \in Kinds, E!CardReceives(k)
      PROVE  E1000Typed'
  <2>1. /\ E1000RxTyped' /\ Len(kindE) \in Nat
        /\ \A d \in E!Rx : rx'[d] = rx[d] \/ (rx'[d].done /\ rx'[d].pkt = Len(kindE) + 1)
    BY <1>2, E1000Filling DEF E1000Typed
  <2>2. icr' \subseteq {"rx", "tx", "link"} /\ UNCHANGED <<E!sending, E!main, hE>>
    BY <1>2 DEF E!CardReceives, E1000Typed, E1000HandlerTyped
  <2>3. E1000HandlerTyped'
    <3>1. hE.i \in 0 .. RxDescs /\ (hE.i < RxDescs => hE.i \in E!Rx)
      BY DEF E1000Typed, E1000HandlerTyped, E1000HandlerType, E!E1000Constants
    <3>. QED  BY <2>1, <2>2, <3>1 DEF E1000Typed, E1000HandlerTyped
  <2>4. E1000TxTyped'
    BY <2>2 DEF E1000Typed, E1000TxTyped
  <2>5. E1000MainTyped'
    BY <2>1, <2>2 DEF E1000Typed, E1000MainTyped
  <2>. QED  BY <2>1, <2>3, <2>4, <2>5 DEF E1000Typed
<1>3. CASE E!LinkChanges
  <2>1. links' \in 0 .. MaxPackets
    BY <1>3 DEF E!LinkChanges, E!E1000Constants, E1000Typed, E1000RxTyped
  <2>2. icr' \subseteq {"rx", "tx", "link"}
    BY <1>3 DEF E!LinkChanges, E1000Typed, E1000HandlerTyped
  <2>3. UNCHANGED <<rx, head, rdt, kindE, E!sending, E!main, hE>>
    BY <1>3 DEF E!LinkChanges
  <2>4. E1000RxTyped' /\ E1000TxTyped'
    BY <2>1, <2>3 DEF E1000Typed, E1000RxTyped, E1000TxTyped
  <2>5. E1000HandlerTyped' /\ E1000MainTyped'
    BY <2>2, <2>3 DEF E1000Typed, E1000HandlerTyped, E1000MainTyped
  <2>. QED  BY <2>4, <2>5 DEF E1000Typed
<1>. QED  BY <1>1, <1>2, <1>3 DEF E!Card

LEMMA E1000TypedHandler ==
  ASSUME E!E1000Constants, E1000Typed, E!irq_e1000
  PROVE  E1000Typed'
<1>. USE DEF E1000Typed, E1000RxTyped, E1000TxTyped, E1000HandlerTyped, E1000MainTyped
<1>0. hE.i \in 0 .. RxDescs /\ (hE.i < RxDescs => hE.i \in E!Rx /\ hE.i + 1 \in 0 .. RxDescs)
  BY DEF E1000HandlerType, E!E1000Constants
<1>z. 0 \in 0 .. RxDescs /\ 0 \in E!Tx
  BY DEF E!E1000Constants
<1>1. CASE E!HandlerEnters
  <2>1. hE' \in E1000HandlerType /\ hE'.at # "sending" /\ icr' = {}
    BY <1>1, <1>z DEF E!HandlerEnters, E1000HandlerType
  <2>2. UNCHANGED <<rx, head, rdt, kindE, links, txs, tdh, tdt, tx_cur, pcE, i, oldTx, newTx, sendsE, gotE>>
    BY <1>1 DEF E!HandlerEnters
  <2>. QED  BY <2>1, <2>2
<1>2. CASE E!HandlerSkips
  <2>1. hE' \in E1000HandlerType /\ hE'.at # "sending"
    BY <1>0, <1>2 DEF E!HandlerSkips, E1000HandlerType
  <2>2. UNCHANGED <<rx, head, rdt, kindE, links, txs, tdh, tdt, tx_cur, pcE, i, oldTx, newTx, sendsE, gotE, icr>>
    BY <1>2 DEF E!HandlerSkips
  <2>. QED  BY <2>1, <2>2
<1>3. CASE E!HandlerSends
  <2>1. hE' \in E1000HandlerType /\ hE'.i = hE.i /\ hE.i < RxDescs /\ rx[hE.i].done
    BY <1>3 DEF E!HandlerSends, E!Answerable, E1000HandlerType
  <2>2. txs' \in E1000TxType
    <3>1. [done |-> FALSE, pkt |-> E!Reply(rx[hE.i].pkt)] \in [done : BOOLEAN, pkt : E1000Outgoing]
      <4>1. rx[hE.i].pkt \in 0 .. MaxPackets
        BY <1>0, <2>1 DEF E1000RxType
      <4>2. E!Reply(rx[hE.i].pkt) \in E1000Outgoing
        BY <4>1, E1000Sendable, Zenon
      <4>. QED  BY <4>2
    <3>. QED  BY <1>3, <3>1 DEF E!HandlerSends, E1000TxType
  <2>3. tx_cur' \in E!Tx /\ tdt' \in E!Tx
    BY <1>3, E1000TxGoesRound DEF E!HandlerSends
  <2>4. UNCHANGED <<rx, head, rdt, kindE, links, tdh, pcE, i, oldTx, newTx, sendsE, gotE, icr>>
    BY <1>3 DEF E!HandlerSends
  <2>5. E1000TxTyped'
    BY <2>2, <2>3, <2>4
  <2>6. E1000RxTyped' /\ E1000MainTyped'
    BY <2>4
  <2>7. E1000HandlerTyped'
    BY <2>1, <2>4
  <2>. QED  BY <2>5, <2>6, <2>7
<1>4. CASE E!HandlerSent
  <2>1. hE' \in E1000HandlerType /\ hE'.at # "sending"
    BY <1>0, <1>4, <1>z DEF E!HandlerSent, E1000HandlerType
  <2>2. /\ rx' \in E1000RxType /\ rdt' \in E!Rx
        /\ \A d \in E!Rx : rx'[d].pkt = rx[d].pkt /\ (rx'[d].done => rx[d].done)
    <3>1. CASE UNCHANGED <<rx, rdt>>
      BY <3>1
    <3>2. CASE rx' = [rx EXCEPT ![hE.i].done = FALSE] /\ rdt' = hE.i
      BY <1>0, <1>4, <3>2, E1000Emptied DEF E!HandlerSent
    <3>. QED  BY <1>4, <3>1, <3>2 DEF E!HandlerSent, E!GiveBack
  <2>3. UNCHANGED <<head, kindE, links, txs, tdh, tdt, tx_cur, pcE, i, oldTx, newTx, sendsE, gotE, icr>>
    BY <1>4 DEF E!HandlerSent
  <2>4. E1000RxTyped'
    BY <2>2, <2>3
  <2>5. E1000TxTyped' /\ E1000HandlerTyped'
    BY <2>1, <2>3
  <2>6. E1000MainTyped'
    BY <2>2, <2>3
  <2>. QED  BY <2>4, <2>5, <2>6
<1>5. CASE E!HandlerLeaves
  <2>1. hE' \in E1000HandlerType /\ hE'.at # "sending"
    BY <1>5, <1>z DEF E!HandlerLeaves, E1000HandlerType
  <2>2. UNCHANGED <<rx, head, rdt, kindE, links, txs, tdh, tdt, tx_cur, pcE, i, oldTx, newTx, sendsE, gotE, icr>>
    BY <1>5 DEF E!HandlerLeaves
  <2>. QED  BY <2>1, <2>2
<1>. QED  BY <1>1, <1>2, <1>3, <1>4, <1>5 DEF E!irq_e1000

(* The two fields of a descriptor for sending are written.                 *)
LEMMA E1000Written ==
  ASSUME NEW desc \in [done : BOOLEAN, pkt : E1000Outgoing], NEW p \in E1000Outgoing
  PROVE  /\ [desc EXCEPT !.pkt = p] \in [done : BOOLEAN, pkt : E1000Outgoing]
         /\ [desc EXCEPT !.done = FALSE] \in [done : BOOLEAN, pkt : E1000Outgoing]
OBVIOUS

LEMMA E1000TypedSend ==
  ASSUME E!E1000Constants, E1000Typed, E!e1000_send_package
  PROVE  E1000Typed'
<1>0. UNCHANGED <<rx, head, rdt, kindE, links, icr, hE, i, gotE>>
  BY DEF E!e1000_send_package, E!SendWrites, E!SendFills, E!SendLoads, E!SendStores, E!SendRings,
       E!SendReturns
<1>1. E1000RxTyped' /\ E1000HandlerTyped'
  BY <1>0 DEF E1000Typed, E1000RxTyped, E1000HandlerTyped
<1>a. /\ txs \in [E!Tx -> [done : BOOLEAN, pkt : E1000Outgoing]]
      /\ tdh \in E!Tx /\ tdt \in E!Tx /\ tx_cur \in E!Tx
  BY DEF E1000Typed, E1000TxTyped, E1000TxType
<1>b. /\ i \in E!Rx /\ oldTx \in E!Tx /\ newTx \in E!Tx
      /\ sendsE \in 0 .. SendsE /\ gotE \subseteq E!Packets
  BY DEF E1000Typed, E1000MainTyped
<1>c. 0 \in E!Tx /\ SendsE \in Nat
  BY DEF E!E1000Constants
<1>d. ASSUME txs' \in [E!Tx -> [done : BOOLEAN, pkt : E1000Outgoing]],
             tdh' \in E!Tx, tdt' \in E!Tx, tx_cur' \in E!Tx
      PROVE  E1000TxTyped'
  BY <1>d DEF E1000TxTyped, E1000TxType
<1>e. ASSUME pcE' \in {"idle", "fill", "next", "store", "ring", "wait"},
             oldTx' \in E!Tx, newTx' \in E!Tx, sendsE' \in 0 .. SendsE
      PROVE  E1000MainTyped'
  BY <1>0, <1>b, <1>e DEF E1000MainTyped
<1>2. CASE E!SendWrites
  <2>1. /\ sendsE < SendsE /\ sendsE' = sendsE + 1 /\ oldTx' = tx_cur /\ pcE' = "fill"
        /\ txs' = [txs EXCEPT ![tx_cur].pkt = E!Mine(sendsE + 1)]
        /\ UNCHANGED <<newTx, tdh, tdt, tx_cur>>
    BY <1>2 DEF E!SendWrites
  <2>2. sendsE' \in 0 .. SendsE
    BY <1>b, <1>c, <2>1
  <2>3. txs' \in [E!Tx -> [done : BOOLEAN, pkt : E1000Outgoing]]
    <3>1. E!Mine(sendsE + 1) \in E1000Outgoing
      BY <2>1, <2>2, E1000Sendable, Zenon
    <3>2. [txs[tx_cur] EXCEPT !.pkt = E!Mine(sendsE + 1)] \in [done : BOOLEAN, pkt : E1000Outgoing]
      BY <1>a, <3>1, E1000Written, Zenon
    <3>. QED  BY <1>a, <2>1, <3>2
  <2>4. E1000TxTyped'
    BY <1>a, <1>d, <2>1, <2>3
  <2>5. E1000MainTyped'
    BY <1>a, <1>b, <1>e, <2>1, <2>2
  <2>. QED  BY <1>1, <2>4, <2>5 DEF E1000Typed
<1>3. CASE E!SendFills
  <2>1. /\ pcE' = "next" /\ txs' = [txs EXCEPT ![tx_cur].done = FALSE]
        /\ UNCHANGED <<sendsE, oldTx, newTx, tdh, tdt, tx_cur>>
    BY <1>3 DEF E!SendFills
  <2>2. txs' \in [E!Tx -> [done : BOOLEAN, pkt : E1000Outgoing]]
    <3>1. txs[tx_cur].pkt \in E1000Outgoing
      BY <1>a
    <3>2. [txs[tx_cur] EXCEPT !.done = FALSE] \in [done : BOOLEAN, pkt : E1000Outgoing]
      BY <1>a, <3>1, E1000Written, Zenon
    <3>. QED  BY <1>a, <2>1, <3>2
  <2>3. E1000TxTyped'
    BY <1>a, <1>d, <2>1, <2>2
  <2>4. E1000MainTyped'
    BY <1>b, <1>e, <2>1
  <2>. QED  BY <1>1, <2>3, <2>4 DEF E1000Typed
<1>4. CASE E!SendLoads
  <2>1. newTx' \in E!Tx /\ pcE' = "store" /\ UNCHANGED <<sendsE, oldTx, txs, tdh, tdt, tx_cur>>
    BY <1>4, <1>a, E1000TxGoesRound DEF E!SendLoads
  <2>2. E1000TxTyped'
    BY <1>a, <1>d, <2>1
  <2>3. E1000MainTyped'
    BY <1>b, <1>e, <2>1
  <2>. QED  BY <1>1, <2>2, <2>3 DEF E1000Typed
<1>5. CASE E!SendStores \/ E!SendRings
  <2>1. tx_cur' \in E!Tx /\ tdt' \in E!Tx /\ pcE' \in {"ring", "wait"} /\ UNCHANGED <<sendsE, oldTx, newTx, txs, tdh>>
    BY <1>5, <1>a, <1>b DEF E!SendStores, E!SendRings
  <2>2. E1000TxTyped'
    BY <1>a, <1>d, <2>1
  <2>3. E1000MainTyped'
    BY <1>b, <1>e, <2>1
  <2>. QED  BY <1>1, <2>2, <2>3 DEF E1000Typed
<1>6. CASE E!SendReturns
  <2>1. oldTx' \in E!Tx /\ newTx' \in E!Tx /\ pcE' = "idle" /\ UNCHANGED <<sendsE, txs, tdh, tdt, tx_cur>>
    BY <1>6, <1>c DEF E!SendReturns
  <2>2. E1000TxTyped'
    BY <1>a, <1>d, <2>1
  <2>3. E1000MainTyped'
    BY <1>b, <1>e, <2>1
  <2>. QED  BY <1>1, <2>2, <2>3 DEF E1000Typed
<1>. QED  BY <1>2, <1>3, <1>4, <1>5, <1>6 DEF E!e1000_send_package

LEMMA E1000TypedReceive ==
  ASSUME E!E1000Constants, E1000Typed, E!e1000_recieve_package
  PROVE  E1000Typed'
<1>. USE DEF E1000Typed, E1000RxTyped, E1000TxTyped, E1000HandlerTyped, E1000MainTyped
<1>0. UNCHANGED <<head, kindE, links, txs, tdh, tdt, tx_cur, icr, hE, oldTx, newTx, sendsE>> /\ hE.at = "off"
  BY DEF E!e1000_recieve_package, E!ReceiveCalled, E!ReceiveLooks, E!ReceiveTakes, E!ReceiveGives,
       E!ReceiveGivesUp
<1>z. 0 \in E!Rx
  BY DEF E!E1000Constants
<1>1. CASE E!ReceiveCalled \/ E!ReceiveGivesUp
  <2>1. i' \in E!Rx /\ pcE' \in {"scan", "idle"} /\ UNCHANGED <<rx, rdt, gotE>>
    BY <1>1, <1>z DEF E!ReceiveCalled, E!ReceiveGivesUp
  <2>. QED  BY <1>0, <2>1
<1>2. CASE E!ReceiveLooks
  <2>1. i' \in E!Rx /\ pcE' \in {"scan", "take"} /\ (pcE' = "take" => rx[i'].pkt # 0) /\ UNCHANGED <<rx, rdt, gotE>>
    BY <1>2, E1000RxGoesRound DEF E!ReceiveLooks
  <2>. QED  BY <1>0, <2>1
<1>3. CASE E!ReceiveTakes
  <2>1. rx[i].pkt \in E!Packets
    BY <1>3 DEF E!ReceiveTakes, E1000RxType
  <2>2. /\ rx' \in E1000RxType
        /\ \A d \in E!Rx : rx'[d].pkt = rx[d].pkt /\ (rx'[d].done => rx[d].done)
    BY <1>3, E1000Emptied DEF E!ReceiveTakes
  <2>3. pcE' = "give" /\ i' = i /\ gotE' \subseteq E!Packets /\ rdt' = rdt /\ rx[i].pkt # 0
    BY <1>3, <2>1 DEF E!ReceiveTakes, E!Got
  <2>4. E1000RxTyped'
    BY <1>0, <2>2, <2>3
  <2>5. E1000MainTyped'
    BY <1>0, <2>2, <2>3
  <2>. QED  BY <1>0, <2>4, <2>5
<1>4. CASE E!ReceiveGives
  <2>1. i' \in E!Rx /\ pcE' = "idle" /\ rdt' \in E!Rx /\ UNCHANGED <<rx, gotE>>
    BY <1>4, <1>z DEF E!ReceiveGives, E!GiveBack
  <2>. QED  BY <1>0, <2>1
<1>. QED  BY <1>1, <1>2, <1>3, <1>4 DEF E!e1000_recieve_package

LEMMA E1000TypedStep ==
  ASSUME E!E1000Constants, E1000Typed, [E!E1000Next]_(E!e1000Vars)
  PROVE  E1000Typed'
<1>1. CASE UNCHANGED E!e1000Vars
  BY <1>1 DEF E!e1000Vars, E1000Typed, E1000RxTyped, E1000TxTyped, E1000HandlerTyped, E1000MainTyped
<1>. QED  BY <1>1, E1000TypedCard, E1000TypedHandler, E1000TypedSend, E1000TypedReceive DEF E!E1000Next

-----------------------------------------------------------------------------
(* No packet stands in two descriptors, and none that the network code has *)
(* taken stands in one that is done, or in the one it has looked at.       *)
E1000TakenOnce ==
  /\ \A d, e \in E!Rx : rx[d].pkt = rx[e].pkt /\ rx[d].pkt # 0 => d = e
  /\ \A d \in E!Rx : rx[d].done => rx[d].pkt \notin gotE
  /\ pcE = "take" => rx[i].pkt \notin gotE
  /\ \A p \in gotE : p <= Len(kindE)
  /\ twiceE = FALSE

LEMMA E1000TakenOnceStep ==
  ASSUME E!E1000Constants, E1000Typed, E1000TakenOnce, [E!E1000Next]_(E!e1000Vars)
  PROVE  E1000TakenOnce'
<1>. USE DEF E1000Typed, E1000RxTyped, E1000MainTyped, E1000TakenOnce
<1>1. ASSUME UNCHANGED <<rx, kindE, gotE, twiceE, i>>, pcE' = "take" => pcE = "take"
      PROVE  E1000TakenOnce'
  BY <1>1
<1>2. ASSUME NEW k \in Kinds, E!CardReceives(k)
      PROVE  E1000TakenOnce'
  <2>1. Len(kindE') = Len(kindE) + 1 /\ Len(kindE) \in Nat /\ UNCHANGED <<gotE, twiceE, pcE, i>>
    BY <1>2, E1000Filling DEF E!CardReceives
  <2>2. CASE rx' = rx
    BY <2>1, <2>2 DEF E1000RxType
  <2>3. CASE \A d \in E!Rx : rx'[d] = IF d = head THEN [done |-> TRUE, pkt |-> Len(kindE) + 1] ELSE rx[d]
    <3>2. \A d \in E!Rx : rx[d].pkt \in Nat /\ rx[d].pkt <= Len(kindE)
      BY DEF E1000RxType
    <3>3. Len(kindE) + 1 \notin gotE
      BY <2>1
    <3>4. \A d, e \in E!Rx : rx'[d].pkt = rx'[e].pkt /\ rx'[d].pkt # 0 => d = e
      <4>1. rx'[head].pkt = Len(kindE) + 1 /\ \A d \in E!Rx : d # head => rx'[d] = rx[d] /\ rx'[d].pkt # Len(kindE) + 1
        BY <2>1, <2>3, <3>2
      <4>. QED  BY <4>1
    <3>5. \A d \in E!Rx : (rx'[d].done => rx'[d].pkt \notin gotE) /\ (rx[d].pkt \notin gotE => rx'[d].pkt \notin gotE)
      BY <2>3, <3>3
    <3>6. \A p \in gotE : p <= Len(kindE')
      BY <2>1
    <3>. QED  BY <2>1, <3>4, <3>5, <3>6
  <2>. QED  BY <1>2, <2>2, <2>3, E1000FillsHead
<1>3. CASE E!HandlerSent
  <2>1. UNCHANGED <<kindE, gotE, twiceE, pcE, i>> /\ hE.i \in E!Rx
    BY <1>3 DEF E!HandlerSent, E1000HandlerTyped, E1000HandlerType, E!E1000Constants
  <2>2. \A d \in E!Rx : rx'[d].pkt = rx[d].pkt /\ (rx'[d].done => rx[d].done)
    <3>1. CASE rx' = rx
      BY <3>1
    <3>2. CASE rx' = [rx EXCEPT ![hE.i].done = FALSE]
      BY <2>1, <3>2, E1000Emptied
    <3>. QED  BY <1>3, <3>1, <3>2 DEF E!HandlerSent
  <2>. QED  BY <2>1, <2>2
<1>4. CASE E!ReceiveLooks
  BY <1>4 DEF E!ReceiveLooks
<1>5. CASE E!ReceiveTakes
  <2>1. rx[i].pkt # 0 /\ rx[i].pkt \notin gotE /\ rx[i].pkt <= Len(kindE) /\ pcE' = "give" /\ UNCHANGED kindE
    BY <1>5 DEF E!ReceiveTakes
  <2>2. gotE' = gotE \union {rx[i].pkt} /\ twiceE' = FALSE
    BY <1>5, <2>1 DEF E!ReceiveTakes, E!Got
  <2>3. /\ ~rx'[i].done
        /\ \A d \in E!Rx : rx'[d].pkt = rx[d].pkt /\ (d # i => rx'[d] = rx[d])
    BY <1>5, E1000Emptied DEF E!ReceiveTakes
  <2>4. \A d \in E!Rx : rx'[d].done => rx'[d].pkt \notin gotE'
    BY <2>1, <2>2, <2>3
  <2>. QED  BY <2>1, <2>2, <2>3, <2>4
<1>6. CASE E!CardSends \/ E!LinkChanges \/ E!HandlerEnters \/ E!HandlerSkips \/ E!HandlerSends \/ E!HandlerLeaves
  BY <1>1, <1>6 DEF E!CardSends, E!LinkChanges, E!HandlerEnters, E!HandlerSkips, E!HandlerSends, E!HandlerLeaves
<1>7. CASE E!e1000_send_package
  BY <1>1, <1>7 DEF E!e1000_send_package, E!SendWrites, E!SendFills, E!SendLoads, E!SendStores,
       E!SendRings, E!SendReturns
<1>8. CASE E!ReceiveCalled \/ E!ReceiveGives \/ E!ReceiveGivesUp
  <2>1. UNCHANGED <<rx, kindE, gotE, twiceE>> /\ pcE' # "take"
    BY <1>8 DEF E!ReceiveCalled, E!ReceiveGives, E!ReceiveGivesUp
  <2>. QED  BY <2>1
<1>9. CASE UNCHANGED E!e1000Vars
  BY <1>1, <1>9 DEF E!e1000Vars
<1>. QED  BY <1>2, <1>3, <1>4, <1>5, <1>6, <1>7, <1>8, <1>9 DEF E!E1000Next, E!Card, E!irq_e1000,
     E!e1000_recieve_package

LEMMA E1000TakenOnceInit == E!E1000Constants /\ E!E1000Init => E1000TakenOnce
  BY DEF E!E1000Constants, E!E1000Init, E1000TakenOnce

-----------------------------------------------------------------------------
(* As long as the handler answers nothing, the packet of the main flow is  *)
(* in the descriptor it was put in, which is done only when it is out; the *)
(* tail follows tx_cur.                                                    *)
E1000InSend == pcE \in {"fill", "next", "store", "ring", "wait"}

E1000OneSend ==
  sendsE > 0 /\ ~repliedE =>
    /\ E1000InSend => txs[oldTx].pkt = E!Mine(sendsE)
    /\ pcE \in {"fill", "next", "store"} => oldTx = tx_cur
    /\ pcE \in {"next", "store", "ring", "wait"} /\ txs[oldTx].done => E!Mine(sendsE) \in sentE
    /\ ~E1000InSend => E!Mine(sendsE) \in sentE
    /\ pcE = "wait" \/ ~E1000InSend => tdt = tx_cur

LEMMA E1000OneSendStep ==
  ASSUME E!E1000Constants, E1000Typed, E1000OneSend, [E!E1000Next]_(E!e1000Vars)
  PROVE  E1000OneSend'
<1>. USE DEF E1000OneSend, E1000InSend
<1>0. txs \in E1000TxType /\ tdh \in E!Tx /\ tx_cur \in E!Tx /\ oldTx \in E!Tx /\ sendsE \in Nat
  BY DEF E1000Typed, E1000TxTyped, E1000MainTyped
<1>1. ASSUME UNCHANGED <<txs, tx_cur, tdt, oldTx, sendsE, sentE, repliedE>>, pcE' = pcE \/ (~E1000InSend /\ ~E1000InSend')
      PROVE  E1000OneSend'
  BY <1>1
<1>2. CASE E!CardSends
  <2>1. /\ txs'[tdh].pkt = txs[tdh].pkt /\ \A d \in E!Tx : d # tdh => txs'[d] = txs[d]
        /\ sentE' = sentE \union {txs[tdh].pkt} /\ UNCHANGED <<tx_cur, tdt, oldTx, sendsE, repliedE, pcE>>
    BY <1>0, <1>2 DEF E!CardSends, E1000TxType
  <2>. QED  BY <1>0, <2>1
<1>3. CASE \E k \in Kinds : E!CardReceives(k)
  BY <1>1, <1>3 DEF E!CardReceives
<1>4. CASE E!HandlerSends
  BY <1>4 DEF E!HandlerSends
<1>5. CASE E!LinkChanges \/ E!HandlerEnters \/ E!HandlerSkips \/ E!HandlerSent \/ E!HandlerLeaves
  BY <1>1, <1>5 DEF E!LinkChanges, E!HandlerEnters, E!HandlerSkips, E!HandlerSent, E!HandlerLeaves
<1>6. CASE E!SendWrites
  BY <1>0, <1>6 DEF E!SendWrites, E1000TxType
<1>7. CASE E!SendFills
  BY <1>0, <1>7 DEF E!SendFills, E1000TxType
<1>8. CASE E!SendLoads \/ E!SendStores \/ E!SendRings \/ E!SendReturns
  BY <1>8 DEF E!SendLoads, E!SendStores, E!SendRings, E!SendReturns
<1>9. CASE E!e1000_recieve_package
  BY <1>1, <1>9 DEF E!e1000_recieve_package, E!ReceiveCalled, E!ReceiveLooks, E!ReceiveTakes,
       E!ReceiveGives, E!ReceiveGivesUp
<1>10. CASE UNCHANGED E!e1000Vars
  BY <1>1, <1>10 DEF E!e1000Vars
<1>. QED  BY <1>2, <1>3, <1>4, <1>5, <1>6, <1>7, <1>8, <1>9, <1>10 DEF E!E1000Next, E!Card, E!irq_e1000,
     E!e1000_send_package

-----------------------------------------------------------------------------
(* The descriptors behind the tail and before the head, where the ring     *)
(* goes round, are those that were filled and not given back; of two of    *)
(* them one was filled before the other.                                   *)
E1000Waits(tail, first, d) == IF tail < first THEN tail < d /\ d < first ELSE tail < d \/ d < first
E1000Before(tail, d, e) == (d > tail /\ e < tail) \/ ((d > tail <=> e > tail) /\ d < e)

(* As long as they are given back in the order they were filled: what is   *)
(* done waits, or has been given back as the last when the card had filled *)
(* it a second time; what waits is done, but for one that the main flow    *)
(* has emptied and not given back; and packets waiting are younger than    *)
(* the one at the tail, which is the youngest of the others.               *)
E1000InOrder ==
  /\ ~lost
  /\ \A d \in E!Rx : rx[d].done => E1000Waits(rdt, head, d) \/ d = rdt
  /\ \A d \in E!Rx : E1000Waits(rdt, head, d) => rx[d].done \/ (pcE = "give" /\ d = i)
  /\ \A d, e \in E!Rx : E1000Waits(rdt, head, d) /\ E1000Waits(rdt, head, e) /\ E1000Before(rdt, d, e) =>
        rx[d].pkt < rx[e].pkt
  /\ \A d \in E!Rx : IF E1000Waits(rdt, head, d) THEN rx[rdt].pkt < rx[d].pkt ELSE rx[d].pkt <= rx[rdt].pkt

LEMMA E1000HeadMoves ==
  ASSUME E!E1000Constants, head \in E!Rx, rdt \in E!Rx, head # rdt,
         head' = (head + 1) % RxDescs, rdt' = rdt
  PROVE  /\ ~E1000Waits(rdt, head, head)
         /\ \A d \in E!Rx : E1000Waits(rdt', head', d) <=> E1000Waits(rdt, head, d) \/ d = head
         /\ \A d \in E!Rx : E1000Waits(rdt, head, d) => ~E1000Before(rdt, head, d)
         /\ \A d, e \in E!Rx : E1000Before(rdt', d, e) <=> E1000Before(rdt, d, e)
<1>. USE DEF E!E1000Constants, E1000Waits, E1000Before
<1>1. head' = IF head = RxDescs - 1 THEN 0 ELSE head + 1
  BY E1000NextIndex
<1>. QED  BY <1>1

LEMMA E1000TailMoves ==
  ASSUME E!E1000Constants, head \in E!Rx, rdt \in E!Rx, NEW d \in E!Rx, E1000Waits(rdt, head, d), head' = head, rdt' = d
  PROVE  /\ \A e \in E!Rx : E1000Waits(rdt', head', e) <=> E1000Waits(rdt, head, e) /\ E1000Before(rdt, d, e)
         /\ \A e \in E!Rx : E1000Waits(rdt, head, e) /\ e # d => E1000Before(rdt, d, e) \/ E1000Before(rdt, e, d)
         /\ \A e, f \in E!Rx : E1000Waits(rdt', head', e) /\ E1000Waits(rdt', head', f) /\ E1000Before(rdt', e, f) =>
              E1000Before(rdt, e, f)
<1>. USE DEF E!E1000Constants, E1000Waits, E1000Before
<1>. QED  OBVIOUS

LEMMA E1000InOrderCard ==
  ASSUME E!E1000Constants, E1000Typed, E1000InOrder, NEW k \in Kinds, E!CardReceives(k)
  PROVE  E1000InOrder'
<1>. USE DEF E1000Typed, E1000RxTyped
<1>0. UNCHANGED <<rdt, pcE, i>>
  BY DEF E!CardReceives
<1>1. CASE UNCHANGED <<rx, head, lost>>
  BY <1>0, <1>1 DEF E1000InOrder, E1000Waits, E1000Before
<1>2. CASE /\ head # rdt /\ head' = (head + 1) % RxDescs /\ lost' = (lost \/ rx[head].done)
           /\ \A d \in E!Rx : d # head => rx'[d] = rx[d]
           /\ rx'[head] = [done |-> TRUE, pkt |-> Len(kindE) + 1]
  <2>1. /\ ~E1000Waits(rdt, head, head)
        /\ \A d \in E!Rx : E1000Waits(rdt', head', d) <=> E1000Waits(rdt, head, d) \/ d = head
        /\ \A d \in E!Rx : E1000Waits(rdt, head, d) => ~E1000Before(rdt, head, d)
        /\ \A d, e \in E!Rx : E1000Before(rdt', d, e) <=> E1000Before(rdt, d, e)
    BY <1>0, <1>2, E1000HeadMoves
  <2>2. ~lost'
    BY <1>2, <2>1 DEF E1000InOrder
  <2>3. \A d \in E!Rx : rx[d].pkt \in Nat /\ rx[d].pkt < Len(kindE) + 1 /\ Len(kindE) \in Nat
    BY DEF E1000RxType
  <2>4. rx'[rdt'] = rx[rdt] /\ rx'[head].done /\ rx'[head].pkt = Len(kindE) + 1
    BY <1>0, <1>2
  <2>5. \A d \in E!Rx : /\ rx'[d].done => E1000Waits(rdt', head', d) \/ d = rdt'
                        /\ E1000Waits(rdt', head', d) => rx'[d].done \/ (pcE' = "give" /\ d = i')
    BY <1>0, <1>2, <2>1, <2>4 DEF E1000InOrder
  <2>6. \A d, e \in E!Rx : E1000Waits(rdt', head', d) /\ E1000Waits(rdt', head', e) /\ E1000Before(rdt', d, e) =>
                         rx'[d].pkt < rx'[e].pkt
    <3>1. SUFFICES ASSUME NEW d \in E!Rx, NEW e \in E!Rx, E1000Waits(rdt', head', d), E1000Waits(rdt', head', e), E1000Before(rdt', d, e)
                   PROVE  rx'[d].pkt < rx'[e].pkt
      OBVIOUS
    <3>2. E1000Before(rdt, d, e) /\ (E1000Waits(rdt, head, d) \/ d = head) /\ (E1000Waits(rdt, head, e) \/ e = head)
      BY <2>1, <3>1
    <3>3. d # head
      <4>1. ~E1000Before(rdt, head, head)
        BY DEF E1000Before
      <4>. QED  BY <2>1, <3>2, <4>1
    <3>4. CASE e = head
      BY <1>2, <2>3, <2>4, <3>3, <3>4
    <3>5. CASE e # head
      BY <1>2, <3>2, <3>3, <3>5 DEF E1000InOrder
    <3>. QED  BY <3>4, <3>5
  <2>7. \A d \in E!Rx : IF E1000Waits(rdt', head', d) THEN rx'[rdt'].pkt < rx'[d].pkt ELSE rx'[d].pkt <= rx'[rdt'].pkt
    <3>1. SUFFICES ASSUME NEW d \in E!Rx
                   PROVE  IF E1000Waits(rdt', head', d) THEN rx[rdt].pkt < rx'[d].pkt ELSE rx'[d].pkt <= rx[rdt].pkt
      BY <2>4
    <3>2. CASE d = head
      BY <2>1, <2>3, <2>4, <3>2
    <3>3. CASE d # head
      BY <1>2, <2>1, <3>3 DEF E1000InOrder
    <3>. QED  BY <3>2, <3>3
  <2>. QED  BY <2>2, <2>5, <2>6, <2>7 DEF E1000InOrder
<1>. QED  BY <1>1, <1>2, E1000FillsHead

(* The tail moves to a descriptor, in order.                               *)
LEMMA E1000InOrderGiveBack ==
  ASSUME E!E1000Constants, E1000Typed, E1000TakenOnce, E1000InOrder, NEW d \in E!Rx,
         rx[d].pkt # 0, ~E!OutOfOrder(d),
         rdt' = d, head' = head, lost' = lost,
         \A e \in E!Rx : rx'[e].pkt = rx[e].pkt /\ (e # d => rx'[e] = rx[e]),
         pcE = "give" => d = i \/ (pcE' = "give" /\ i' = i)
  PROVE  E1000InOrder'
<1>. USE DEF E1000Typed, E1000RxTyped
<1>1. \A e \in E!Rx : rx[e].pkt \in Nat
  BY DEF E1000RxType
<1>2. \A e \in E!Rx : rx[e].done => ~(rx[e].pkt < rx[d].pkt)
  BY DEF E!OutOfOrder
<1>3. ~(rx[rdt].pkt > rx[d].pkt)
  BY DEF E!OutOfOrder
<1>4. CASE ~E1000Waits(rdt, head, d)
  <2>1. rx[d].pkt <= rx[rdt].pkt
    BY <1>4 DEF E1000InOrder
  <2>2. rx[d].pkt = rx[rdt].pkt
    BY <1>1, <1>3, <2>1
  <2>3. d = rdt
    BY <2>2 DEF E1000TakenOnce
  <2>4. UNCHANGED rdt /\ (\A e \in E!Rx : E1000Waits(rdt', head', e) <=> E1000Waits(rdt, head, e))
        /\ (\A e, f \in E!Rx : E1000Before(rdt', e, f) <=> E1000Before(rdt, e, f))
    BY <2>3 DEF E1000Waits, E1000Before
  <2>. QED  BY <1>4, <2>3, <2>4 DEF E1000InOrder
<1>5. CASE E1000Waits(rdt, head, d)
  <2>1. /\ \A e \in E!Rx : E1000Waits(rdt', head', e) <=> E1000Waits(rdt, head, e) /\ E1000Before(rdt, d, e)
        /\ \A e \in E!Rx : E1000Waits(rdt, head, e) /\ e # d => E1000Before(rdt, d, e) \/ E1000Before(rdt, e, d)
        /\ \A e, f \in E!Rx : E1000Waits(rdt', head', e) /\ E1000Waits(rdt', head', f) /\ E1000Before(rdt', e, f) =>
              E1000Before(rdt, e, f)
    BY <1>5, E1000TailMoves
  <2>2. ~E1000Waits(rdt', head', d) /\ ~lost'
    <3>1. ~E1000Before(rdt, d, d)
      BY DEF E1000Before
    <3>. QED  BY <2>1, <3>1 DEF E1000InOrder
  <2>3. rx[rdt].pkt < rx[d].pkt
    BY <1>5 DEF E1000InOrder
  <2>4. \A e \in E!Rx : rx'[e].done => E1000Waits(rdt', head', e) \/ e = rdt'
    <3>1. SUFFICES ASSUME NEW e \in E!Rx, rx[e].done, e # d
                   PROVE  E1000Waits(rdt, head, e) /\ E1000Before(rdt, d, e)
      BY <2>1
    <3>2. e # rdt
      BY <1>2, <2>3, <3>1
    <3>3. E1000Waits(rdt, head, e)
      BY <3>1, <3>2 DEF E1000InOrder
    <3>4. ~E1000Before(rdt, e, d)
      BY <1>2, <1>5, <3>1, <3>3 DEF E1000InOrder
    <3>. QED  BY <2>1, <3>1, <3>3, <3>4
  <2>5. \A e \in E!Rx : E1000Waits(rdt', head', e) => rx'[e].done \/ (pcE' = "give" /\ e = i')
    BY <2>1, <2>2 DEF E1000InOrder
  <2>6. \A e, f \in E!Rx : E1000Waits(rdt', head', e) /\ E1000Waits(rdt', head', f) /\ E1000Before(rdt', e, f) =>
                         rx'[e].pkt < rx'[f].pkt
    BY <2>1 DEF E1000InOrder
  <2>7. \A e \in E!Rx : IF E1000Waits(rdt', head', e) THEN rx'[rdt'].pkt < rx'[e].pkt ELSE rx'[e].pkt <= rx'[rdt'].pkt
    <3>1. SUFFICES ASSUME NEW e \in E!Rx
                   PROVE  IF E1000Waits(rdt', head', e) THEN rx[d].pkt < rx[e].pkt ELSE rx[e].pkt <= rx[d].pkt
      OBVIOUS
    <3>2. CASE E1000Waits(rdt', head', e)
      BY <1>5, <2>1, <3>2 DEF E1000InOrder
    <3>3. CASE ~E1000Waits(rdt', head', e) /\ E1000Waits(rdt, head, e)
      <4>1. e = d \/ E1000Before(rdt, e, d)
        BY <2>1, <3>3
      <4>2. E1000Before(rdt, e, d) => rx[e].pkt < rx[d].pkt
        BY <1>5, <3>3 DEF E1000InOrder
      <4>. QED  BY <1>1, <3>3, <4>1, <4>2
    <3>4. CASE ~E1000Waits(rdt, head, e)
      <4>1. rx[e].pkt <= rx[rdt].pkt
        BY <3>4 DEF E1000InOrder
      <4>. QED  BY <1>1, <2>1, <2>3, <3>4, <4>1
    <3>. QED  BY <3>2, <3>3, <3>4
  <2>. QED  BY <2>2, <2>4, <2>5, <2>6, <2>7 DEF E1000InOrder
<1>. QED  BY <1>4, <1>5

LEMMA E1000InOrderStep ==
  ASSUME E!E1000Constants, E1000Typed, E1000TakenOnce, overtaken \/ E1000InOrder, [E!E1000Next]_(E!e1000Vars)
  PROVE  (overtaken \/ E1000InOrder)'
<1>1. ASSUME UNCHANGED <<rx, head, rdt, lost, overtaken, i>>, pcE' = "give" <=> pcE = "give"
      PROVE  (overtaken \/ E1000InOrder)'
  BY <1>1 DEF E1000InOrder, E1000Waits, E1000Before
<1>2. CASE overtaken
  BY <1>2 DEF E!E1000Next, E!Card, E!CardSends, E!LinkChanges, E!CardReceives, E!irq_e1000, E!HandlerEnters,
       E!HandlerSkips, E!HandlerSends,
              E!HandlerSent, E!HandlerLeaves, E!GiveBack, E!e1000_send_package, E!SendWrites, E!SendFills, E!SendLoads,
              E!SendStores, E!SendRings, E!SendReturns, E!e1000_recieve_package, E!ReceiveCalled, E!ReceiveLooks,
              E!ReceiveTakes, E!ReceiveGives, E!ReceiveGivesUp, E!e1000Vars
<1>3. CASE E1000InOrder /\ ~overtaken
  <2>1. CASE \E k \in Kinds : E!CardReceives(k)
    BY <1>3, <2>1, E1000InOrderCard
  <2>2. CASE E!HandlerSent
    <3>1. hE.i \in E!Rx /\ rx[hE.i].done /\ rx[hE.i].pkt # 0
      BY <2>2 DEF E!HandlerSent, E1000Typed, E1000RxTyped, E1000HandlerTyped, E1000HandlerType,
           E!E1000Constants
    <3>2. UNCHANGED <<head, lost, pcE, i>>
      BY <2>2 DEF E!HandlerSent
    <3>3. CASE UNCHANGED <<rx, rdt, overtaken>>
      BY <1>1, <3>2, <3>3
    <3>4. CASE rx' = [rx EXCEPT ![hE.i].done = FALSE] /\ E!GiveBack(hE.i)
      <4>1. \A e \in E!Rx : rx'[e].pkt = rx[e].pkt /\ (e # hE.i => rx'[e] = rx[e])
        BY <3>1, <3>4, E1000Emptied DEF E1000Typed, E1000RxTyped
      <4>2. CASE E!OutOfOrder(hE.i)
        BY <3>4, <4>2 DEF E!GiveBack
      <4>3. CASE ~E!OutOfOrder(hE.i)
        BY <1>3, <3>1, <3>2, <3>4, <4>1, <4>3, E1000InOrderGiveBack DEF E!GiveBack
      <4>. QED  BY <4>2, <4>3
    <3>. QED  BY <2>2, <3>3, <3>4 DEF E!HandlerSent
  <2>3. CASE E!ReceiveTakes
    <3>1. UNCHANGED <<head, rdt, lost, i>> /\ pcE = "take" /\ pcE' = "give"
      BY <2>3 DEF E!ReceiveTakes
    <3>2. ~rx'[i].done /\ \A e \in E!Rx : rx'[e].pkt = rx[e].pkt /\ (e # i => rx'[e] = rx[e])
      BY <2>3, E1000Emptied DEF E!ReceiveTakes, E1000Typed, E1000RxTyped, E1000MainTyped
    <3>3. \A e \in E!Rx : E1000Waits(rdt', head', e) <=> E1000Waits(rdt, head, e)
      BY <3>1 DEF E1000Waits
    <3>4. \A e, f \in E!Rx : E1000Before(rdt', e, f) <=> E1000Before(rdt, e, f)
      BY <3>1 DEF E1000Before
    <3>5. E1000InOrder'
      BY <1>3, <3>1, <3>2, <3>3, <3>4 DEF E1000InOrder, E1000Typed, E1000RxTyped
    <3>. QED  BY <3>5
  <2>4. CASE E!ReceiveGives
    <3>1. i \in E!Rx /\ rx[i].pkt # 0 /\ UNCHANGED <<rx, head, lost>> /\ pcE = "give" /\ E!GiveBack(i)
      BY <2>4 DEF E!ReceiveGives, E1000Typed, E1000MainTyped
    <3>2. CASE E!OutOfOrder(i)
      BY <3>1, <3>2 DEF E!GiveBack
    <3>3. CASE ~E!OutOfOrder(i)
      BY <1>3, <3>1, <3>3, E1000InOrderGiveBack DEF E!GiveBack
    <3>. QED  BY <3>2, <3>3
  <2>5. CASE E!CardSends \/ E!LinkChanges \/ E!HandlerEnters \/ E!HandlerSkips \/ E!HandlerSends \/ E!HandlerLeaves
    BY <1>1, <2>5 DEF E!CardSends, E!LinkChanges, E!HandlerEnters, E!HandlerSkips, E!HandlerSends, E!HandlerLeaves
  <2>6. CASE E!e1000_send_package
    BY <1>1, <2>6 DEF E!e1000_send_package, E!SendWrites, E!SendFills, E!SendLoads, E!SendStores,
         E!SendRings, E!SendReturns
  <2>7. CASE E!ReceiveCalled \/ E!ReceiveLooks \/ E!ReceiveGivesUp
    <3>1. UNCHANGED <<rx, head, rdt, lost>> /\ pcE # "give"
      BY <2>7 DEF E!ReceiveCalled, E!ReceiveLooks, E!ReceiveGivesUp
    <3>. QED  BY <1>3, <3>1 DEF E1000InOrder, E1000Waits, E1000Before
  <2>8. CASE UNCHANGED E!e1000Vars
    BY <1>1, <2>8 DEF E!e1000Vars
  <2>. QED  BY <2>1, <2>2, <2>3, <2>4, <2>5, <2>6, <2>7, <2>8
            DEF E!E1000Next, E!Card, E!irq_e1000, E!e1000_recieve_package
<1>. QED  BY <1>2, <1>3

LEMMA E1000InOrderInit == E!E1000Constants /\ E!E1000Init => E1000InOrder
  BY DEF E!E1000Constants, E!E1000Init, E1000InOrder, E1000Waits, E1000Before

(* With descriptors given back in order the ring is never both full to the *)
(* card and empty to the driver.                                           *)
LEMMA E1000InOrderHears ==
  ASSUME E!E1000Constants, E1000Typed, overtaken \/ E1000InOrder
  PROVE  E!HearsOn
<1>1. ASSUME E1000InOrder, E!Deaf
      PROVE  FALSE
  <2>1. PICK d \in E!Rx : d # rdt
    <3>1. 0 \in E!Rx /\ 1 \in E!Rx
      BY DEF E!E1000Constants
    <3>. QED  BY <3>1
  <2>2. E1000Waits(rdt, head, d)
    BY <1>1, <2>1 DEF E!Deaf, E1000Waits, E1000Typed, E1000RxTyped, E!E1000Constants
  <2>. QED  BY <1>1, <2>2 DEF E!Deaf, E1000InOrder
<1>. QED  BY <1>1 DEF E!HearsOn, E1000InOrder

-----------------------------------------------------------------------------
E1000Sound == E1000Typed /\ E1000TakenOnce /\ E1000OneSend /\ (overtaken \/ E1000InOrder)

LEMMA E1000SoundInit == E!E1000Constants /\ E!E1000Init => E1000Sound
<1>1. E!E1000Init => E1000OneSend
  BY DEF E!E1000Init, E1000OneSend
<1>. QED  BY <1>1, E1000TypedInit, E1000TakenOnceInit, E1000InOrderInit DEF E1000Sound

LEMMA E1000SoundStep ==
  ASSUME E!E1000Constants, E1000Sound, [E!E1000Next]_(E!e1000Vars)
  PROVE  E1000Sound'
  BY E1000TypedStep, E1000TakenOnceStep, E1000OneSendStep, E1000InOrderStep DEF E1000Sound

LEMMA E1000SoundHolds ==
  ASSUME E!E1000Constants, E1000Sound
  PROVE  E!E1000Type /\ E!NoneTwice /\ E!SentOnReturn /\ E!HearsOn
<1>1. twiceE = FALSE => E!E1000Type
  BY DEF E1000Sound, E1000Typed, E1000RxTyped, E1000TxTyped, E1000HandlerTyped, E1000MainTyped,
       E1000RxType, E1000TxType, E1000HandlerType, E!E1000Type
<1>2. E!NoneTwice
  BY DEF E1000Sound, E1000TakenOnce, E!NoneTwice
<1>3. E!SentOnReturn
  BY DEF E1000Sound, E1000OneSend, E1000InSend, E!SentOnReturn
<1>4. E!HearsOn
  BY E1000InOrderHears DEF E1000Sound
<1>5. twiceE = FALSE
  BY DEF E1000Sound, E1000TakenOnce
<1>. QED  BY <1>1, <1>2, <1>3, <1>4, <1>5

-----------------------------------------------------------------------------
(* The invariants of both, of which a step changes one.                    *)
RtlSound == Typed /\ Flags /\ TakenOnce /\ OneSend /\ AllAhead
BothSound == RtlSound /\ E1000Sound

LEMMA RtlSoundStep ==
  ASSUME RtlSound, [Next]_vars
  PROVE  RtlSound'
  BY ConstantsAssumption, TypedStep, FlagsStep, TakenOnceStep, OneSendStep, AllAheadStep DEF RtlSound

LEMMA BothSoundInit == MCInit => BothSound
<1>1. Init => RtlSound
  BY ConstantsAssumption, TypedInit, TakenOnceInit, OneSendInit, AllAheadInit DEF RtlSound
<1>2. E!E1000Init => E1000Sound
  BY E1000Assumption, E1000SoundInit
<1>. QED  BY <1>1, <1>2 DEF MCInit, BothSound

LEMMA BothSoundStep == BothSound /\ [MCNext]_cardsVars => BothSound'
<1>. SUFFICES ASSUME BothSound, [MCNext]_cardsVars PROVE BothSound'
  OBVIOUS
<1>1. [Next]_vars
  BY DEF MCNext, OfRtl, OfE1000, cardsVars
<1>2. E!E1000Next \/ UNCHANGED e1000
  BY DEF MCNext, OfRtl, OfE1000, cardsVars
<1>3. UNCHANGED e1000 => UNCHANGED E!e1000Vars
  BY DEF e1000, E!e1000Vars, E!receiving, E!sending, E!main
<1>. QED  BY <1>1, <1>2, <1>3, E1000Assumption, RtlSoundStep, E1000SoundStep DEF BothSound

LEMMA BothSoundAlways == MCSpec => []BothSound
<1>. QED  BY BothSoundInit, BothSoundStep, PTL DEF MCSpec

LEMMA BothSoundHolds == BothSound => NeitherTwice /\ BothSentOnReturn /\ BothHearOn
<1>. SUFFICES ASSUME BothSound PROVE NeitherTwice /\ BothSentOnReturn /\ BothHearOn
  OBVIOUS
<1>1. TypeOK /\ NoneTwice /\ SentOnReturn /\ OnlyLeftoversBlock
  BY ConstantsAssumption, TypedIsTypeOK, OneSendHolds, AllAheadHolds DEF BothSound, RtlSound, TakenOnce,
       NoneTwice
<1>2. E!E1000Type /\ E!NoneTwice /\ E!SentOnReturn /\ E!HearsOn
  BY E1000Assumption, E1000SoundHolds DEF BothSound
<1>. QED  BY <1>1, <1>2 DEF NeitherTwice, BothSentOnReturn, BothHearOn

(* The network code gets no packet twice from either card, whatever the    *)
(* interrupt handler does between the look at a descriptor and the take    *)
(* (RTL8169.c:110-134, e1000.c:227-236).                                   *)
THEOREM NoPacketTwice == MCSpec => []NeitherTwice
<1>. QED  BY BothSoundAlways, BothSoundHolds, PTL

(* When a send returns its packet is out, or is the next to go, unless the *)
(* handler has answered something meanwhile (RTL8169.c:97-107,             *)
(* e1000.c:196-206).                                                       *)
THEOREM PacketIsOut == MCSpec => []BothSentOnReturn
<1>. QED  BY BothSoundAlways, BothSoundHolds, PTL

(* The RTL8169 is held back by no request that the handler looks at; the   *)
(* E1000 overwrites nothing and is never left deaf while descriptors are   *)
(* given back in order (RTL8169.c:50-60, e1000.c:181-186).                 *)
THEOREM CardsHearOn == MCSpec => []BothHearOn
<1>. QED  BY BothSoundAlways, BothSoundHolds, PTL
=============================================================================
