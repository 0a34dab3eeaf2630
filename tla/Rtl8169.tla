------------------------------ MODULE Rtl8169 -------------------------------
(***************************************************************************)
(* kernel/dev/RTL8169.c: the descriptor rings that the driver shares with  *)
(* the card, its interrupt handler, and the two functions that the network *)
(* code calls; with ethernet_handle_package of kernel/dev/ethernet.c, that *)
(* the handler calls for every packet it sees.                             *)
(*                                                                         *)
(* The card fills the descriptors it owns one after the other.  The        *)
(* handler looks at the first Scan of them: it answers what it can and     *)
(* gives those descriptors back; the other packets stay for                *)
(* rtl_recievePackage.  Every packet to send, of the main flow and of the  *)
(* handler, goes through descriptor 0 of the transmit ring.                *)
(***************************************************************************)
EXTENDS Naturals, Sequences, FiniteSets

CONSTANTS
  Descs,       (* descriptors of the receive ring (1024)                   *)
  Scan,        (* those the driver looks at (100)                          *)
  Kinds,       (* the kinds of packets that arrive                         *)
  MaxPackets, MaxSends     (* bounds: packets that arrive, packets sent    *)

(* "request" is answered and given back (ARP, ping, TCP); "block" is       *)
(* answered and left for the main flow (TFTP); "other" is left.            *)
ASSUME ConstantsAssumption ==
  /\ Scan \in Nat \ {0} /\ Descs \in Nat /\ Scan <= Descs
  /\ Kinds \subseteq {"request", "block", "other"}
  /\ MaxPackets \in Nat /\ MaxSends \in Nat

VARIABLES
  ring,        (* Rx_Descriptors: OWN and the packet in the buffer         *)
  kind,        (* the kinds of the packets that arrived, in order          *)
  card,        (* the descriptor the card fills next                       *)
  isr,         (* the card's interrupt status                              *)
  h,           (* irq_rtl8169: where it is, its z, the status it read      *)
  tx,          (* Tx_Descriptors[0]: OWN and the packet                    *)
  doorbell,    (* the card is asked to look at it                          *)
  package_send_ack,
  pc, z,       (* the main flow and its z                                  *)
  sends,       (* the packets the main flow has begun to send              *)
  sent,        (* what went over the wire                                  *)
  got, twice,  (* what rtl_recievePackage returned; one of them twice      *)
  \* the rest is history
  behind,      (* the packets that came while the handler was running      *)
  replied      (* it has answered something since the send began           *)

cardVars == <<kind, card, isr, sent, behind>>
mainVars == <<pc, z, sends, got, twice>>
vars == <<ring, h, tx, doorbell, package_send_ack, cardVars, mainVars, replied>>

Slots == 0 .. Descs - 1
Packets == 1 .. MaxPackets
None == 0
Mine(n) == <<"main", n>>
Reply(p) == <<"reply", p>>
Outgoing == {Mine(n) : n \in 0 .. MaxSends} \union {Reply(p) : p \in Packets}

TypeOK ==
  /\ ring \in [Slots -> [own : BOOLEAN, pkt : Packets \union {None}]]
  /\ kind \in Seq(Kinds) /\ Len(kind) <= MaxPackets
  /\ card \in Slots
  /\ isr \subseteq {"rx", "tx"}
  /\ h \in [at : {"off", "scan", "sending", "ack"}, z : 0 .. Scan, status : SUBSET {"rx", "tx"}]
  /\ tx \in [own : BOOLEAN, pkt : Outgoing]
  /\ doorbell \in BOOLEAN /\ package_send_ack \in 0 .. 1
  /\ pc \in {"idle", "clear", "ring", "wait", "scan", "take"} /\ z \in 0 .. Scan - 1
  /\ sends \in 0 .. MaxSends
  /\ sent \subseteq Outgoing
  /\ got \subseteq Packets /\ twice \in BOOLEAN
  /\ behind \subseteq Packets /\ replied \in BOOLEAN

(* init_rtl: every descriptor belongs to the card.                         *)
Init ==
  /\ ring = [s \in Slots |-> [own |-> TRUE, pkt |-> None]]
  /\ kind = <<>> /\ card = 0 /\ isr = {}
  /\ h = [at |-> "off", z |-> 0, status |-> {}]
  /\ tx = [own |-> FALSE, pkt |-> Mine(0)]
  /\ doorbell = FALSE /\ package_send_ack = 0
  /\ pc = "idle" /\ z = 0 /\ sends = 0 /\ sent = {} /\ got = {} /\ twice = FALSE
  /\ behind = {} /\ replied = FALSE

-----------------------------------------------------------------------------
(* The card.  A packet that finds no descriptor is dropped.                *)
CardReceives(k) ==
  /\ Len(kind) < MaxPackets
  /\ kind' = Append(kind, k)
  /\ IF ring[card].own
     THEN /\ ring' = [ring EXCEPT ![card] = [own |-> FALSE, pkt |-> Len(kind) + 1]]
          /\ card' = (card + 1) % Descs
          /\ isr' = isr \union {"rx"}
     ELSE UNCHANGED <<ring, card, isr>>
  /\ behind' = IF h.at = "off" THEN behind ELSE behind \union {Len(kind) + 1}
  /\ UNCHANGED <<h, tx, doorbell, package_send_ack, sent, mainVars, replied>>

CardSends ==
  /\ doorbell
  /\ doorbell' = FALSE
  /\ IF tx.own
     THEN sent' = sent \union {tx.pkt} /\ tx' = [tx EXCEPT !.own = FALSE] /\ isr' = isr \union {"tx"}
     ELSE UNCHANGED <<sent, tx, isr>>
  /\ UNCHANGED <<ring, kind, card, h, package_send_ack, behind, mainVars, replied>>

-----------------------------------------------------------------------------
(* The interrupt handler.                                                  *)
HandlerEnters ==
  /\ h.at = "off" /\ isr # {}
  /\ h' = [at |-> IF "rx" \in isr THEN "scan" ELSE "ack", z |-> 0, status |-> isr]
  /\ UNCHANGED <<ring, tx, doorbell, package_send_ack, cardVars, mainVars, replied>>

KindOf(p) == kind[p]
Answerable(d) == ~d.own /\ KindOf(d.pkt) # "other"

(* Mutant: the scan ends at the first descriptor with nothing to answer.   *)
HandlerSkips_Ends ==
  /\ h.at = "scan" /\ h.z < Scan
  /\ ~Answerable(ring[h.z])
  /\ h' = [h EXCEPT !.z = Scan]
  /\ UNCHANGED <<ring, tx, doorbell, package_send_ack, cardVars, mainVars, replied>>

(* ethernet_handle_package sends no answer, and returns 0.                 *)
HandlerSkips ==
  /\ h.at = "scan" /\ h.z < Scan
  /\ ~Answerable(ring[h.z])
  /\ h' = [h EXCEPT !.z = @ + 1]
  /\ UNCHANGED <<ring, tx, doorbell, package_send_ack, cardVars, mainVars, replied>>

(* It sends an answer.                                                     *)
HandlerSends ==
  /\ h.at = "scan" /\ h.z < Scan
  /\ Answerable(ring[h.z])
  /\ tx' = [own |-> TRUE, pkt |-> Reply(ring[h.z].pkt)]
  /\ package_send_ack' = 0
  /\ doorbell' = TRUE
  /\ h' = [h EXCEPT !.at = "sending"]
  /\ replied' = TRUE
  /\ UNCHANGED <<ring, cardVars, mainVars>>

(* Mutant: the descriptor is not given back.                               *)
HandlerSent_Keeps ==
  /\ h.at = "sending" /\ ~doorbell
  /\ h' = [h EXCEPT !.at = "scan", !.z = @ + 1]
  /\ UNCHANGED <<ring, tx, doorbell, package_send_ack, cardVars, mainVars, replied>>

(* The wait of rtl_sendPackage can only end by polling: the card's         *)
(* interrupt is masked.  A request is handled, a block is not.             *)
HandlerSent ==
  /\ h.at = "sending" /\ ~doorbell
  /\ h' = [h EXCEPT !.at = "scan", !.z = @ + 1]
  /\ ring' = IF KindOf(ring[h.z].pkt) = "request" THEN [ring EXCEPT ![h.z].own = TRUE] ELSE ring
  /\ package_send_ack' = 0
  /\ UNCHANGED <<tx, doorbell, cardVars, mainVars, replied>>

HandlerScanned ==
  /\ h.at = "scan" /\ h.z = Scan
  /\ h' = [h EXCEPT !.at = "ack"]
  /\ UNCHANGED <<ring, tx, doorbell, package_send_ack, cardVars, mainVars, replied>>

(* The status that was read is written back, which clears those bits.      *)
HandlerLeaves ==
  /\ h.at = "ack"
  /\ package_send_ack' = IF "tx" \in h.status THEN 1 ELSE package_send_ack
  /\ isr' = isr \ h.status
  /\ h' = [at |-> "off", z |-> 0, status |-> {}]
  /\ UNCHANGED <<ring, kind, card, tx, doorbell, sent, behind, mainVars, replied>>

irq_rtl8169 == HandlerEnters \/ HandlerSkips \/ HandlerSends \/ HandlerSent \/ HandlerScanned \/ HandlerLeaves

-----------------------------------------------------------------------------
(* The main flow: it stands still while the handler runs.                  *)
Main(p) == pc = p /\ h.at = "off"

(* rtl_sendPackage writes the descriptor, *)
SendWrites ==
  /\ Main("idle")
  /\ sends < MaxSends
  /\ sends' = sends + 1
  /\ tx' = [own |-> TRUE, pkt |-> Mine(sends + 1)]
  /\ pc' = "clear"
  /\ replied' = FALSE
  /\ UNCHANGED <<ring, h, doorbell, package_send_ack, z, got, twice, cardVars>>

SendClears ==
  /\ Main("clear")
  /\ package_send_ack' = 0
  /\ pc' = "ring"
  /\ UNCHANGED <<ring, h, tx, doorbell, z, sends, got, twice, cardVars, replied>>

SendRings ==
  /\ Main("ring")
  /\ doorbell' = TRUE
  /\ pc' = "wait"
  /\ UNCHANGED <<ring, h, tx, package_send_ack, z, sends, got, twice, cardVars, replied>>

(* "wait for int or end of polling".                                       *)
SendReturns ==
  /\ Main("wait")
  /\ package_send_ack = 1 \/ ~doorbell
  /\ package_send_ack' = 0
  /\ pc' = "idle"
  /\ UNCHANGED <<ring, h, tx, doorbell, z, sends, got, twice, cardVars, replied>>

(* rtl_recievePackage looks for a descriptor, round and round, *)
ReceiveCalled ==
  /\ Main("idle")
  /\ pc' = "scan" /\ z' = 0
  /\ UNCHANGED <<ring, h, tx, doorbell, package_send_ack, sends, got, twice, cardVars, replied>>

ReceiveLooks ==
  /\ Main("scan")
  /\ IF ring[z].own THEN z' = (z + 1) % Scan /\ UNCHANGED pc
                    ELSE pc' = "take" /\ UNCHANGED z
  /\ UNCHANGED <<ring, h, tx, doorbell, package_send_ack, sends, got, twice, cardVars, replied>>

Got(p) == got' = got \union {p} /\ twice' = (twice \/ p \in got)

(* takes the packet and gives the descriptor back; *)
ReceiveTakes ==
  /\ Main("take")
  /\ ring' = [ring EXCEPT ![z].own = TRUE]
  /\ Got(ring[z].pkt)
  /\ pc' = "idle" /\ z' = 0
  /\ UNCHANGED <<h, tx, doorbell, package_send_ack, sends, cardVars, replied>>

(* after ten ticks, at the end of a round, it returns nothing.             *)
ReceiveGivesUp ==
  /\ Main("scan")
  /\ z = 0
  /\ pc' = "idle"
  /\ UNCHANGED <<ring, h, tx, doorbell, package_send_ack, z, sends, got, twice, cardVars, replied>>

rtl_sendPackage == SendWrites \/ SendClears \/ SendRings \/ SendReturns
rtl_recievePackage == ReceiveCalled \/ ReceiveLooks \/ ReceiveTakes \/ ReceiveGivesUp

Card == CardSends \/ \E k \in Kinds : CardReceives(k)

Next == Card \/ irq_rtl8169 \/ rtl_sendPackage \/ rtl_recievePackage

-----------------------------------------------------------------------------
(* The network code gets no packet twice (RTL8169.c:110-134), whatever the *)
(* interrupt handler does between its look and its take.                   *)
NoneTwice == ~twice

(* When rtl_sendPackage returns, its packet has gone out or is the one the *)
(* card is about to send - the interrupt of an earlier packet may end the  *)
(* wait - unless the handler has answered something meanwhile.             *)
OnTheWay(pkt) == pkt \in sent \/ (doorbell /\ tx = [own |-> TRUE, pkt |-> pkt])
SentOnReturn == pc = "idle" /\ sends > 0 /\ ~replied => OnTheWay(Mine(sends))

(* A send comes back, whatever packets the handler answers meanwhile with  *)
(* the same descriptor, doorbell and flag (RTL8169.c:97-107).              *)
Begun == pc = "clear"
Back == pc = "idle"

(* A request (ARP, ping, TCP) in a descriptor the driver looks at, that    *)
(* came while the handler was not running, is answered, unless the network *)
(* code took it first (RTL8169.c:50-60).                                   *)
Seen(p) == \E s \in 0 .. Scan - 1 : ring[s] = [own |-> FALSE, pkt |-> p]
Returned(p) == p \in got
Asked(p) == Seen(p) /\ KindOf(p) = "request" /\ p \notin behind
Answered(p) == Reply(p) \in sent \/ Returned(p)

(* The card's next descriptor is held back only by a packet that was left  *)
(* for rtl_recievePackage (RTL8169.c:52-60), by one that came while the    *)
(* handler was running, or by one beyond those the driver looks at.        *)
OnlyLeftoversBlock ==
  ~ring[card].own /\ h.at = "off" /\ isr = {} =>
    \/ KindOf(ring[card].pkt) # "request"
    \/ ring[card].pkt \in behind
    \/ card >= Scan
=============================================================================
