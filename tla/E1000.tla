------------------------------- MODULE E1000 --------------------------------
(***************************************************************************)
(* kernel/dev/e1000.c: the rings that the driver shares with an E1000, its *)
(* interrupt handler with ethernet_handle_package of ethernet.c, and the   *)
(* two functions that the network code calls.                              *)
(*                                                                         *)
(* Of the receive ring the card owns the descriptors from its head up to   *)
(* the tail, without it, whatever they hold; the driver moves the tail to  *)
(* the descriptor it emptied last.  Of the transmit ring the card owns     *)
(* those from head to tail; tx_cur is the next to use.                     *)
(***************************************************************************)
EXTENDS Naturals, Sequences

CONSTANTS
  RxDescs, TxDescs,        (* sizes of the rings: 32 and 8                 *)
  Kinds,                   (* of packets, as in Rtl8169                    *)
  MaxPackets, MaxSends     (* bounds: packets that arrive with changes of  *)
                           (* the link, packets sent                       *)

(* The rings; the code has more than one descriptor to receive in.         *)
E1000Constants ==
  /\ RxDescs \in Nat /\ RxDescs > 1 /\ TxDescs \in Nat \ {0}
  /\ MaxPackets \in Nat /\ MaxSends \in Nat

VARIABLES
  rx,          (* rx_descs: done and the packet                            *)
  head, rdt,   (* head and tail of the card                                *)
  icr,         (* the causes of interrupts                                 *)
  kind,        (* the kinds of the packets that arrived, in order          *)
  links,       (* changes of the link so far                               *)
  txs,         (* tx_descs: done and the packet                            *)
  tdh, tdt,    (* head and tail of the card                                *)
  tx_cur,
  h,           (* irq_e1000: where it is, its i, the descriptor it sends   *)
  pc, i,       (* the main flow, and its loop                              *)
  oldTx, newTx,(* its old, and the new tx_cur before it is stored           *)
  sends, sent, (* packets it has begun to send; what went over the sent    *)
  got, twice,  (* what e1000_recieve_package returned; one of them twice   *)
  \* the rest is history
  merged,      (* packets whose interrupt came with one of another cause   *)
  replied,     (* the handler has answered something since the send began  *)
  torn,        (* it has, between the load and the store of tx_cur         *)
  overtaken,   (* a descriptor was given back before one filled earlier    *)
  lost         (* the card filled one that was not empty                   *)

receiving == <<rx, head, rdt, kind, links, merged, overtaken, lost>>
sending == <<txs, tdh, tdt, tx_cur, sent, torn>>
main == <<pc, i, oldTx, newTx, sends, got, twice>>
e1000Vars == <<receiving, sending, main, icr, h, replied>>

Rx == 0 .. RxDescs - 1
Tx == 0 .. TxDescs - 1
Packets == 1 .. MaxPackets
Mine(n) == <<"main", n>>
Reply(p) == <<"reply", p>>
Junk == Mine(0)

E1000Type ==
  /\ rx \in [Rx -> [done : BOOLEAN, pkt : 0 .. MaxPackets]] /\ head \in Rx /\ rdt \in Rx
  /\ icr \subseteq {"rx", "tx", "link"} /\ kind \in Seq(Kinds) /\ links \in 0 .. MaxPackets
  /\ tdh \in Tx /\ tdt \in Tx /\ tx_cur \in Tx /\ oldTx \in Tx /\ newTx \in Tx
  /\ h \in [at : {"off", "scan", "sending", "leave"}, i : 0 .. RxDescs, tx : Tx]
  /\ pc \in {"idle", "fill", "next", "store", "ring", "wait", "scan", "take", "give"} /\ i \in Rx
  /\ sends \in 0 .. MaxSends /\ got \subseteq Packets /\ twice \in BOOLEAN

(* init_e1000; the card has run through the empty transmit descriptors up  *)
(* to the first tail.                                                      *)
E1000Init ==
  /\ rx = [d \in Rx |-> [done |-> FALSE, pkt |-> 0]] /\ head = 0 /\ rdt = RxDescs - 1
  /\ icr = {} /\ kind = <<>> /\ links = 0
  /\ txs = [d \in Tx |-> [done |-> TRUE, pkt |-> Junk]]
  /\ tdh = TxDescs - 1 /\ tdt = TxDescs - 1 /\ tx_cur = 0
  /\ h = [at |-> "off", i |-> 0, tx |-> 0]
  /\ pc = "idle" /\ i = 0 /\ oldTx = 0 /\ newTx = 0 /\ sends = 0 /\ sent = {} /\ got = {} /\ twice = FALSE
  /\ merged = {} /\ replied = FALSE /\ torn = FALSE /\ overtaken = FALSE /\ lost = FALSE

-----------------------------------------------------------------------------
(* The card.  A packet that finds no descriptor is dropped.                *)
CardReceives(k) ==
  /\ Len(kind) + links < MaxPackets
  /\ kind' = Append(kind, k)
  /\ IF head # rdt
     THEN /\ rx' = [rx EXCEPT ![head] = [done |-> TRUE, pkt |-> Len(kind) + 1]]
          /\ lost' = (lost \/ rx[head].done)
          /\ head' = (head + 1) % RxDescs
          /\ icr' = icr \union {"rx"}
     ELSE UNCHANGED <<rx, lost, head, icr>>
  /\ UNCHANGED <<rdt, links, merged, overtaken, sending, main, h, replied>>

CardSends ==
  /\ tdh # tdt
  /\ sent' = sent \union {txs[tdh].pkt}
  /\ txs' = [txs EXCEPT ![tdh].done = TRUE]
  /\ tdh' = (tdh + 1) % TxDescs
  /\ icr' = icr \union {"tx"}
  /\ UNCHANGED <<tdt, tx_cur, torn, receiving, main, h, replied>>

(* The cable comes off or on.                                              *)
LinkChanges ==
  /\ Len(kind) + links < MaxPackets
  /\ links' = links + 1
  /\ icr' = icr \union {"link"}
  /\ UNCHANGED <<rx, head, rdt, kind, merged, overtaken, lost, sending, main, h, replied>>

-----------------------------------------------------------------------------
(* A descriptor is given back: out of order if an older packet stays, or   *)
(* if the tail goes back.                                                  *)
OutOfOrder(d) == (\E j \in Rx : rx[j].done /\ rx[j].pkt < rx[d].pkt) \/ rx[rdt].pkt > rx[d].pkt
GiveBack(d) == rdt' = d /\ overtaken' = (overtaken \/ OutOfOrder(d))

(* The handler.  The causes are read, which clears them; one of them is    *)
(* handled: a transmission or a change of the link before a reception, and *)
(* then the ring is not looked at.                                         *)
Filled == {rx[d].pkt : d \in {j \in Rx : rx[j].done}}
Before == {"tx", "link"}
HandlerEnters ==
  /\ h.at = "off" /\ icr # {}
  /\ icr' = {}
  /\ h' = [h EXCEPT !.at = IF icr \intersect Before # {} THEN "leave" ELSE "scan", !.i = 0]
  /\ merged' = IF icr \intersect Before # {} THEN merged \union Filled ELSE merged
  /\ UNCHANGED <<rx, head, rdt, kind, links, overtaken, lost, sending, main, replied>>

Answerable(d) == d.done /\ kind[d.pkt] # "other"

HandlerSkips ==
  /\ h.at = "scan" /\ h.i < RxDescs /\ ~Answerable(rx[h.i])
  /\ h' = [h EXCEPT !.i = @ + 1]
  /\ UNCHANGED <<receiving, sending, main, icr, replied>>

(* ethernet_handle_package sends an answer by e1000_send_package.          *)
HandlerSends ==
  /\ h.at = "scan" /\ h.i < RxDescs /\ Answerable(rx[h.i])
  /\ txs' = [txs EXCEPT ![tx_cur] = [done |-> FALSE, pkt |-> Reply(rx[h.i].pkt)]]
  /\ tx_cur' = (tx_cur + 1) % TxDescs /\ tdt' = tx_cur'
  /\ h' = [h EXCEPT !.at = "sending", !.tx = tx_cur]
  /\ replied' = TRUE /\ torn' = (torn \/ pc = "store")
  /\ UNCHANGED <<tdh, sent, receiving, main, icr>>

(* A request is handled, a block is left.                                  *)
HandlerSent ==
  /\ h.at = "sending" /\ txs[h.tx].done
  /\ h' = [at |-> "scan", i |-> h.i + 1, tx |-> 0]
  /\ IF kind[rx[h.i].pkt] = "request"
     THEN rx' = [rx EXCEPT ![h.i].done = FALSE] /\ GiveBack(h.i)
     ELSE UNCHANGED <<rx, rdt, overtaken>>
  /\ UNCHANGED <<head, kind, links, merged, lost, sending, main, icr, replied>>

HandlerLeaves ==
  /\ h.at = "leave" \/ (h.at = "scan" /\ h.i = RxDescs)
  /\ h' = [at |-> "off", i |-> 0, tx |-> 0]
  /\ UNCHANGED <<receiving, sending, main, icr, replied>>

irq_e1000 == HandlerEnters \/ HandlerSkips \/ HandlerSends \/ HandlerSent \/ HandlerLeaves

-----------------------------------------------------------------------------
(* The main flow stands still while the handler runs.                      *)
Main(p) == pc = p /\ h.at = "off"

(* e1000_send_package puts the packet in a descriptor, *)
SendWrites ==
  /\ Main("idle") /\ sends < MaxSends
  /\ sends' = sends + 1
  /\ oldTx' = tx_cur
  /\ txs' = [txs EXCEPT ![tx_cur].pkt = Mine(sends + 1)]
  /\ replied' = FALSE
  /\ pc' = "fill"
  /\ UNCHANGED <<tdh, tdt, tx_cur, sent, torn, receiving, i, newTx, got, twice, icr, h>>

(* clears the status: the file is built with -O0, tx_cur is read again at  *)
(* every use;                                                              *)
SendFills ==
  /\ Main("fill")
  /\ txs' = [txs EXCEPT ![tx_cur].done = FALSE]
  /\ pc' = "next"
  /\ UNCHANGED <<tdh, tdt, tx_cur, sent, torn, receiving, i, oldTx, newTx, sends, got, twice, icr, h, replied>>

(* tx_cur = (tx_cur + 1) % 8, the load and the store;                      *)
SendLoads ==
  /\ Main("next")
  /\ newTx' = (tx_cur + 1) % TxDescs
  /\ pc' = "store"
  /\ UNCHANGED <<sending, receiving, i, oldTx, sends, got, twice, icr, h, replied>>

SendStores ==
  /\ Main("store")
  /\ tx_cur' = newTx
  /\ pc' = "ring"
  /\ UNCHANGED <<txs, tdh, tdt, sent, torn, receiving, i, oldTx, newTx, sends, got, twice, icr, h, replied>>

(* Mutant: the tail is the descriptor of the packet.                       *)
SendRings_Old ==
  /\ Main("ring")
  /\ tdt' = oldTx /\ pc' = "wait"
  /\ UNCHANGED <<txs, tdh, tx_cur, sent, torn, receiving, i, oldTx, newTx, sends, got, twice, icr, h, replied>>

(* moves the tail;                                                         *)
SendRings ==
  /\ Main("ring")
  /\ tdt' = tx_cur /\ pc' = "wait"
  /\ UNCHANGED <<txs, tdh, tx_cur, sent, torn, receiving, i, oldTx, newTx, sends, got, twice, icr, h, replied>>

(* Mutant: it does not wait.                                               *)
SendReturns_AtOnce ==
  /\ Main("wait") /\ pc' = "idle" /\ oldTx' = 0 /\ newTx' = 0
  /\ UNCHANGED <<sending, receiving, i, sends, got, twice, icr, h, replied>>

(* and waits for the status.                                               *)
SendReturns ==
  /\ Main("wait") /\ txs[oldTx].done
  /\ pc' = "idle" /\ oldTx' = 0 /\ newTx' = 0
  /\ UNCHANGED <<sending, receiving, i, sends, got, twice, icr, h, replied>>

(* e1000_recieve_package looks from the first descriptor, round and round, *)
ReceiveCalled ==
  /\ Main("idle")
  /\ pc' = "scan" /\ i' = 0
  /\ UNCHANGED <<sending, receiving, oldTx, newTx, sends, got, twice, icr, h, replied>>

ReceiveLooks ==
  /\ Main("scan")
  /\ IF rx[i].done THEN pc' = "take" /\ UNCHANGED i ELSE i' = (i + 1) % RxDescs /\ UNCHANGED pc
  /\ UNCHANGED <<sending, receiving, oldTx, newTx, sends, got, twice, icr, h, replied>>

Got(p) == got' = got \union {p} /\ twice' = (twice \/ p \in got)

(* Mutant: the descriptor stays done.                                      *)
ReceiveTakes_Keeps ==
  /\ Main("take")
  /\ Got(rx[i].pkt) /\ pc' = "give"
  /\ UNCHANGED <<sending, receiving, i, oldTx, newTx, sends, icr, h, replied>>

(* takes a packet, *)
ReceiveTakes ==
  /\ Main("take")
  /\ Got(rx[i].pkt) /\ rx' = [rx EXCEPT ![i].done = FALSE]
  /\ pc' = "give"
  /\ UNCHANGED <<head, rdt, kind, links, merged, overtaken, lost, sending, i, oldTx, newTx, sends, icr, h, replied>>

(* and moves the tail;                                                     *)
ReceiveGives ==
  /\ Main("give")
  /\ GiveBack(i)
  /\ pc' = "idle" /\ i' = 0
  /\ UNCHANGED <<rx, head, kind, links, merged, lost, sending, oldTx, newTx, sends, got, twice, icr, h, replied>>

(* after ten ticks, at the end of a round, it returns nothing.             *)
ReceiveGivesUp ==
  /\ Main("scan") /\ i = 0
  /\ pc' = "idle"
  /\ UNCHANGED <<sending, receiving, i, oldTx, newTx, sends, got, twice, icr, h, replied>>

e1000_send_package == SendWrites \/ SendFills \/ SendLoads \/ SendStores \/ SendRings \/ SendReturns
e1000_recieve_package == ReceiveCalled \/ ReceiveLooks \/ ReceiveTakes \/ ReceiveGives \/ ReceiveGivesUp

Card == CardSends \/ LinkChanges \/ \E k \in Kinds : CardReceives(k)
E1000Next == Card \/ irq_e1000 \/ e1000_send_package \/ e1000_recieve_package

-----------------------------------------------------------------------------
(* The network code gets no packet twice, whatever the handler does        *)
(* between the look and the take (e1000.c:227-236).                        *)
NoneTwice == ~twice

(* When e1000_send_package returns its packet has gone out, and the tail   *)
(* is at tx_cur, so that nothing stale is sent - unless the handler has    *)
(* sent an answer meanwhile: both use tx_cur (e1000.c:196-206).            *)
SentOnReturn == pc = "idle" /\ sends > 0 /\ ~replied => Mine(sends) \in sent /\ tdt = tx_cur

(* The card always has a descriptor to fill or the driver one to empty,    *)
(* and no packet is written over, as long as descriptors are given back in *)
(* the order they were filled.  The handler gives requests back over the   *)
(* heads of packets it leaves: then the tail may come to stand at the head *)
(* of a ring with nothing in it, and nothing is received any more.         *)
Deaf == head = rdt /\ (\A d \in Rx : ~rx[d].done) /\ pc # "give"
HearsOn == lost \/ Deaf => overtaken

(* A request is answered, unless the network code takes it first, its      *)
(* interrupt came with one of a transmission or of a change of the link    *)
(* (e1000.c:164-171), or it is written over; or the card has stopped (see  *)
(* Back).                                                                  *)
Asked(p) == p \in Filled /\ kind[p] = "request"
Answered(p) ==
  \/ Reply(p) \in sent \/ p \in got
  \/ p \in merged \/ lost \/ torn

(* A send comes back, wherever the handler interrupts it, but for one      *)
(* place: between the load and the store of tx_cur (e1000.c:203), where    *)
(* tx_cur then goes back, and the next packet is one the card does not     *)
(* look at any more.  Who sends it, the handler too, waits for ever.       *)
Begun == pc = "fill"
Back == pc = "idle" \/ torn
=============================================================================
