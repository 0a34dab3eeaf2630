------------------------------ MODULE MC_Cards ------------------------------
(***************************************************************************)
(* The two network cards.  A behaviour is of one of them.                  *)
(***************************************************************************)
EXTENDS Rtl8169

CONSTANTS
  Cards,             (* the cards: "rtl", "e1000"                             *)
  RxDescs, TxDescs,  (* the rings of the E1000                             *)
  SendsE,            (* bound: packets the main flow sends by the E1000    *)
  Watched            (* the packets whose answer is waited for             *)

VARIABLES which,
  rx, head, rdt, icr, kindE, links, txs, tdh, tdt, tx_cur, hE, pcE, i, oldTx, newTx, sendsE, sentE,
  gotE, twiceE, merged, repliedE, torn, overtaken, lost

E == INSTANCE E1000 WITH MaxSends <- SendsE, kind <- kindE, h <- hE, pc <- pcE, sends <- sendsE,
  sent <- sentE, got <- gotE, twice <- twiceE, replied <- repliedE

ASSUME E1000Assumption == E!E1000Constants

e1000 == <<rx, head, rdt, icr, kindE, links, txs, tdh, tdt, tx_cur, hE, pcE, i, oldTx, newTx, sendsE, sentE,
  gotE, twiceE, merged, repliedE, torn, overtaken, lost>>
cardsVars == <<which, vars, e1000>>

MCInit == Init /\ E!E1000Init /\ which \in Cards

OfRtl(A) == which = "rtl" /\ A /\ UNCHANGED <<which, e1000>>
OfE1000(A) == which = "e1000" /\ A /\ UNCHANGED <<which, vars>>

MCNext == OfRtl(Next) \/ OfE1000(E!E1000Next)

(* The cards work, interrupts are handled, a send goes on.                 *)
MCSpec ==
  /\ MCInit /\ [][MCNext]_cardsVars
  /\ WF_cardsVars(OfRtl(CardSends) \/ OfE1000(E!CardSends))
  /\ WF_cardsVars(OfRtl(irq_rtl8169) \/ OfE1000(E!irq_e1000))
  /\ WF_cardsVars(OfRtl(SendClears \/ SendRings \/ SendReturns)
                  \/ OfE1000(E!SendFills \/ E!SendLoads \/ E!SendStores \/ E!SendRings \/ E!SendReturns))

(* With the types, the properties of both.                                 *)
NeitherTwice == TypeOK /\ E!E1000Type /\ NoneTwice /\ E!NoneTwice
BothSentOnReturn == SentOnReturn /\ E!SentOnReturn
BothHearOn == OnlyLeftoversBlock /\ E!HearsOn

(* Requests are answered, and sends come back.                             *)
BothAnswer ==
  \A p \in Watched :
    Asked(p) \/ E!Asked(p) ~> IF which = "rtl" THEN Answered(p) ELSE E!Answered(p)
SendsComeBack == Begun \/ E!Begun ~> IF which = "rtl" THEN Back ELSE E!Back
=============================================================================
