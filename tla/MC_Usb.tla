------------------------------- MODULE MC_Usb -------------------------------
(***************************************************************************)
(* The devices on an EHCI controller, or on an XHCI controller.  A         *)
(* behaviour is of one of them.                                            *)
(***************************************************************************)
EXTENDS Ehci

CONSTANTS EventSlots, MaxChanges, MaxLate

VARIABLES kind3, events, ring, dequeue, transfers, slots, port3, at3, call, counted, slot, keyboard3, left,
          strange, mistaken, unheard, refused

X == INSTANCE Xhci WITH kind <- kind3, port <- port3, at <- at3, keyboard <- keyboard3

ASSUME XhciAssumption == X!XhciConstants

xhci == <<kind3, events, ring, dequeue, transfers, slots, port3, at3, call, counted, slot, keyboard3, left,
          strange, mistaken, unheard, refused>>
usbVars == <<ehciVars, xhci>>

NoKinds == \A p \in Ports : kind[p] = "none"
NoKinds3 == \A p \in Ports : kind3[p] = "none"

MCInit == EhciInit /\ X!XhciInit /\ (NoKinds \/ NoKinds3)

OfEhci(A) == NoKinds3 /\ A /\ UNCHANGED xhci
OfXhci(A) == NoKinds /\ A /\ UNCHANGED ehciVars

MCNext == OfEhci(EhciNext) \/ OfXhci(X!XhciNext)

MCSpec ==
  /\ MCInit /\ [][MCNext]_usbVars
  /\ WF_usbVars(OfEhci(HostController)) /\ WF_usbVars(OfEhci(EhciDriver))
  /\ WF_usbVars(OfXhci(X!HostController)) /\ WF_usbVars(OfXhci(X!XhciDriver))

(* With the types.                                                         *)
AnswerIsOurs == EhciType /\ X!XhciType /\ X!AnswerIsOurs
UsbCallsReturn == EhciCallsReturn /\ X!XhciCallsReturn
=============================================================================
