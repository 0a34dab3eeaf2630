-------------------------------- MODULE Xhci --------------------------------
(***************************************************************************)
(* kernel/dev/xhci.c: the devices on the ports of an XHCI controller, one  *)
(* after the other: a slot, an address, two descriptors, then what         *)
(* usb_device_install does; afterwards the keyboard is polled.             *)
(*                                                                         *)
(* Commands stand on one ring, transfers on one ring for each device.  The *)
(* controller answers everything with an event on the event ring, and puts *)
(* events of its own there, when a port changes.  The driver counts the    *)
(* events from the start of the ring, gives its command, waits until there *)
(* is one more, and takes the last one for the answer.                     *)
(*                                                                         *)
(* No ring has a link back: commands and transfers are written on and on,  *)
(* and the controller begins its event ring anew where the driver, which   *)
(* never clears an event, sees no change.                                  *)
(***************************************************************************)
EXTENDS Naturals, Sequences

CONSTANTS
  Ports,              (* the ports, numbered from 0                        *)
  Kinds,              (* what may hang on a port                           *)
  EventSlots,         (* size of the event ring: 16 in the code            *)
  MaxPolls,           (* bounds: polls of the keyboard, changes of ports,  *)
  MaxChanges,         (* waits given up while the answer was still to come *)
  MaxLate

XhciConstants == {EventSlots, MaxPolls, MaxChanges, MaxLate} \subseteq Nat

VARIABLES
  kind,        (* what is connected to each port                           *)
  events,      (* the event ring: number of the call, success, slot        *)
  ring,        (* the command ring, up to the offset of the driver         *)
  dequeue,     (* where the controller stands in it, from 0                *)
  transfers,   (* calls on the rings of the devices, not carried out yet   *)
  slots,       (* slots enabled by the controller                          *)
  port,        (* the port looked at                                       *)
  at,          (* the call underway, or "next", "ready", "hung"            *)
  call,        (* its number; command_ring_offset grows with the ring      *)
  counted,     (* events counted before it                                 *)
  slot,        (* assignedSloth                                            *)
  keyboard,    (* there is one                                             *)
  left,        (* polls, changes and late answers left                     *)
  \* the rest is history
  strange,     (* an event of something else came while a call was waiting *)
  mistaken,    (* without one, an event of something else was taken for it *)
  unheard,     (* a request was carried out, and its wait gave up          *)
  refused      (* a control request came back as one that failed           *)

controller == <<events, dequeue, transfers, slots>>
flow == <<port, at, call, counted, slot, keyboard>>
history == <<strange, mistaken, unheard, refused>>
xhciVars == <<kind, controller, ring, flow, left, history>>

Commands == {"slot", "address"}
Controls == {"protocol", "poll", "lun"} (* by xhci_send_and_recieve_command *)
Requests == {"descriptor", "configuration", "bulk"} \union Controls
Waiting == at \in Commands \union Requests
Stop == 0    (* a descriptor whose cycle bit is not set *)
Changed == 0 (* an event of a port: the number of no call *)

XhciType ==
  /\ kind \in [Ports -> Kinds]
  /\ events \in Seq([call : Nat, ok : BOOLEAN, slot : Nat]) /\ Len(events) <= EventSlots
  /\ ring \in Seq(Nat) /\ dequeue \in 0 .. Len(ring)
  /\ transfers \in Seq(Nat) /\ slots \in Nat
  /\ port \in Nat /\ at \in Commands \union Requests \union {"next", "ready", "hung"}
  /\ call \in Nat /\ counted \in 0 .. EventSlots /\ slot \in Nat
  /\ keyboard \in BOOLEAN
  /\ left \in [polls : 0 .. MaxPolls, changes : 0 .. MaxChanges, late : 0 .. MaxLate]
  /\ {strange, mistaken, unheard, refused} \subseteq BOOLEAN

(* init_xhci has set up the rings, the table of contexts and the event     *)
(* ring, and found no event there.                                         *)
XhciInit ==
  /\ kind \in [Ports -> Kinds]
  /\ events = <<>> /\ ring = <<>> /\ dequeue = 0 /\ transfers = <<>> /\ slots = 0
  /\ port = 0 /\ at = "next" /\ call = 0 /\ counted = 0 /\ slot = 0 /\ keyboard = FALSE
  /\ left = [polls |-> MaxPolls, changes |-> MaxChanges, late |-> MaxLate]
  /\ strange = FALSE /\ mistaken = FALSE /\ unheard = FALSE /\ refused = FALSE

-----------------------------------------------------------------------------
(* The controller.  Events after the last place of the ring show nowhere.  *)
Event(of, ok, s) ==
  /\ events' = IF Len(events) < EventSlots THEN Append(events, [call |-> of, ok |-> ok, slot |-> s]) ELSE events
  /\ strange' = (strange \/ (of # call /\ Waiting))

(* It stops at the first descriptor that is not its own.                   *)
RunsCommand(ok) ==
  LET of == ring[dequeue + 1] IN
    /\ dequeue < Len(ring) /\ of # Stop
    /\ dequeue' = dequeue + 1
    /\ slots' = IF of = call /\ at = "slot" /\ ok THEN slots + 1 ELSE slots
    /\ Event(of, ok, slots')
    /\ UNCHANGED <<transfers, left>>

RunsTransfer(ok) ==
  /\ transfers # <<>>
  /\ transfers' = Tail(transfers)
  /\ Event(Head(transfers), ok, slot)
  /\ UNCHANGED <<dequeue, slots, left>>

PortChanges ==
  /\ left.changes > 0 /\ left' = [left EXCEPT !.changes = @ - 1]
  /\ Event(Changed, TRUE, 0)
  /\ UNCHANGED <<dequeue, transfers, slots>>

HostController ==
  /\ \/ PortChanges
     \/ \E ok \in BOOLEAN : RunsCommand(ok) \/ RunsTransfer(ok)
  /\ UNCHANGED <<kind, ring, flow, mistaken, unheard, refused>>

-----------------------------------------------------------------------------
(* A command is written to the ring.  After one with an address comes a    *)
(* stop, and the next command after that.                                  *)
Command(name) ==
  /\ at' = name /\ call' = call + 1
  /\ ring' = ring \o IF name = "address" THEN <<call', Stop>> ELSE <<call'>>
  /\ UNCHANGED transfers

(* Three descriptors go to the ring of the device; a bulk transfer goes to *)
(* an endpoint that was never configured, and is not carried out.          *)
Request(name) ==
  /\ at' = name /\ call' = call + 1
  /\ transfers' = IF name = "bulk" THEN transfers ELSE Append(transfers, call')
  /\ UNCHANGED ring

xhci_enable_slot == Command("slot")
(* With the contexts of slot and endpoint 0.                               *)
xhci_set_address == Command("address")
GetDescriptor == Request("descriptor")
GetConfiguration == Request("configuration")

NoCall(next) == at' = next /\ UNCHANGED <<call, ring, transfers>>
Leave == NoCall("next") /\ port' = port + 1 /\ UNCHANGED <<slot, keyboard>>

(* Mutant: events of earlier calls are waited for.                         *)
Count_Not == counted' = 0
(* xhci_seek_end_event_queue, before the doorbell rings.                   *)
Count == counted' = Len(events)

(* xhci_probe_ports and the start of xhci_probe_port.                      *)
Probe ==
  /\ at = "next"
  /\ IF port \notin Ports THEN NoCall("ready") /\ UNCHANGED <<port, slot, keyboard>>
     ELSE IF kind[port] = "none" THEN Leave
     ELSE xhci_enable_slot /\ UNCHANGED <<port, slot, keyboard>>
  /\ Count
  /\ UNCHANGED <<kind, events, dequeue, slots, left, history>>

(* usb_device_install; a stick of a kind that is not supported is left.    *)
Install ==
  CASE kind[port] = "keyboard" -> Request("protocol")
    [] kind[port] = "stick" -> Request("lun")
    [] OTHER -> NoCall("hung")

(* What follows a success; s is the slot in the event.  What is read then  *)
(* may not be what is wanted: a ring that is not empty, the state of the   *)
(* slot or the endpoint, the descriptor, a class of 0.                     *)
Succeeds(s) ==
  \/ at \in {"address", "descriptor", "configuration"} /\ Leave
  \/ at = "slot" /\ slot' = s /\ xhci_set_address /\ UNCHANGED <<port, keyboard>>
  \/ at = "protocol" /\ NoCall("next") /\ port' = port + 1 /\ keyboard' = TRUE /\ UNCHANGED slot
  \/ /\ \/ at = "address" /\ GetDescriptor
        \/ at = "descriptor" /\ GetConfiguration
        \/ at = "configuration" /\ Install
        \/ at = "poll" /\ NoCall("ready")
        \/ at = "lun" /\ Request("bulk")
        \/ at = "bulk" /\ NoCall("hung")
     /\ UNCHANGED <<port, slot, keyboard>>

(* A port is left; but a control request that fails stops the machine, in  *)
(* for(;;), and so does the stick's test sector.                           *)
Fails ==
  IF at \in Controls \union {"bulk"} THEN NoCall("hung") /\ UNCHANGED <<port, slot, keyboard>> ELSE Leave

(* xhci_ring_and_wait: one event more than were counted; the last counts.  *)
Answer ==
  LET last == events[Len(events)] IN
    /\ Waiting /\ Len(events) > counted
    /\ IF last.ok THEN Succeeds(last.slot) ELSE Fails
    /\ mistaken' = (mistaken \/ (last.call # call /\ ~strange))
    /\ refused' = (refused \/ (at \in Controls /\ ~last.ok))
    /\ Count
    /\ strange' = FALSE
    /\ UNCHANGED <<kind, events, dequeue, slots, left, unheard>>

(* The wait gives up: five looks, a tenth of a second each; the answer may *)
(* still come.  For a slot it first waits without end for any event.       *)
Pending ==
  \/ \E n \in dequeue + 1 .. Len(ring) : ring[n] = call /\ \A m \in dequeue + 1 .. n : ring[m] # Stop
  \/ \E n \in DOMAIN transfers : transfers[n] = call
TimesOut ==
  /\ Waiting /\ Len(events) = counted
  /\ at = "slot" => events # <<>>
  /\ IF Pending THEN left.late > 0 /\ left' = [left EXCEPT !.late = @ - 1] ELSE UNCHANGED left
  /\ unheard' = (unheard \/ (at \in Requests \ {"bulk"} /\ ~Pending))
  /\ refused' = (refused \/ at \in Controls)
  /\ Fails
  /\ Count
  /\ strange' = FALSE
  /\ UNCHANGED <<kind, events, dequeue, slots, mistaken>>

Poll ==
  /\ at = "ready" /\ keyboard /\ left.polls > 0
  /\ left' = [left EXCEPT !.polls = @ - 1]
  /\ Request("poll") /\ Count
  /\ UNCHANGED <<kind, events, dequeue, slots, port, slot, keyboard, history>>

XhciDriver == Probe \/ Answer \/ TimesOut
XhciNext == HostController \/ XhciDriver \/ Poll

-----------------------------------------------------------------------------
(* What is taken for the answer to a call is its answer, unless an event   *)
(* of a port, or of a call given up before, came in while it waited        *)
(* (xhci.c:531-546,628-665); and a request that was carried out does not   *)
(* come back as one that failed before the ring of events is full, whose   *)
(* places are never used again (xhci.c:493).                               *)
AnswerIsOurs == ~mistaken /\ (unheard => Len(events) = EventSlots)

(* The calls for a port come back one after the other, also a command that *)
(* stands behind a stop, where the controller never reads it (xhci.c:817), *)
(* and the driver goes on - but for a control request that failed or was   *)
(* waited for too long, which stops the machine (xhci.c:1147-1148), and    *)
(* for what usb_device_install never comes back from: a stick, or a device *)
(* of a class it does not know.                                            *)
XhciCallsReturn ==
  Waiting ~> ~Waiting /\ (at = "hung" => refused \/ (port \in Ports /\ kind[port] # "keyboard"))
=============================================================================
