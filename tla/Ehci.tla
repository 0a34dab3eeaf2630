-------------------------------- MODULE Ehci --------------------------------
(***************************************************************************)
(* kernel/dev/ehci.c, usb_stick.c, usb_hid.c and usb.c: the devices on the *)
(* ports of an EHCI controller are given an address, asked what they are,  *)
(* configured and installed, one port after the other; then the keyboard   *)
(* is polled.                                                              *)
(*                                                                         *)
(* A call puts a list of transfer descriptors before the controller, looks *)
(* at the last one only until it is done, shows an error or forty ticks    *)
(* have gone, and switches the list off.  It does not wait until the       *)
(* controller has stopped, and it frees what the list was made of.         *)
(***************************************************************************)
EXTENDS Naturals, Sequences, FiniteSets

CONSTANTS
  Ports,              (* the ports, numbered from 0                        *)
  Kinds,              (* what may hang on a port                           *)
  MaxPolls            (* bound: polls of the keyboard                      *)

ASSUME EhciAssumption ==
  IsFiniteSet(Ports) /\ Ports = 0 .. Cardinality(Ports) - 1 /\ MaxPolls \in Nat

VARIABLES
  kind,        (* what is connected to each port                           *)
  address,     (* the address a device listens to; Off before its reset    *)
  tds,         (* the descriptors not done yet                             *)
  to,          (* the address they are for                                 *)
  error,       (* of the first of them: "no", "retry" (XactErr), "halted"  *)
  async,       (* the asynchronous schedule: on, stopping or off           *)
  deviceaddress,
  port,        (* the port looked at                                       *)
  at,          (* the call underway, "next" between ports                  *)
  keyboard,    (* the address kept in usb_hid_has_keyboard; 0 without one  *)
  polls,
  \* the rest is history
  installed,   (* ports handed to usb_device_install                       *)
  gaveUp,      (* ports that were reset and given up, in the order of time *)
  failed,      (* a call came back with an error                           *)
  stray        (* data was written after its call had come back            *)

list == <<tds, to, error, async>>
ehciVars == <<kind, address, list, deviceaddress, port, at, keyboard, polls, installed, gaveUp, failed, stray>>

Off == Cardinality(Ports) + 1
Calls == {"address", "descriptor", "configuration", "configure", "protocol", "lun", "cbw", "sector", "sense", "poll"}
Waiting == at \in Calls

(* The descriptors of a call: of a control transfer, with or without data, *)
(* or one of a bulk transfer.                                              *)
Tds(call) ==
  CASE call \in {"address", "configure", "protocol"} -> <<"setup", "status">>
    [] call \in {"descriptor", "configuration", "lun", "poll"} -> <<"setup", "data", "status">>
    [] call = "cbw" -> <<"out">>
    [] call = "sector" -> <<"data">>
    [] call = "sense" -> <<"out">>

EhciType ==
  /\ kind \in [Ports -> Kinds] /\ address \in [Ports -> 0 .. Off]
  /\ tds \in Seq({"setup", "data", "status", "out"}) /\ to \in 0 .. Off
  /\ error \in {"no", "retry", "halted"} /\ async \in {"on", "stopping", "off"}
  /\ deviceaddress \in 1 .. Off /\ port \in 0 .. Cardinality(Ports)
  /\ at \in Calls \union {"next", "hung", "ready"}
  /\ keyboard \in 0 .. Off /\ polls \in 0 .. MaxPolls
  /\ installed \subseteq Ports /\ gaveUp \subseteq Ports
  /\ failed \in BOOLEAN /\ stray \in BOOLEAN

(* The controller has been stopped, reset and started: no list.            *)
EhciInit ==
  /\ kind \in [Ports -> Kinds]
  /\ address = [p \in Ports |-> Off]
  /\ tds = <<>> /\ to = 0 /\ error = "no" /\ async = "off"
  /\ deviceaddress = 1 /\ port = 0 /\ at = "next"
  /\ keyboard = 0 /\ polls = 0
  /\ installed = {} /\ gaveUp = {} /\ failed = FALSE /\ stray = FALSE

-----------------------------------------------------------------------------
(* The controller and the devices.                                         *)
Listeners == {p \in Ports : address[p] = to}

(* A device takes its address when the status stage ends: every device     *)
(* that listens to address 0 does.                                         *)
Transfers ==
  LET last == Len(tds) = 1
      addressed == last /\ to = 0
  IN
    /\ async # "off" /\ tds # <<>> /\ error # "halted" /\ Listeners # {}
    /\ tds' = Tail(tds) /\ error' = "no"
    /\ address' = [p \in Ports |-> IF addressed /\ p \in Listeners THEN deviceaddress ELSE address[p]]
    /\ stray' = (stray \/ (Head(tds) = "data" /\ ~Waiting))
    /\ UNCHANGED <<to, async>>

(* The transaction is tried again, up to three times, then the list halts; *)
(* a device may also refuse.                                               *)
Errs ==
  /\ async # "off" /\ tds # <<>> /\ error # "halted"
  /\ error' \in {"retry", "halted"}
  /\ UNCHANGED <<tds, to, async, address, stray>>

Stops ==
  /\ async = "stopping" /\ async' = "off"
  /\ UNCHANGED <<tds, to, error, address, stray>>

HostController ==
  /\ Transfers \/ Errs \/ Stops
  /\ UNCHANGED <<kind, deviceaddress, port, at, keyboard, polls, installed, gaveUp, failed>>

-----------------------------------------------------------------------------
(* A list is put before the controller.                                    *)
Send(call, addr) ==
  /\ at' = call
  /\ tds' = Tds(call) /\ to' = addr /\ error' = "no" /\ async' = "on"

NoSend == async' = "stopping" /\ UNCHANGED <<tds, to, error>>

ehci_set_device_address == Send("address", 0)
ehci_get_device_descriptor == Send("descriptor", deviceaddress)
ehci_get_device_configuration == Send("configuration", deviceaddress)
ehci_set_device_configuration == Send("configure", deviceaddress)
ehci_send_and_recieve_command(call, addr) == Send(call, addr)
ehci_send_bulk(call) == Send(call, to)
ehci_recieve_bulk(call) == Send(call, to)

usb_stick_get_max_lun == ehci_send_and_recieve_command("lun", deviceaddress)
(* The command wrapper goes out, then the sector comes in; the status that *)
(* the stick sends after it is not fetched.                                *)
usb_stick_read_sector == IF at = "lun" THEN ehci_send_bulk("cbw") ELSE ehci_recieve_bulk("sector")
usb_stick_request_sense == ehci_send_bulk("sense")

(* ehci_probe and the beginning of init_ehci_port: the port is reset.  It  *)
(* may not be enabled after that, and then nothing on it listens.          *)
Probe ==
  /\ at = "next" /\ port \in Ports
  /\ \/ port' = port + 1 /\ UNCHANGED <<address, list, at>>
     \/ /\ kind[port] # "none"
        /\ address' = [address EXCEPT ![port] = 0]
        /\ ehci_set_device_address
        /\ UNCHANGED port
  /\ UNCHANGED <<kind, deviceaddress, keyboard, polls, installed, gaveUp, failed, stray>>

Probed ==
  /\ at = "next" /\ port \notin Ports
  /\ at' = "ready"
  /\ UNCHANGED <<kind, address, list, deviceaddress, port, keyboard, polls, installed, gaveUp, failed, stray>>

(* The port is left, with or without a working device.                     *)
Leave == at' = "next" /\ port' = port + 1 /\ NoSend
GiveUp == Leave /\ gaveUp' = gaveUp \union {port} /\ UNCHANGED <<deviceaddress, installed, keyboard>>
(* for(;;) in usb.c and usb_stick.c.                                       *)
Hang == at' = "hung" /\ NoSend

(* A keyboard gets SET_PROTOCOL, a stick is asked for its units or, of a   *)
(* kind that is not supported, left, anything else hangs.  A device whose  *)
(* class stands in its own descriptor is anything else, for the class is   *)
(* kept only when an interface tells it.                                   *)
usb_device_install ==
  \/ kind[port] = "stick" /\ Leave
  \/ /\ CASE kind[port] = "keyboard" -> ehci_send_and_recieve_command("protocol", deviceaddress)
          [] kind[port] = "stick" -> usb_stick_get_max_lun
          [] OTHER -> Hang
     /\ UNCHANGED port

(* Mutant: the address is not counted on.                                  *)
Install_SameAddress ==
  /\ installed' = installed \union {port} /\ UNCHANGED deviceaddress
  /\ usb_device_install
  /\ UNCHANGED <<gaveUp, keyboard>>

(* With the address counted on before.                                     *)
Install ==
  /\ installed' = installed \union {port} /\ deviceaddress' = deviceaddress + 1
  /\ usb_device_install
  /\ UNCHANGED <<gaveUp, keyboard>>

(* init_usb_hid.                                                           *)
HidProtocol(ok) ==
  /\ keyboard' = IF ok THEN to ELSE keyboard
  /\ Leave /\ UNCHANGED <<deviceaddress, installed, gaveUp>>

(* usb_stick_init of a supported stick: the number of units, the test      *)
(* sector, the cause of an error; however it ends, it hangs.               *)
StickStep(ok) ==
  IF at \in {"lun", "cbw"} /\ ok THEN usb_stick_read_sector
  ELSE IF at \in {"cbw", "sector"} /\ ~ok THEN usb_stick_request_sense
  ELSE Hang

(* What follows when a call comes back.  A port is also given up when the  *)
(* descriptor is not one, or the class is still 0 after the configuration. *)
Continue(ok) ==
  LET stays == UNCHANGED <<port, deviceaddress, installed, gaveUp, keyboard>>
  IN
    /\ failed' = (failed \/ ~ok)
    /\ \/ at \in {"address", "configure"} /\ ~ok /\ GiveUp
       \/ at \in {"descriptor", "configuration"} /\ GiveUp
       \/ at = "address" /\ ok /\ ehci_get_device_descriptor /\ stays
       \/ at = "descriptor" /\ ok /\ kind[port] # "hub" /\ ehci_get_device_configuration /\ stays
       \/ /\ at = "configuration" \/ (at = "descriptor" /\ kind[port] = "hub")
          /\ ok /\ ehci_set_device_configuration /\ stays
       \/ at = "configure" /\ ok /\ Install
       \/ at = "protocol" /\ HidProtocol(ok)
       \/ at \in {"lun", "cbw", "sector", "sense"} /\ StickStep(ok) /\ stays
       \/ at = "poll" /\ at' = "ready" /\ NoSend /\ stays
    /\ UNCHANGED <<kind, address, polls, stray>>

(* Mutant: the first descriptor is looked at, not the last.                *)
Completion_First ==
  \/ Waiting /\ Len(tds) < Len(Tds(at)) /\ Continue(TRUE)
  \/ Waiting /\ tds # <<>> /\ error # "no" /\ Continue(FALSE)

(* ehci_wait_for_completion looks at the last descriptor: an error there,  *)
(* or not active any more.                                                 *)
Completion ==
  \/ Waiting /\ tds = <<>> /\ Continue(TRUE)
  \/ Waiting /\ Len(tds) = 1 /\ error # "no" /\ Continue(FALSE)

(* Mutant: no time-out: the descriptors before the last may halt the list. *)
TimesOut_Not == FALSE /\ Waiting /\ Continue(FALSE)

TimesOut == Waiting /\ tds # <<>> /\ Continue(FALSE)

(* get_usb_hid_keyboard_input asks for a report.                           *)
PollKeyboard ==
  /\ at = "ready" /\ keyboard # 0 /\ polls < MaxPolls
  /\ polls' = polls + 1
  /\ ehci_send_and_recieve_command("poll", keyboard)
  /\ UNCHANGED <<kind, address, deviceaddress, port, keyboard, installed, gaveUp, failed, stray>>

EhciDriver == Probe \/ Probed \/ Completion \/ TimesOut
EhciNext == HostController \/ EhciDriver \/ PollKeyboard

-----------------------------------------------------------------------------
(* No device answers to the address of an installed one, but one on a port *)
(* that was given up: the address it may have taken is given again, for it *)
(* is counted on at the end only (ehci.c:764), and one that kept address 0 *)
(* hears what the next is told.                                            *)
AddressesApart ==
  \A p \in installed : \A q \in Ports \ {p} : address[q] = address[p] => q \in gaveUp

(* Data never arrives in a buffer whose call has come back, unless a call  *)
(* came back with an error: the list is switched off and freed without     *)
(* waiting for the controller to stop (ehci.c:473-484).                    *)
UsbDataInTime == stray => failed

(* The calls for a port come back one after the other, however the devices *)
(* answer - an error before the last descriptor is seen by the time-out    *)
(* only (ehci.c:77) -, and the driver goes on, but for what                *)
(* usb_device_install never comes back from: a stick, or a device of a     *)
(* class it does not know.                                                 *)
EhciCallsReturn == Waiting ~> ~Waiting /\ (at = "hung" => kind[port] # "keyboard")
=============================================================================
