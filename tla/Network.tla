------------------------------ MODULE Network -------------------------------
(***************************************************************************)
(* The clients of the network stack: DHCP, ARP and DNS of                  *)
(* kernel/dev/ethernet.c and TFTP of kernel/fs/tftp.c, over a network card *)
(* and a wire that loses, repeats and delays packets.                      *)
(*                                                                         *)
(* A packet lies in a buffer of the card's receive ring.  The interrupt    *)
(* handler may see it first: ethernet_handle_package answers ARP requests  *)
(* and acknowledges TFTP blocks by itself.  getEthernetPackage hands out   *)
(* the first full buffer, whose memory the card fills again later, or, ten *)
(* ticks after the last packet, the address 0.                             *)
(***************************************************************************)
EXTENDS Naturals, Sequences, FiniteSets, FiniteSetsExt

CONSTANTS
  Dhcps,       (* DHCP servers; each offers an address of its own          *)
  Names,       (* the names asked for, "tftp.local" among them             *)
  Unknown,     (* those the name server has no answer to                   *)
  Files,       (* the files asked for                                      *)
  Blocks,      (* [Files -> Nat]: their blocks, the last one short; 0 for  *)
               (* a file the server does not have                          *)
  Bufs,        (* buffers of the receive ring                              *)
  MaxCalls, MaxFaults
               (* bounds: calls by programs; packets lost, packets that    *)
               (* come again and packets of other machines, together; but  *)
               (* behind the last of these others may follow for ever      *)

ASSUME NetworkAssumption ==
  /\ Unknown \subseteq Names /\ "tftp.local" \in Names
  /\ Blocks \in [Files -> Nat]
  /\ Bufs \in Nat \ {0}
  /\ MaxCalls \in Nat /\ MaxFaults \in Nat

VARIABLES
  wire,        (* packets underway to this machine                         *)
  server,      (* the TFTP server's transfer: file and block it waits for  *)
  ring, next,  (* the card's buffers, and the one it fills next            *)
  pc,          (* where the main flow waits                                *)
  ask,         (* what it asked: getMACFromIp's ip, the name, the file     *)
  dnstid,
  dns_ip,      (* known or not                                             *)
  our_ip, mac, (* the address in use; what getMACFromIp returned last      *)
  macaddr,     (* tftp.c: the server's; None without a TFTP device         *)
  offered,     (* the buffer offeredip points into, and what stands there  *)
  buffer,      (* what tftp_read has stored                                *)
  result,      (* the last answer of getIPFromName                         *)
  budget,      (* calls and faults left                                    *)
  \* the rest is history
  lease,       (* the server whose acknowledge was taken, if its offer's   *)
               (* buffer was not filled again                              *)
  since,       (* packets since the offer came, up to Bufs                 *)
  lost,        (* packets were lost since the last question                *)
  again,       (* a block came again                                       *)
  stray        (* an ARP reply to somebody else, or an older one, was      *)
               (* there while getMACFromIp waited last                     *)

net == <<wire, server, ring, next>>
vars == <<net, pc, ask, dnstid, dns_ip, our_ip, mac, macaddr, offered, buffer, result,
          budget, lease, since, lost, again, stray>>

None == "none"
Static == "192.168.178.15"
DnsIp == "dns"
TftpIp == "dhcp"
Other == "other machine"
Garbage == "garbage"           (* what another packet holds at that place  *)
Zero == "0.0.0.0"              (* malloc clears what it returns            *)
BootName == "tftp.local"

-----------------------------------------------------------------------------
(* Packets to this machine, as far as anybody looks at them.               *)
Packet(t, a, n) == [t |-> t, a |-> a, n |-> n]
Offer(s) == Packet("offer", s, 0)
DhcpAck(s) == Packet("ack", s, 0)
ArpReply(ip) == Packet("arp", ip, 0)
ArpRequest == Packet("arpq", None, 0)
DnsAnswer(name, id) == Packet("dns", name, id)
Data(f, b) == Packet("data", f, b)
Error(f) == Packet("error", f, 0)

AnswersFor(name) == {DnsAnswer(name, id) : id \in 0 .. MaxCalls + 1}
BlocksOf(f) == {Data(f, b) : b \in 1 .. Blocks[f]}
DhcpPackets == {Offer(s) : s \in Dhcps} \union {DhcpAck(s) : s \in Dhcps}
OfOthers == {ArpRequest, ArpReply(Other)}
ArpPackets == {ArpReply(ip) : ip \in {DnsIp, TftpIp}} \union OfOthers
DnsPackets == UNION {AnswersFor(name) : name \in Names}
TftpPackets == {Error(f) : f \in Files} \union UNION {BlocksOf(f) : f \in Files}

Packets == DhcpPackets \union ArpPackets \union DnsPackets \union TftpPackets

Slots == 0 .. Bufs - 1
NoPacket == Packet(None, None, 0)
FullSlots == {s \in Slots : ring[s] # NoPacket}
First == Min(FullSlots)        (* both drivers search from descriptor 0    *)

TypeOK ==
  /\ wire \subseteq Packets
  /\ server \in [file : Files \union {None}, block : Nat]
  /\ ring \in [Slots -> Packets \union {NoPacket}] /\ next \in Slots
  /\ pc \in {"boot", "offer", "ack", "arp", "dns", "tftp", "idle"}
  /\ ask \in [ip : {DnsIp, TftpIp, None}, name : Names \union {None}, id : Nat, file : Files \union {None}, boot : BOOLEAN]
  /\ dnstid \in 0 .. MaxCalls + 1 /\ dns_ip \in BOOLEAN
  /\ our_ip \in Dhcps \union {None, Static, Garbage}
  /\ {mac, macaddr} \subseteq {DnsIp, TftpIp, Other, None}
  /\ offered \in [slot : Slots, ip : Dhcps \union {None, Garbage}]
  /\ buffer \in Seq(Packets)
  /\ result \in [name : Names \union {None}, got : Names \union {None, Zero}]
  /\ budget \in [calls : 0 .. MaxCalls, faults : 0 .. MaxFaults, others : BOOLEAN]
  /\ lease \in Dhcps \union {None} /\ since \in 0 .. Bufs
  /\ {lost, again, stray} \subseteq BOOLEAN

Init ==
  /\ wire = {} /\ server = [file |-> None, block |-> 0]
  /\ ring = [s \in Slots |-> NoPacket] /\ next = 0
  /\ pc = "boot" /\ ask = [ip |-> None, name |-> None, id |-> 0, file |-> None, boot |-> TRUE]
  /\ dnstid = 0 /\ dns_ip = FALSE /\ our_ip = None /\ mac = None /\ macaddr = None
  /\ offered = [slot |-> 0, ip |-> None] /\ buffer = <<>> /\ result = [name |-> None, got |-> None]
  /\ budget = [calls |-> MaxCalls, faults |-> MaxFaults, others |-> FALSE]
  /\ lease = None /\ since = 0 /\ lost = FALSE /\ again = FALSE /\ stray = FALSE

-----------------------------------------------------------------------------
(* The wire and the TFTP server.                                           *)
asking == <<pc, ask, dnstid, dns_ip, our_ip, mac, macaddr, buffer, result>>
Client == <<asking, offered>>

IpIn(p) == IF p.t \in {"offer", "ack"} THEN p.a ELSE Garbage

Lose(p) ==
  /\ budget.faults > 0
  /\ wire' = wire \ {p} /\ budget' = [budget EXCEPT !.faults = @ - 1]
  /\ lost' = TRUE
  /\ UNCHANGED <<server, ring, next, Client, lease, since, again, stray>>

(* No acknowledge came in time.                                            *)
ServerResends ==
  /\ server.file # None /\ budget.faults > 0 /\ Data(server.file, server.block) \notin wire
  /\ wire' = wire \union {Data(server.file, server.block)}
  /\ budget' = [budget EXCEPT !.faults = @ - 1] /\ again' = TRUE
  /\ UNCHANGED <<server, ring, next, Client, lease, since, lost, stray>>

(* The server gets the acknowledge of block b: what it sends, what it      *)
(* waits for then.                                                         *)
MoreToSend(b) == server.block = b /\ server.file # None /\ b < Blocks[server.file]
Acknowledge(b, w) ==
  /\ server' = IF server.block # b THEN server
               ELSE IF MoreToSend(b) THEN [server EXCEPT !.block = @ + 1]
               ELSE [file |-> None, block |-> 0]
  /\ wire' = IF MoreToSend(b) THEN w \union {Data(server.file, b + 1)} ELSE w

(* "TFTP, automatic ACK": any UDP packet to the client's port.  ARP        *)
(* requests are answered; nothing else changes anything here.              *)
ethernet_handle_package(p, w) ==
  IF p.t = "data" THEN Acknowledge(p.n, w) ELSE wire' = w /\ UNCHANGED server

(* The card puts a packet into its next buffer.  The interrupt handler     *)
(* sees it before the main flow does, or does not; only an ARP request     *)
(* that was answered is given back to the card at once.                    *)
RingIsFull == ring[next] # NoPacket
Arrive(p, w, handled) ==
  /\ ring' = IF handled /\ p = ArpRequest THEN ring ELSE [ring EXCEPT ![next] = p]
  /\ offered' = IF pc = "ack" /\ next = offered.slot THEN [offered EXCEPT !.ip = IpIn(p)] ELSE offered
  /\ next' = (next + 1) % Bufs
  /\ since' = IF pc = "ack" /\ since < Bufs THEN since + 1 ELSE since
  /\ IF handled THEN ethernet_handle_package(p, w) ELSE wire' = w /\ UNCHANGED server

(* A packet that is meant for the main flow comes; later it comes again    *)
(* (twice).                                                                *)
Deliver(p, twice, handled) ==
  LET w == IF twice THEN wire ELSE wire \ {p}
  IN
  /\ twice => budget.faults > 0
  /\ budget' = IF twice THEN [budget EXCEPT !.faults = @ - 1] ELSE budget
  /\ again' = (again \/ (twice /\ p.t = "data"))
  /\ lost' = (lost \/ RingIsFull \/ (~handled /\ p.t = "data"))
  /\ IF RingIsFull
     THEN UNCHANGED <<ring, next, server, offered, since>> /\ wire' = w
     ELSE Arrive(p, w, handled)
  /\ UNCHANGED <<asking, lease, stray>>

(* Other machines ask for our address, or answer what somebody else asked. *)
(* Bounds: one such packet is in the ring at a time, and it comes while    *)
(* the main flow waits; but when the first has come, others may follow     *)
(* for ever.                                                               *)
Foreign ==
  \E p \in OfOthers, handled \in BOOLEAN :
    /\ pc \notin {"boot", "idle"} /\ ~RingIsFull /\ \A s \in Slots : ring[s] \notin OfOthers
    /\ \/ budget.others /\ UNCHANGED budget
       \/ budget.faults > 0 /\ budget' = [budget EXCEPT !.others = TRUE, !.faults = @ - 1]
    /\ Arrive(p, wire, handled)
    /\ stray' = (stray \/ (pc = "arp" /\ p.t = "arp"))
    /\ UNCHANGED <<asking, lease, again, lost>>

-----------------------------------------------------------------------------
(* getEthernetPackage: the first full buffer is given back to the card and *)
(* handed out; its memory still holds the packet.  A wait that looks for   *)
(* something else drops it.                                                *)
Taken == ring[First]
Take ==
  /\ FullSlots # {}
  /\ ring' = [ring EXCEPT ![First] = NoPacket]

NothingForTenTicks == FullSlots = {} /\ UNCHANGED net

Drop(state, wanted(_)) ==
  /\ pc = state
  /\ Take /\ ~wanted(Taken)
  /\ UNCHANGED <<wire, server, next, Client, budget, lease, since, lost, again, stray>>

(* getMACFromIp asks; where it waits.  Nobody has the address 0.0.0.0.     *)
LeftOver == \E p \in wire \union {ring[s] : s \in Slots} : p.t = "arp"
AskMac(ip, name) ==
  /\ wire' = IF ip = DnsIp /\ ~dns_ip THEN wire ELSE wire \union {ArpReply(ip)}
  /\ pc' = "arp"
  /\ ask' = [ask EXCEPT !.ip = ip, !.name = name]
  /\ lost' = FALSE /\ stray' = LeftOver

-----------------------------------------------------------------------------
(* getIpAddressFromDHCPServer.  The RTL8169's send function returns        *)
(* nothing, what is read as its result is any value: 0 means no server.    *)
Discover ==
  /\ pc = "boot"
  /\ wire' = {Offer(s) : s \in Dhcps}
  /\ \/ pc' = "offer" /\ our_ip' = our_ip
     \/ pc' = "idle" /\ our_ip' = Static
  /\ ask' = [ask EXCEPT !.boot = pc' = "offer"]
  /\ UNCHANGED <<server, ring, next, dnstid, dns_ip, mac, macaddr, offered, buffer, result,
                 budget, lease, since, lost, again, stray>>

IsOffer(p) == p.t = "offer"
DropBeforeOffer == Drop("offer", IsOffer)

(* The first offer is taken, and the addresses in it; the request names    *)
(* its server.                                                             *)
OfferTaken ==
  /\ pc = "offer"
  /\ Take /\ IsOffer(Taken)
  /\ wire' = wire \union {DhcpAck(Taken.a)}
  /\ offered' = [slot |-> First, ip |-> Taken.a]
  /\ dns_ip' = TRUE
  /\ lost' = FALSE
  /\ since' = (next + Bufs - First - 1) % Bufs
  /\ pc' = "ack"
  /\ UNCHANGED <<server, next, ask, dnstid, our_ip, mac, macaddr, buffer, result, budget, lease, again, stray>>

NoOffer ==
  /\ pc = "offer"
  /\ NothingForTenTicks
  /\ our_ip' = Static
  /\ pc' = "idle"
  /\ ask' = [ask EXCEPT !.boot = FALSE]
  /\ UNCHANGED <<dnstid, dns_ip, mac, macaddr, offered, buffer, result, budget, lease, since, lost, again, stray>>

IsAck(p) == p.t = "ack"
DropBeforeAck == Drop("ack", IsAck)

(* Mutant: the address is taken from the buffer filled last.               *)
AckTaken_Last ==
  /\ pc = "ack"
  /\ Take /\ IsAck(Taken)
  /\ lease' = IF since < Bufs THEN Taken.a ELSE None
  /\ since' = 0
  /\ our_ip' = IpIn(ring[(next + Bufs - 1) % Bufs])
  /\ AskMac(DnsIp, BootName)
  /\ offered' = [slot |-> 0, ip |-> None]
  /\ UNCHANGED <<server, next, dnstid, dns_ip, mac, macaddr, buffer, result, budget, again>>

(* "Got Approval": offeredip points into the buffer of the offer.  Then    *)
(* initialise_ethernet looks for "tftp.local".                             *)
AckTaken ==
  /\ pc = "ack"
  /\ Take /\ IsAck(Taken)
  /\ lease' = IF since < Bufs THEN Taken.a ELSE None
  /\ since' = 0
  /\ our_ip' = offered.ip
  /\ AskMac(DnsIp, BootName)
  /\ offered' = [slot |-> 0, ip |-> None]
  /\ UNCHANGED <<server, next, dnstid, dns_ip, mac, macaddr, buffer, result, budget, again>>

-----------------------------------------------------------------------------
(* getMACFromIp: the first ARP reply ends the wait, whoever it speaks of.  *)
(* Mutant: any ARP packet ends it.                                         *)
IsArpReply_AnyArp(p) == p.t \in {"arp", "arpq"}
IsArpReply(p) == p.t = "arp"
DropBeforeArp == Drop("arp", IsArpReply)

(* Mutant: the transaction id stays the same.                              *)
NextId_Same == dnstid
NextId == dnstid + 1

(* getIPFromName sends its question to the address it got.                 *)
QueryGoes ==
  /\ pc = "arp" /\ ask.ip = DnsIp
  /\ Take /\ IsArpReply(Taken)
  /\ mac' = Taken.a
  /\ wire' = IF mac' = DnsIp
             THEN wire \union {DnsAnswer(ask.name, dnstid)}
             ELSE wire
  /\ ask' = [ask EXCEPT !.id = dnstid]
  /\ dnstid' = NextId
  /\ pc' = "dns"
  /\ UNCHANGED <<server, next, dns_ip, our_ip, macaddr, offered, buffer, result,
                 budget, lease, since, lost, again, stray>>

(* initialise_ethernet mounts the TFTP server.                             *)
initialiseTFTP ==
  /\ pc = "arp" /\ ask.ip = TftpIp
  /\ Take /\ IsArpReply(Taken) /\ mac' = Taken.a
  /\ macaddr' = mac'
  /\ pc' = "idle"
  /\ ask' = [ask EXCEPT !.boot = FALSE]
  /\ UNCHANGED <<wire, server, next, dnstid, dns_ip, our_ip, offered, buffer, result,
                 budget, lease, since, lost, again, stray>>

-----------------------------------------------------------------------------
(* getIPFromName.  At boot the TFTP device follows if the first byte of    *)
(* the result is not 0.                                                    *)
IsAnswer(p) == p.t = "dns" /\ p.n = ask.id

ResolveReturns(got) ==
  /\ result' = [name |-> ask.name, got |-> got]
  /\ IF ask.boot /\ got # Zero
     THEN AskMac(TftpIp, None)
     ELSE pc' = "idle" /\ ask' = [ask EXCEPT !.boot = FALSE] /\ UNCHANGED <<wire, lost, stray>>

AnswerTaken ==
  /\ pc = "dns"
  /\ Take /\ IsAnswer(Taken)
  /\ ResolveReturns(IF Taken.a \in Unknown THEN Zero ELSE Taken.a)
  /\ UNCHANGED <<server, next, dnstid, dns_ip, our_ip, mac, macaddr, offered, buffer,
                 budget, lease, since, again>>

(* Other packets are handled here, a second time or at last.               *)
HandledInQuestion ==
  /\ pc = "dns"
  /\ Take /\ ~IsAnswer(Taken)
  /\ ethernet_handle_package(Taken, wire)
  /\ UNCHANGED <<next, Client, budget, lease, since, lost, again, stray>>

(* Mutant: the end of the wait is not looked at.                           *)
NoAnswer_Waits == pc = "dns" /\ NothingForTenTicks /\ UNCHANGED vars

NoAnswer ==
  /\ pc = "dns"
  /\ FullSlots = {}
  /\ ResolveReturns(Zero)
  /\ UNCHANGED <<server, ring, next, dnstid, dns_ip, our_ip, mac, macaddr, offered, buffer,
                 budget, lease, since, again>>

-----------------------------------------------------------------------------
(* Programs call: a name, a file of the TFTP device, a packet (ETH::IN).   *)
Call == pc = "idle" /\ budget.calls > 0 /\ budget' = [budget EXCEPT !.calls = @ - 1]

getIPFromName(name) ==
  /\ Call
  /\ AskMac(DnsIp, name)
  /\ UNCHANGED <<server, ring, next, dnstid, dns_ip, our_ip, mac, macaddr, offered, buffer,
                 result, lease, since, again>>

getEthernetPackage ==
  /\ Call
  /\ Take
  /\ UNCHANGED <<wire, server, next, Client, lease, since, lost, again, stray>>

(* The request goes to the address the device was mounted with.            *)
tftp_read(f) ==
  /\ Call
  /\ macaddr # None
  /\ pc' = "tftp"
  /\ ask' = [ask EXCEPT !.file = f]
  /\ buffer' = <<>>
  /\ lost' = FALSE
  /\ IF macaddr # TftpIp THEN UNCHANGED <<wire, server>>
     ELSE IF Blocks[f] = 0 THEN wire' = wire \union {Error(f)} /\ UNCHANGED server
     ELSE wire' = wire \union {Data(f, 1)} /\ server' = [file |-> f, block |-> 1]
  /\ UNCHANGED <<ring, next, dnstid, dns_ip, our_ip, mac, macaddr, offered, result,
                 lease, since, again, stray>>

(* indexid is 1 for every block.                                           *)
(* Mutant: the number of a block is not looked at.                         *)
IsExpected_Any(p) == p.t = "data"
IsExpected(p) == p.t = "data" /\ p.n = 1
DropBeforeBlock == Drop("tftp", IsExpected)

(* A block of 512 bytes is followed by another.                            *)
Short(p) == p.n = Blocks[p.a]

BlockTaken ==
  /\ pc = "tftp"
  /\ Take /\ IsExpected(Taken)
  /\ buffer' = Append(buffer, Taken)
  /\ pc' = IF Short(Taken) THEN "idle" ELSE "tftp"
  /\ UNCHANGED <<wire, server, next, ask, dnstid, dns_ip, our_ip, mac, macaddr, offered, result,
                 budget, lease, since, lost, again, stray>>

-----------------------------------------------------------------------------
getIpAddressFromDHCPServer == DropBeforeOffer \/ OfferTaken \/ NoOffer \/ DropBeforeAck \/ AckTaken
getMACFromIp == DropBeforeArp \/ QueryGoes \/ initialiseTFTP
Question == AnswerTaken \/ HandledInQuestion \/ NoAnswer
Transfer == DropBeforeBlock \/ BlockTaken
Waits == getIpAddressFromDHCPServer \/ getMACFromIp \/ Question \/ Transfer

Calls ==
  \/ getEthernetPackage
  \/ \E name \in Names : getIPFromName(name)
  \/ \E f \in Files : tftp_read(f)

(* Bound: when the last call has come back, the wire rests.                *)
Busy == pc # "idle" \/ budget.calls > 0
Wire == Busy /\ \E p \in wire, twice, handled \in BOOLEAN : Deliver(p, twice, handled)
Faults == Busy /\ (Foreign \/ ServerResends \/ \E p \in wire : Lose(p))

Next == Discover \/ Waits \/ Calls \/ Wire \/ Faults

Spec == Init /\ [][Next]_vars

(* What is on the wire arrives, and the flow that waits looks at it.       *)
FairSpec == Spec /\ WF_vars(Wire) /\ WF_vars(Waits)

-----------------------------------------------------------------------------
(* The address in use is the one the server has approved, although         *)
(* offeredip points into a buffer of the ring while the second wait goes   *)
(* on (ethernet.c:321,384-397): it is right as long as fewer packets came  *)
(* than there are buffers.                                                 *)
OurIpIsLeased == lease # None => our_ip = lease

(* getMACFromIp, which looks at no reply's sender (ethernet.c:104-115),    *)
(* returns the address of the machine it asked for - the name server's     *)
(* for getIPFromName, the TFTP server's at boot - if no reply of another   *)
(* machine came during this wait and none was left over when it began: a   *)
(* wait that begins without one is right again, whatever was before.       *)
MacIsOfAsked == pc # "arp" /\ ask.ip # None => mac = ask.ip \/ stray

(* getIPFromName gives the address of the name it was asked for, never an  *)
(* answer to an earlier question that comes late (ethernet.c:438-454); or  *)
(* 0.0.0.0, when no answer came or the server has none.                    *)
AnswerIsToQuestion == result.got \in {result.name, None, Zero}

(* A file that tftp_read returned is that file, whole and once             *)
(* (tftp.c:36-75), unless a block came a second time.                      *)
ReadIsFile ==
  pc = "idle" /\ buffer # <<>> /\ ~again =>
    buffer = [b \in 1 .. Blocks[ask.file] |-> Data(ask.file, b)]

(* A wait comes back.  The one for an offer and the one for a name do,     *)
(* unless packets of other machines keep coming, each of which starts the  *)
(* ten ticks again (RTL8169.c:112, e1000.c:224).  The others have no       *)
(* time-out (ethernet.c:104,384, tftp.c:38): they do if no packet gets     *)
(* lost and the address of a name server is known, of a file if it is one  *)
(* of a single block that the server has, and the device has the server's  *)
(* address.                                                                *)
WaitsComeBack ==
  /\ (pc = "offer" ~> pc # "offer") \/ []<><<Foreign>>_vars
  /\ (pc = "dns" ~> pc # "dns") \/ []<><<Foreign>>_vars
  /\ pc \in {"ack", "arp"} ~> pc \notin {"ack", "arp"} \/ lost \/ ~dns_ip
  /\ pc = "tftp" ~> pc # "tftp" \/ lost \/ Blocks[ask.file] # 1 \/ macaddr # TftpIp

(* README.md:68 lists reading over TFTP as working: a file that the server *)
(* has is read, if no packet is lost and none comes twice.                 *)
FilesAreRead ==
  pc = "tftp" /\ Blocks[ask.file] > 0 /\ macaddr = TftpIp ~> pc # "tftp" \/ lost \/ again
=============================================================================
