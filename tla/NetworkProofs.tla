---------------------------- MODULE NetworkProofs ---------------------------
(***************************************************************************)
(* The clients of the network stack get what they asked for: the address   *)
(* the server approved, the machine, the name, the file; and a TCP session *)
(* delivers what it acknowledges and numbers what it sends; the checksums  *)
(* are right: for any servers, names, files, buffers and packets that the  *)
(* wire loses, repeats or delays.                                          *)
(***************************************************************************)
EXTENDS MC_Network, SequenceTheorems, WellFoundedInduction, TLAPS

(* Packets and where they lie.                                             *)
LEMMA LeastIsMin ==
  ASSUME NEW S, S \subseteq Nat, S # {}
  PROVE  Min(S) \in S
<1>1. PICK d \in S : \A e \in S : <<e, d>> \notin OpToRel(<, Nat)
  BY WFMin, NatLessThanWellFounded, Zenon
<1>2. \A e \in S : ~(e < d)
  BY <1>1, Zenon DEF OpToRel
<1>3. \A e \in S : d <= e
  BY <1>2
<1>. QED  BY <1>3 DEF Min

LEMMA NextIndex ==
  ASSUME NEW n \in Nat \ {0}, NEW d \in 0 .. n - 1
  PROVE  (d + 1) % n = IF d = n - 1 THEN 0 ELSE d + 1
<1>1. CASE d = n - 1
  BY <1>1
<1>2. CASE d # n - 1
  BY <1>2
<1>. QED  BY <1>1, <1>2

LEMMA KindsOfPackets ==
  ASSUME NEW p \in Packets
  PROVE  /\ p.t \in {"offer", "ack", "arp", "arpq", "dns", "data", "error"} /\ p.t # None
         /\ p.t \in {"offer", "ack"} => p.a \in Dhcps
         /\ p.t = "arp" => p = ArpReply(p.a) /\ p.a \in {DnsIp, TftpIp, Other}
         /\ p.t = "dns" => p.a \in Names /\ p.n \in 0 .. MaxCalls + 1
         /\ p.t = "data" => p = Data(p.a, p.n) /\ p.a \in Files /\ p.n \in 1 .. Blocks[p.a]
         /\ p # NoPacket
<1>. USE DEF Packet, NoPacket, None
<1>1. CASE p \in DhcpPackets
  BY <1>1 DEF DhcpPackets, Offer, DhcpAck
<1>2. CASE p \in ArpPackets
  BY <1>2 DEF ArpPackets, OfOthers, ArpReply, ArpRequest
<1>3. CASE p \in DnsPackets
  <2>1. PICK name \in Names : p \in AnswersFor(name)
    BY <1>3 DEF DnsPackets
  <2>. QED  BY <2>1 DEF AnswersFor, DnsAnswer
<1>4. CASE p \in TftpPackets
  <2>1. CASE \E f \in Files : p = Error(f)
    BY <2>1 DEF Error
  <2>2. CASE \E f \in Files : p \in BlocksOf(f)
    <3>0. PICK f \in Files : p \in BlocksOf(f)
      BY <2>2
    <3>1. PICK b \in 1 .. Blocks[f] : p = Data(f, b)
      BY <3>0 DEF BlocksOf
    <3>2. p.t = "data" /\ p.a = f /\ p.n = b
      BY <3>1 DEF Data
    <3>. QED  BY <3>1, <3>2
  <2>. QED  BY <1>4, <2>1, <2>2 DEF TftpPackets
<1>. QED  BY <1>1, <1>2, <1>3, <1>4 DEF Packets

LEMMA PacketsSent ==
  /\ \A s \in Dhcps : Offer(s) \in Packets /\ DhcpAck(s) \in Packets
  /\ \A ip \in {DnsIp, TftpIp} : ArpReply(ip) \in Packets
  /\ OfOthers \subseteq Packets
  /\ \A name \in Names, id \in 0 .. MaxCalls + 1 : DnsAnswer(name, id) \in Packets
  /\ \A f \in Files : Error(f) \in Packets /\ \A b \in 1 .. Blocks[f] : Data(f, b) \in Packets
<1>1. \A s \in Dhcps : Offer(s) \in DhcpPackets /\ DhcpAck(s) \in DhcpPackets
  BY DEF DhcpPackets
<1>2. OfOthers \subseteq ArpPackets /\ \A ip \in {DnsIp, TftpIp} : ArpReply(ip) \in ArpPackets
  BY DEF ArpPackets
<1>3. \A name \in Names, id \in 0 .. MaxCalls + 1 : DnsAnswer(name, id) \in DnsPackets
  <2>1. \A name \in Names, id \in 0 .. MaxCalls + 1 : DnsAnswer(name, id) \in AnswersFor(name)
    BY DEF AnswersFor
  <2>. QED  BY <2>1 DEF DnsPackets
<1>4. \A f \in Files : Error(f) \in TftpPackets
  BY DEF TftpPackets
<1>5. \A f \in Files : \A b \in 1 .. Blocks[f] : Data(f, b) \in TftpPackets
  <2>1. \A f \in Files : \A b \in 1 .. Blocks[f] : Data(f, b) \in BlocksOf(f)
    BY DEF BlocksOf
  <2>. QED  BY <2>1 DEF TftpPackets
<1>. QED  BY <1>1, <1>2, <1>3, <1>4, <1>5 DEF Packets

-----------------------------------------------------------------------------
(* The types, and what they rest on: the server waits for a block that the *)
(* file has, a question is about a name, and the transaction ids and the   *)
(* calls left are counted together.                                        *)
ServerType == [file : Files \union {None}, block : Nat]
AskType ==
  [ip : {DnsIp, TftpIp, None}, name : Names \union {None}, id : Nat, file : Files \union {None}, boot : BOOLEAN]
BudgetType == [calls : 0 .. MaxCalls, faults : 0 .. MaxFaults, others : BOOLEAN]

WiresTyped ==
  /\ wire \subseteq Packets
  /\ ring \in [Slots -> Packets \union {NoPacket}] /\ next \in Slots
  /\ server \in ServerType
  /\ server.file # None => server.file \in Files /\ server.block \in 1 .. Blocks[server.file]

Questions == IF pc \in {"boot", "offer", "ack"} \/ (pc = "arp" /\ ask.ip = DnsIp) THEN 1 ELSE 0

FlowTyped ==
  /\ pc \in {"boot", "offer", "ack", "arp", "dns", "tftp", "idle"}
  /\ ask \in AskType
  /\ pc = "arp" /\ ask.ip = DnsIp => ask.name \in Names
  /\ dnstid \in Nat /\ dnstid + budget.calls + Questions <= MaxCalls + 1
  /\ dns_ip \in BOOLEAN
  /\ our_ip \in Dhcps \union {None, Static, Garbage}
  /\ {mac, macaddr} \subseteq {DnsIp, TftpIp, Other, None}
  /\ offered \in [slot : Slots, ip : Dhcps \union {None, Garbage}]
  /\ buffer \in Seq(Packets)
  /\ result \in [name : Names \union {None}, got : Names \union {None, Zero}]

RestTyped ==
  /\ budget \in BudgetType
  /\ lease \in Dhcps \union {None} /\ since \in 0 .. Bufs
  /\ {lost, again, stray} \subseteq BOOLEAN

Typed == WiresTyped /\ FlowTyped /\ RestTyped

LEMMA TypedIsType == Typed => TypeOK
<1>. SUFFICES ASSUME Typed PROVE TypeOK
  OBVIOUS
<1>1. dnstid \in 0 .. MaxCalls + 1
  BY NetworkAssumption DEF Typed, FlowTyped, RestTyped, BudgetType, Questions
<1>. QED  BY <1>1, Zenon DEF Typed, WiresTyped, FlowTyped, RestTyped, TypeOK, ServerType, AskType, BudgetType

LEMMA TypedInit == Init => Typed
<1>. SUFFICES ASSUME Init PROVE Typed
  OBVIOUS
<1>. USE DEF Init
<1>1. WiresTyped
  BY NetworkAssumption DEF WiresTyped, ServerType, Slots
<1>2. ask \in AskType
  BY Zenon, 0 \in Nat DEF AskType
<1>3. buffer \in Seq(Packets)
  OBVIOUS
<1>4. dnstid \in Nat /\ dnstid + budget.calls + Questions <= MaxCalls + 1
  BY NetworkAssumption DEF Questions
<1>5. offered \in [slot : Slots, ip : Dhcps \union {None, Garbage}]
  BY NetworkAssumption DEF Slots
<1>6. FlowTyped
  BY <1>2, <1>3, <1>4, <1>5 DEF FlowTyped
<1>7. RestTyped
  <2>1. budget \in BudgetType /\ since \in 0 .. Bufs
    BY NetworkAssumption DEF BudgetType
  <2>. QED  BY <2>1 DEF RestTyped
<1>. QED  BY <1>1, <1>6, <1>7 DEF Typed

-----------------------------------------------------------------------------
(* What getEthernetPackage hands out.                                      *)
LEMMA TakenTyped ==
  ASSUME WiresTyped, Take
  PROVE  /\ First \in Slots /\ Taken \in Packets
         /\ ring' = [ring EXCEPT ![First] = NoPacket]
         /\ ring' \in [Slots -> Packets \union {NoPacket}]
<1>1. FullSlots # {} /\ FullSlots \subseteq Nat
  BY NetworkAssumption DEF Take, FullSlots, Slots
<1>2. First \in FullSlots
  BY <1>1, LeastIsMin DEF First
<1>3. First \in Slots /\ ring[First] # NoPacket
  BY <1>2 DEF FullSlots
<1>. QED  BY <1>3 DEF Take, Taken, WiresTyped

(* What an acknowledge makes the server send is a block of its file.       *)
LEMMA AcknowledgeTyped ==
  ASSUME WiresTyped, NEW b, NEW w \in SUBSET Packets, Acknowledge(b, w)
  PROVE  /\ wire' \subseteq Packets /\ server' \in ServerType
         /\ server'.file # None => server'.file \in Files /\ server'.block \in 1 .. Blocks[server'.file]
         /\ wire' \subseteq w \union {Data(f, n) : f \in Files, n \in Nat \ {0, 1}}
<1>. USE DEF WiresTyped, ServerType
<1>1. CASE MoreToSend(b)
  <2>1. /\ server.file \in Files /\ server.block = b /\ b < Blocks[server.file] /\ b \in 1 .. Blocks[server.file]
    BY <1>1 DEF MoreToSend
  <2>2. Blocks[server.file] \in Nat
    BY <2>1, NetworkAssumption
  <2>3. b + 1 \in 1 .. Blocks[server.file] /\ b + 1 \in Nat \ {0, 1}
    BY <2>1, <2>2
  <2>4. server' = [server EXCEPT !.block = b + 1] /\ wire' = w \union {Data(server.file, b + 1)}
    BY <1>1, <2>1 DEF Acknowledge
  <2>5. Data(server.file, b + 1) \in Packets
    BY <2>1, <2>3, PacketsSent
  <2>. QED  BY <2>1, <2>3, <2>4, <2>5
<1>2. CASE ~MoreToSend(b)
  BY <1>2 DEF Acknowledge
<1>. QED  BY <1>1, <1>2

LEMMA HandledTyped ==
  ASSUME WiresTyped, NEW p \in Packets, NEW w \in SUBSET Packets, ethernet_handle_package(p, w)
  PROVE  /\ wire' \subseteq Packets /\ server' \in ServerType
         /\ server'.file # None => server'.file \in Files /\ server'.block \in 1 .. Blocks[server'.file]
         /\ wire' \subseteq w \union {Data(f, n) : f \in Files, n \in Nat \ {0, 1}}
<1>1. CASE p.t = "data"
  BY <1>1, AcknowledgeTyped DEF ethernet_handle_package
<1>2. CASE p.t # "data"
  BY <1>2 DEF ethernet_handle_package, WiresTyped
<1>. QED  BY <1>1, <1>2

(* The budget: a fault or a call less, or none.                            *)
LEMMA BudgetTyped ==
  ASSUME RestTyped,
         \/ UNCHANGED budget
         \/ budget.faults > 0 /\ budget' = [budget EXCEPT !.faults = @ - 1]
         \/ budget.calls > 0 /\ budget' = [budget EXCEPT !.calls = @ - 1]
         \/ budget.faults > 0 /\ budget' = [budget EXCEPT !.others = TRUE, !.faults = @ - 1]
  PROVE  /\ budget' \in BudgetType /\ budget'.calls \in Nat /\ budget'.calls <= budget.calls
         /\ budget.calls \in Nat
<1>. USE NetworkAssumption DEF RestTyped, BudgetType
<1>1. CASE UNCHANGED budget
  BY <1>1
<1>2. CASE budget.faults > 0 /\ budget' = [budget EXCEPT !.faults = @ - 1]
  BY <1>2
<1>3. CASE budget.calls > 0 /\ budget' = [budget EXCEPT !.calls = @ - 1]
  BY <1>3
<1>4. CASE budget.faults > 0 /\ budget' = [budget EXCEPT !.others = TRUE, !.faults = @ - 1]
  <2>1. budget.faults - 1 \in 0 .. MaxFaults /\ budget.calls \in Nat
    BY <1>4
  <2>2. budget' \in BudgetType
    BY <1>4, <2>1, Zenon
  <2>3. budget'.calls = budget.calls
    BY <1>4
  <2>. QED  BY <2>1, <2>2, <2>3
<1>. QED  BY <1>1, <1>2, <1>3, <1>4

LEMMA ClientKept ==
  ASSUME Typed, UNCHANGED asking, budget'.calls \in Nat, budget'.calls <= budget.calls, budget.calls \in Nat,
         offered' \in [slot : Slots, ip : Dhcps \union {None, Garbage}]
  PROVE  FlowTyped'
<1>1. UNCHANGED <<pc, ask, dnstid, dns_ip, our_ip, mac, macaddr, buffer, result>>
  BY DEF asking
<1>2. Questions' = Questions /\ Questions \in Nat
  BY <1>1 DEF Questions
<1>3. dnstid' + budget'.calls + Questions' <= MaxCalls + 1
  BY <1>1, <1>2, NetworkAssumption DEF Typed, FlowTyped
<1>. QED  BY <1>1, <1>3 DEF Typed, FlowTyped

(* What the wire loses, and what the server sends again.                   *)
Repeats == ServerResends \/ \E p \in wire : Lose(p)

LEMMA TypedRepeats ==
  ASSUME Typed, Repeats
  PROVE  Typed'
<1>. USE DEF Typed
<1>1. UNCHANGED Client /\ budget.faults > 0 /\ budget' = [budget EXCEPT !.faults = @ - 1]
  BY DEF Repeats, ServerResends, Lose
<1>2. UNCHANGED <<server, ring, next, lease, since>> /\ {lost', again', stray'} \subseteq BOOLEAN
  BY DEF Repeats, ServerResends, Lose, RestTyped
<1>3. wire' \subseteq Packets
  <2>1. CASE ServerResends
    <3>1. Data(server.file, server.block) \in Packets
      BY <2>1, PacketsSent DEF ServerResends, WiresTyped
    <3>2. wire' = wire \union {Data(server.file, server.block)}
      BY <2>1 DEF ServerResends
    <3>. QED  BY <3>1, <3>2 DEF WiresTyped
  <2>2. CASE \E p \in wire : Lose(p)
    BY <2>2 DEF Lose, WiresTyped
  <2>. QED  BY <2>1, <2>2 DEF Repeats
<1>4. FlowTyped'
  BY <1>1, BudgetTyped, ClientKept DEF Client, FlowTyped
<1>. QED  BY <1>1, <1>2, <1>3, <1>4, BudgetTyped DEF WiresTyped, RestTyped

(* A packet comes, from the wire or from another machine, and is put into  *)
(* the ring; or the ring is full.  It stays on the wire if it comes again. *)
Arrival == Wire \/ Foreign
Comes(p, w, handled) ==
  /\ Arrive(p, w, handled) \/ (wire' = w /\ UNCHANGED <<ring, next, server, offered, since>>)
  /\ UNCHANGED <<asking, lease>>
  /\ \/ UNCHANGED budget
     \/ budget.faults > 0 /\ budget' = [budget EXCEPT !.faults = @ - 1]
     \/ budget.faults > 0 /\ budget' = [budget EXCEPT !.others = TRUE, !.faults = @ - 1]
  /\ p \in wire /\ p.t = "data" /\ ~again' => w = wire \ {p}

LEMMA ArrivalComes ==
  ASSUME Arrival, Typed
  PROVE  \E p \in wire \union OfOthers, w \in SUBSET wire, handled \in BOOLEAN : Comes(p, w, handled) /\ p \in Packets
<1>1. CASE Foreign
  <2>1. PICK p \in OfOthers, handled \in BOOLEAN :
          /\ Arrive(p, wire, handled) /\ UNCHANGED <<asking, lease>>
          /\ \/ UNCHANGED budget
             \/ budget.faults > 0 /\ budget' = [budget EXCEPT !.others = TRUE, !.faults = @ - 1]
    BY <1>1 DEF Foreign
  <2>2. p.t # "data" /\ p \in Packets
    BY PacketsSent DEF OfOthers, ArpRequest, ArpReply, Packet
  <2>3. Comes(p, wire, handled)
    BY <2>1, <2>2 DEF Comes
  <2>. QED  BY <2>2, <2>3
<1>2. CASE Wire
  <2>1. PICK p \in wire, twice \in BOOLEAN, handled \in BOOLEAN : Deliver(p, twice, handled)
    BY <1>2 DEF Wire
  <2>. DEFINE w == IF twice THEN wire ELSE wire \ {p}
  <2>2. Comes(p, w, handled)
    BY <2>1 DEF Deliver, Comes
  <2>3. w \in SUBSET wire /\ p \in Packets
    BY DEF Typed, WiresTyped
  <2>. HIDE DEF w
  <2>. QED  BY <2>2, <2>3
<1>. QED  BY <1>1, <1>2 DEF Arrival

LEMMA ArrivalRing ==
  ASSUME Typed, NEW p \in Packets, NEW w, NEW handled \in BOOLEAN, Comes(p, w, handled)
  PROVE  /\ ring' \in [Slots -> Packets \union {NoPacket}]
         /\ next' \in Slots /\ since' \in 0 .. Bufs
         /\ offered' \in [slot : Slots, ip : Dhcps \union {None, Garbage}]
<1>. USE DEF Typed, WiresTyped, FlowTyped, RestTyped
<1>1. CASE UNCHANGED <<ring, next, server, offered, since>>
  BY <1>1
<1>2. CASE Arrive(p, w, handled)
  <2>1. ring' \in [Slots -> Packets \union {NoPacket}]
    BY <1>2 DEF Arrive
  <2>2. next' \in Slots
    BY <1>2, NetworkAssumption, NextIndex DEF Arrive, Slots
  <2>3. since' \in 0 .. Bufs
    BY <1>2, NetworkAssumption DEF Arrive
  <2>4. IpIn(p) \in Dhcps \union {None, Garbage}
    BY KindsOfPackets DEF IpIn
  <2>5. offered' \in [slot : Slots, ip : Dhcps \union {None, Garbage}]
    BY <1>2, <2>4 DEF Arrive
  <2>. QED  BY <2>1, <2>2, <2>3, <2>5
<1>. QED  BY <1>1, <1>2 DEF Comes

LEMMA ArrivalHistory ==
  ASSUME Typed, Arrival
  PROVE  {lost', again', stray'} \subseteq BOOLEAN
BY DEF Arrival, Wire, Deliver, Foreign, Typed, RestTyped

LEMMA TypedArrival ==
  ASSUME Typed, Arrival
  PROVE  Typed'
<1>. USE DEF Typed
<1>1. PICK p \in wire \union OfOthers, w \in SUBSET wire, handled \in BOOLEAN : Comes(p, w, handled) /\ p \in Packets
  BY ArrivalComes
<1>2. /\ wire' \subseteq Packets /\ server' \in ServerType
      /\ server'.file # None => server'.file \in Files /\ server'.block \in 1 .. Blocks[server'.file]
  <2>1. w \in SUBSET Packets
    BY DEF WiresTyped
  <2>2. ethernet_handle_package(p, w) \/ (wire' = w /\ UNCHANGED server)
    BY <1>1 DEF Comes, Arrive
  <2>. QED  BY <1>1, <2>1, <2>2, HandledTyped DEF WiresTyped
<1>3. /\ budget' \in BudgetType /\ budget'.calls \in Nat /\ budget'.calls <= budget.calls /\ budget.calls \in Nat
      /\ UNCHANGED <<asking, lease>>
  BY <1>1, BudgetTyped DEF Comes
<1>4. FlowTyped'
  BY <1>1, <1>3, ClientKept, ArrivalRing
<1>. QED  BY <1>1, <1>2, <1>3, <1>4, ArrivalRing, ArrivalHistory DEF WiresTyped, RestTyped

(* A packet is taken and changes nothing but what it is taken from.        *)
LEMMA TypedDrop ==
  ASSUME Typed, Take, UNCHANGED <<wire, server, next, Client, lease, since, lost, again, stray>>,
         UNCHANGED budget \/ (budget.calls > 0 /\ budget' = [budget EXCEPT !.calls = @ - 1])
  PROVE  Typed'
<1>. USE DEF Typed
<1>1. WiresTyped'
  BY TakenTyped DEF WiresTyped
<1>2. FlowTyped'
  BY BudgetTyped, ClientKept DEF Client, FlowTyped
<1>3. RestTyped'
  BY BudgetTyped DEF RestTyped
<1>. QED  BY <1>1, <1>2, <1>3

LEMMA Drops ==
  ASSUME DropBeforeOffer \/ DropBeforeAck \/ DropBeforeArp \/ DropBeforeBlock
  PROVE  Take /\ UNCHANGED <<wire, server, next, Client, budget, lease, since, lost, again, stray>>
BY DEF DropBeforeOffer, DropBeforeAck, DropBeforeArp, DropBeforeBlock, Drop

LEMMA AskMacTyped ==
  ASSUME Typed, NEW ip \in {DnsIp, TftpIp}, NEW name \in Names \union {None}, ip = DnsIp => name \in Names,
         AskMac(ip, name)
  PROVE  /\ wire' \subseteq wire \union {ArpReply(ip)} /\ wire' \subseteq Packets
         /\ pc' = "arp" /\ {lost', stray'} \subseteq BOOLEAN
         /\ ask' \in AskType /\ ask'.ip = ip /\ ask'.name = name
         /\ ask'.file = ask.file /\ ask'.id = ask.id
<1>1. ask \in AskType
  BY DEF Typed, FlowTyped
<1>2. ask' = [ask EXCEPT !.ip = ip, !.name = name]
  BY DEF AskMac
<1>3. ask' \in AskType
  BY <1>1, <1>2, Zenon DEF AskType
<1>4. ask'.ip = ip /\ ask'.name = name /\ ask'.file = ask.file /\ ask'.id = ask.id
  BY <1>1, <1>2 DEF AskType
<1>. QED  BY <1>3, <1>4, PacketsSent DEF AskMac, LeftOver, Typed, WiresTyped

(* The main flow: what it is given by a wait, and where it goes.           *)
LEMMA TypedBoot ==
  ASSUME Typed, Discover \/ NoOffer \/ OfferTaken
  PROVE  Typed'
<1>. USE DEF Typed
<1>0. Questions \in {0, 1} /\ Questions' \in {0, 1} /\ budget.calls \in Nat
  BY DEF Questions, RestTyped, BudgetType
<1>1. CASE Discover
  <2>1. wire' \subseteq Packets
    BY <1>1, PacketsSent DEF Discover
  <2>2. ask' \in AskType
    <3>1. ask' = [ask EXCEPT !.boot = (pc' = "offer")] /\ ask \in AskType
      BY <1>1 DEF Discover, FlowTyped
    <3>2. (pc' = "offer") \in BOOLEAN
      OBVIOUS
    <3>. QED  BY <3>1, <3>2, Zenon DEF AskType
  <2>3. pc = "boot" /\ pc' \in {"offer", "idle"} /\ our_ip' \in {our_ip, Static}
    BY <1>1 DEF Discover
  <2>4. UNCHANGED <<dnstid, dns_ip, mac, macaddr, offered, buffer, result, budget>>
    BY <1>1 DEF Discover
  <2>5. dnstid' + budget'.calls + Questions' <= MaxCalls + 1
    BY <1>0, <2>3, <2>4, NetworkAssumption DEF FlowTyped, Questions
  <2>6. FlowTyped'
    BY <2>2, <2>3, <2>4, <2>5 DEF FlowTyped
  <2>. QED  BY <1>1, <2>1, <2>6 DEF Discover, WiresTyped, RestTyped
<1>2. CASE NoOffer
  <2>1. ask' \in AskType
    <3>1. ask' = [ask EXCEPT !.boot = FALSE] /\ ask \in AskType
      BY <1>2 DEF NoOffer, FlowTyped
    <3>. QED  BY <3>1, Zenon DEF AskType
  <2>2. pc = "offer" /\ pc' = "idle" /\ our_ip' = Static
    BY <1>2 DEF NoOffer
  <2>3. UNCHANGED <<dnstid, dns_ip, mac, macaddr, offered, buffer, result, budget>>
    BY <1>2 DEF NoOffer
  <2>4. dnstid' + budget'.calls + Questions' <= MaxCalls + 1
    BY <1>0, <2>2, <2>3, NetworkAssumption DEF FlowTyped, Questions
  <2>5. FlowTyped'
    BY <2>1, <2>2, <2>3, <2>4 DEF FlowTyped
  <2>. QED  BY <1>2, <2>5 DEF NoOffer, NothingForTenTicks, net, WiresTyped, RestTyped
<1>3. CASE OfferTaken
  <2>1. Take /\ Taken.t = "offer"
    BY <1>3 DEF OfferTaken, IsOffer
  <2>2. First \in Slots /\ Taken.a \in Dhcps /\ ring' \in [Slots -> Packets \union {NoPacket}]
    BY <2>1, TakenTyped, KindsOfPackets
  <2>3. wire' \subseteq Packets
    BY <1>3, <2>2, PacketsSent DEF OfferTaken, WiresTyped
  <2>4. since' \in 0 .. Bufs
    <3>1. next + Bufs - First - 1 \in Int
      BY <2>2, NetworkAssumption DEF WiresTyped, Slots
    <3>. QED  BY <1>3, <3>1, NetworkAssumption DEF OfferTaken
  <2>5. offered' \in [slot : Slots, ip : Dhcps \union {None, Garbage}]
    BY <1>3, <2>2 DEF OfferTaken
  <2>6. pc = "offer" /\ pc' = "ack" /\ UNCHANGED <<server, next, ask, dnstid, our_ip, mac, macaddr, buffer, result, budget, lease, again, stray>>
    BY <1>3 DEF OfferTaken
  <2>7. dns_ip' \in BOOLEAN /\ lost' \in BOOLEAN
    BY <1>3 DEF OfferTaken
  <2>8. Questions' = Questions
    BY <2>6 DEF Questions
  <2>9. FlowTyped'
    BY <2>5, <2>6, <2>7, <2>8 DEF FlowTyped
  <2>. QED  BY <2>2, <2>3, <2>4, <2>6, <2>7, <2>9 DEF WiresTyped, RestTyped
<1>. QED  BY <1>1, <1>2, <1>3

LEMMA TypedArp ==
  ASSUME Typed, AckTaken \/ QueryGoes \/ initialiseTFTP
  PROVE  Typed'
<1>. USE DEF Typed
<1>0. Questions \in {0, 1} /\ Questions' \in {0, 1} /\ budget.calls \in Nat
  BY DEF Questions, RestTyped, BudgetType
<1>1. Take
  BY DEF AckTaken, QueryGoes, initialiseTFTP
<1>2. Taken \in Packets /\ ring' \in [Slots -> Packets \union {NoPacket}]
  BY <1>1, TakenTyped
<1>3. CASE AckTaken
  <2>1. Taken.a \in Dhcps
    BY <1>2, <1>3, KindsOfPackets DEF AckTaken, IsAck
  <2>2. AskMac(DnsIp, BootName) /\ BootName \in Names
    BY <1>3, NetworkAssumption DEF AckTaken, BootName
  <2>3. wire' \subseteq Packets /\ pc' = "arp" /\ {lost', stray'} \subseteq BOOLEAN /\ ask' \in AskType /\ ask'.ip = DnsIp /\ ask'.name \in Names
    BY <2>2, AskMacTyped
  <2>4. /\ pc = "ack" /\ our_ip' = offered.ip /\ lease' \in {Taken.a, None} /\ since' \in 0 .. Bufs
        /\ offered' \in [slot : Slots, ip : Dhcps \union {None, Garbage}]
        /\ UNCHANGED <<server, next, dnstid, dns_ip, mac, macaddr, buffer, result, budget, again>>
    BY <1>3, NetworkAssumption DEF AckTaken, Slots
  <2>5. Questions' = Questions
    BY <2>3, <2>4 DEF Questions
  <2>6. FlowTyped'
    BY <2>3, <2>4, <2>5 DEF FlowTyped
  <2>. QED  BY <1>2, <2>1, <2>3, <2>4, <2>6 DEF WiresTyped, RestTyped
<1>4. CASE QueryGoes
  <2>1. Taken.a \in {DnsIp, TftpIp, Other} /\ mac' = Taken.a
    BY <1>2, <1>4, KindsOfPackets DEF QueryGoes, IsArpReply
  <2>2. /\ pc = "arp" /\ ask.ip = DnsIp /\ pc' = "dns" /\ dnstid' = dnstid + 1 /\ ask' = [ask EXCEPT !.id = dnstid]
        /\ UNCHANGED <<server, next, dns_ip, our_ip, macaddr, offered, buffer, result, budget, lease, since, lost, again, stray>>
    BY <1>4 DEF QueryGoes, NextId
  <2>3. Questions = 1 /\ Questions' = 0
    BY <2>2 DEF Questions
  <2>4. dnstid \in 0 .. MaxCalls /\ dnstid' \in Nat /\ dnstid' + budget'.calls + Questions' <= MaxCalls + 1
    BY <1>0, <2>2, <2>3, NetworkAssumption DEF FlowTyped
  <2>5. ask' \in AskType
    BY <2>2, <2>4 DEF FlowTyped, AskType
  <2>6. wire' \subseteq Packets
    <3>1. dnstid \in 0 .. MaxCalls + 1 /\ ask.name \in Names
      BY <2>2, <2>4, NetworkAssumption DEF FlowTyped
    <3>2. DnsAnswer(ask.name, dnstid) \in Packets
      BY <3>1, PacketsSent
    <3>. QED  BY <1>4, <3>2 DEF QueryGoes, WiresTyped
  <2>7. FlowTyped'
    BY <2>1, <2>2, <2>4, <2>5 DEF FlowTyped
  <2>. QED  BY <1>2, <2>2, <2>6, <2>7 DEF WiresTyped, RestTyped
<1>5. CASE initialiseTFTP
  <2>1. Taken.a \in {DnsIp, TftpIp, Other} /\ mac' = Taken.a /\ macaddr' = mac'
    BY <1>2, <1>5, KindsOfPackets DEF initialiseTFTP, IsArpReply
  <2>2. ask' \in AskType
    <3>1. ask' = [ask EXCEPT !.boot = FALSE] /\ ask \in AskType
      BY <1>5 DEF initialiseTFTP, FlowTyped
    <3>. QED  BY <3>1, Zenon DEF AskType
  <2>3. /\ pc' = "idle"
        /\ UNCHANGED <<wire, server, next, dnstid, dns_ip, our_ip, offered, buffer, result, budget, lease, since, lost, again, stray>>
    BY <1>5 DEF initialiseTFTP
  <2>4. dnstid' + budget'.calls + Questions' <= MaxCalls + 1
    BY <1>0, <2>3, NetworkAssumption DEF FlowTyped, Questions
  <2>5. FlowTyped'
    BY <2>1, <2>2, <2>3, <2>4 DEF FlowTyped
  <2>. QED  BY <1>2, <2>3, <2>5 DEF WiresTyped, RestTyped
<1>. QED  BY <1>3, <1>4, <1>5

(* getIPFromName returns, and at boot the server's address is asked for.   *)
LEMMA ReturnTyped ==
  ASSUME Typed, pc = "dns", NEW got \in Names \union {Zero}, ResolveReturns(got),
         UNCHANGED <<dnstid, dns_ip, our_ip, mac, macaddr, offered, buffer, budget>>
  PROVE  FlowTyped' /\ wire' \subseteq Packets /\ {lost', stray'} \subseteq BOOLEAN
<1>. USE DEF Typed
<1>0. budget.calls \in Nat
  BY DEF RestTyped, BudgetType
<1>1. result' \in [name : Names \union {None}, got : Names \union {None, Zero}]
  <2>1. result' = [name |-> ask.name, got |-> got] /\ ask.name \in Names \union {None}
    BY DEF ResolveReturns, FlowTyped, AskType
  <2>. QED  BY <2>1
<1>2. CASE ask.boot /\ got # Zero
  <2>1. AskMac(TftpIp, None) /\ TftpIp # DnsIp
    BY <1>2 DEF ResolveReturns, TftpIp, DnsIp
  <2>2. wire' \subseteq Packets /\ pc' = "arp" /\ {lost', stray'} \subseteq BOOLEAN /\ ask' \in AskType /\ ask'.ip # DnsIp
    BY <2>1, AskMacTyped
  <2>3. dnstid' + budget'.calls + Questions' <= MaxCalls + 1
    BY <1>0, <2>2, NetworkAssumption DEF FlowTyped, Questions
  <2>. QED  BY <1>1, <2>2, <2>3 DEF FlowTyped
<1>3. CASE ~(ask.boot /\ got # Zero)
  <2>1. pc' = "idle" /\ wire' = wire /\ ask' = [ask EXCEPT !.boot = FALSE] /\ UNCHANGED <<lost, stray>>
    BY <1>3 DEF ResolveReturns
  <2>2. ask' \in AskType
    BY <2>1, Zenon DEF FlowTyped, AskType
  <2>3. dnstid' + budget'.calls + Questions' <= MaxCalls + 1
    BY <1>0, <2>1, NetworkAssumption DEF FlowTyped, Questions
  <2>4. FlowTyped'
    BY <1>1, <2>1, <2>2, <2>3 DEF FlowTyped
  <2>. QED  BY <2>1, <2>4 DEF WiresTyped, RestTyped
<1>. QED  BY <1>2, <1>3

LEMMA TypedQuestion ==
  ASSUME Typed, Question
  PROVE  Typed'
<1>. USE DEF Typed
<1>1. CASE AnswerTaken
  <2>1. Take /\ Taken \in Packets /\ ring' \in [Slots -> Packets \union {NoPacket}]
    BY <1>1, TakenTyped DEF AnswerTaken
  <2>2. Taken.a \in Names
    BY <1>1, <2>1, KindsOfPackets DEF AnswerTaken, IsAnswer
  <2>. DEFINE got == IF Taken.a \in Unknown THEN Zero ELSE Taken.a
  <2>3. got \in Names \union {Zero}
    BY <2>2
  <2>4. ResolveReturns(got) /\ pc = "dns"
    BY <1>1 DEF AnswerTaken
  <2>5. UNCHANGED <<server, next, dnstid, dns_ip, our_ip, mac, macaddr, offered, buffer, budget, lease, since, again>>
    BY <1>1 DEF AnswerTaken
  <2>. HIDE DEF got
  <2>6. FlowTyped' /\ wire' \subseteq Packets /\ {lost', stray'} \subseteq BOOLEAN
    BY <2>3, <2>4, <2>5, ReturnTyped
  <2>. QED  BY <2>1, <2>5, <2>6 DEF WiresTyped, RestTyped
<1>2. CASE NoAnswer
  <2>1. Zero \in Names \union {Zero} /\ ResolveReturns(Zero) /\ pc = "dns"
    BY <1>2 DEF NoAnswer
  <2>2. UNCHANGED <<server, ring, next, dnstid, dns_ip, our_ip, mac, macaddr, offered, buffer, budget, lease, since, again>>
    BY <1>2 DEF NoAnswer
  <2>3. FlowTyped' /\ wire' \subseteq Packets /\ {lost', stray'} \subseteq BOOLEAN
    BY <2>1, <2>2, ReturnTyped
  <2>. QED  BY <2>2, <2>3 DEF WiresTyped, RestTyped
<1>3. CASE HandledInQuestion
  <2>1. Take /\ Taken \in Packets /\ ring' \in [Slots -> Packets \union {NoPacket}]
    BY <1>3, TakenTyped DEF HandledInQuestion
  <2>2. ethernet_handle_package(Taken, wire) /\ UNCHANGED <<next, Client, budget, lease, since, lost, again, stray>>
    BY <1>3 DEF HandledInQuestion
  <2>3. wire \in SUBSET Packets
    BY DEF WiresTyped
  <2>4. WiresTyped'
    BY <2>1, <2>2, <2>3, HandledTyped DEF WiresTyped
  <2>5. FlowTyped'
    BY <2>2, BudgetTyped, ClientKept DEF Client, FlowTyped
  <2>. QED  BY <2>2, <2>4, <2>5 DEF RestTyped
<1>. QED  BY <1>1, <1>2, <1>3 DEF Question

LEMMA TypedCalls ==
  ASSUME Typed, Calls \/ BlockTaken
  PROVE  Typed'
<1>. USE DEF Typed
<1>0. Questions \in {0, 1} /\ Questions' \in {0, 1} /\ budget.calls \in Nat /\ dnstid \in Nat
  BY DEF Questions, RestTyped, BudgetType, FlowTyped
<1>1. ASSUME Call
      PROVE  /\ pc = "idle" /\ budget' \in BudgetType /\ budget'.calls = budget.calls - 1 /\ budget.calls > 0
             /\ Questions = 0
  BY <1>1, BudgetTyped DEF Call, RestTyped, BudgetType, Questions
<1>2. CASE getEthernetPackage
  BY <1>2, TypedDrop DEF getEthernetPackage, Call
<1>3. ASSUME NEW name \in Names, getIPFromName(name)
      PROVE  Typed'
  <2>1. AskMac(DnsIp, name)
    BY <1>3 DEF getIPFromName
  <2>2. wire' \subseteq Packets /\ pc' = "arp" /\ {lost', stray'} \subseteq BOOLEAN /\ ask' \in AskType /\ ask'.ip = DnsIp /\ ask'.name \in Names
    BY <2>1, AskMacTyped
  <2>3. /\ Call
        /\ UNCHANGED <<server, ring, next, dnstid, dns_ip, our_ip, mac, macaddr, offered, buffer, result, lease, since, again>>
    BY <1>3 DEF getIPFromName
  <2>4. dnstid' + budget'.calls + Questions' <= MaxCalls + 1
    BY <1>0, <1>1, <2>3, NetworkAssumption DEF FlowTyped
  <2>5. FlowTyped'
    BY <2>2, <2>3, <2>4 DEF FlowTyped
  <2>. QED  BY <1>1, <2>2, <2>3, <2>5 DEF WiresTyped, RestTyped
<1>4. ASSUME NEW f \in Files, tftp_read(f)
      PROVE  Typed'
  <2>1. Blocks[f] \in Nat
    BY NetworkAssumption
  <2>2. /\ wire' \subseteq Packets /\ server' \in ServerType
        /\ server'.file # None => server'.file \in Files /\ server'.block \in 1 .. Blocks[server'.file]
    <3>1. CASE macaddr # TftpIp
      BY <1>4, <3>1 DEF tftp_read, WiresTyped
    <3>2. CASE macaddr = TftpIp /\ Blocks[f] = 0
      BY <1>4, <3>2, PacketsSent DEF tftp_read, WiresTyped
    <3>3. CASE macaddr = TftpIp /\ Blocks[f] # 0
      <4>1. 1 \in 1 .. Blocks[f]
        BY <2>1, <3>3
      <4>2. Data(f, 1) \in Packets
        BY <4>1, PacketsSent
      <4>3. wire' = wire \union {Data(f, 1)} /\ server' = [file |-> f, block |-> 1]
        BY <1>4, <3>3 DEF tftp_read
      <4>. QED  BY <4>1, <4>2, <4>3 DEF WiresTyped, ServerType
    <3>. QED  BY <3>1, <3>2, <3>3
  <2>3. ask' \in AskType
    <3>1. ask' = [ask EXCEPT !.file = f] /\ ask \in AskType
      BY <1>4 DEF tftp_read, FlowTyped
    <3>. QED  BY <3>1, Zenon DEF AskType
  <2>4. /\ Call /\ pc' = "tftp" /\ buffer' = <<>> /\ lost' = FALSE
        /\ UNCHANGED <<ring, next, dnstid, dns_ip, our_ip, mac, macaddr, offered, result, lease, since, again, stray>>
    BY <1>4 DEF tftp_read
  <2>5. dnstid' + budget'.calls + Questions' <= MaxCalls + 1
    BY <1>0, <1>1, <2>4, NetworkAssumption DEF FlowTyped, Questions
  <2>6. buffer' \in Seq(Packets)
    BY <2>4
  <2>7. FlowTyped'
    BY <2>3, <2>4, <2>5, <2>6 DEF FlowTyped
  <2>. QED  BY <1>1, <2>2, <2>4, <2>7 DEF WiresTyped, RestTyped
<1>5. CASE BlockTaken
  <2>1. Take /\ Taken \in Packets /\ ring' \in [Slots -> Packets \union {NoPacket}]
    BY <1>5, TakenTyped DEF BlockTaken
  <2>2. /\ pc = "tftp" /\ pc' \in {"idle", "tftp"} /\ buffer' = Append(buffer, Taken)
        /\ UNCHANGED <<wire, server, next, ask, dnstid, dns_ip, our_ip, mac, macaddr, offered, result, budget, lease, since, lost, again, stray>>
    BY <1>5 DEF BlockTaken
  <2>3. buffer' \in Seq(Packets)
    BY <2>1, <2>2 DEF FlowTyped
  <2>4. dnstid' + budget'.calls + Questions' <= MaxCalls + 1
    BY <2>2 DEF FlowTyped, Questions
  <2>5. FlowTyped'
    BY <2>2, <2>3, <2>4 DEF FlowTyped
  <2>. QED  BY <2>1, <2>2, <2>5 DEF WiresTyped, RestTyped
<1>. QED  BY <1>2, <1>3, <1>4, <1>5 DEF Calls

LEMMA TypedStep ==
  ASSUME Typed, [Next]_vars
  PROVE  Typed'
<1>1. CASE Discover \/ NoOffer \/ OfferTaken
  BY <1>1, TypedBoot
<1>2. CASE AckTaken \/ QueryGoes \/ initialiseTFTP
  BY <1>2, TypedArp
<1>3. CASE DropBeforeOffer \/ DropBeforeAck \/ DropBeforeArp \/ DropBeforeBlock
  BY <1>3, Drops, TypedDrop
<1>4. CASE Question
  BY <1>4, TypedQuestion
<1>5. CASE Calls \/ BlockTaken
  BY <1>5, TypedCalls
<1>6. CASE Wire \/ Faults
  BY <1>6, TypedArrival, TypedRepeats DEF Faults, Arrival, Repeats
<1>7. CASE UNCHANGED vars
  <2>1. UNCHANGED <<wire, server, ring, next, pc, ask, dnstid, dns_ip, our_ip, mac, macaddr, offered, buffer, result,
                    budget, lease, since, lost, again, stray>>
    BY <1>7 DEF vars, net
  <2>2. WiresTyped'
    BY <2>1 DEF Typed, WiresTyped
  <2>3. FlowTyped'
    BY <2>1 DEF Typed, FlowTyped, Questions
  <2>4. RestTyped'
    BY <2>1 DEF Typed, RestTyped
  <2>. QED  BY <2>2, <2>3, <2>4 DEF Typed
<1>. QED  BY <1>1, <1>2, <1>3, <1>4, <1>5, <1>6, <1>7
          DEF Next, Waits, getIpAddressFromDHCPServer, getMACFromIp, Transfer

(* The types, whatever the wire does: for any servers, names and files.    *)
LEMMA TypedAlways == Spec => []Typed
BY TypedInit, TypedStep, PTL DEF Spec

-----------------------------------------------------------------------------
(* What is underway: on the wire, or in a buffer of the ring.              *)
Underway(w, r) == w \union {r[s] : s \in Slots}

(* Where a step's acknowledges and answers to questions come from.         *)
LEMMA NewOnWire ==
  ASSUME Typed, [Next]_vars, NEW p \in wire', p \notin wire
  PROVE  \/ p.t \in {"offer", "arpq", "error"}
         \/ p.t = "arp" /\ pc # "arp" /\ pc' = "arp" /\ p = ArpReply(ask'.ip)
         \/ p.t = "data" /\ p.n # 1
         \/ p.t = "data" /\ ServerResends
         \/ \E f \in Files : tftp_read(f) /\ p = Data(f, 1)
         \/ OfferTaken /\ p = DhcpAck(Taken.a)
         \/ QueryGoes /\ p = DnsAnswer(ask.name, dnstid)
<1>. USE DEF Typed
<1>0. wire \in SUBSET Packets
  BY DEF WiresTyped
<1>1. CASE Discover \/ NoOffer \/ OfferTaken
  BY <1>1 DEF Discover, NoOffer, NothingForTenTicks, net, OfferTaken, Offer, Packet
<1>2. ASSUME NEW ip \in {DnsIp, TftpIp}, NEW name \in Names \union {None}, ip = DnsIp => name \in Names,
             AskMac(ip, name), pc # "arp"
      PROVE  p.t = "arp" /\ pc # "arp" /\ pc' = "arp" /\ p = ArpReply(ask'.ip)
  <2>1. wire' \subseteq wire \union {ArpReply(ip)} /\ pc' = "arp" /\ ask'.ip = ip
    BY <1>2, AskMacTyped
  <2>2. p = ArpReply(ip)
    BY <2>1
  <2>. QED  BY <1>2, <2>1, <2>2 DEF ArpReply, Packet
<1>3. CASE AckTaken
  BY <1>2, <1>3, NetworkAssumption DEF AckTaken, BootName
<1>4. CASE QueryGoes
  BY <1>4 DEF QueryGoes
<1>5. CASE initialiseTFTP \/ BlockTaken \/ getEthernetPackage
  BY <1>5 DEF initialiseTFTP, BlockTaken, getEthernetPackage
<1>6. CASE DropBeforeOffer \/ DropBeforeAck \/ DropBeforeArp \/ DropBeforeBlock
  BY <1>6, Drops
<1>7. CASE AnswerTaken \/ NoAnswer
  <2>1. PICK got \in Names \union {Zero} : ResolveReturns(got)
    <3>1. CASE NoAnswer
      BY <3>1 DEF NoAnswer
    <3>2. CASE AnswerTaken
      <4>1. Taken.a \in Names
        BY <3>2, TakenTyped, KindsOfPackets DEF AnswerTaken, IsAnswer
      <4>. QED  BY <3>2, <4>1 DEF AnswerTaken
    <3>. QED  BY <1>7, <3>1, <3>2
  <2>2. AskMac(TftpIp, None) /\ pc = "dns"
    BY <1>7, <2>1 DEF ResolveReturns, AnswerTaken, NoAnswer
  <2>. QED  BY <1>2, <2>2 DEF TftpIp, DnsIp
<1>8. CASE HandledInQuestion
  <2>1. Taken \in Packets /\ ethernet_handle_package(Taken, wire)
    BY <1>8, TakenTyped DEF HandledInQuestion
  <2>2. p \in {Data(f, n) : f \in Files, n \in Nat \ {0, 1}}
    BY <1>0, <2>1, HandledTyped
  <2>. QED  BY <2>2 DEF Data, Packet
<1>9. ASSUME NEW name \in Names, getIPFromName(name)
      PROVE  p.t = "arp" /\ pc # "arp" /\ pc' = "arp" /\ p = ArpReply(ask'.ip)
  BY <1>2, <1>9 DEF getIPFromName, Call
<1>10. ASSUME NEW f \in Files, tftp_read(f)
      PROVE  p = Data(f, 1) \/ p.t = "error"
  BY <1>10 DEF tftp_read, Error, Packet
<1>11. CASE Arrival
  <2>1. PICK q \in wire \union OfOthers, w \in SUBSET wire, handled \in BOOLEAN : Comes(q, w, handled) /\ q \in Packets
    BY <1>11, ArrivalComes
  <2>2. w \in SUBSET Packets /\ p \notin w
    BY <1>0
  <2>3. ethernet_handle_package(q, w)
    BY <2>1, <2>2 DEF Comes, Arrive
  <2>4. p \in {Data(f, n) : f \in Files, n \in Nat \ {0, 1}}
    BY <2>1, <2>2, <2>3, HandledTyped
  <2>. QED  BY <2>4 DEF Data, Packet
<1>12. CASE Repeats
  BY <1>12 DEF Repeats, ServerResends, Lose, Data, Packet
<1>13. CASE UNCHANGED vars
  BY <1>13 DEF vars, net
<1>. QED  BY <1>1, <1>3, <1>4, <1>5, <1>6, <1>7, <1>8, <1>9, <1>10, <1>11, <1>12, <1>13
          DEF Next, Waits, getIpAddressFromDHCPServer, getMACFromIp, Question, Transfer, Calls, Faults, Arrival, Repeats

(* What the network does changes nothing the main flow asks or knows.      *)
LEMMA OutsideKeeps ==
  ASSUME Typed, Wire \/ Faults \/ UNCHANGED vars
  PROVE  /\ UNCHANGED <<asking, lease>> /\ (pc # "ack" => UNCHANGED <<since, offered>>)
         /\ UNCHANGED stray \/ (pc = "arp" /\ stray')
<1>1. CASE Arrival
  <2>1. PICK p \in wire \union OfOthers, w \in SUBSET wire, handled \in BOOLEAN : Comes(p, w, handled)
    BY <1>1, ArrivalComes
  <2>2. UNCHANGED <<asking, lease>> /\ (pc # "ack" => UNCHANGED <<since, offered>>)
    BY <2>1 DEF Comes, Arrive
  <2>3. UNCHANGED stray \/ (pc = "arp" /\ stray')
    BY <1>1 DEF Arrival, Wire, Deliver, Foreign, Typed, RestTyped
  <2>. QED  BY <2>2, <2>3
<1>2. CASE Repeats
  BY <1>2 DEF Repeats, ServerResends, Lose, Client
<1>3. CASE UNCHANGED vars
  BY <1>3 DEF vars, asking
<1>. QED  BY <1>1, <1>2, <1>3 DEF Faults, Arrival, Repeats

(* The ring gets what arrives, or is emptied.                              *)
Steps == Take \/ UNCHANGED ring \/ Arrival

LEMMA StepOfRing ==
  ASSUME [Next]_vars
  PROVE  Steps
<1>1. CASE Wire \/ UNCHANGED vars \/ Faults
  BY <1>1 DEF Steps, Arrival, vars, net, Faults, ServerResends, Lose
<1>2. CASE Discover
  BY <1>2 DEF Steps, Discover
<1>3. CASE Waits
  BY <1>3, Drops DEF Steps, Waits, getIpAddressFromDHCPServer, getMACFromIp, Question, Transfer, OfferTaken, NoOffer,
     NothingForTenTicks, net, AckTaken, QueryGoes, initialiseTFTP, AnswerTaken, HandledInQuestion, NoAnswer, BlockTaken
<1>4. CASE Calls
  BY <1>4 DEF Steps, Calls, getEthernetPackage, getIPFromName, tftp_read
<1>. QED  BY <1>1, <1>2, <1>3, <1>4 DEF Next

LEMMA NewUnderway ==
  ASSUME Typed, [Next]_vars, NEW p \in Underway(wire', ring'), p.t \in {"ack", "dns"}
  PROVE  \/ p \in Underway(wire, ring)
         \/ OfferTaken /\ p = DhcpAck(Taken.a)
         \/ QueryGoes /\ p = DnsAnswer(ask.name, dnstid)
<1>. USE DEF Typed, Underway
<1>1. CASE p \in wire'
  <2>1. \A f \in Files : Data(f, 1).t = "data"
    BY DEF Data, Packet
  <2>. QED  BY <1>1, <2>1, NewOnWire
<1>2. ASSUME NEW s \in Slots, p = ring'[s]
      PROVE  p \in Underway(wire, ring)
  <2>1. CASE UNCHANGED ring
    BY <1>2, <2>1
  <2>2. CASE Take
    <3>1. ring' = [ring EXCEPT ![First] = NoPacket] /\ p # NoPacket
      BY <2>2, TakenTyped DEF NoPacket, Packet, None
    <3>. QED  BY <1>2, <3>1 DEF WiresTyped
  <2>3. CASE Arrival
    <3>1. PICK q \in wire \union OfOthers, w \in SUBSET wire, handled \in BOOLEAN : Comes(q, w, handled) /\ q \in Packets
      BY <2>3, ArrivalComes
    <3>2. ring' = ring \/ ring' = [ring EXCEPT ![next] = q]
      BY <3>1 DEF Comes, Arrive
    <3>3. \A o \in OfOthers : o.t \notin {"ack", "dns"}
      BY DEF OfOthers, ArpRequest, ArpReply, Packet
    <3>. QED  BY <1>2, <3>2, <3>3 DEF WiresTyped
  <2>. QED  BY <2>1, <2>2, <2>3, StepOfRing DEF Steps
<1>. QED  BY <1>1, <1>2

-----------------------------------------------------------------------------
(* An answer underway is one to an earlier question, or to the one that    *)
(* waits, which has an id of its own.                                      *)
Answers ==
  \A p \in Underway(wire, ring) :
    p.t = "dns" => p.n < dnstid /\ (pc = "dns" /\ p.n = ask.id => p.a = ask.name)

LEMMA FlowOfQuestion ==
  ASSUME Typed, [Next]_vars
  PROVE  /\ UNCHANGED dnstid \/ QueryGoes
         /\ pc' = "dns" => QueryGoes \/ (pc = "dns" /\ UNCHANGED ask)
         /\ UNCHANGED result \/ AnswerTaken \/ NoAnswer
<1>. USE DEF Client, asking
<1>1. CASE Wire \/ Faults \/ UNCHANGED vars
  BY <1>1, OutsideKeeps
<1>2. CASE Discover \/ NoOffer \/ OfferTaken \/ AckTaken \/ QueryGoes \/ initialiseTFTP \/ BlockTaken
  BY <1>2 DEF Discover, NoOffer, OfferTaken, AckTaken, AskMac, QueryGoes, initialiseTFTP, BlockTaken
<1>3. CASE DropBeforeOffer \/ DropBeforeAck \/ DropBeforeArp \/ DropBeforeBlock
  BY <1>3, Drops
<1>4. CASE Question
  BY <1>4 DEF Question, AnswerTaken, NoAnswer, HandledInQuestion, ResolveReturns, AskMac
<1>5. CASE Calls
  <2>1. CASE getEthernetPackage
    BY <2>1 DEF getEthernetPackage
  <2>2. CASE \E name \in Names : getIPFromName(name)
    BY <2>2 DEF getIPFromName, AskMac
  <2>3. CASE \E f \in Files : tftp_read(f)
    BY <2>3 DEF tftp_read
  <2>. QED  BY <1>5, <2>1, <2>2, <2>3 DEF Calls
<1>. QED  BY <1>1, <1>2, <1>3, <1>4, <1>5 DEF Next, Waits, getIpAddressFromDHCPServer, getMACFromIp, Transfer

LEMMA AnswersInit == Init => Answers /\ AnswerIsToQuestion
BY DEF Init, Answers, Underway, AnswerIsToQuestion, NoPacket, Packet, None

LEMMA AnswersStep ==
  ASSUME Typed, Answers, AnswerIsToQuestion, [Next]_vars
  PROVE  Answers' /\ AnswerIsToQuestion'
<1>0. dnstid \in Nat
  BY DEF Typed, FlowTyped
<1>1. ASSUME NEW p \in Underway(wire', ring'), p.t = "dns"
      PROVE  p.n < dnstid' /\ (pc' = "dns" /\ p.n = ask'.id => p.a = ask'.name)
  <2>1. p.t # "ack" /\ \A s : DhcpAck(s).t = "ack"
    BY <1>1 DEF DhcpAck, Packet
  <2>2. CASE QueryGoes
    <3>1. dnstid' = dnstid + 1 /\ ask' = [ask EXCEPT !.id = dnstid]
      BY <2>2 DEF QueryGoes, NextId
    <3>2. ask'.id = dnstid /\ ask'.name = ask.name
      BY <3>1 DEF Typed, FlowTyped, AskType
    <3>3. CASE p = DnsAnswer(ask.name, dnstid)
      BY <1>0, <3>1, <3>2, <3>3 DEF DnsAnswer, Packet
    <3>4. CASE p \in Underway(wire, ring)
      <4>1. p.n \in Nat
        <5>1. p \in Packets \union {NoPacket}
          BY <3>4 DEF Underway, Typed, WiresTyped
        <5>2. p \in Packets
          BY <1>1, <5>1 DEF NoPacket, Packet, None
        <5>. QED  BY <1>1, <5>2, KindsOfPackets, NetworkAssumption
      <4>2. p.n < dnstid
        BY <1>1, <3>4 DEF Answers
      <4>. QED  BY <1>0, <3>1, <3>2, <4>1, <4>2
    <3>. QED  BY <1>1, <2>1, <3>3, <3>4, NewUnderway
  <2>3. CASE ~QueryGoes
    <3>1. p \in Underway(wire, ring)
      BY <1>1, <2>1, <2>3, NewUnderway
    <3>. QED  BY <1>1, <2>3, <3>1, FlowOfQuestion DEF Answers
  <2>. QED  BY <2>2, <2>3
<1>2. AnswerIsToQuestion'
  <2>1. CASE UNCHANGED result
    BY <2>1 DEF AnswerIsToQuestion
  <2>2. CASE NoAnswer
    BY <2>2 DEF NoAnswer, ResolveReturns, AnswerIsToQuestion
  <2>3. CASE AnswerTaken
    <3>1. pc = "dns" /\ Take /\ Taken.t = "dns" /\ Taken.n = ask.id
      BY <2>3 DEF AnswerTaken, IsAnswer
    <3>2. Taken \in Underway(wire, ring)
      BY <3>1, TakenTyped DEF Underway, Taken, Typed
    <3>3. Taken.a = ask.name
      BY <3>1, <3>2 DEF Answers
    <3>4. result' = [name |-> ask.name, got |-> IF Taken.a \in Unknown THEN Zero ELSE Taken.a]
      BY <2>3 DEF AnswerTaken, ResolveReturns
    <3>. QED  BY <3>3, <3>4 DEF AnswerIsToQuestion
  <2>. QED  BY <2>1, <2>2, <2>3, FlowOfQuestion
<1>. QED  BY <1>1, <1>2 DEF Answers

-----------------------------------------------------------------------------
(* While the acknowledge is waited for: how many buffers were filled since *)
(* the offer came, and that only its server has been asked.                *)
Ahead(n, s) == IF n > s THEN n - s - 1 ELSE n + Bufs - s - 1

LEMMA AheadCounts ==
  ASSUME NEW n \in Slots, NEW s \in Slots
  PROVE  /\ (n + Bufs - s - 1) % Bufs = Ahead(n, s) /\ Ahead(n, s) \in Slots
         /\ n # s => Ahead((n + 1) % Bufs, s) = Ahead(n, s) + 1
         /\ n = s => Ahead(n, s) = Bufs - 1
<1>. USE NetworkAssumption DEF Slots, Ahead
<1>1. Ahead(n, s) \in Slots
  OBVIOUS
<1>2. (n + Bufs - s - 1) % Bufs = Ahead(n, s)
  <2>1. CASE n > s
    <3>1. n - s - 1 \in 0 .. Bufs - 1 /\ n + Bufs - s - 1 = (n - s - 1) + Bufs
      BY <2>1
    <3>2. \A k \in 0 .. Bufs - 1 : (k + Bufs) % Bufs = k
      OBVIOUS
    <3>. QED  BY <2>1, <3>1, <3>2
  <2>2. CASE n <= s
    <3>1. n + Bufs - s - 1 \in 0 .. Bufs - 1
      BY <2>2
    <3>2. \A k \in 0 .. Bufs - 1 : k % Bufs = k
      OBVIOUS
    <3>. QED  BY <2>2, <3>1, <3>2
  <2>. QED  BY <2>1, <2>2
<1>3. n # s => Ahead((n + 1) % Bufs, s) = Ahead(n, s) + 1
  <2>1. (n + 1) % Bufs = IF n = Bufs - 1 THEN 0 ELSE n + 1
    BY NextIndex
  <2>. QED  BY <2>1
<1>. QED  BY <1>1, <1>2, <1>3

Early == pc \in {"boot", "offer", "ack"}

Approved ==
  /\ Early => lease = None
  /\ pc \in {"boot", "offer"} => \A p \in Underway(wire, ring) : p.t # "ack"
  /\ pc = "ack" /\ since < Bufs =>
       /\ since = Ahead(next, offered.slot)
       /\ \A p \in Underway(wire, ring) : p.t = "ack" => p.a = offered.ip

LEMMA ApprovedInit == Init => Approved /\ OurIpIsLeased
BY DEF Init, Approved, OurIpIsLeased, Underway, NoPacket, Packet, None

(* Who steps before the lease, and what never changes after it.            *)
LEMMA FlowOfLease ==
  ASSUME Typed, [Next]_vars
  PROVE  \/ Early /\ (Wire \/ Faults \/ UNCHANGED vars)
         \/ pc = "boot" /\ Discover
         \/ pc = "offer" /\ (DropBeforeOffer \/ OfferTaken \/ NoOffer)
         \/ pc = "ack" /\ (DropBeforeAck \/ AckTaken)
         \/ ~Early /\ ~(pc' \in {"boot", "offer", "ack"}) /\ UNCHANGED <<our_ip, lease, since>>
<1>. USE DEF Early
<1>1. CASE Wire \/ Faults \/ UNCHANGED vars
  <2>1. UNCHANGED <<pc, our_ip, lease>> /\ (pc # "ack" => UNCHANGED since)
    BY <1>1, OutsideKeeps DEF asking
  <2>. QED  BY <1>1, <2>1
<1>2. CASE Discover \/ OfferTaken \/ NoOffer \/ AckTaken
  BY <1>2 DEF Discover, OfferTaken, NoOffer, AckTaken
<1>3. CASE DropBeforeOffer \/ DropBeforeAck
  BY <1>3 DEF DropBeforeOffer, DropBeforeAck, Drop
<1>4. CASE DropBeforeArp \/ DropBeforeBlock
  BY <1>4 DEF DropBeforeArp, DropBeforeBlock, Drop, Client, asking
<1>5. CASE QueryGoes \/ initialiseTFTP \/ BlockTaken
  BY <1>5 DEF QueryGoes, initialiseTFTP, BlockTaken
<1>6. CASE Question
  BY <1>6 DEF Question, AnswerTaken, NoAnswer, HandledInQuestion, ResolveReturns, AskMac, Client, asking
<1>7. CASE Calls
  <2>1. CASE getEthernetPackage
    BY <2>1 DEF getEthernetPackage, Call, Client, asking
  <2>2. CASE \E name \in Names : getIPFromName(name)
    BY <2>2 DEF getIPFromName, Call, AskMac
  <2>3. CASE \E f \in Files : tftp_read(f)
    BY <2>3 DEF tftp_read, Call
  <2>. QED  BY <1>7, <2>1, <2>2, <2>3 DEF Calls
<1>. QED  BY <1>1, <1>2, <1>3, <1>4, <1>5, <1>6, <1>7 DEF Next, Waits, getIpAddressFromDHCPServer, getMACFromIp, Transfer

LEMMA ApprovedStep ==
  ASSUME Typed, Approved, OurIpIsLeased, [Next]_vars
  PROVE  Approved' /\ OurIpIsLeased'
<1>. USE DEF Early, Approved, OurIpIsLeased
<1>0. ASSUME NEW p \in Underway(wire', ring'), p.t = "ack", ~OfferTaken
      PROVE  p \in Underway(wire, ring)
  <2>1. \A name, id : DnsAnswer(name, id).t = "dns"
    BY DEF DnsAnswer, Packet
  <2>2. p.t # "dns"
    BY <1>0
  <2>. QED  BY <1>0, <2>1, <2>2, NewUnderway
<1>1. CASE Early /\ (Wire \/ Faults \/ UNCHANGED vars)
  <2>1. UNCHANGED <<pc, our_ip, lease>>
    BY <1>1, OutsideKeeps DEF asking
  <2>2. CASE ~OfferTaken
    <3>1. CASE pc # "ack"
      BY <1>0, <1>1, <2>1, <2>2, <3>1
    <3>2. CASE pc = "ack" /\ UNCHANGED <<next, since, offered>>
      BY <1>0, <1>1, <2>1, <2>2, <3>2
    <3>3. CASE pc = "ack" /\ ~UNCHANGED <<next, since, offered>>
      <4>1. Arrival
        BY <1>1, <3>3 DEF Faults, Arrival, ServerResends, Lose, Client, vars, net
      <4>2. PICK p \in wire \union OfOthers, w \in SUBSET wire, handled \in BOOLEAN : Comes(p, w, handled)
        BY <4>1, ArrivalComes
      <4>3. /\ offered' = IF next = offered.slot THEN [offered EXCEPT !.ip = IpIn(p)] ELSE offered
            /\ next' = (next + 1) % Bufs
            /\ since' = IF since < Bufs THEN since + 1 ELSE since
        BY <3>3, <4>2 DEF Comes, Arrive
      <4>4. next \in Slots /\ offered.slot \in Slots /\ since \in 0 .. Bufs /\ offered'.slot = offered.slot
        BY <4>3 DEF Typed, WiresTyped, FlowTyped, RestTyped
      <4>5. CASE since' < Bufs
        <5>1. since < Bufs /\ since' = since + 1 /\ since = Ahead(next, offered.slot)
          BY <3>3, <4>3, <4>4, <4>5, NetworkAssumption
        <5>2. next # offered.slot
          BY <4>4, <4>5, <5>1, AheadCounts, NetworkAssumption
        <5>3. offered' = offered /\ since' = Ahead(next', offered.slot)
          BY <4>3, <4>4, <5>1, <5>2, AheadCounts
        <5>. QED  BY <1>0, <2>1, <2>2, <3>3, <5>1, <5>3
      <4>6. CASE ~(since' < Bufs)
        BY <2>1, <3>3, <4>6
      <4>. QED  BY <4>5, <4>6
    <3>. QED  BY <3>1, <3>2, <3>3
  <2>3. ~OfferTaken
    BY <2>1 DEF OfferTaken
  <2>. QED  BY <2>2, <2>3
<1>2. CASE pc = "boot" /\ Discover
  <2>1. pc' \in {"offer", "idle"} /\ UNCHANGED lease /\ ~OfferTaken
    BY <1>2 DEF Discover, OfferTaken
  <2>. QED  BY <1>0, <1>2, <2>1
<1>3. CASE pc = "offer" /\ (DropBeforeOffer \/ NoOffer)
  <2>1. /\ pc' = "offer" \/ pc' = "idle"
        /\ UNCHANGED lease /\ ~OfferTaken
    BY <1>3 DEF DropBeforeOffer, NoOffer, Drop, Client, asking, OfferTaken, Take, NothingForTenTicks
  <2>. QED  BY <1>0, <1>3, <2>1
<1>4. CASE pc = "offer" /\ OfferTaken
  <2>1. /\ pc' = "ack" /\ UNCHANGED <<next, lease>> /\ offered' = [slot |-> First, ip |-> Taken.a]
        /\ since' = (next + Bufs - First - 1) % Bufs /\ Take
    BY <1>4 DEF OfferTaken
  <2>2. First \in Slots /\ next \in Slots
    BY <2>1, TakenTyped DEF Typed, WiresTyped
  <2>3. since' = Ahead(next', offered'.slot)
    BY <2>1, <2>2, AheadCounts
  <2>4. ASSUME NEW p \in Underway(wire', ring'), p.t = "ack"
        PROVE  p.a = offered'.ip
    <3>1. \A name, id : DnsAnswer(name, id).t = "dns"
      BY DEF DnsAnswer, Packet
    <3>2. p = DhcpAck(Taken.a)
      BY <1>4, <2>4, <3>1, NewUnderway
    <3>. QED  BY <2>1, <3>2 DEF DhcpAck, Packet
  <2>. QED  BY <1>4, <2>1, <2>3, <2>4
<1>5. CASE pc = "ack" /\ DropBeforeAck
  <2>1. UNCHANGED <<pc, our_ip, lease, next, since, offered>> /\ ~OfferTaken
    BY <1>5 DEF DropBeforeAck, Drop, Client, asking, OfferTaken
  <2>. QED  BY <1>0, <1>5, <2>1
<1>6. CASE pc = "ack" /\ AckTaken
  <2>1. /\ Take /\ Taken.t = "ack" /\ our_ip' = offered.ip /\ pc' = "arp"
        /\ lease' = IF since < Bufs THEN Taken.a ELSE None
    BY <1>6 DEF AckTaken, IsAck, AskMac
  <2>2. Taken \in Underway(wire, ring)
    BY <2>1, TakenTyped DEF Underway, Taken, Typed
  <2>. QED  BY <1>6, <2>1, <2>2
<1>7. CASE ~Early /\ ~(pc' \in {"boot", "offer", "ack"}) /\ UNCHANGED <<our_ip, lease, since>>
  BY <1>7
<1>. QED  BY <1>1, <1>2, <1>3, <1>4, <1>5, <1>6, <1>7, FlowOfLease

-----------------------------------------------------------------------------
(* While getMACFromIp waits, each reply underway is the one it asked for,  *)
(* unless one of somebody else came or was left over; and the reply it has *)
(* taken was such a one.                                                   *)
Asked ==
  ~stray =>
    /\ pc = "arp" => \A p \in Underway(wire, ring) : p.t = "arp" => p = ArpReply(ask.ip)
    /\ pc # "arp" /\ ask.ip # None => mac = ask.ip

LEMMA FlowOfReply ==
  ASSUME Typed, [Next]_vars
  PROVE  \/ UNCHANGED <<mac, stray>> /\ ask'.ip = ask.ip /\ (pc' = "arp" <=> pc = "arp")
         \/ pc = "arp" /\ stray' /\ UNCHANGED asking
         \/ /\ pc = "arp" /\ pc' # "arp" /\ Take /\ Taken.t = "arp" /\ mac' = Taken.a
            /\ ask'.ip = ask.ip /\ UNCHANGED stray
         \/ pc # "arp" /\ pc' = "arp" /\ stray' = LeftOver
<1>. USE DEF Client, asking
<1>0. ask \in AskType
  BY DEF Typed, FlowTyped
<1>1. CASE Wire \/ Faults \/ UNCHANGED vars
  BY <1>1, OutsideKeeps
<1>2. CASE Discover \/ NoOffer \/ OfferTaken \/ BlockTaken
  BY <1>0, <1>2 DEF Discover, NoOffer, OfferTaken, BlockTaken, AskType
<1>3. CASE QueryGoes \/ initialiseTFTP
  BY <1>0, <1>3 DEF QueryGoes, initialiseTFTP, IsArpReply, AskType
<1>4. CASE AckTaken
  BY <1>4 DEF AckTaken, AskMac
<1>5. CASE DropBeforeOffer \/ DropBeforeAck \/ DropBeforeArp \/ DropBeforeBlock
  BY <1>5, Drops
<1>6. CASE Question
  BY <1>0, <1>6 DEF Question, AnswerTaken, NoAnswer, HandledInQuestion, ResolveReturns, AskMac, AskType
<1>7. CASE Calls
  <2>1. CASE getEthernetPackage
    BY <2>1 DEF getEthernetPackage, Call
  <2>2. CASE \E name \in Names : getIPFromName(name)
    BY <2>2 DEF getIPFromName, Call, AskMac
  <2>3. CASE \E f \in Files : tftp_read(f)
    BY <1>0, <2>3 DEF tftp_read, Call, AskType
  <2>. QED  BY <1>7, <2>1, <2>2, <2>3 DEF Calls
<1>. QED  BY <1>1, <1>2, <1>3, <1>4, <1>5, <1>6, <1>7 DEF Next, Waits, getIpAddressFromDHCPServer, getMACFromIp, Transfer

LEMMA AskedInit == Init => Asked
BY DEF Init, Asked

(* A reply that a step brings is the one asked for, or a stray one.        *)
LEMMA NewReply ==
  ASSUME Typed, [Next]_vars, NEW p \in Underway(wire', ring'), p.t = "arp"
  PROVE  \/ p \in Underway(wire, ring)
         \/ pc # "arp" /\ pc' = "arp" /\ p = ArpReply(ask'.ip)
         \/ Foreign /\ (pc = "arp" => stray')
<1>. USE DEF Typed, Underway
<1>1. CASE p \in wire'
  <2>1. \A x, n : DhcpAck(x).t = "ack" /\ DnsAnswer(x, n).t = "dns" /\ Data(x, n).t = "data"
    BY DEF DhcpAck, DnsAnswer, Data, Packet
  <2>. QED  BY <1>1, <2>1, NewOnWire
<1>2. ASSUME NEW s \in Slots, p = ring'[s]
      PROVE  p \in Underway(wire, ring) \/ (Foreign /\ (pc = "arp" => stray'))
  <2>1. CASE UNCHANGED ring
    BY <1>2, <2>1
  <2>2. CASE Take
    <3>1. ring' = [ring EXCEPT ![First] = NoPacket] /\ p # NoPacket
      BY <2>2, TakenTyped DEF NoPacket, Packet, None
    <3>. QED  BY <1>2, <3>1 DEF WiresTyped
  <2>3. CASE Wire
    <3>1. PICK q \in wire : ring' = ring \/ ring' = [ring EXCEPT ![next] = q]
      BY <2>3 DEF Wire, Deliver, Arrive
    <3>. QED  BY <1>2, <3>1 DEF WiresTyped
  <2>4. CASE Foreign
    <3>1. PICK q \in OfOthers : /\ ring' = ring \/ ring' = [ring EXCEPT ![next] = q]
                               /\ stray' = (stray \/ (pc = "arp" /\ q.t = "arp"))
      BY <2>4 DEF Foreign, Arrive
    <3>. QED  BY <1>2, <2>4, <3>1 DEF WiresTyped
  <2>. QED  BY <2>1, <2>2, <2>3, <2>4, StepOfRing DEF Steps, Arrival
<1>. QED  BY <1>1, <1>2

LEMMA AskedStep ==
  ASSUME Typed, Asked, [Next]_vars
  PROVE  Asked'
<1>. SUFFICES ASSUME ~stray' PROVE Asked'
  BY DEF Asked
<1>1. CASE UNCHANGED <<mac, stray>> /\ ask'.ip = ask.ip /\ (pc' = "arp" <=> pc = "arp")
  BY <1>1, NewReply DEF Asked
<1>2. CASE /\ pc = "arp" /\ pc' # "arp" /\ Take /\ Taken.t = "arp" /\ mac' = Taken.a
           /\ ask'.ip = ask.ip /\ UNCHANGED stray
  <2>1. Taken \in Underway(wire, ring)
    BY <1>2, TakenTyped DEF Underway, Taken, Typed
  <2>2. Taken = ArpReply(ask.ip)
    BY <1>2, <2>1 DEF Asked
  <2>. QED  BY <1>2, <2>2 DEF Asked, ArpReply, Packet
<1>3. CASE pc # "arp" /\ pc' = "arp" /\ stray' = LeftOver
  <2>1. \A p \in Underway(wire, ring) : p.t # "arp"
    BY <1>3 DEF LeftOver, Underway
  <2>2. ~Foreign
    BY <1>3 DEF Foreign, asking
  <2>. QED  BY <1>3, <2>1, <2>2, NewReply DEF Asked
<1>. QED  BY <1>1, <1>2, <1>3, FlowOfReply

-----------------------------------------------------------------------------
(* Of the first blocks of files there is one while it is waited for, and   *)
(* none otherwise, unless they come twice.                                 *)
Firsts == {p \in Packets : p.t = "data" /\ p.n = 1}

NoneOf(K, w, r) == w \cap K = {} /\ \A s \in Slots : r[s] \notin K
OnlyOne(K, x, w, r) ==
  /\ w \cap K \subseteq {x}
  /\ \A s \in Slots : r[s] \in K => r[s] = x /\ w \cap K = {} /\ \A q \in Slots : r[q] \in K => q = s

(* From ring r to ring q: packets of K stay, or one comes from the wire.   *)
RingMoves(K, w, r, v, q) ==
  \/ \A s \in Slots : q[s] \in K => q[s] = r[s]
  \/ \E n \in Slots : q[n] \in w \ v /\ \A s \in Slots \ {n} : q[s] \in K => q[s] = r[s]

LEMMA OneMoves ==
  ASSUME NEW K, NEW x, NEW w, NEW r, NEW v, NEW q, v \cap K \subseteq w, RingMoves(K, w, r, v, q)
  PROVE  /\ OnlyOne(K, x, w, r) => OnlyOne(K, x, v, q)
         /\ NoneOf(K, w, r) => NoneOf(K, v, q)
<1>1. CASE \A s \in Slots : q[s] \in K => q[s] = r[s]
  BY <1>1 DEF OnlyOne, NoneOf
<1>2. ASSUME NEW n \in Slots, q[n] \in w \ v, \A s \in Slots \ {n} : q[s] \in K => q[s] = r[s]
      PROVE  /\ OnlyOne(K, x, w, r) => OnlyOne(K, x, v, q)
             /\ NoneOf(K, w, r) => NoneOf(K, v, q)
  <2>1. CASE q[n] \notin K
    BY <1>2, <2>1 DEF OnlyOne, NoneOf
  <2>2. CASE q[n] \in K
    <3>1. ~NoneOf(K, w, r)
      BY <1>2, <2>2 DEF NoneOf
    <3>2. ASSUME OnlyOne(K, x, w, r)
          PROVE  OnlyOne(K, x, v, q)
      <4>1. q[n] = x /\ \A s \in Slots : r[s] \notin K
        BY <1>2, <2>2, <3>2 DEF OnlyOne
      <4>2. v \cap K = {}
        BY <1>2, <2>2, <3>2, <4>1 DEF OnlyOne
      <4>3. \A s \in Slots \ {n} : q[s] \notin K
        BY <1>2, <4>1
      <4>. QED  BY <4>1, <4>2, <4>3 DEF OnlyOne
    <3>. QED  BY <3>1, <3>2
  <2>. QED  BY <2>1, <2>2
<1>. QED  BY <1>1, <1>2 DEF RingMoves

LEMMA OneSent ==
  ASSUME NEW K, NEW x, NEW w, NEW r, NEW v, NEW q, NoneOf(K, w, r), v \cap K \subseteq {x}, RingMoves(K, w, r, v, q)
  PROVE  OnlyOne(K, x, v, q)
<1>1. \A s \in Slots : q[s] \notin K
  BY DEF NoneOf, RingMoves
<1>. QED  BY <1>1 DEF OnlyOne

LEMMA OneTaken ==
  ASSUME Typed, NEW K, NEW x, K \subseteq Packets, OnlyOne(K, x, wire, ring), Take, Taken \in K, wire' \cap K \subseteq wire
  PROVE  Taken = x /\ NoneOf(K, wire', ring')
<1>1. First \in Slots /\ ring[First] = Taken /\ ring' = [ring EXCEPT ![First] = NoPacket]
  BY TakenTyped DEF Taken, Typed
<1>2. Taken = x /\ wire \cap K = {} /\ \A s \in Slots \ {First} : ring[s] \notin K
  BY <1>1 DEF OnlyOne
<1>3. NoPacket \notin K
  BY KindsOfPackets
<1>4. \A s \in Slots : ring'[s] \notin K
  BY <1>1, <1>2, <1>3 DEF Typed, WiresTyped
<1>. QED  BY <1>2, <1>4 DEF NoneOf

(* Every step moves them so, if none comes a second time.                  *)
LEMMA StepMoves ==
  ASSUME Typed, [Next]_vars, ~again'
  PROVE  RingMoves(Firsts, wire, ring, wire', ring')
<1>. USE DEF Typed
<1>1. CASE UNCHANGED ring
  BY <1>1 DEF RingMoves
<1>2. CASE Take
  <2>1. First \in Slots /\ ring' = [ring EXCEPT ![First] = NoPacket] /\ NoPacket \notin Firsts
    BY <1>2, TakenTyped, KindsOfPackets DEF Firsts
  <2>. QED  BY <2>1 DEF RingMoves, WiresTyped
<1>3. CASE Arrival
  <2>1. PICK p \in wire \union OfOthers, w \in SUBSET wire, handled \in BOOLEAN : Comes(p, w, handled) /\ p \in Packets
    BY <1>3, ArrivalComes
  <2>2. ring' = ring \/ ring' = [ring EXCEPT ![next] = p]
    BY <2>1 DEF Comes, Arrive
  <2>3. CASE ring' = ring \/ p \notin Firsts
    BY <2>2, <2>3 DEF RingMoves, WiresTyped
  <2>4. CASE ring' = [ring EXCEPT ![next] = p] /\ p \in Firsts
    <3>1. p.t = "data" /\ p.n = 1
      BY <2>4 DEF Firsts
    <3>2. p \in wire /\ w = wire \ {p}
      BY <2>1, <3>1 DEF Comes, OfOthers, ArpRequest, ArpReply, Packet
    <3>3. wire' = w \/ ethernet_handle_package(p, w)
      BY <2>1 DEF Comes, Arrive
    <3>4. wire' \subseteq w \union {Data(f, n) : f \in Files, n \in Nat \ {0, 1}}
      <4>1. w \in SUBSET Packets
        BY DEF WiresTyped
      <4>. QED  BY <2>1, <3>3, <4>1, HandledTyped
    <3>5. \A f, n : Data(f, n).n = n
      BY DEF Data, Packet
    <3>6. p \notin wire'
      BY <3>1, <3>2, <3>4, <3>5
    <3>7. ring'[next] = p /\ next \in Slots /\ \A s \in Slots \ {next} : ring'[s] = ring[s]
      BY <2>4 DEF WiresTyped
    <3>. QED  BY <3>2, <3>6, <3>7 DEF RingMoves
  <2>. QED  BY <2>2, <2>3, <2>4
<1>. QED  BY <1>1, <1>2, <1>3, StepOfRing DEF Steps

LEMMA AgainStays ==
  ASSUME [Next]_vars, again
  PROVE  again'
<1>1. CASE Wire \/ Faults \/ UNCHANGED vars
  BY <1>1 DEF Wire, Deliver, Faults, Foreign, ServerResends, Lose, vars
<1>2. CASE Discover \/ Waits
  BY <1>2, Drops DEF Discover, Waits, getIpAddressFromDHCPServer, getMACFromIp, Question, Transfer, OfferTaken, NoOffer,
     AckTaken, QueryGoes, initialiseTFTP, AnswerTaken, HandledInQuestion, NoAnswer, BlockTaken
<1>3. CASE Calls
  BY <1>3 DEF Calls, getEthernetPackage, getIPFromName, tftp_read
<1>. QED  BY <1>1, <1>2, <1>3 DEF Next

LEMMA NothingUnderway ==
  ASSUME Init, NEW K, K \subseteq Packets
  PROVE  NoneOf(K, wire, ring)
<1>1. NoPacket \notin K
  BY KindsOfPackets
<1>. QED  BY <1>1 DEF Init, NoneOf

-----------------------------------------------------------------------------
(* The one first block underway is of the file that is read, and it is all *)
(* that a read ever stores.                                                *)
Reading ==
  ~again =>
    /\ pc = "tftp" /\ buffer = <<>> => OnlyOne(Firsts, Data(ask.file, 1), wire, ring)
    /\ ~(pc = "tftp" /\ buffer = <<>>) => NoneOf(Firsts, wire, ring)
    /\ buffer # <<>> => buffer = <<Data(ask.file, 1)>> /\ (pc # "tftp" => Blocks[ask.file] = 1)

LEMMA ReadingInit == Init => Reading
<1>1. Firsts \subseteq Packets
  BY DEF Firsts
<1>. QED  BY <1>1, NothingUnderway DEF Init, Reading

LEMMA FlowOfFile ==
  ASSUME Typed, [Next]_vars
  PROVE  \/ UNCHANGED buffer /\ ask'.file = ask.file /\ (pc' = "tftp" <=> pc = "tftp")
         \/ BlockTaken
         \/ \E f \in Files : tftp_read(f)
<1>. USE DEF Client, asking
<1>0. ask \in AskType
  BY DEF Typed, FlowTyped
<1>1. CASE Wire \/ Faults \/ UNCHANGED vars
  BY <1>1, OutsideKeeps
<1>2. CASE Discover \/ NoOffer \/ OfferTaken \/ AckTaken \/ QueryGoes \/ initialiseTFTP
  BY <1>0, <1>2 DEF Discover, NoOffer, OfferTaken, AckTaken, AskMac, QueryGoes, initialiseTFTP, AskType
<1>3. CASE DropBeforeOffer \/ DropBeforeAck \/ DropBeforeArp \/ DropBeforeBlock
  BY <1>3, Drops
<1>4. CASE Question
  BY <1>0, <1>4 DEF Question, AnswerTaken, NoAnswer, HandledInQuestion, ResolveReturns, AskMac, AskType
<1>5. CASE getEthernetPackage
  BY <1>5 DEF Call, getEthernetPackage
<1>6. CASE \E name \in Names : getIPFromName(name)
  BY <1>0, <1>6 DEF Call, getIPFromName, AskMac, AskType
<1>. QED  BY <1>1, <1>2, <1>3, <1>4, <1>5, <1>6 DEF Next, Waits, getIpAddressFromDHCPServer, getMACFromIp, Transfer, Calls

LEMMA ReadingStep ==
  ASSUME Typed, Reading, [Next]_vars
  PROVE  Reading'
<1>. SUFFICES ASSUME ~again' PROVE Reading'
  BY DEF Reading
<1>1. ~again
  BY AgainStays, Zenon
<1>2. RingMoves(Firsts, wire, ring, wire', ring') /\ Firsts \subseteq Packets
  BY StepMoves DEF Firsts
<1>3. ASSUME NEW p \in wire' \cap Firsts, p \notin wire
      PROVE  \E f \in Files : tftp_read(f)
  <2>1. p.t = "data" /\ p.n = 1 /\ ~ServerResends
    BY DEF Firsts, ServerResends
  <2>2. \A x, n : DhcpAck(x).t = "ack" /\ DnsAnswer(x, n).t = "dns"
    BY DEF DhcpAck, DnsAnswer, Packet
  <2>. QED  BY <1>3, <2>1, <2>2, NewOnWire
<1>4. ASSUME NEW f \in Files, tftp_read(f)
      PROVE  Reading'
  <2>1. /\ pc = "idle" /\ pc' = "tftp" /\ buffer' = <<>> /\ ask' = [ask EXCEPT !.file = f]
        /\ wire' \subseteq wire \union {Error(f), Data(f, 1)}
    BY <1>4 DEF tftp_read, Call
  <2>2. ask'.file = f
    BY <2>1 DEF Typed, FlowTyped, AskType
  <2>3. NoneOf(Firsts, wire, ring)
    BY <1>1, <2>1 DEF Reading
  <2>4. Error(f) \notin Firsts
    BY DEF Firsts, Error, Packet
  <2>5. OnlyOne(Firsts, Data(f, 1), wire', ring')
    <3>1. wire' \cap Firsts \subseteq {Data(f, 1)}
      BY <2>1, <2>3, <2>4 DEF NoneOf
    <3>. QED  BY <1>2, <2>3, <3>1, OneSent
  <2>. QED  BY <2>1, <2>2, <2>5 DEF Reading
<1>5. CASE BlockTaken
  <2>1. /\ pc = "tftp" /\ Take /\ Taken.t = "data" /\ Taken.n = 1 /\ UNCHANGED <<wire, ask>>
        /\ buffer' = Append(buffer, Taken) /\ pc' = IF Short(Taken) THEN "idle" ELSE "tftp"
    BY <1>5 DEF BlockTaken, IsExpected
  <2>2. Taken \in Firsts /\ First \in Slots /\ Taken = ring[First]
    BY <2>1, TakenTyped DEF Typed, Firsts, Taken
  <2>3. buffer = <<>>
    BY <1>1, <2>2 DEF Reading, NoneOf
  <2>4. OnlyOne(Firsts, Data(ask.file, 1), wire, ring)
    BY <1>1, <2>1, <2>3 DEF Reading
  <2>5. Taken = Data(ask.file, 1) /\ NoneOf(Firsts, wire', ring')
    BY <1>2, <2>1, <2>2, <2>4, OneTaken
  <2>6. buffer' = <<Data(ask.file, 1)>> /\ buffer' # <<>>
    BY <2>1, <2>3, <2>5
  <2>7. pc' # "tftp" => Blocks[ask.file] = 1
    BY <2>1, <2>5 DEF Short, Data, Packet
  <2>. QED  BY <2>1, <2>5, <2>6, <2>7 DEF Reading
<1>6. CASE /\ UNCHANGED buffer /\ ask'.file = ask.file /\ (pc' = "tftp" <=> pc = "tftp")
           /\ ~\E f \in Files : tftp_read(f)
  <2>1. wire' \cap Firsts \subseteq wire
    BY <1>3, <1>6
  <2>2. /\ \A x : OnlyOne(Firsts, x, wire, ring) => OnlyOne(Firsts, x, wire', ring')
        /\ NoneOf(Firsts, wire, ring) => NoneOf(Firsts, wire', ring')
    BY <1>2, <2>1, OneMoves
  <2>. QED  BY <1>1, <1>6, <2>2 DEF Reading
<1>. QED  BY <1>4, <1>5, <1>6, FlowOfFile

LEMMA ReadingIsFile == Typed /\ Reading => ReadIsFile
<1>. SUFFICES ASSUME Reading, pc = "idle", buffer # <<>>, ~again
              PROVE  buffer = [b \in 1 .. Blocks[ask.file] |-> Data(ask.file, b)]
  BY DEF ReadIsFile
<1>1. buffer = <<Data(ask.file, 1)>> /\ Blocks[ask.file] = 1
  BY DEF Reading
<1>2. 1 .. Blocks[ask.file] = {1}
  BY <1>1
<1>3. <<Data(ask.file, 1)>> = [b \in {1} |-> Data(ask.file, b)]
  OBVIOUS
<1>. QED  BY <1>1, <1>2, <1>3

-----------------------------------------------------------------------------
(* The TCP session.  What the peer sends has the number that fits to its   *)
(* kind, and comes in order.                                               *)
PeerPacket == [kind : Session!Kinds, n : Nat, ack : Nat]
OurPacket == [kind : {"syn", "ack", "push"}, n : Nat, ack : Nat]
PeerType == [state : {"listen", "open", "done"}, next : Nat, wants : Nat, acked : Nat]
Numbers == [n : Nat, ack : Nat, sum : Nat]

Fits(p) ==
  /\ p.kind = "syn" => p.n = 0
  /\ p.kind = "push" => p.n < MaxIn
  /\ p.kind = "fin" => p.n = MaxIn

SessionTyped ==
  /\ at \in {"closed", "syn", "open", "mac", "fill", "ack", "add", "store", "send"}
  /\ ethjmplist \in BOOLEAN
  /\ taaaX \in Nat /\ taaaY \in Nat /\ seq \in Numbers
  /\ down \in Seq(PeerPacket) /\ up \subseteq OurPacket
  /\ peer \in PeerType
  /\ resent \in 0 .. MaxResent
  /\ delivered \in Seq(Nat) /\ missed \subseteq Nat /\ numbers \in Seq(Nat)
  /\ early \in BOOLEAN /\ crossed \in BOOLEAN

SessionOpens ==
  /\ at # "closed" => ethjmplist = TRUE
  /\ at = "closed" => down = <<>> /\ up = {} /\ peer.state = "listen"
  /\ peer.state = "listen" => peer.next = 0
  /\ peer.next <= MaxIn + 1
  /\ \A i \in 1 .. Len(down) : Fits(down[i])

(* What was acknowledged, or may be, has been delivered or dropped; what   *)
(* the peer has sent before a packet has too, or stands before it.         *)
Got(n, dropped, given) == n \in dropped \/ \E i \in DOMAIN given : given[i] = n
Covered(a, dropped, given) == \A n \in 1 .. a - 1 : n < MaxIn => Got(n, dropped, given)
Queued(n, queue, before) == \E j \in 1 .. before : queue[j].n = n
InOrder(queue, following, dropped, given) ==
  /\ \A i \in 1 .. Len(queue) : \A n \in 1 .. queue[i].n - 1 :
       n < MaxIn => Got(n, dropped, given) \/ Queued(n, queue, i - 1)
  /\ \A n \in 1 .. following - 1 :
       n < MaxIn => Got(n, dropped, given) \/ Queued(n, queue, Len(queue))

Delivery ==
  /\ Covered(peer.acked, missed, delivered) /\ Covered(taaaY, missed, delivered)
  /\ Covered(seq.ack, missed, delivered)
  /\ \A p \in up : Covered(p.ack, missed, delivered)
  /\ InOrder(down, peer.next, missed, delivered)

(* Nobody counts more packets of ours than there are; and whoever has set  *)
(* the numbers last, they are right.                                       *)
Underways == IF at = "send" THEN 1 ELSE 0
Begun == {"ack", "add", "store", "send"}

Numbering ==
  /\ taaaX <= 2 + Len(numbers) + Underways
  /\ at \in Begun => seq.n <= 2 + Len(numbers)
  /\ at = "store" => seq.sum <= 3 + Len(numbers)
  /\ \A p \in up : (p.kind = "push" => p.n <= 1 + Len(numbers)) /\ (p.kind = "syn" => p.n = 1)
  /\ peer.wants <= 2 + Len(numbers)
  /\ \A i \in 1 .. Len(down) : down[i].ack <= 2 + Len(numbers)
  /\ ~crossed /\ ~early =>
       /\ taaaY > 0 => taaaX = 2 + Len(numbers) + Underways
       /\ at \in Begun => taaaY > 0 /\ seq.n = 2 + Len(numbers)
       /\ at = "store" => seq.sum = 3 + Len(numbers)
       /\ \A i \in 1 .. Len(numbers) : numbers[i] = 1 + i

SessionSound == SessionTyped /\ SessionOpens /\ Delivery /\ Numbering

LEMMA SessionFollows ==
  ASSUME SessionSound
  PROVE  Session!TcpType /\ Session!AckedIsDelivered /\ Session!NumbersFollow
<1>. USE DEF SessionSound
<1>1. Session!TcpType
  BY Zenon DEF SessionTyped, Session!TcpType, PeerPacket, OurPacket, PeerType, Numbers
<1>2. Session!AckedIsDelivered
  BY DEF Delivery, Covered, Got, Session!AckedIsDelivered, Session!PeerFirst
<1>3. Session!NumbersFollow
  <2>1. DOMAIN numbers = 1 .. Len(numbers)
    BY DEF SessionTyped
  <2>. QED  BY <2>1 DEF Numbering, Session!NumbersFollow, Session!OurFirst
<1>. QED  BY <1>1, <1>2, <1>3

LEMMA SessionInit == Session!TcpInit => SessionSound
<1>. SUFFICES ASSUME Session!TcpInit PROVE SessionSound
  OBVIOUS
<1>. USE SessionAssumption DEF Session!TcpInit, Session!NoNumbers, Session!TcpConstants, Session!PeerFirst, Session!OurFirst
<1>1. SessionTyped
  <2>1. 0 \in Nat /\ 1 \in Nat /\ resent \in 0 .. MaxResent
    OBVIOUS
  <2>2. seq \in Numbers /\ peer \in PeerType
    BY DEF Numbers, PeerType
  <2>3. down \in Seq(PeerPacket) /\ delivered \in Seq(Nat) /\ numbers \in Seq(Nat)
    OBVIOUS
  <2>. QED  BY <2>1, <2>2, <2>3, Zenon DEF SessionTyped
<1>2. SessionOpens
  BY DEF SessionOpens
<1>3. Delivery
  BY DEF Delivery, InOrder, Covered
<1>4. Numbering
  BY DEF Numbering, Underways, Begun
<1>. QED  BY <1>1, <1>2, <1>3, <1>4 DEF SessionSound

(* The main flow, but for what it takes from the card.                     *)
LEMMA SessionMain ==
  ASSUME SessionSound, Session!TcpMain, ~Session!OutDrops
  PROVE  SessionSound'
<1>. USE DEF SessionSound
<1>0. UNCHANGED <<down, peer, resent, delivered, missed, crossed>>
  BY DEF Session!TcpMain, Session!create_tcp_session, Session!OutAsks, Session!OutDrops, Session!OutAnswered,
     Session!FillReads, Session!FillAdds, Session!FillStores, Session!OutSends
<1>1. CASE Session!create_tcp_session
  <2>1. UNCHANGED <<taaaX, taaaY, seq, numbers, early>> /\ ethjmplist' = TRUE /\ at' \in {"syn", "open"} /\ at \in {"closed", "syn"}
    BY <1>1 DEF Session!create_tcp_session, SessionOpens
  <2>2. up' = up \/ up' = {[kind |-> "syn", n |-> 1, ack |-> 0]}
    BY <1>1 DEF Session!create_tcp_session, Session!OurFirst
  <2>3. SessionTyped'
    BY <1>0, <2>1, <2>2 DEF SessionTyped, OurPacket
  <2>4. SessionOpens'
    BY <1>0, <2>1 DEF SessionOpens
  <2>5. Delivery'
    BY <1>0, <2>1, <2>2 DEF Delivery, Covered
  <2>6. Numbering'
    BY <1>0, <2>1, <2>2 DEF Numbering, Underways, Begun
  <2>. QED  BY <2>3, <2>4, <2>5, <2>6
<1>2. CASE Session!OutAsks \/ Session!OutAnswered
  <2>1. /\ UNCHANGED <<ethjmplist, taaaX, taaaY, seq, up, numbers, early>>
        /\ at' \in {"mac", "fill"} /\ at \in {"open", "mac"}
    BY <1>2 DEF Session!OutAsks, Session!OutAnswered
  <2>. QED  BY <1>0, <2>1 DEF SessionTyped, SessionOpens, Delivery, Numbering, Underways, Begun
<1>3. CASE Session!FillReads
  <2>1. /\ UNCHANGED <<ethjmplist, taaaX, taaaY, up, numbers>>
        /\ \/ /\ at = "fill" /\ at' = "ack" /\ seq' = [seq EXCEPT !.n = taaaX]
              /\ early' = (early \/ taaaY = 0)
           \/ at = "ack" /\ at' = "add" /\ seq' = [seq EXCEPT !.ack = taaaY] /\ UNCHANGED early
    BY <1>3 DEF Session!FillReads
  <2>2. CASE at = "fill"
    <3>1. at' = "ack" /\ seq' = [seq EXCEPT !.n = taaaX] /\ early' = (early \/ taaaY = 0)
      BY <2>1, <2>2
    <3>2. seq' \in Numbers /\ seq'.n = taaaX /\ seq'.ack = seq.ack
      BY <3>1 DEF SessionTyped, Numbers
    <3>3. early' \in BOOLEAN
      BY <3>1, Zenon DEF SessionTyped
    <3>4. SessionTyped'
      BY <1>0, <2>1, <3>1, <3>2, <3>3 DEF SessionTyped
    <3>5. ~early' => ~early /\ taaaY # 0
      BY <3>1, Zenon
    <3>6. Numbering'
      BY <1>0, <2>1, <2>2, <3>1, <3>2, <3>5 DEF SessionTyped, Numbering, Underways, Begun
    <3>. QED  BY <1>0, <2>1, <2>2, <3>1, <3>2, <3>4, <3>6 DEF SessionOpens, Delivery
  <2>3. CASE at = "ack"
    <3>1. at' = "add" /\ seq' = [seq EXCEPT !.ack = taaaY] /\ UNCHANGED early
      BY <2>1, <2>3
    <3>2. seq' \in Numbers /\ seq'.n = seq.n /\ seq'.ack = taaaY
      BY <3>1 DEF SessionTyped, Numbers
    <3>. QED  BY <1>0, <2>1, <2>3, <3>1, <3>2 DEF SessionTyped, SessionOpens, Delivery, Numbering, Underways, Begun
  <2>. QED  BY <2>1, <2>2, <2>3
<1>4. CASE Session!FillAdds
  <2>1. /\ UNCHANGED <<ethjmplist, taaaX, taaaY, up, numbers, early>> /\ at = "add" /\ at' = "store"
        /\ seq' = [seq EXCEPT !.sum = taaaX + 1]
    BY <1>4 DEF Session!FillAdds
  <2>. DEFINE x == taaaX + 1
  <2>3. seq' = [seq EXCEPT !.sum = x] /\ x = taaaX + 1 /\ x \in Nat /\ seq \in Numbers
    BY <2>1 DEF SessionTyped
  <2>. HIDE DEF x
  <2>2. seq' \in Numbers /\ seq'.n = seq.n /\ seq'.ack = seq.ack /\ seq'.sum = taaaX + 1
    BY <2>3 DEF Numbers
  <2>. QED  BY <1>0, <2>1, <2>2 DEF SessionTyped, SessionOpens, Delivery, Numbering, Underways, Begun
<1>5. CASE Session!FillStores
  <2>1. /\ UNCHANGED <<ethjmplist, taaaY, seq, up, numbers, early>> /\ at = "store" /\ at' = "send" /\ taaaX' = seq.sum
    BY <1>5 DEF Session!FillStores
  <2>2. seq.sum \in Nat
    BY DEF SessionTyped, Numbers
  <2>. QED  BY <1>0, <2>1, <2>2 DEF SessionTyped, SessionOpens, Delivery, Numbering, Underways, Begun
<1>6. CASE Session!OutSends
  <2>. DEFINE p == [kind |-> "push", n |-> seq.n, ack |-> seq.ack]
  <2>1. /\ UNCHANGED <<ethjmplist, taaaX, taaaY, early>> /\ at = "send" /\ at' = "open"
        /\ up' = up \union {p} /\ numbers' = Append(numbers, seq.n) /\ seq' = [n |-> 0, ack |-> 0, sum |-> 0]
    BY <1>6 DEF Session!OutSends, Session!NoNumbers
  <2>2. p \in OurPacket /\ p.n = seq.n /\ p.ack = seq.ack /\ p.kind = "push"
    BY DEF SessionTyped, OurPacket, Numbers
  <2>. HIDE DEF p
  <2>3. /\ numbers' \in Seq(Nat) /\ Len(numbers') = Len(numbers) + 1 /\ Len(numbers) \in Nat
        /\ numbers'[Len(numbers) + 1] = seq.n
        /\ \A i \in 1 .. Len(numbers) : numbers'[i] = numbers[i]
    BY <2>1 DEF SessionTyped, Numbers
  <2>7. seq' \in Numbers /\ seq'.ack = 0
    BY <2>1 DEF Numbers
  <2>4. SessionTyped' /\ SessionOpens'
    BY <1>0, <2>1, <2>2, <2>3, <2>7 DEF SessionTyped, SessionOpens
  <2>5. Delivery'
    BY <1>0, <2>1, <2>2, <2>7 DEF Delivery, Covered
  <2>6. Numbering'
    <3>1. taaaX' <= 2 + Len(numbers') + Underways'
      BY <2>1, <2>3 DEF Numbering, Underways, SessionTyped
    <3>2. \A q \in up' : (q.kind = "push" => q.n <= 1 + Len(numbers')) /\ (q.kind = "syn" => q.n = 1)
      <4>1. seq.n \in Nat /\ seq.n <= 2 + Len(numbers) /\ \A q \in up : q.n \in Nat
        BY <2>1 DEF Numbering, SessionTyped, OurPacket, Numbers, Begun
      <4>2. \A q \in up : (q.kind = "push" => q.n <= 1 + Len(numbers)) /\ (q.kind = "syn" => q.n = 1)
        BY DEF Numbering
      <4>. QED  BY <2>1, <2>2, <2>3, <4>1, <4>2
    <3>3. peer'.wants <= 2 + Len(numbers') /\ \A i \in 1 .. Len(down') : down'[i].ack <= 2 + Len(numbers')
      <4>1. peer.wants \in Nat /\ \A i \in 1 .. Len(down) : down[i].ack \in Nat
        <5>1. peer.wants \in Nat
          BY DEF SessionTyped, PeerType
        <5>2. \A i \in 1 .. Len(down) : down[i] \in PeerPacket
          BY DEF SessionTyped
        <5>. QED  BY <5>1, <5>2 DEF PeerPacket
      <4>2. peer.wants <= 2 + Len(numbers) /\ \A i \in 1 .. Len(down) : down[i].ack <= 2 + Len(numbers)
        BY DEF Numbering
      <4>. QED  BY <1>0, <2>3, <4>1, <4>2
    <3>4. ~crossed' /\ ~early' => (taaaY' > 0 => taaaX' = 2 + Len(numbers') + Underways')
      BY <1>0, <2>1, <2>3 DEF Numbering, Underways, SessionTyped
    <3>5. ~crossed' /\ ~early' => \A i \in 1 .. Len(numbers') : numbers'[i] = 1 + i
      <4>. SUFFICES ASSUME ~crossed', ~early', NEW i \in 1 .. Len(numbers')
                   PROVE  numbers'[i] = 1 + i
        OBVIOUS
      <4>1. CASE i \in 1 .. Len(numbers)
        BY <1>0, <2>1, <2>3, <4>1 DEF Numbering
      <4>2. CASE i = Len(numbers) + 1
        BY <1>0, <2>1, <2>3, <4>2 DEF Numbering, Begun
      <4>. QED  BY <2>3, <4>1, <4>2
    <3>. QED  BY <2>1, <3>1, <3>2, <3>3, <3>4, <3>5 DEF Numbering, Begun
  <2>. QED  BY <2>4, <2>5, <2>6
<1>. QED  BY <1>1, <1>2, <1>3, <1>4, <1>5, <1>6 DEF Session!TcpMain

(* A queue loses its head, or gets one more.                               *)
LEMMA QueueTail ==
  ASSUME NEW q \in Seq(PeerPacket), q # <<>>
  PROVE  /\ Len(q) \in Nat \ {0} /\ Tail(q) \in Seq(PeerPacket) /\ Len(Tail(q)) = Len(q) - 1
         /\ \A i \in 1 .. Len(q) - 1 : Tail(q)[i] = q[i + 1]
         /\ q[1] = Head(q) /\ Head(q) \in PeerPacket
         /\ \A i \in 1 .. Len(q) : q[i] \in PeerPacket
  OBVIOUS

LEMMA QueueAppend ==
  ASSUME NEW q \in Seq(PeerPacket), NEW p \in PeerPacket
  PROVE  /\ Len(q) \in Nat /\ Append(q, p) \in Seq(PeerPacket) /\ Len(Append(q, p)) = Len(q) + 1
         /\ \A i \in 1 .. Len(q) : Append(q, p)[i] = q[i]
         /\ Append(q, p)[Len(q) + 1] = p
         /\ \A i \in 1 .. Len(q) : q[i] \in PeerPacket
  OBVIOUS

(* If the head is delivered or dropped, what remains is still in order.    *)
LEMMA HeadLeaves ==
  ASSUME NEW q \in Seq(PeerPacket), q # <<>>, NEW x \in Nat, NEW m, NEW g, NEW m2, NEW g2,
         \A n \in Nat : Got(n, m, g) => Got(n, m2, g2),
         Head(q).n \in 1 .. MaxIn - 1 => Got(Head(q).n, m2, g2),
         InOrder(q, x, m, g)
  PROVE  InOrder(Tail(q), x, m2, g2) /\ Covered(Head(q).n + 1, m2, g2)
<1>. USE SessionAssumption DEF Session!TcpConstants
<1>1. /\ Len(q) \in Nat \ {0} /\ Len(Tail(q)) = Len(q) - 1
      /\ \A i \in 1 .. Len(q) - 1 : Tail(q)[i] = q[i + 1]
      /\ q[1] = Head(q) /\ Head(q).n \in Nat
      /\ \A i \in 1 .. Len(q) : q[i].n \in Nat
  BY QueueTail DEF PeerPacket
<1>2. ASSUME NEW n \in Nat \ {0}, n < MaxIn, NEW k \in 1 .. Len(q), Got(n, m, g) \/ Queued(n, q, k)
      PROVE  Got(n, m2, g2) \/ Queued(n, Tail(q), k - 1)
  <2>1. CASE Got(n, m, g)
    BY <2>1
  <2>2. CASE Queued(n, q, k)
    <3>1. PICK j \in 1 .. k : q[j].n = n
      BY <2>2 DEF Queued
    <3>2. CASE j = 1
      BY <1>1, <1>2, <3>1, <3>2
    <3>3. CASE j # 1
      <4>1. j - 1 \in 1 .. k - 1 /\ Tail(q)[j - 1] = q[j]
        BY <1>1, <3>3
      <4>. QED  BY <3>1, <4>1 DEF Queued
    <3>. QED  BY <3>2, <3>3
  <2>. QED  BY <1>2, <2>1, <2>2
<1>3. Covered(Head(q).n + 1, m2, g2)
  <2>. SUFFICES ASSUME NEW n \in 1 .. Head(q).n, n < MaxIn
                PROVE  Got(n, m2, g2)
    BY <1>1 DEF Covered
  <2>1. CASE n = Head(q).n
    BY <1>1, <2>1
  <2>2. CASE n # Head(q).n
    <3>1. n \in 1 .. q[1].n - 1 /\ 1 \in 1 .. Len(q) /\ n \in Nat
      BY <1>1, <2>2
    <3>2. Got(n, m, g) \/ Queued(n, q, 0)
      BY <3>1 DEF InOrder
    <3>3. ~Queued(n, q, 0)
      BY DEF Queued
    <3>. QED  BY <3>1, <3>2, <3>3
  <2>. QED  BY <2>1, <2>2
<1>4. ASSUME NEW i \in 1 .. Len(Tail(q)), NEW n \in 1 .. Tail(q)[i].n - 1, n < MaxIn
      PROVE  Got(n, m2, g2) \/ Queued(n, Tail(q), i - 1)
  <2>1. i \in 1 .. Len(q) /\ i + 1 \in 1 .. Len(q) /\ n \in 1 .. q[i + 1].n - 1 /\ n \in Nat \ {0}
    BY <1>1, <1>4
  <2>2. Got(n, m, g) \/ Queued(n, q, i)
    BY <1>4, <2>1 DEF InOrder
  <2>. QED  BY <1>2, <1>4, <2>1, <2>2
<1>5. ASSUME NEW n \in 1 .. x - 1, n < MaxIn
      PROVE  Got(n, m2, g2) \/ Queued(n, Tail(q), Len(Tail(q)))
  <2>1. Got(n, m, g) \/ Queued(n, q, Len(q))
    BY <1>5 DEF InOrder
  <2>2. n \in Nat \ {0} /\ Len(q) \in 1 .. Len(q)
    BY <1>1
  <2>. QED  BY <1>1, <1>2, <1>5, <2>1, <2>2
<1>. QED  BY <1>3, <1>4, <1>5 DEF InOrder

(* And with a packet that is the next one, or was sent before.             *)
LEMMA TailJoins ==
  ASSUME NEW q \in Seq(PeerPacket), NEW p \in PeerPacket, NEW x \in Nat, NEW y \in Nat, NEW m, NEW g,
         InOrder(q, x, m, g), p.n <= x, y <= x \/ y = p.n + 1
  PROVE  InOrder(Append(q, p), y, m, g)
<1>. USE SessionAssumption DEF Session!TcpConstants
<1>. DEFINE r == Append(q, p)
<1>1. /\ Len(q) \in Nat /\ Len(r) = Len(q) + 1 /\ p.n \in Nat
      /\ \A i \in 1 .. Len(q) : r[i] = q[i]
      /\ r[Len(q) + 1] = p
      /\ \A i \in 1 .. Len(q) : q[i].n \in Nat
  BY QueueAppend DEF PeerPacket
<1>. HIDE DEF r
<1>2. ASSUME NEW n \in Nat, NEW k \in 0 .. Len(q), Queued(n, q, k)
      PROVE  Queued(n, r, k)
  <2>1. PICK j \in 1 .. k : q[j].n = n
    BY <1>2 DEF Queued
  <2>2. j \in 1 .. Len(q) /\ r[j].n = n
    BY <1>1, <2>1
  <2>. QED  BY <2>1, <2>2 DEF Queued
<1>3. ASSUME NEW n \in 1 .. x - 1, n < MaxIn
      PROVE  Got(n, m, g) \/ Queued(n, r, Len(q))
  <2>1. Got(n, m, g) \/ Queued(n, q, Len(q))
    BY <1>3 DEF InOrder
  <2>2. n \in Nat /\ Len(q) \in 0 .. Len(q)
    BY <1>1
  <2>. QED  BY <1>2, <2>1, <2>2
<1>4. ASSUME NEW i \in 1 .. Len(r), NEW n \in 1 .. r[i].n - 1, n < MaxIn
      PROVE  Got(n, m, g) \/ Queued(n, r, i - 1)
  <2>1. CASE i = Len(q) + 1
    BY <1>1, <1>3, <1>4, <2>1
  <2>2. CASE i # Len(q) + 1
    <3>1. i \in 1 .. Len(q) /\ i - 1 \in 0 .. Len(q) /\ n \in 1 .. q[i].n - 1 /\ n \in Nat
      BY <1>1, <1>4, <2>2
    <3>2. Got(n, m, g) \/ Queued(n, q, i - 1)
      BY <1>4, <3>1 DEF InOrder
    <3>. QED  BY <1>2, <3>1, <3>2
  <2>. QED  BY <2>1, <2>2
<1>5. ASSUME NEW n \in 1 .. y - 1, n < MaxIn
      PROVE  Got(n, m, g) \/ Queued(n, r, Len(r))
  <2>1. CASE n < x
    <3>1. Got(n, m, g) \/ Queued(n, r, Len(q))
      BY <1>3, <1>5, <2>1
    <3>. QED  BY <1>1, <3>1 DEF Queued
  <2>2. CASE ~(n < x)
    <3>1. n = p.n
      BY <1>1, <2>2
    <3>. QED  BY <1>1, <3>1 DEF Queued
  <2>. QED  BY <2>1, <2>2
<1>6. InOrder(r, y, m, g)
  BY <1>4, <1>5 DEF InOrder
<1>. QED  BY <1>6 DEF r

(* The handler acknowledges the head, and the program gets what it pushes. *)
LEMMA SessionHandles ==
  ASSUME SessionSound, Session!Handle
  PROVE  SessionSound'
<1>. USE DEF SessionSound
<1>. DEFINE p == Head(down)
            a == [kind |-> "ack", n |-> p.ack, ack |-> p.n + 1]
<1>1. /\ down # <<>> /\ down' = Tail(down) /\ up' = up \union {a}
      /\ taaaX' = p.ack /\ taaaY' = p.n + 1
      /\ delivered' = IF p.kind = "push" /\ ethjmplist THEN Append(delivered, p.n) ELSE delivered
      /\ crossed' = (crossed \/ p.ack < 2 + Len(numbers) + Underways)
      /\ UNCHANGED <<at, ethjmplist, seq, peer, resent, missed, numbers, early>>
  BY DEF Session!Handle, Session!OurFirst, Underways
<1>2. /\ Len(down) \in Nat \ {0} /\ down' \in Seq(PeerPacket) /\ Len(down') = Len(down) - 1
      /\ \A i \in 1 .. Len(down') : down'[i] = down[i + 1] /\ i + 1 \in 1 .. Len(down)
      /\ p = down[1] /\ p \in PeerPacket /\ 1 \in 1 .. Len(down)
      /\ \A i \in 1 .. Len(down) : down[i] \in PeerPacket
  BY <1>1, QueueTail DEF SessionTyped
<1>3. p.n \in Nat /\ p.ack \in Nat /\ p.kind \in {"syn", "push", "fin"}
  BY <1>2 DEF PeerPacket, Session!Kinds
<1>4. a \in OurPacket /\ a.kind = "ack" /\ a.n = p.ack /\ a.ack = p.n + 1
  BY <1>3 DEF OurPacket
<1>5. Len(numbers) \in Nat /\ peer.next \in Nat /\ peer.wants \in Nat
  BY DEF SessionTyped, PeerType
<1>6. Fits(p) /\ p.ack <= 2 + Len(numbers)
  BY <1>2 DEF SessionOpens, Numbering
<1>. HIDE DEF p, a
<1>7. ethjmplist = TRUE /\ at # "closed"
  BY <1>1 DEF SessionOpens
<1>8. delivered \in Seq(Nat) /\ delivered' \in Seq(Nat)
  BY <1>1, <1>3 DEF SessionTyped
<1>9. \A n \in Nat : Got(n, missed, delivered) => Got(n, missed', delivered')
  <2>. SUFFICES ASSUME NEW n \in Nat, NEW i \in DOMAIN delivered, delivered[i] = n
                PROVE  \E j \in DOMAIN delivered' : delivered'[j] = n
    BY <1>1 DEF Got
  <2>1. i \in 1 .. Len(delivered) /\ Len(delivered) \in Nat
    BY <1>8
  <2>2. i \in DOMAIN delivered' /\ delivered'[i] = n
    BY <1>1, <1>3, <1>8, <2>1
  <2>. QED  BY <2>2
<1>10. p.n \in 1 .. MaxIn - 1 => Got(p.n, missed', delivered')
  <2>. SUFFICES ASSUME p.n \in 1 .. MaxIn - 1 PROVE Got(p.n, missed', delivered')
    OBVIOUS
  <2>1. p.kind = "push"
    BY <1>3, <1>6, SessionAssumption DEF Fits, Session!TcpConstants
  <2>2. delivered' = Append(delivered, p.n)
    BY <1>1, <1>7, <2>1
  <2>3. Len(delivered) + 1 \in DOMAIN delivered' /\ delivered'[Len(delivered) + 1] = p.n
    BY <1>3, <1>8, <2>2
  <2>. QED  BY <2>3 DEF Got
<1>11. InOrder(down', peer.next, missed', delivered') /\ Covered(p.n + 1, missed', delivered')
  <2>1. InOrder(down, peer.next, missed, delivered)
    BY DEF Delivery
  <2>2. down \in Seq(PeerPacket) /\ down # <<>> /\ down' = Tail(down) /\ p = Head(down)
    BY <1>1 DEF p, SessionTyped
  <2>. QED  BY <1>5, <1>9, <1>10, <2>1, <2>2, HeadLeaves
<1>12. ASSUME NEW c \in Nat, Covered(c, missed, delivered)
       PROVE  Covered(c, missed', delivered')
  BY <1>9, <1>12 DEF Covered
<1>13. SessionTyped'
  <2>1. taaaX' \in Nat /\ taaaY' \in Nat /\ up' \subseteq OurPacket
    BY <1>1, <1>3, <1>4 DEF SessionTyped
  <2>2. crossed' \in BOOLEAN /\ early' \in BOOLEAN
    BY <1>1, Zenon DEF SessionTyped
  <2>. QED  BY <1>1, <1>2, <1>8, <2>1, <2>2, Zenon DEF SessionTyped
<1>14. SessionOpens'
  BY <1>1, <1>2, <1>7 DEF SessionOpens
<1>15. Delivery'
  <2>1. peer.acked \in Nat /\ seq.ack \in Nat /\ \A q \in up : q.ack \in Nat
    BY DEF SessionTyped, PeerType, Numbers, OurPacket
  <2>2. Covered(peer'.acked, missed', delivered') /\ Covered(seq'.ack, missed', delivered')
    BY <1>1, <1>12, <2>1 DEF Delivery
  <2>3. \A q \in up' : Covered(q.ack, missed', delivered')
    BY <1>1, <1>4, <1>11, <1>12, <2>1 DEF Delivery
  <2>. QED  BY <1>1, <1>11, <2>2, <2>3 DEF Delivery
<1>16. Numbering'
  <2>1. Underways' = Underways /\ Underways \in {0, 1} /\ (at \in Begun => seq'.n <= 2 + Len(numbers'))
    BY <1>1 DEF Underways, Numbering
  <2>2. \A q \in up' : (q.kind = "push" => q.n <= 1 + Len(numbers')) /\ (q.kind = "syn" => q.n = 1)
    BY <1>1, <1>4 DEF Numbering
  <2>3. peer'.wants <= 2 + Len(numbers') /\ \A i \in 1 .. Len(down') : down'[i].ack <= 2 + Len(numbers')
    BY <1>1, <1>2 DEF Numbering
  <2>4. taaaX' <= 2 + Len(numbers') + Underways'
    BY <1>1, <1>3, <1>5, <1>6, <2>1
  <2>5. ~crossed' => ~crossed /\ ~(p.ack < 2 + Len(numbers) + Underways)
    BY <1>1, Zenon
  <2>6. ~crossed' => taaaX' = 2 + Len(numbers') + Underways'
    BY <1>1, <1>3, <1>5, <1>6, <2>1, <2>5
  <2>. QED  BY <1>1, <2>1, <2>2, <2>3, <2>4, <2>5, <2>6, <1>3 DEF Numbering
<1>. QED  BY <1>13, <1>14, <1>15, <1>16

(* The main flow's wait drops it.                                          *)
LEMMA SessionDrops ==
  ASSUME SessionSound, Session!OutDrops
  PROVE  SessionSound'
<1>. USE DEF SessionSound
<1>. DEFINE p == Head(down)
<1>1. /\ at = "mac" /\ down # <<>> /\ down' = Tail(down) /\ missed' = missed \union {p.n}
      /\ UNCHANGED <<at, ethjmplist, taaaX, taaaY, seq, up, peer, resent, delivered, numbers, early, crossed>>
  BY DEF Session!OutDrops
<1>2. /\ Len(down) \in Nat \ {0} /\ down' \in Seq(PeerPacket) /\ Len(down') = Len(down) - 1
      /\ \A i \in 1 .. Len(down') : down'[i] = down[i + 1] /\ i + 1 \in 1 .. Len(down)
      /\ p \in PeerPacket
  BY <1>1, QueueTail DEF SessionTyped
<1>3. peer.next \in Nat /\ p.n \in Nat
  BY <1>2 DEF SessionTyped, PeerType, PeerPacket
<1>4. \A n \in Nat : Got(n, missed, delivered) => Got(n, missed', delivered')
  BY <1>1 DEF Got
<1>5. InOrder(down', peer.next, missed', delivered')
  <2>1. InOrder(down, peer.next, missed, delivered) /\ Got(p.n, missed', delivered')
    BY <1>1 DEF Delivery, Got
  <2>2. down \in Seq(PeerPacket) /\ down # <<>> /\ down' = Tail(down) /\ p = Head(down)
    BY <1>1 DEF SessionTyped
  <2>. HIDE DEF p
  <2>. QED  BY <1>3, <1>4, <2>1, <2>2, HeadLeaves
<1>. HIDE DEF p
<1>6. \A c \in Nat : Covered(c, missed, delivered) => Covered(c, missed', delivered')
  BY <1>4 DEF Covered
<1>7. SessionTyped'
  <2>1. missed' \subseteq Nat
    BY <1>1, <1>3 DEF SessionTyped
  <2>. QED  BY <1>1, <1>2, <2>1, Zenon DEF SessionTyped
<1>8. SessionOpens'
  BY <1>1, <1>2 DEF SessionOpens
<1>9. Delivery'
  <2>1. peer.acked \in Nat /\ seq.ack \in Nat /\ taaaY \in Nat /\ \A q \in up : q.ack \in Nat
    BY DEF SessionTyped, PeerType, Numbers, OurPacket
  <2>. QED  BY <1>1, <1>5, <1>6, <2>1 DEF Delivery
<1>10. Numbering'
  <2>1. \A i \in 1 .. Len(down') : down'[i].ack <= 2 + Len(numbers')
    BY <1>1, <1>2 DEF Numbering
  <2>. QED  BY <1>1, <2>1 DEF Numbering, Underways, Begun
<1>. QED  BY <1>7, <1>8, <1>9, <1>10

(* The peer puts one more packet on its way.                               *)
LEMMA PeerAdds ==
  ASSUME SessionSound, NEW p \in PeerPacket, down' = Append(down, p), Fits(p), p.ack <= 2 + Len(numbers),
         peer' \in PeerType, peer'.acked = peer.acked, peer'.wants <= 2 + Len(numbers),
         p.n <= peer.next, peer'.next <= peer.next \/ peer'.next = p.n + 1, peer'.next <= MaxIn + 1,
         peer'.state # "listen", at # "closed", up' \subseteq up, resent' \in 0 .. MaxResent,
         UNCHANGED <<at, ethjmplist, taaaX, taaaY, seq, delivered, missed, numbers, early, crossed>>
  PROVE  SessionSound'
<1>. USE DEF SessionSound
<1>1. /\ Len(down) \in Nat /\ down' \in Seq(PeerPacket) /\ Len(down') = Len(down) + 1
      /\ \A i \in 1 .. Len(down) : down'[i] = down[i]
      /\ down'[Len(down) + 1] = p
  BY QueueAppend DEF SessionTyped
<1>2. SessionTyped'
  BY <1>1 DEF SessionTyped
<1>3. SessionOpens'
  <2>1. \A i \in 1 .. Len(down') : Fits(down'[i])
    BY <1>1 DEF SessionOpens
  <2>. QED  BY <2>1 DEF SessionOpens
<1>4. Delivery'
  <2>1. InOrder(down, peer.next, missed, delivered) /\ down \in Seq(PeerPacket) /\ peer.next \in Nat /\ peer'.next \in Nat
    BY DEF Delivery, SessionTyped, PeerType
  <2>2. InOrder(down', peer'.next, missed', delivered')
    BY <2>1, TailJoins
  <2>. QED  BY <2>2 DEF Delivery
<1>5. Numbering'
  <2>1. \A i \in 1 .. Len(down') : down'[i].ack <= 2 + Len(numbers')
    BY <1>1 DEF Numbering
  <2>2. \A q \in up' : (q.kind = "push" => q.n <= 1 + Len(numbers')) /\ (q.kind = "syn" => q.n = 1)
    BY DEF Numbering
  <2>. QED  BY <2>1, <2>2 DEF Numbering, Underways, Begun
<1>. QED  BY <1>2, <1>3, <1>4, <1>5

LEMMA SessionPeer ==
  ASSUME SessionSound, Session!TcpPeer
  PROVE  SessionSound'
<1>. USE SessionAssumption DEF SessionSound, Session!TcpConstants
<1>0. /\ peer \in PeerType /\ peer.state \in {"listen", "open", "done"} /\ peer.next \in Nat
      /\ peer.wants \in Nat /\ peer.acked \in Nat /\ Len(numbers) \in Nat /\ resent \in 0 .. MaxResent
      /\ peer.next <= MaxIn + 1
      /\ peer.wants <= 2 + Len(numbers) /\ (peer.state = "listen" => peer.next = 0)
  BY DEF SessionTyped, PeerType, SessionOpens, Numbering
<1>1. CASE Session!PeerGets
  <2>1. PICK p \in up :
          /\ up' = up \ {p}
          /\ \/ /\ p.kind = "syn" /\ peer.state = "listen"
                /\ peer' = [peer EXCEPT !.state = "open", !.wants = p.n + 1, !.next = @ + 1]
                /\ down' = Append(down, [kind |-> "syn", n |-> 0, ack |-> p.n + 1])
             \/ /\ p.kind # "syn"
                /\ peer' = [peer EXCEPT
                     !.acked = IF p.ack > @ THEN p.ack ELSE @,
                     !.wants = IF p.kind = "push" /\ p.n = @ THEN @ + 1 ELSE @]
                /\ UNCHANGED down
    BY <1>1, Zenon DEF Session!PeerGets, Session!PeerFirst
  <2>2. UNCHANGED <<at, ethjmplist, taaaX, taaaY, seq, resent, delivered, missed, numbers, early, crossed>>
    BY <1>1 DEF Session!PeerGets
  <2>3. p \in OurPacket /\ p.n \in Nat /\ p.ack \in Nat /\ at # "closed"
    BY DEF SessionTyped, OurPacket, SessionOpens
  <2>4. /\ p.kind = "push" => p.n <= 1 + Len(numbers)
        /\ p.kind = "syn" => p.n = 1
        /\ Covered(p.ack, missed, delivered)
    BY DEF Numbering, Delivery
  <2>5. CASE p.kind = "syn"
    <3>0. /\ peer.state = "listen" /\ p.n = 1
          /\ peer' = [peer EXCEPT !.state = "open", !.wants = p.n + 1, !.next = @ + 1]
          /\ down' = Append(down, [kind |-> "syn", n |-> 0, ack |-> p.n + 1])
      BY <2>1, <2>4, <2>5
    <3>1. peer.next = 0 /\ p.n + 1 = 2 /\ peer.next + 1 = 1
      BY <1>0, <3>0
    <3>2. /\ peer' \in PeerType /\ peer'.acked = peer.acked /\ peer'.wants = 2 /\ peer'.next = 1
          /\ peer'.state = "open"
      <4>1. peer' = [peer EXCEPT !.state = "open", !.wants = 2, !.next = 1]
        BY <3>0, <3>1
      <4>. QED  BY <4>1 DEF SessionTyped, PeerType
    <3>. DEFINE s == [kind |-> "syn", n |-> 0, ack |-> 2]
    <3>3. s \in PeerPacket /\ Fits(s) /\ s.ack = 2 /\ s.n = 0
      BY DEF PeerPacket, Fits, Session!Kinds
    <3>4. down' = Append(down, s)
      BY <3>0, <3>1
    <3>. HIDE DEF s
    <3>. QED  BY <1>0, <2>1, <2>2, <2>3, <3>1, <3>2, <3>3, <3>4, PeerAdds
  <2>6. CASE p.kind # "syn"
    <3>1. /\ peer' = [peer EXCEPT
               !.acked = IF p.ack > peer.acked THEN p.ack ELSE peer.acked,
               !.wants = IF p.kind = "push" /\ p.n = peer.wants THEN peer.wants + 1 ELSE peer.wants]
          /\ UNCHANGED down
      BY <2>1, <2>6
    <3>. DEFINE acked == IF p.ack > peer.acked THEN p.ack ELSE peer.acked
                wants == IF p.kind = "push" /\ p.n = peer.wants THEN peer.wants + 1 ELSE peer.wants
    <3>8. acked \in Nat /\ acked \in {p.ack, peer.acked} /\ wants \in Nat
      BY <1>0, <2>3
    <3>9. peer' = [peer EXCEPT !.acked = acked, !.wants = wants]
      BY <3>1
    <3>. HIDE DEF acked
    <3>2. /\ peer' \in PeerType /\ peer'.acked \in {p.ack, peer.acked} /\ peer'.next = peer.next
          /\ peer'.state = peer.state /\ peer'.wants = wants
      <4>. HIDE DEF wants
      <4>. QED  BY <1>0, <3>8, <3>9 DEF PeerType
    <3>3. peer'.wants <= 2 + Len(numbers)
      BY <1>0, <2>3, <2>4, <3>2
    <3>4. SessionTyped'
      BY <2>1, <2>2, <3>1, <3>2 DEF SessionTyped
    <3>5. SessionOpens'
      BY <2>1, <2>2, <2>3, <3>1, <3>2 DEF SessionOpens
    <3>6. Delivery'
      BY <2>1, <2>2, <2>4, <3>1, <3>2 DEF Delivery
    <3>7. Numbering'
      BY <2>1, <2>2, <3>1, <3>3 DEF Numbering, Underways, Begun
    <3>. QED  BY <3>4, <3>5, <3>6, <3>7
  <2>. QED  BY <2>5, <2>6
<1>2. CASE Session!PeerSends
  <2>1. PICK kind \in {"push", "fin"} :
          /\ kind = "fin" <=> peer.next = MaxIn
          /\ down' = Append(down, [kind |-> kind, n |-> peer.next, ack |-> peer.wants])
          /\ peer' = [peer EXCEPT !.next = @ + 1, !.state = IF kind = "fin" THEN "done" ELSE @]
    BY <1>2 DEF Session!PeerSends
  <2>2. /\ peer.state = "open" /\ peer.next <= MaxIn
        /\ UNCHANGED <<at, ethjmplist, taaaX, taaaY, seq, up, resent, delivered, missed, numbers, early, crossed>>
    BY <1>2 DEF Session!PeerSends
  <2>3. at # "closed"
    BY <2>2 DEF SessionOpens
  <2>4. /\ peer' \in PeerType /\ peer'.acked = peer.acked /\ peer'.wants = peer.wants
        /\ peer'.next = peer.next + 1 /\ peer'.state # "listen"
    <3>. DEFINE following == peer.next + 1
                state == IF kind = "fin" THEN "done" ELSE "open"
    <3>1. following \in Nat /\ state \in {"open", "done"}
      BY <1>0
    <3>2. peer' = [peer EXCEPT !.next = following, !.state = state]
      BY <2>1, <2>2
    <3>3. following = peer.next + 1
      OBVIOUS
    <3>. HIDE DEF following, state
    <3>. QED  BY <1>0, <3>1, <3>2, <3>3 DEF PeerType
  <2>. DEFINE s == [kind |-> kind, n |-> peer.next, ack |-> peer.wants]
  <2>5. s \in PeerPacket /\ Fits(s) /\ s.ack = peer.wants /\ s.n = peer.next
    BY <1>0, <2>1, <2>2 DEF PeerPacket, Fits, Session!Kinds
  <2>6. down' = Append(down, s)
    BY <2>1
  <2>. HIDE DEF s
  <2>. QED  BY <1>0, <2>2, <2>3, <2>4, <2>5, <2>6, PeerAdds
<1>3. CASE Session!PeerResends
  <2>. DEFINE kind == IF peer.acked = 0 THEN "syn" ELSE IF peer.acked = MaxIn THEN "fin" ELSE "push"
              s == [kind |-> kind, n |-> peer.acked, ack |-> peer.wants]
  <2>1. /\ resent < MaxResent /\ peer.acked < peer.next /\ resent' = resent + 1
        /\ down' = Append(down, s)
        /\ UNCHANGED <<at, ethjmplist, taaaX, taaaY, seq, up, peer, delivered, missed, numbers, early, crossed>>
    BY <1>3 DEF Session!PeerResends, Session!PeerFirst
  <2>2. peer.state # "listen" /\ at # "closed"
    BY <1>0, <2>1 DEF SessionOpens
  <2>3. s \in PeerPacket /\ Fits(s) /\ s.ack = peer.wants /\ s.n = peer.acked
    BY <1>0, <2>1 DEF PeerPacket, Fits, Session!Kinds
  <2>. HIDE DEF s
  <2>. QED  BY <1>0, <2>1, <2>2, <2>3, PeerAdds
<1>. QED  BY <1>1, <1>2, <1>3 DEF Session!TcpPeer

LEMMA SessionStep ==
  ASSUME SessionSound, [Session!TcpNext]_(Session!tcpVars)
  PROVE  SessionSound'
<1>1. CASE Session!TcpMain
  BY <1>1, SessionMain, SessionDrops
<1>2. CASE Session!Handle
  BY <1>2, SessionHandles
<1>3. CASE Session!TcpPeer
  BY <1>3, SessionPeer
<1>4. CASE UNCHANGED Session!tcpVars
  <2>1. /\ UNCHANGED <<at, ethjmplist, taaaX, taaaY, seq, down, up, peer, resent, delivered, missed>>
        /\ UNCHANGED <<numbers, early, crossed>>
    BY <1>4 DEF Session!tcpVars
  <2>. QED  BY <2>1 DEF SessionSound, SessionTyped, SessionOpens, Delivery, Numbering, Underways
<1>. QED  BY <1>1, <1>2, <1>3, <1>4 DEF Session!TcpNext

-----------------------------------------------------------------------------
(* The headers of what is sent.  First arithmetic, of any numbers.         *)
LEMMA Divides ==
  ASSUME NEW b \in Nat \ {0}, NEW a \in Nat
  PROVE  /\ a \div b \in Nat /\ a % b \in 0 .. b - 1
         /\ a = ((a \div b) * b) + (a % b)
BY SMT

LEMMA ProductGrows ==
  ASSUME NEW b \in Nat \ {0}, NEW q \in Nat, NEW p \in Nat, p < q
  PROVE  (p * b) + b <= q * b
<1>1. PICK d \in Nat : q = p + 1 + d
  <2>1. q - p - 1 \in Nat /\ q = p + 1 + (q - p - 1)
    OBVIOUS
  <2>. QED  BY <2>1, Zenon
<1>2. q * b = (p * b) + b + (d * b) /\ d * b \in Nat /\ p * b \in Nat
  BY <1>1, SMT
<1>. QED  BY <1>2

LEMMA DividesOnce ==
  ASSUME NEW b \in Nat \ {0}, NEW q \in Nat, NEW r \in 0 .. b - 1
  PROVE  ((q * b) + r) \div b = q /\ ((q * b) + r) % b = r
<1> DEFINE a == (q * b) + r
           d == a \div b
           m == a % b
<1>1. q * b \in Nat /\ a \in Nat
  BY SMT
<1>2. d \in Nat /\ m \in 0 .. b - 1 /\ a = (d * b) + m
  BY <1>1, Divides
<1>3. a = (q * b) + r
  OBVIOUS
<1> HIDE DEF a, d, m
<1>4. d * b \in Nat
  BY <1>2, SMT
<1>5. ~(d < q)
  <2>1. d < q => (d * b) + b <= q * b
    BY <1>2, ProductGrows
  <2>. QED  BY <1>1, <1>2, <1>3, <1>4, <2>1
<1>6. ~(q < d)
  <2>1. q < d => (q * b) + b <= d * b
    BY <1>2, ProductGrows
  <2>. QED  BY <1>1, <1>2, <1>3, <1>4, <2>1
<1>7. d = q
  BY <1>2, <1>5, <1>6
<1>8. m = r
  BY <1>1, <1>2, <1>3, <1>7
<1>. QED  BY <1>7, <1>8 DEF a, d, m

(* What counts in ones' complement is the remainder by Base - 1.           *)
Multiple(z) == \E q \in Int : z = q * (Sent!Base - 1)

LEMMA BaseIsLarge == Byte \in Nat /\ Byte > 1 /\ Sent!Base \in Nat /\ Sent!Base > 3 /\ Sent!Base = Byte * Byte
<1>1. Byte \in Nat /\ Byte > 1
  BY HeaderAssumption DEF Sent!HeaderConstants
<1>2. Byte * Byte \in Nat /\ (1 * Byte) + Byte <= Byte * Byte
  BY <1>1, ProductGrows, SMT
<1>. QED  BY <1>1, <1>2 DEF Sent!Base

LEMMA MultiplesAdd ==
  ASSUME NEW x \in Int, NEW y \in Int, Multiple(x), Multiple(y)
  PROVE  Multiple(x + y) /\ Multiple(x - y)
<1>1. PICK p \in Int : x = p * (Sent!Base - 1)
  BY Zenon DEF Multiple
<1>2. PICK q \in Int : y = q * (Sent!Base - 1)
  BY Zenon DEF Multiple
<1> DEFINE m == Sent!Base - 1
<1>3. m \in Int
  BY BaseIsLarge
<1>4. x = p * m /\ y = q * m
  BY <1>1, <1>2
<1> HIDE DEF m
<1>5. x + y = (p + q) * m /\ x - y = (p - q) * m /\ p + q \in Int /\ p - q \in Int
  BY <1>3, <1>4, SMT
<1>. QED  BY <1>5, Zenon DEF Multiple, m

LEMMA MultiplesScale ==
  ASSUME NEW x \in Int, NEW k \in Int, Multiple(x)
  PROVE  Multiple(k * x)
<1>1. PICK p \in Int : x = p * (Sent!Base - 1)
  BY Zenon DEF Multiple
<1> DEFINE m == Sent!Base - 1
<1>2. m \in Int
  BY BaseIsLarge
<1>3. x = p * m
  BY <1>1
<1> HIDE DEF m
<1>4. k * x = (k * p) * m /\ k * p \in Int
  BY <1>2, <1>3, SMT
<1>. QED  BY <1>4, Zenon DEF Multiple, m

LEMMA MultipleLeavesNone ==
  ASSUME NEW z \in Nat, Multiple(z)
  PROVE  z % (Sent!Base - 1) = 0
<1>1. PICK q \in Int : z = q * (Sent!Base - 1)
  BY Zenon DEF Multiple
<1> DEFINE m == Sent!Base - 1
<1>2. m \in Nat \ {0}
  BY BaseIsLarge
<1>3. z = q * m
  BY <1>1
<1> HIDE DEF m
<1>4. q \in Nat
  <2>1. CASE q < 0
    <3>1. PICK k \in Nat : q = 0 - k /\ k > 0
      <4>1. 0 - q \in Nat /\ q = 0 - (0 - q) /\ 0 - q > 0
        BY <2>1
      <4>. QED  BY <4>1, Zenon
    <3>2. (0 * m) + m <= k * m
      BY <1>2, <3>1, ProductGrows
    <3>3. q * m = 0 - (k * m) /\ k * m \in Int
      BY <1>2, <3>1, SMT
    <3>4. m <= k * m
      BY <1>2, <3>2, <3>3
    <3>. QED  BY <1>2, <1>3, <3>3, <3>4
  <2>. QED  BY <2>1
<1>5. z = (q * m) + 0 /\ 0 \in 0 .. m - 1
  BY <1>2, <1>3
<1>. QED  BY <1>2, <1>4, <1>5, DividesOnce DEF m

(* The bytes of a word.                                                    *)
LEMMA Swapped ==
  ASSUME NEW w \in Sent!Word
  PROVE  /\ Sent!switch_endian16(w) \in Sent!Word
         /\ Multiple((Byte * w) - Sent!switch_endian16(w))
         /\ Sent!Not(w) \in Sent!Word
         /\ Sent!switch_endian16(Sent!Not(w)) = Sent!Not(Sent!switch_endian16(w))
<1> DEFINE h == w \div Byte
           l == w % Byte
<1>1. w \in Nat /\ w < Byte * Byte
  BY BaseIsLarge DEF Sent!Word
<1>2. h \in Nat /\ l \in 0 .. Byte - 1 /\ w = (h * Byte) + l
  <2>1. Byte \in Nat \ {0} /\ w \in Nat
    BY <1>1, BaseIsLarge
  <2>. QED  BY <2>1, Divides, Zenon
<1>3. Sent!switch_endian16(w) = (l * Byte) + h
  BY DEF Sent!switch_endian16
<1> HIDE DEF h, l
<1>4. h \in 0 .. Byte - 1
  <2>1. Byte < h \/ Byte = h => Byte * Byte <= h * Byte
    <3>1. Byte < h => (Byte * Byte) + Byte <= h * Byte
      BY <1>2, BaseIsLarge, ProductGrows
    <3>2. Byte * Byte \in Nat /\ h * Byte \in Nat
      BY <1>2, BaseIsLarge, SMT
    <3>. QED  BY <3>1, <3>2, BaseIsLarge
  <2>2. h * Byte \in Nat
    BY <1>2, BaseIsLarge, SMT
  <2>. QED  BY <1>1, <1>2, <2>1, <2>2, BaseIsLarge
<1>5. \A c \in 0 .. Byte - 1, d \in 0 .. Byte - 1 : (c * Byte) + d \in Sent!Word
  <2> TAKE c \in 0 .. Byte - 1, d \in 0 .. Byte - 1
  <2>1. (c * Byte) + Byte <= Byte * Byte
    BY BaseIsLarge, ProductGrows
  <2>2. c * Byte \in Nat
    BY BaseIsLarge, SMT
  <2>. QED  BY <2>1, <2>2, BaseIsLarge DEF Sent!Word
<1>6. Multiple((Byte * w) - Sent!switch_endian16(w))
  <2>1. Byte * w = (h * (Byte * Byte)) + (l * Byte)
    BY <1>2, BaseIsLarge, SMT
  <2>2. h * ((Byte * Byte) - 1) = (h * (Byte * Byte)) - h
    BY <1>2, BaseIsLarge, SMT
  <2>3. l * Byte \in Int /\ h * (Byte * Byte) \in Int
    BY <1>2, BaseIsLarge, SMT
  <2>4. (Byte * w) - Sent!switch_endian16(w) = h * (Sent!Base - 1)
    BY <1>2, <1>3, <2>1, <2>2, <2>3, BaseIsLarge
  <2>. QED  BY <1>2, <2>4 DEF Multiple
<1>7. Sent!Not(w) \in Sent!Word /\ Sent!switch_endian16(Sent!Not(w)) = Sent!Not(Sent!switch_endian16(w))
  <2> DEFINE g == Byte - 1 - h
             k == Byte - 1 - l
  <2>1. g \in 0 .. Byte - 1 /\ k \in 0 .. Byte - 1
    BY <1>2, <1>4, BaseIsLarge
  <2>2. g * Byte = (Byte * Byte) - Byte - (h * Byte) /\ k * Byte = (Byte * Byte) - Byte - (l * Byte)
    BY <1>2, BaseIsLarge, SMT
  <2>3. h * Byte \in Int /\ l * Byte \in Int
    BY <1>2, BaseIsLarge, SMT
  <2>4. Sent!Not(w) = (g * Byte) + k
    BY <1>2, <2>2, <2>3, BaseIsLarge DEF Sent!Not
  <2>5. Sent!Not((l * Byte) + h) = (k * Byte) + g
    BY <1>2, <2>2, <2>3, BaseIsLarge DEF Sent!Not
  <2> HIDE DEF g, k
  <2>6. ((g * Byte) + k) \div Byte = g /\ ((g * Byte) + k) % Byte = k
    BY <2>1, BaseIsLarge, DividesOnce
  <2>7. Sent!switch_endian16(Sent!Not(w)) = (k * Byte) + g
    BY <2>4, <2>6 DEF Sent!switch_endian16
  <2>. QED  BY <1>3, <1>5, <2>1, <2>4, <2>5, <2>7
<1>. QED  BY <1>2, <1>3, <1>4, <1>5, <1>6, <1>7

(* Two additions of the carry are enough for as many words as there are    *)
(* values of one.                                                          *)
LEMMA Folds ==
  ASSUME NEW x \in Nat, x <= Sent!Base * (Sent!Base - 1)
  PROVE  Sent!fold(x) \in Sent!Word /\ Multiple(x - Sent!fold(x)) /\ (x = 0 <=> Sent!fold(x) = 0)
<1> DEFINE b == Sent!Base
           c == x \div b
           r == x % b
           once == r + c
           carry == once \div b
<1>1. b \in Nat \ {0} /\ b > 3
  BY BaseIsLarge
<1>2. c \in Nat /\ r \in 0 .. b - 1 /\ x = (c * b) + r
  BY <1>1, Divides
<1>3. Sent!fold(x) = (once + carry) % b
  BY DEF Sent!fold
<1>4. x <= b * (b - 1)
  OBVIOUS
<1> HIDE DEF b, c, r
<1>5. c <= b - 1
  <2>1. b - 1 < c => ((b - 1) * b) + b <= c * b
    BY <1>1, <1>2, ProductGrows
  <2>2. (b - 1) * b = b * (b - 1) /\ b * (b - 1) \in Int /\ c * b \in Int
    BY <1>1, <1>2, SMT
  <2>. QED  BY <1>1, <1>2, <1>4, <2>1, <2>2
<1>6. once \in Nat /\ once <= b + (b - 2)
  BY <1>1, <1>2, <1>5
<1>7. c * (b - 1) = (c * b) - c /\ c * b \in Int
  BY <1>1, <1>2, SMT
<1>8. CASE once < b
  <2>1. once = (0 * b) + once /\ once \in 0 .. b - 1
    BY <1>1, <1>6, <1>8
  <2>2. carry = 0
    BY <1>1, <2>1, DividesOnce
  <2>3. Sent!fold(x) = once
    BY <1>1, <1>3, <2>1, <2>2, DividesOnce
  <2>4. x - once = c * (b - 1)
    BY <1>1, <1>2, <1>7
  <2>5. x = 0 <=> once = 0
    <3>1. x = 0 => c = 0
      <4>1. c > 0 => (0 * b) + b <= c * b
        BY <1>1, <1>2, ProductGrows
      <4>. QED  BY <1>1, <1>2, <1>7, <4>1
    <3>2. c = 0 => c * b = 0
      BY <1>1, SMT
    <3>. QED  BY <1>1, <1>2, <1>7, <3>1, <3>2
  <2>6. c \in Int /\ x - Sent!fold(x) = c * (Sent!Base - 1)
    BY <1>2, <2>3, <2>4 DEF b
  <2>7. Multiple(x - Sent!fold(x))
    BY <2>6, Zenon DEF Multiple
  <2>8. Sent!fold(x) \in Sent!Word
    BY <2>1, <2>3 DEF Sent!Word, b
  <2>. QED  BY <2>3, <2>5, <2>7, <2>8
<1>9. CASE once >= b
  <2>1. once = (1 * b) + (once - b) /\ once - b \in 0 .. b - 1
    BY <1>1, <1>6, <1>9
  <2>2. carry = 1
    BY <1>1, <2>1, DividesOnce
  <2>3. once + carry = (1 * b) + (once - b + 1) /\ once - b + 1 \in 0 .. b - 1
    BY <1>1, <1>6, <1>9, <2>2
  <2>4. Sent!fold(x) = once - b + 1
    BY <1>1, <1>3, <2>3, DividesOnce
  <2>5. (c + 1) * (b - 1) = (c * b) - c + (b - 1)
    BY <1>1, <1>2, SMT
  <2>6. x - (once - b + 1) = (c + 1) * (b - 1)
    BY <1>1, <1>2, <1>7, <2>5
  <2>7. x # 0
    <3>1. c > 0
      BY <1>1, <1>2, <1>9
    <3>2. (0 * b) + b <= c * b
      BY <1>1, <1>2, <3>1, ProductGrows
    <3>. QED  BY <1>1, <1>2, <1>7, <3>2
  <2>8. once - b + 1 # 0
    BY <1>1, <1>6, <1>9
  <2>9. c + 1 \in Int /\ x - Sent!fold(x) = (c + 1) * (Sent!Base - 1)
    BY <1>2, <2>4, <2>6 DEF b
  <2>10. Multiple(x - Sent!fold(x))
    BY <2>9, Zenon DEF Multiple
  <2>11. Sent!fold(x) \in Sent!Word
    BY <2>3, <2>4 DEF Sent!Word, b
  <2>. QED  BY <2>4, <2>7, <2>8, <2>10, <2>11
<1>. QED  BY <1>1, <1>6, <1>8, <1>9

(* Induction, of a set of numbers.                                         *)
LEMMA AllNumbers ==
  ASSUME NEW T, 0 \in T, \A n \in Nat : n \in T => n + 1 \in T
  PROVE  Nat \subseteq T
<1> DEFINE S == {n \in Nat : n \notin T}
<1>1. SUFFICES ASSUME S # {}  PROVE FALSE
  OBVIOUS
<1>2. PICK d \in S : \A e \in S : ~(e < d)
  <2>1. PICK d \in S : \A e \in S : <<e, d>> \notin OpToRel(<, Nat)
    BY <1>1, WFMin, NatLessThanWellFounded, Zenon
  <2>. QED  BY <2>1, Zenon DEF OpToRel
<1>3. d \in Nat /\ d # 0
  OBVIOUS
<1>4. d - 1 \in Nat /\ d - 1 < d /\ (d - 1) + 1 = d
  BY <1>3
<1>. QED  BY <1>2, <1>3, <1>4

(* The sums of the first words.                                            *)
AreSums(f, w, m) == f[0] = 0 /\ \A n \in 1 .. m : f[n] = f[n - 1] + w[n]

LEMMA SumsExist ==
  ASSUME NEW w, NEW m \in Nat
  PROVE  \E f : f = [n \in 0 .. m |-> IF n = 0 THEN 0 ELSE f[n - 1] + w[n]]
<1> DEFINE Summed(f, k) == f = [n \in 0 .. k |-> IF n = 0 THEN 0 ELSE f[n - 1] + w[n]]
           T == {k \in Nat : \E f : Summed(f, k)}
<1>1. 0 \in T
  <2> DEFINE f == [n \in 0 .. 0 |-> 0]
  <2>1. Summed(f, 0)
    OBVIOUS
  <2>. QED  BY <2>1
<1>2. ASSUME NEW k \in Nat, k \in T
      PROVE  k + 1 \in T
  <2>1. PICK g : Summed(g, k)
    BY <1>2
  <2> DEFINE h == [n \in 0 .. k + 1 |-> IF n = k + 1 THEN g[k] + w[k + 1] ELSE g[n]]
  <2>2. \A n \in 0 .. k : g[n] = IF n = 0 THEN 0 ELSE g[n - 1] + w[n]
    BY <2>1
  <2>3. \A n \in 0 .. k + 1 : h[n] = IF n = k + 1 THEN g[k] + w[k + 1] ELSE g[n]
    OBVIOUS
  <2>4. h = [n \in 0 .. k + 1 |-> h[n]]
    OBVIOUS
  <2> HIDE DEF h
  <2>5. ASSUME NEW n \in 0 .. k + 1
        PROVE  h[n] = IF n = 0 THEN 0 ELSE h[n - 1] + w[n]
    <3>1. CASE n = k + 1
      <4>1. h[k] = g[k] /\ n # 0 /\ n - 1 = k
        BY <2>3, <3>1
      <4>. QED  BY <2>3, <3>1, <4>1
    <3>2. CASE n # k + 1
      <4>1. n \in 0 .. k /\ (n # 0 => n - 1 \in 0 .. k + 1 /\ n - 1 # k + 1)
        BY <3>2
      <4>2. h[n] = g[n] /\ (n # 0 => h[n - 1] = g[n - 1])
        BY <2>3, <3>2, <4>1
      <4>. QED  BY <2>2, <4>1, <4>2
    <3>. QED  BY <3>1, <3>2
  <2>6. Summed(h, k + 1)
    BY <2>4, <2>5
  <2>. QED  BY <2>6
<1> HIDE DEF T
<1>3. m \in T
  BY <1>1, <1>2, AllNumbers
<1>. QED  BY <1>3 DEF T

LEMMA TotalIsSum ==
  ASSUME NEW words \in Seq(Nat)
  PROVE  \E f \in [0 .. Len(words) -> Nat] : AreSums(f, words, Len(words)) /\ Sent!Total(words) = f[Len(words)]
<1> DEFINE m == Len(words)
           f == CHOOSE f : f = [n \in 0 .. Len(words) |-> IF n = 0 THEN 0 ELSE f[n - 1] + words[n]]
<1>1. m \in Nat
  OBVIOUS
<1>2. f = [n \in 0 .. m |-> IF n = 0 THEN 0 ELSE f[n - 1] + words[n]]
  BY <1>1, SumsExist, Zenon
<1>3. Sent!Total(words) = f[m]
  BY Zenon DEF Sent!Total
<1> HIDE DEF f
<1>4. AreSums(f, words, m)
  BY <1>1, <1>2 DEF AreSums
<1>5. \A n \in 0 .. m : f[n] \in Nat
  <2> DEFINE T == {n \in Nat : n <= m => f[n] \in Nat}
  <2>1. 0 \in T
    BY <1>4 DEF AreSums
  <2>2. ASSUME NEW n \in Nat, n \in T
        PROVE  n + 1 \in T
    <3>1. SUFFICES ASSUME n + 1 <= m  PROVE f[n + 1] \in Nat
      OBVIOUS
    <3>2. n + 1 \in 1 .. m /\ (n + 1) - 1 = n /\ n <= m
      BY <1>1, <3>1
    <3>3. words[n + 1] \in Nat
      BY <3>2, ElementOfSeq
    <3>4. f[n + 1] = f[n] + words[n + 1]
      BY <1>4, <3>2 DEF AreSums
    <3>. QED  BY <2>2, <3>2, <3>3, <3>4
  <2> HIDE DEF T
  <2>3. Nat \subseteq T
    BY <2>1, <2>2, AllNumbers
  <2>. QED  BY <1>1, <2>3 DEF T
<1>6. f \in [0 .. m -> Nat]
  BY <1>2, <1>5
<1>. QED  BY <1>3, <1>4, <1>6

LEMMA TotalOfBoth ==
  ASSUME NEW a \in Seq(Nat), NEW b \in Seq(Nat)
  PROVE  Sent!Total(a) \in Nat /\ Sent!Total(a \o b) = Sent!Total(a) + Sent!Total(b)
<1> DEFINE m == Len(a)
           k == Len(b)
           ab == a \o b
<1>1. /\ m \in Nat /\ k \in Nat /\ ab \in Seq(Nat) /\ Len(ab) = m + k
      /\ \A n \in 1 .. m : ab[n] = a[n]
      /\ \A n \in 1 .. k : ab[m + n] = b[n]
  OBVIOUS
<1> HIDE DEF ab
<1>2. PICK f \in [0 .. m -> Nat] : AreSums(f, a, m) /\ Sent!Total(a) = f[m]
  BY TotalIsSum
<1>3. PICK g \in [0 .. k -> Nat] : AreSums(g, b, k) /\ Sent!Total(b) = g[k]
  BY TotalIsSum
<1>4. PICK h \in [0 .. m + k -> Nat] : AreSums(h, ab, m + k) /\ Sent!Total(ab) = h[m + k]
  BY <1>1, TotalIsSum
<1>n. m \in Nat /\ k \in Nat
  BY <1>1
<1> HIDE DEF m, k
<1>5. h[m] = f[m]
  <2> DEFINE T == {n \in Nat : n <= m => h[n] = f[n]}
  <2>1. 0 \in T
    BY <1>2, <1>4 DEF AreSums
  <2>2. ASSUME NEW n \in Nat, n \in T
        PROVE  n + 1 \in T
    <3>1. SUFFICES ASSUME n + 1 <= m  PROVE h[n + 1] = f[n + 1]
      OBVIOUS
    <3>2. n + 1 \in 1 .. m /\ n + 1 \in 1 .. m + k /\ (n + 1) - 1 = n /\ n <= m
      BY <1>n, <3>1
    <3>3. f[n + 1] = f[n] + a[n + 1] /\ h[n + 1] = h[n] + ab[n + 1] /\ ab[n + 1] = a[n + 1]
      BY <1>1, <1>2, <1>4, <3>2 DEF AreSums
    <3>. QED  BY <2>2, <3>2, <3>3
  <2> HIDE DEF T
  <2>3. Nat \subseteq T
    BY <2>1, <2>2, AllNumbers
  <2>. QED  BY <1>1, <2>3 DEF T
<1>6. h[m + k] = f[m] + g[k]
  <2> DEFINE T == {n \in Nat : n <= k => h[m + n] = f[m] + g[n]}
  <2>1. 0 \in T
    <3>1. m + 0 = m /\ f[m] \in Nat /\ g[0] = 0
      BY <1>1, <1>2, <1>3 DEF AreSums
    <3>. QED  BY <1>5, <3>1
  <2>2. ASSUME NEW n \in Nat, n \in T
        PROVE  n + 1 \in T
    <3>1. SUFFICES ASSUME n + 1 <= k  PROVE h[m + (n + 1)] = f[m] + g[n + 1]
      OBVIOUS
    <3>2. /\ n + 1 \in 1 .. k /\ m + (n + 1) \in 1 .. m + k /\ (n + 1) - 1 = n /\ n <= k
          /\ (m + (n + 1)) - 1 = m + n /\ n \in 0 .. k /\ m \in 0 .. m
      BY <1>n, <3>1
    <3>3. g[n + 1] = g[n] + b[n + 1]
      BY <1>3, <3>2 DEF AreSums
    <3>4. h[m + (n + 1)] = h[m + n] + ab[m + (n + 1)] /\ ab[m + (n + 1)] = b[n + 1]
      BY <1>1, <1>4, <3>2 DEF AreSums
    <3>5. b[n + 1] \in Nat /\ g[n] \in Nat /\ f[m] \in Nat
      BY <3>2, <1>2, <1>3, ElementOfSeq DEF k
    <3>6. h[m + n] = f[m] + g[n]
      BY <2>2, <3>2
    <3>. QED  BY <3>3, <3>4, <3>5, <3>6
  <2> HIDE DEF T
  <2>3. Nat \subseteq T
    BY <2>1, <2>2, AllNumbers
  <2>. QED  BY <1>1, <2>3 DEF T
<1>7. f[m] \in Nat
  BY <1>1, <1>2
<1>. QED  BY <1>2, <1>3, <1>4, <1>6, <1>7 DEF ab

LEMMA TotalOfOne ==
  ASSUME NEW x \in Nat
  PROVE  Sent!Total(<<x>>) = x
<1>1. <<x>> \in Seq(Nat) /\ Len(<<x>>) = 1 /\ <<x>>[1] = x
  OBVIOUS
<1>2. PICK f \in [0 .. 1 -> Nat] : AreSums(f, <<x>>, 1) /\ Sent!Total(<<x>>) = f[1]
  BY <1>1, TotalIsSum
<1>3. f[1] = f[1 - 1] + <<x>>[1] /\ f[0] = 0
  BY <1>2 DEF AreSums
<1>. QED  BY <1>1, <1>2, <1>3

(* A sum of words is not too large to be folded.                           *)
LEMMA TotalIsBounded ==
  ASSUME NEW words \in Seq(Sent!Word)
  PROVE  Sent!Total(words) \in Nat /\ Sent!Total(words) <= Len(words) * (Sent!Base - 1)
<1> DEFINE m == Len(words)
           b == Sent!Base - 1
<1>1. /\ m \in Nat /\ b \in Nat /\ words \in Seq(Nat)
      /\ \A n \in 1 .. m : words[n] \in Nat /\ words[n] <= b
  <2>1. \A n \in 1 .. m : words[n] \in Sent!Word
    BY ElementOfSeq
  <2>2. b \in Nat /\ \A w \in Sent!Word : w \in Nat /\ w <= b
    BY BaseIsLarge DEF Sent!Word
  <2>. QED  BY <2>1, <2>2
<1>2. PICK f \in [0 .. m -> Nat] : AreSums(f, words, m) /\ Sent!Total(words) = f[m]
  BY <1>1, TotalIsSum
<1> HIDE DEF m, b
<1> DEFINE T == {n \in Nat : n <= m => f[n] <= n * b}
<1>3. 0 \in T
  <2>1. 0 * b = 0
    BY <1>1, SMT
  <2>. QED  BY <1>2, <2>1 DEF AreSums
<1>4. ASSUME NEW n \in Nat, n \in T
      PROVE  n + 1 \in T
  <2>1. SUFFICES ASSUME n + 1 <= m  PROVE f[n + 1] <= (n + 1) * b
    OBVIOUS
  <2>2. n + 1 \in 1 .. m /\ (n + 1) - 1 = n /\ n <= m /\ n \in 0 .. m
    BY <1>1, <2>1
  <2>3. f[n + 1] = f[n] + words[n + 1] /\ f[n] \in Nat /\ f[n] <= n * b
    BY <1>2, <1>4, <2>2 DEF AreSums
  <2>4. (n + 1) * b = (n * b) + b /\ n * b \in Nat
    BY <1>1, SMT
  <2>. QED  BY <1>1, <2>2, <2>3, <2>4
<1> HIDE DEF T
<1>5. Nat \subseteq T
  BY <1>3, <1>4, AllNumbers
<1>. QED  BY <1>1, <1>2, <1>5 DEF T, m, b

(* The sum of the words with their bytes exchanged.                        *)
LEMMA TotalSwapped ==
  ASSUME NEW words \in Seq(Sent!Word)
  PROVE  LET swapped == [i \in DOMAIN words |-> Sent!switch_endian16(words[i])] IN
         /\ swapped \in Seq(Sent!Word) /\ Len(swapped) = Len(words)
         /\ Multiple((Byte * Sent!Total(words)) - Sent!Total(swapped))
         /\ Sent!Total(words) = 0 => Sent!Total(swapped) = 0
<1> DEFINE m == Len(words)
           swapped == [i \in DOMAIN words |-> Sent!switch_endian16(words[i])]
<1>1. /\ m \in Nat /\ words \in Seq(Nat)
      /\ \A n \in 1 .. m : words[n] \in Sent!Word /\ words[n] \in Nat
  <2>1. \A n \in 1 .. m : words[n] \in Sent!Word
    BY ElementOfSeq
  <2>2. \A w \in Sent!Word : w \in Nat
    BY BaseIsLarge DEF Sent!Word
  <2>. QED  BY <2>1, <2>2
<1>2. /\ swapped \in Seq(Sent!Word) /\ Len(swapped) = m /\ swapped \in Seq(Nat)
      /\ \A n \in 1 .. m : swapped[n] = Sent!switch_endian16(words[n]) /\ swapped[n] \in Nat
  <2>1. \A n \in 1 .. m : Sent!switch_endian16(words[n]) \in Sent!Word
    BY <1>1, Swapped
  <2>2. DOMAIN words = 1 .. m
    OBVIOUS
  <2>3. \A w \in Sent!Word : w \in Nat
    BY BaseIsLarge DEF Sent!Word
  <2>. QED  BY <1>1, <2>1, <2>2, <2>3
<1>3. PICK f \in [0 .. m -> Nat] : AreSums(f, words, m) /\ Sent!Total(words) = f[m]
  BY <1>1, TotalIsSum
<1>4. PICK g \in [0 .. m -> Nat] : AreSums(g, swapped, m) /\ Sent!Total(swapped) = g[m]
  BY <1>2, TotalIsSum
<1> HIDE DEF m, swapped
<1> DEFINE T == {n \in Nat : n <= m => Multiple((Byte * f[n]) - g[n]) /\ (f[n] = 0 => g[n] = 0)}
<1>5. 0 \in T
  <2>1. f[0] = 0 /\ g[0] = 0
    BY <1>3, <1>4 DEF AreSums
  <2>2. (Byte * 0) - 0 = 0 * (Sent!Base - 1)
    BY BaseIsLarge, SMT
  <2>. QED  BY <2>1, <2>2 DEF Multiple
<1>6. ASSUME NEW n \in Nat, n \in T
      PROVE  n + 1 \in T
  <2>1. SUFFICES ASSUME n + 1 <= m
                 PROVE  Multiple((Byte * f[n + 1]) - g[n + 1]) /\ (f[n + 1] = 0 => g[n + 1] = 0)
    OBVIOUS
  <2>2. n + 1 \in 1 .. m /\ (n + 1) - 1 = n /\ n <= m /\ n \in 0 .. m
    BY <1>1, <2>1
  <2> DEFINE w == words[n + 1]
             s == Sent!switch_endian16(w)
  <2>3. w \in Sent!Word /\ w \in Nat /\ s \in Nat /\ f[n] \in Nat /\ g[n] \in Nat
    BY <1>1, <1>2, <2>2
  <2>4. f[n + 1] = f[n] + w /\ g[n + 1] = g[n] + s
    BY <1>2, <1>3, <1>4, <2>2 DEF AreSums
  <2>5. Multiple((Byte * f[n]) - g[n]) /\ (f[n] = 0 => g[n] = 0)
    BY <1>6, <2>2
  <2>6. Multiple((Byte * w) - s)
    BY <2>3, Swapped
  <2>7. w = 0 => s = 0
    <3>1. 0 = (0 * Byte) + 0 /\ 0 \in 0 .. Byte - 1 /\ Byte \in Nat \ {0}
      BY BaseIsLarge
    <3>2. 0 \div Byte = 0 /\ 0 % Byte = 0
      BY <3>1, DividesOnce
    <3>. QED  BY <3>1, <3>2 DEF Sent!switch_endian16
  <2> HIDE DEF w, s
  <2>8. Byte * (f[n] + w) = (Byte * f[n]) + (Byte * w) /\ Byte * f[n] \in Nat /\ Byte * w \in Nat
    BY <2>3, BaseIsLarge, SMT
  <2>9. Multiple(((Byte * f[n]) - g[n]) + ((Byte * w) - s))
    <3>1. (Byte * f[n]) - g[n] \in Int /\ (Byte * w) - s \in Int
      BY <2>3, <2>8
    <3>. QED  BY <2>5, <2>6, <3>1, MultiplesAdd, Zenon
  <2>10. (Byte * f[n + 1]) - g[n + 1] = ((Byte * f[n]) - g[n]) + ((Byte * w) - s)
    BY <2>3, <2>4, <2>8
  <2>. QED  BY <2>3, <2>4, <2>5, <2>7, <2>9, <2>10
<1> HIDE DEF T
<1>7. m \in T
  BY <1>1, <1>5, <1>6, AllNumbers
<1>. QED  BY <1>1, <1>2, <1>3, <1>4, <1>7 DEF T, m, swapped

(* A sum and its folded complement.                                        *)
LEMMA ComplementVerifies ==
  ASSUME NEW t \in Nat, NEW x \in Nat, x <= Sent!Base * (Sent!Base - 1),
         Multiple(t - x), t = 0 => x = 0
  PROVE  LET c == Sent!Not(Sent!fold(x)) IN
         c \in Sent!Word /\ t + c \in Nat /\ t + c > 0 /\ (t + c) % (Sent!Base - 1) = 0
<1> DEFINE f == Sent!fold(x)
           b == Sent!Base
           c == Sent!Not(f)
<1>1. f \in Sent!Word /\ Multiple(x - f) /\ (x = 0 <=> f = 0)
  BY Folds
<1>2. c \in Sent!Word /\ c = b - 1 - f
  BY <1>1, Swapped DEF Sent!Not
<1>3. b \in Nat /\ b > 3 /\ f \in 0 .. b - 1
  BY <1>1, BaseIsLarge DEF Sent!Word
<1>4. Multiple(t - f)
  <2>1. t - x \in Int /\ x - f \in Int /\ (t - x) + (x - f) = t - f
    BY <1>3
  <2>. QED  BY <1>1, <2>1, MultiplesAdd
<1>5. Multiple(b - 1)
  <2>1. Sent!Base - 1 = 1 * (Sent!Base - 1)
    BY BaseIsLarge
  <2>. QED  BY <2>1 DEF Multiple
<1>6. Multiple(t + c)
  <2>1. t - f \in Int /\ b - 1 \in Int
    BY <1>3
  <2>2. Multiple((t - f) + (b - 1))
    BY <1>4, <1>5, <2>1, MultiplesAdd, Zenon
  <2>3. (t - f) + (b - 1) = t + c
    BY <1>2, <1>3
  <2>. QED  BY <2>2, <2>3
<1> HIDE DEF f, c
<1>7. t + c \in Nat /\ t + c > 0
  BY <1>1, <1>2, <1>3
<1>. QED  BY <1>2, <1>6, <1>7, MultipleLeavesNone DEF c, f

Verifies(words) == Sent!Total(words) > 0 /\ Sent!Total(words) % (Sent!Base - 1) = 0

LEMMA WordsAreNat == Sent!Word \subseteq Nat /\ Seq(Sent!Word) \subseteq Seq(Nat)
<1>1. Sent!Word \subseteq Nat
  BY BaseIsLarge DEF Sent!Word
<1>2. ASSUME NEW words \in Seq(Sent!Word)
      PROVE  words \in Seq(Nat)
  <2>1. \A n \in 1 .. Len(words) : words[n] \in Nat
    BY <1>1, ElementOfSeq
  <2>. QED  BY <2>1
<1>. QED  BY <1>1, <1>2

(* fillIpv4Header.                                                         *)
LEMMA HeaderVerifies ==
  ASSUME NEW id \in Sent!Word, NEW rest \in Seq(Sent!Word), Len(rest) = Words
  PROVE  LET c == Sent!Not(Sent!fold(id + Sent!Total(rest))) IN
         c \in Sent!Word /\ Verifies((<<id>> \o rest) \o <<c>>)
<1> DEFINE t == Sent!Total(rest)
           b == Sent!Base
           c == Sent!Not(Sent!fold(id + t))
<1>1. t \in Nat /\ t <= Words * (b - 1)
  BY TotalIsBounded
<1>2. id \in Nat /\ id <= b - 1 /\ b \in Nat /\ b > 3 /\ Words \in Nat /\ Words + 1 <= b
  BY BaseIsLarge, HeaderAssumption DEF Sent!Word, Sent!HeaderConstants
<1> HIDE DEF t, b
<1>3. id + t \in Nat /\ id + t <= b * (b - 1)
  <2>1. (Words + 1) * (b - 1) = (Words * (b - 1)) + (b - 1) /\ Words * (b - 1) \in Nat
    BY <1>2, SMT
  <2>2. (Words + 1) * (b - 1) <= b * (b - 1)
    <3>1. CASE Words + 1 = b
      BY <1>2, <2>1, <3>1
    <3>2. CASE Words + 1 < b
      <4>1. b - 1 \in Nat \ {0} /\ Words + 1 \in Nat
        BY <1>2
      <4>2. ((Words + 1) * (b - 1)) + (b - 1) <= b * (b - 1)
        BY <1>2, <3>2, <4>1, ProductGrows
      <4>3. b * (b - 1) \in Nat
        BY <1>2, <4>1, SMT
      <4>. QED  BY <1>2, <2>1, <4>1, <4>2, <4>3
    <3>. QED  BY <1>2, <3>1, <3>2
  <2>3. b * (b - 1) \in Int
    BY <1>2, SMT
  <2>. QED  BY <1>1, <1>2, <2>1, <2>2, <2>3
<1>4. Multiple((id + t) - (id + t))
  <2>1. (id + t) - (id + t) = 0 * (Sent!Base - 1)
    BY <1>3, BaseIsLarge, SMT
  <2>. QED  BY <2>1 DEF Multiple
<1>5. /\ c \in Sent!Word /\ (id + t) + c > 0 /\ ((id + t) + c) % (Sent!Base - 1) = 0
  BY <1>3, <1>4, ComplementVerifies DEF b
<1> HIDE DEF c
<1>6. Sent!Total((<<id>> \o rest) \o <<c>>) = (id + t) + c
  <2>1. c \in Nat /\ id \in Nat /\ rest \in Seq(Nat)
    BY <1>5, WordsAreNat
  <2>2. <<id>> \in Seq(Nat) /\ <<c>> \in Seq(Nat) /\ <<id>> \o rest \in Seq(Nat)
    BY <2>1
  <2>3. Sent!Total(<<id>>) = id /\ Sent!Total(<<c>>) = c
    BY <2>1, TotalOfOne
  <2>4. Sent!Total(<<id>> \o rest) = id + t
    BY <2>1, <2>2, <2>3, TotalOfBoth DEF t
  <2>. QED  BY <2>2, <2>3, <2>4, TotalOfBoth
<1>. QED  BY <1>5, <1>6 DEF Verifies, c, t

(* fillTcpHeader with net_checksum, and the payload that ETH::OUT adds.    *)
LEMMA SegmentVerifies ==
  ASSUME NEW rest \in Seq(Sent!Word), Len(rest) = Words,
         NEW payload \in Seq(Sent!Word), Len(payload) <= Payload
  PROVE  LET c == Sent!WithPayload(Sent!net_checksum(rest), payload) IN
         c \in Sent!Word /\ Verifies((rest \o payload) \o <<c>>)
<1> DEFINE b == Sent!Base
           r == Sent!Total(rest)
           swapped == [i \in DOMAIN rest |-> Sent!switch_endian16(rest[i])]
           z == Sent!Total(swapped)
           fz == Sent!fold(z)
           s == Sent!switch_endian16(fz)
           p == Sent!Total(payload)
           c == Sent!Not(Sent!fold(s + p))
<1>1. b \in Nat /\ b > 3 /\ Words \in Nat /\ Words + 1 <= b /\ Payload \in Nat /\ Payload + 1 <= b
  BY BaseIsLarge, HeaderAssumption DEF Sent!HeaderConstants
<1>2. /\ swapped \in Seq(Sent!Word) /\ Len(swapped) = Words
      /\ Multiple((Byte * r) - z) /\ (r = 0 => z = 0)
  BY TotalSwapped
<1> HIDE DEF swapped
<1>3. /\ r \in Nat /\ p \in Nat /\ p <= Payload * (b - 1)
      /\ z \in Nat /\ z <= Words * (b - 1)
  <2>1. r \in Nat /\ z \in Nat /\ z <= Words * (b - 1)
    BY <1>2, TotalIsBounded
  <2>2. p \in Nat /\ p <= Len(payload) * (b - 1)
    BY TotalIsBounded
  <2>3. Len(payload) * (b - 1) <= Payload * (b - 1)
    <3>1. Len(payload) \in Nat /\ b - 1 \in Nat \ {0}
      BY <1>1
    <3>2. Len(payload) < Payload => (Len(payload) * (b - 1)) + (b - 1) <= Payload * (b - 1)
      BY <1>1, <3>1, ProductGrows
    <3>3. Len(payload) * (b - 1) \in Nat /\ Payload * (b - 1) \in Nat
      BY <1>1, <3>1, SMT
    <3>. QED  BY <1>1, <3>1, <3>2, <3>3
  <2>4. Len(payload) * (b - 1) \in Int /\ Payload * (b - 1) \in Int
    BY <1>1, SMT
  <2>. QED  BY <2>1, <2>2, <2>3, <2>4
<1>4. \A k \in Nat : k + 1 <= b => (k * (b - 1)) + (b - 1) <= b * (b - 1) /\ k * (b - 1) \in Nat /\ b * (b - 1) \in Nat
  <2> SUFFICES ASSUME NEW k \in Nat, k + 1 <= b
               PROVE  (k * (b - 1)) + (b - 1) <= b * (b - 1) /\ k * (b - 1) \in Nat /\ b * (b - 1) \in Nat
    OBVIOUS
  <2>1. b - 1 \in Nat \ {0} /\ k < b
    BY <1>1
  <2>. QED  BY <1>1, <2>1, ProductGrows, SMT
<1> HIDE DEF b
<1>5. z <= b * (b - 1)
  <2>1. (Words * (b - 1)) + (b - 1) <= b * (b - 1) /\ Words * (b - 1) \in Nat /\ b * (b - 1) \in Nat
    BY <1>1, <1>4
  <2>. QED  BY <1>1, <1>3, <2>1
<1>6. fz \in Sent!Word /\ Multiple(z - fz) /\ (z = 0 <=> fz = 0)
  BY <1>3, <1>5, Folds DEF b
<1>7. /\ s \in Sent!Word /\ Multiple((Byte * fz) - s)
      /\ Sent!Not(Sent!net_checksum(rest)) = s
  <2>1. s \in Sent!Word /\ Multiple((Byte * fz) - s) /\ Sent!Not(fz) \in Sent!Word
    BY <1>6, Swapped
  <2>2. Sent!net_checksum(rest) = Sent!switch_endian16(Sent!Not(fz))
    BY DEF Sent!net_checksum, swapped
  <2>3. Sent!net_checksum(rest) = Sent!Not(s)
    BY <1>6, <2>2, Swapped
  <2>4. Sent!Not(Sent!Not(s)) = s
    BY <2>1, BaseIsLarge DEF Sent!Not, Sent!Word
  <2>. QED  BY <2>1, <2>3, <2>4
<1>8. fz = 0 => s = 0
  <2>1. 0 = (0 * Byte) + 0 /\ 0 \in 0 .. Byte - 1 /\ Byte \in Nat \ {0}
    BY BaseIsLarge
  <2>2. 0 \div Byte = 0 /\ 0 % Byte = 0
    BY <2>1, DividesOnce
  <2>. QED  BY <2>1, <2>2 DEF Sent!switch_endian16
<1>9. fz \in Nat /\ s \in Nat /\ s <= b - 1
  BY <1>6, <1>7, BaseIsLarge DEF Sent!Word, b
<1> HIDE DEF r, z, p, fz, s
<1>10. Multiple(r - s)
  <2>1. Byte \in Int /\ Byte * r \in Int /\ Byte * fz \in Int /\ Byte * z \in Int
    BY <1>3, <1>9, BaseIsLarge, SMT
  <2>2. Multiple(((Byte * r) - z) + (z - fz))
    <3>1. (Byte * r) - z \in Int /\ z - fz \in Int
      BY <1>3, <1>9, <2>1
    <3>. QED  BY <1>2, <1>6, <3>1, MultiplesAdd, Zenon
  <2>3. ((Byte * r) - z) + (z - fz) = (Byte * r) - fz /\ (Byte * r) - fz \in Int
    BY <1>3, <1>9, <2>1
  <2>4. Multiple(Byte * ((Byte * r) - fz))
    BY <2>1, <2>2, <2>3, MultiplesScale
  <2>5. Byte * ((Byte * r) - fz) = ((Byte * Byte) * r) - (Byte * fz) /\ (Byte * Byte) * r \in Int
    BY <1>3, <1>9, <2>1, SMT
  <2>6. Multiple((((Byte * Byte) * r) - (Byte * fz)) + ((Byte * fz) - s))
    <3>1. ((Byte * Byte) * r) - (Byte * fz) \in Int /\ (Byte * fz) - s \in Int
      BY <1>9, <2>1, <2>5
    <3>. QED  BY <1>7, <2>4, <2>5, <3>1, MultiplesAdd, Zenon
  <2>7. Multiple(r * (Sent!Base - 1))
    BY <1>3 DEF Multiple
  <2>8. r * (Sent!Base - 1) = ((Byte * Byte) * r) - r
    BY <1>3, BaseIsLarge, SMT
  <2>9. Multiple(((((Byte * Byte) * r) - (Byte * fz)) + ((Byte * fz) - s)) - (((Byte * Byte) * r) - r))
    <3>1. (((Byte * Byte) * r) - (Byte * fz)) + ((Byte * fz) - s) \in Int /\ ((Byte * Byte) * r) - r \in Int
      BY <1>3, <1>9, <2>1, <2>5
    <3>. QED  BY <2>6, <2>7, <2>8, <3>1, MultiplesAdd, Zenon
  <2>10. ((((Byte * Byte) * r) - (Byte * fz)) + ((Byte * fz) - s)) - (((Byte * Byte) * r) - r) = r - s
    BY <1>3, <1>9, <2>1, <2>5
  <2>. QED  BY <2>9, <2>10
<1>11. /\ r + p \in Nat /\ s + p \in Nat /\ s + p <= b * (b - 1)
       /\ Multiple((r + p) - (s + p)) /\ (r + p = 0 => s + p = 0)
  <2>1. (Payload * (b - 1)) + (b - 1) <= b * (b - 1) /\ Payload * (b - 1) \in Nat /\ b * (b - 1) \in Nat
    BY <1>1, <1>4
  <2>2. (r + p) - (s + p) = r - s
    BY <1>3, <1>9
  <2>3. s + p <= b * (b - 1)
    BY <1>1, <1>3, <1>9, <2>1
  <2>4. r + p = 0 => s + p = 0
    BY <1>2, <1>3, <1>6, <1>8
  <2>. QED  BY <1>3, <1>9, <1>10, <2>2, <2>3, <2>4
<1>12. c \in Sent!Word /\ (r + p) + c > 0 /\ ((r + p) + c) % (Sent!Base - 1) = 0
  BY <1>11, ComplementVerifies DEF b
<1>13. Sent!WithPayload(Sent!net_checksum(rest), payload) = c
  BY <1>7 DEF Sent!WithPayload, p
<1> HIDE DEF c
<1>14. Sent!Total((rest \o payload) \o <<c>>) = (r + p) + c
  <2>1. c \in Nat /\ rest \in Seq(Nat) /\ payload \in Seq(Nat)
    BY <1>12, WordsAreNat
  <2>2. <<c>> \in Seq(Nat) /\ rest \o payload \in Seq(Nat)
    BY <2>1
  <2>3. Sent!Total(<<c>>) = c /\ Sent!Total(rest \o payload) = r + p
    BY <2>1, <2>2, TotalOfOne, TotalOfBoth DEF r, p
  <2>. QED  BY <2>2, <2>3, TotalOfBoth
<1>. QED  BY <1>12, <1>13, <1>14 DEF Verifies

(* The header being filled has the id it will be summed with, unless the   *)
(* handler has answered since.                                             *)
HeaderSound ==
  /\ Sent!HeaderType
  /\ filling # <<>> => Len(filling) = Words + 1 /\ (~shared => filling[1] = ipv4count)
  /\ last.words = <<>> \/ last.shared \/ Verifies(last.words)

LEMMA HeaderInits ==
  ASSUME Sent!HeaderInit
  PROVE  HeaderSound
<1>1. 1 \in Sent!Word /\ 0 \in 0 .. MaxHeaders
  BY BaseIsLarge, HeaderAssumption DEF Sent!Word, Sent!HeaderConstants
<1>2. /\ ipv4count = 1 /\ filling = <<>> /\ last = [words |-> <<>>, shared |-> FALSE]
      /\ filled = 0 /\ shared = FALSE
  BY DEF Sent!HeaderInit, Sent!Nothing, Sent!Packet
<1>3. last \in [words : Seq(Sent!Word), shared : BOOLEAN]
  BY <1>2
<1>. QED  BY <1>1, <1>2, <1>3 DEF HeaderSound, Sent!HeaderType

LEMMA PacketGoes ==
  ASSUME NEW words \in Seq(Sent!Word), NEW sharing \in BOOLEAN, last' = Sent!Packet(words, sharing)
  PROVE  last' \in [words : Seq(Sent!Word), shared : BOOLEAN] /\ last'.words = words /\ last'.shared = sharing
BY DEF Sent!Packet

LEMMA HeaderStep ==
  ASSUME HeaderSound, [Sent!HeaderNext]_headers
  PROVE  HeaderSound'
<1>1. /\ ipv4count \in Sent!Word /\ filling \in Seq(Sent!Word) /\ filled \in 0 .. MaxHeaders
      /\ last \in [words : Seq(Sent!Word), shared : BOOLEAN] /\ shared \in BOOLEAN
      /\ filling # <<>> => Len(filling) = Words + 1 /\ (~shared => filling[1] = ipv4count)
      /\ last.words = <<>> \/ last.shared \/ Verifies(last.words)
  BY DEF HeaderSound, Sent!HeaderType
<1>2. Words \in Nat /\ Payload \in Nat /\ MaxHeaders \in Nat
  BY HeaderAssumption DEF Sent!HeaderConstants
<1>3. (ipv4count + 1) % Sent!Base \in Sent!Word
  <2>1. ipv4count + 1 \in Nat /\ Sent!Base \in Nat \ {0}
    BY <1>1, BaseIsLarge DEF Sent!Word
  <2>. QED  BY <2>1, Divides DEF Sent!Word
<1>4. ASSUME NEW n \in Nat, NEW words \in Sent!Tuples(n)
      PROVE  words \in Seq(Sent!Word) /\ Len(words) = n
  BY <1>4 DEF Sent!Tuples
<1>5. CASE Sent!HeaderSums
  <2> DEFINE rest == Tail(filling)
             c == Sent!Not(Sent!fold(ipv4count + Sent!Total(rest)))
             words == Append(filling, c)
  <2>1. /\ filling # <<>> /\ last' = Sent!Packet(words, shared)
        /\ ipv4count' = (ipv4count + 1) % Sent!Base /\ filling' = <<>>
        /\ UNCHANGED <<filled, shared>>
    BY <1>5, Zenon DEF Sent!HeaderSums, Sent!Nothing
  <2>2. rest \in Seq(Sent!Word) /\ Len(rest) = Words
    BY <1>1, <1>2, <2>1
  <2>3. c \in Sent!Word /\ Verifies((<<ipv4count>> \o rest) \o <<c>>)
    BY <1>1, <2>2, HeaderVerifies
  <2>4. shared \/ words = (<<ipv4count>> \o rest) \o <<c>>
    <3>1. SUFFICES ASSUME ~shared  PROVE words = (<<ipv4count>> \o rest) \o <<c>>
      OBVIOUS
    <3>2. filling = <<ipv4count>> \o rest
      BY <1>1, <1>2, <2>1, <3>1
    <3> HIDE DEF c, rest
    <3>3. words = filling \o <<c>>
      <4>1. filling \in Seq(Sent!Word) /\ c \in Sent!Word
        BY <1>1, <2>3
      <4>. QED  BY <4>1, AppendIsConcat, Zenon
    <3>. QED  BY <3>2, <3>3, Zenon
  <2> HIDE DEF c
  <2>5. words \in Seq(Sent!Word)
    BY <1>1, <2>3
  <2> HIDE DEF words
  <2>6. last' \in [words : Seq(Sent!Word), shared : BOOLEAN] /\ last'.words = words /\ last'.shared = shared
    BY <1>1, <2>1, <2>5, PacketGoes
  <2>7. last'.shared \/ Verifies(last'.words)
    BY <2>3, <2>4, <2>6
  <2>. QED  BY <1>1, <1>3, <2>1, <2>6, <2>7 DEF HeaderSound, Sent!HeaderType, Verifies
<1>6. ASSUME NEW rest \in Sent!Tuples(Words), Sent!HeaderStarts(rest)
      PROVE  HeaderSound'
  <2>1. /\ filled < MaxHeaders /\ filling' = <<ipv4count>> \o rest
        /\ filled' = filled + 1 /\ shared' = FALSE /\ UNCHANGED <<ipv4count, last>>
    BY <1>6, Zenon DEF Sent!HeaderStarts
  <2>2. rest \in Seq(Sent!Word) /\ Len(rest) = Words
    BY <1>2, <1>4
  <2>3. filling' \in Seq(Sent!Word) /\ Len(filling') = Words + 1 /\ filling'[1] = ipv4count
    BY <1>1, <1>2, <2>1, <2>2
  <2>4. filled' \in 0 .. MaxHeaders
    BY <1>1, <1>2, <2>1
  <2>. QED  BY <1>1, <2>1, <2>3, <2>4 DEF HeaderSound, Sent!HeaderType, Verifies
<1>7. ASSUME NEW rest \in Sent!Tuples(Words), Sent!HandlerFills(rest)
      PROVE  HeaderSound'
  <2> DEFINE c == Sent!Not(Sent!fold(ipv4count + Sent!Total(rest)))
             words == (<<ipv4count>> \o rest) \o <<c>>
  <2>1. /\ filled < MaxHeaders /\ last' = Sent!Packet(words, FALSE)
        /\ ipv4count' = (ipv4count + 1) % Sent!Base
        /\ filled' = filled + 1 /\ shared' = TRUE /\ UNCHANGED filling
    BY <1>7, Zenon DEF Sent!HandlerFills
  <2>2. rest \in Seq(Sent!Word) /\ Len(rest) = Words
    BY <1>2, <1>4
  <2>3. c \in Sent!Word /\ Verifies(words)
    BY <1>1, <2>2, HeaderVerifies
  <2> HIDE DEF c
  <2>4. words \in Seq(Sent!Word)
    BY <1>1, <2>2, <2>3
  <2> HIDE DEF words
  <2>5. last' \in [words : Seq(Sent!Word), shared : BOOLEAN] /\ last'.words = words /\ last'.shared = FALSE
    BY <2>1, <2>4, PacketGoes
  <2>6. filled' \in 0 .. MaxHeaders
    BY <1>1, <1>2, <2>1
  <2>. QED  BY <1>1, <1>3, <2>1, <2>3, <2>5, <2>6 DEF HeaderSound, Sent!HeaderType, Verifies
<1>8. ASSUME NEW rest \in Sent!Tuples(Words), NEW n \in 0 .. Payload, NEW payload \in Sent!Tuples(n),
             Sent!SegmentFilled(rest, payload)
      PROVE  HeaderSound'
  <2> DEFINE c == Sent!WithPayload(Sent!net_checksum(rest), payload)
             words == (rest \o payload) \o <<c>>
  <2>1. /\ filled < MaxHeaders /\ last' = Sent!Packet(words, FALSE)
        /\ filled' = filled + 1 /\ UNCHANGED <<ipv4count, filling, shared>>
    BY <1>8, Zenon DEF Sent!SegmentFilled
  <2>2. /\ rest \in Seq(Sent!Word) /\ Len(rest) = Words
        /\ payload \in Seq(Sent!Word) /\ Len(payload) <= Payload
    BY <1>2, <1>4
  <2>3. c \in Sent!Word /\ Verifies(words)
    BY <2>2, SegmentVerifies
  <2> HIDE DEF c
  <2>4. words \in Seq(Sent!Word)
    BY <2>2, <2>3
  <2> HIDE DEF words
  <2>5. last' \in [words : Seq(Sent!Word), shared : BOOLEAN] /\ last'.words = words /\ last'.shared = FALSE
    BY <2>1, <2>4, PacketGoes
  <2>6. filled' \in 0 .. MaxHeaders
    BY <1>1, <1>2, <2>1
  <2>. QED  BY <1>1, <2>1, <2>3, <2>5, <2>6 DEF HeaderSound, Sent!HeaderType, Verifies
<1>9. CASE UNCHANGED headers
  BY <1>1, <1>9 DEF headers, HeaderSound, Sent!HeaderType, Verifies
<1>. QED  BY <1>5, <1>6, <1>7, <1>8, <1>9 DEF Sent!HeaderNext

LEMMA HeaderSoundSuffices ==
  ASSUME HeaderSound
  PROVE  ChecksumsVerify
BY DEF HeaderSound, Verifies, ChecksumsVerify, Sent!ChecksumsVerify, Sent!Nothing

-----------------------------------------------------------------------------
(* All of it in one behaviour: a step of a client is none of a session.    *)
NetworkSound ==
  Typed /\ Answers /\ AnswerIsToQuestion /\ Approved /\ OurIpIsLeased /\ Asked /\ Reading /\ SessionSound

LEMMA SoundInit == MCInit => NetworkSound
BY TypedInit, AnswersInit, ApprovedInit, AskedInit, ReadingInit, SessionInit DEF MCInit, NetworkSound

LEMMA StepOfAny ==
  ASSUME [MCNext]_allVars
  PROVE  [Next]_vars /\ [Session!TcpNext]_(Session!tcpVars) /\ [Sent!HeaderNext]_headers
<1>1. UNCHANGED session => UNCHANGED Session!tcpVars
  BY DEF session, Session!tcpVars
<1>. QED  BY <1>1 DEF MCNext, allVars

LEMMA SoundStep ==
  ASSUME NetworkSound, [MCNext]_allVars
  PROVE  NetworkSound'
<1>1. [Next]_vars /\ [Session!TcpNext]_(Session!tcpVars)
  BY StepOfAny
<1>. QED  BY <1>1, TypedStep, AnswersStep, ApprovedStep, AskedStep, ReadingStep, SessionStep DEF NetworkSound

LEMMA SoundAlways == MCSpec => []NetworkSound
BY SoundInit, SoundStep, PTL DEF MCSpec

(* The address in use is the one the server approved, although it is read  *)
(* where the card may have put another packet (ethernet.c:395-398), as     *)
(* long as fewer packets came than there are buffers.                      *)
THEOREM LeaseIsOurs == MCSpec => []OurIpIsLeased
<1>1. NetworkSound => OurIpIsLeased
  BY DEF NetworkSound
<1>. QED  BY <1>1, SoundAlways, PTL

(* getMACFromIp takes the first reply that comes (ethernet.c:104-115), and *)
(* it is that of the machine asked for unless a reply of another machine   *)
(* came during this wait, or one was left over when it began: whatever     *)
(* came before and was taken does no harm, for any wire and any machines.  *)
THEOREM MacIsTheRightOne == MCSpec => []MacIsOfAsked
<1>1. NetworkSound => MacIsOfAsked
  BY DEF NetworkSound, Asked, MacIsOfAsked
<1>. QED  BY <1>1, SoundAlways, PTL

(* getIPFromName never returns the answer to an earlier question: the      *)
(* transaction id tells it apart (ethernet.c:408,449-452), whatever comes  *)
(* late, twice or not at all.                                              *)
THEOREM NameGetsItsAnswer == MCSpec => []AnswerIsToQuestion
<1>1. NetworkSound => AnswerIsToQuestion
  BY DEF NetworkSound
<1>. QED  BY <1>1, SoundAlways, PTL

(* A file that tftp_read returned is that file, whole and once             *)
(* (tftp.c:36-75), unless a block came twice: of the blocks the server     *)
(* sends only the first is taken.                                          *)
THEOREM FileComesWhole == MCSpec => []ReadIsFile
<1>1. NetworkSound => ReadIsFile
  BY ReadingIsFile DEF NetworkSound
<1>. QED  BY <1>1, SoundAlways, PTL

(* Of a TCP session: what the peer has an acknowledge for was delivered or *)
(* dropped by the main flow's wait, and what the program sends is numbered *)
(* one after the other (ethernet.c:206-217,554-594), wherever the handler  *)
(* comes between two accesses of fillTcpHeader - its two loads, the sum    *)
(* and its store -, unless a packet of the peer crossed one of ours or the *)
(* program began before its SYN was answered.                              *)
THEOREM SessionIsSound == MCSpec => []SessionHolds
<1>1. NetworkSound => SessionHolds
  BY TypedIsType, SessionFollows DEF NetworkSound, SessionHolds
<1>. QED  BY <1>1, SoundAlways, PTL

(* Every packet that leaves has the checksum its receiver finds            *)
(* (ethernet.c:138-150,198-203, interrupts.c:359-378), for words of any    *)
(* width and any of their values, unless the handler has answered a packet *)
(* between the two reads of ipv4count.                                     *)
THEOREM ChecksumsAreRight == MCSpec => []ChecksumsVerify
<1>1. MCInit => HeaderSound
  BY HeaderInits DEF MCInit
<1>2. HeaderSound /\ [MCNext]_allVars => HeaderSound'
  BY StepOfAny, HeaderStep
<1>3. HeaderSound => ChecksumsVerify
  BY HeaderSoundSuffices
<1>. QED  BY <1>1, <1>2, <1>3, PTL DEF MCSpec
=============================================================================
