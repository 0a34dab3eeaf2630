-------------------------------- MODULE Tcp ---------------------------------
(***************************************************************************)
(* A TCP session as kernel/dev/ethernet.c and the requests ETH::INIT and   *)
(* ETH::OUT of INT 0x80 keep it: the interrupt handler answers what comes  *)
(* and calls the program's function, the main flow sends, and taaaX and    *)
(* taaaY hold the numbers of whichever of the two was last.                *)
(*                                                                         *)
(* Numbers count packets, not bytes.  The peer (external) numbers its      *)
(* packets, accepts ours in order, and sends again what is not yet         *)
(* acknowledged.                                                           *)
(***************************************************************************)
EXTENDS Naturals, Sequences

CONSTANTS
  MaxOut, MaxIn,     (* bounds: packets that the program and the peer send *)
  MaxResent          (* bound: packets the peer sends again                *)

TcpConstants == {MaxOut, MaxIn, MaxResent} \subseteq Nat

VARIABLES
  at,            (* main flow: where it is                                 *)
  ethjmplist,    (* the port's function is set                             *)
  taaaX, taaaY,
  seq,           (* fillTcpHeader's numbers for the packet to send, and    *)
                 (* the sum it is about to store into taaaX                *)
  down, up,      (* the peer's packets underway to us, ours to it          *)
  peer,          (* next number it sends, it expects, it has acknowledged  *)
  resent,
  \* the rest is history
  delivered,     (* numbers of the packets the function was called with    *)
  missed,        (* those the main flow dropped                            *)
  numbers,       (* those fillTcpHeader gave what the program has sent     *)
  early,         (* a header was begun before the peer's SYN was answered  *)
  crossed        (* a packet came that the peer sent before it had ours    *)

tcpVars == <<at, ethjmplist, taaaX, taaaY, seq, down, up, peer, resent, delivered, missed, numbers, early, crossed>>

OurFirst == 1            (* create_tcp_session numbers its SYN 1           *)
PeerFirst == 0

Kinds == {"syn", "push", "fin"}
TcpType ==
  /\ at \in {"closed", "syn", "open", "mac", "fill", "ack", "add", "store", "send"}
  /\ ethjmplist \in BOOLEAN
  /\ {taaaX, taaaY} \subseteq Nat /\ seq \in [n : Nat, ack : Nat, sum : Nat]
  /\ down \in Seq([kind : Kinds, n : Nat, ack : Nat])
  /\ up \subseteq [kind : {"syn", "ack", "push"}, n : Nat, ack : Nat]
  /\ peer \in [state : {"listen", "open", "done"}, next : Nat, wants : Nat, acked : Nat]
  /\ resent \in 0 .. MaxResent
  /\ delivered \in Seq(Nat) /\ missed \subseteq Nat /\ numbers \in Seq(Nat) /\ {early, crossed} \subseteq BOOLEAN

NoNumbers == [n |-> 0, ack |-> 0, sum |-> 0]
TcpInit ==
  /\ at = "closed" /\ ethjmplist = FALSE
  /\ taaaX = 0 /\ taaaY = 0 /\ seq = NoNumbers
  /\ down = <<>> /\ up = {}
  /\ peer = [state |-> "listen", next |-> PeerFirst, wants |-> OurFirst, acked |-> PeerFirst]
  /\ resent = 0 /\ delivered = <<>> /\ missed = {} /\ numbers = <<>> /\ early = FALSE /\ crossed = FALSE

-----------------------------------------------------------------------------
(* ETH::INIT: setTcpHandler, and the SYN; nothing waits for its answer.    *)
create_tcp_session ==
  /\ \/ /\ at = "closed" /\ at' = "syn"
        /\ ethjmplist' = TRUE /\ UNCHANGED up
     \/ /\ at = "syn" /\ at' = "open"
        /\ up' = {[kind |-> "syn", n |-> OurFirst, ack |-> 0]} /\ UNCHANGED ethjmplist
  /\ UNCHANGED <<taaaX, taaaY, seq, down, peer, resent, delivered, missed, numbers, early, crossed>>

(* ETH::OUT asks for the MAC address, *)
OutAsks ==
  /\ at = "open" /\ Len(numbers) < MaxOut
  /\ at' = "mac"
  /\ UNCHANGED <<ethjmplist, taaaX, taaaY, seq, down, up, peer, resent, delivered, missed, numbers, early, crossed>>

(* and while it waits for the answer, may take packets from the card that  *)
(* the handler has not seen, and drop them.                                *)
OutDrops ==
  /\ at = "mac"
  /\ down # <<>>
  /\ down' = Tail(down)
  /\ missed' = missed \union {Head(down).n}
  /\ UNCHANGED <<at, ethjmplist, taaaX, taaaY, seq, up, peer, resent, delivered, numbers, early, crossed>>

OutAnswered ==
  /\ at = "mac"
  /\ at' = "fill"
  /\ UNCHANGED <<ethjmplist, taaaX, taaaY, seq, down, up, peer, resent, delivered, missed, numbers, early, crossed>>

(* fillTcpHeader takes the numbers that stand there (0x1010: as before),   *)
(* one after the other,                                                    *)
FillReads ==
  /\ \/ /\ at = "fill" /\ at' = "ack"
        /\ seq' = [seq EXCEPT !.n = taaaX]
        /\ early' = (early \/ taaaY = 0)
     \/ /\ at = "ack" /\ at' = "add"
        /\ seq' = [seq EXCEPT !.ack = taaaY] /\ UNCHANGED early
  /\ UNCHANGED <<ethjmplist, taaaX, taaaY, down, up, peer, resent, delivered, missed, numbers, crossed>>

(* counts the payload: taaaX is read again, and stored,                    *)
FillAdds ==
  /\ at = "add" /\ at' = "store"
  /\ seq' = [seq EXCEPT !.sum = taaaX + 1]
  /\ UNCHANGED <<ethjmplist, taaaX, taaaY, down, up, peer, resent, delivered, missed, numbers, early, crossed>>

(* Mutant: the payload is not counted.                                     *)
FillStores_Not ==
  /\ at = "store" /\ at' = "send"
  /\ UNCHANGED <<ethjmplist, taaaX, taaaY, seq, down, up, peer, resent, delivered, missed, numbers, early, crossed>>

FillStores ==
  /\ at = "store" /\ at' = "send"
  /\ taaaX' = seq.sum
  /\ UNCHANGED <<ethjmplist, taaaY, seq, down, up, peer, resent, delivered, missed, numbers, early, crossed>>

(* and the packet goes out.                                                *)
OutSends ==
  /\ at = "send" /\ at' = "open"
  /\ up' = up \union {[kind |-> "push", n |-> seq.n, ack |-> seq.ack]}
  /\ numbers' = Append(numbers, seq.n) /\ seq' = NoNumbers
  /\ UNCHANGED <<ethjmplist, taaaX, taaaY, down, peer, resent, delivered, missed, early, crossed>>

-----------------------------------------------------------------------------
(* ethernet_handle_package, TCP: anything that pushes, opens or closes is  *)
(* acknowledged ("TCP auto accept"), fillTcpHeader keeps both numbers, and *)
(* the function is called with what was pushed - also if it came before.   *)
Handle ==
  LET p == Head(down)
  IN
    /\ down # <<>>
    /\ down' = Tail(down)
    /\ up' = up \union {[kind |-> "ack", n |-> p.ack, ack |-> p.n + 1]}
    /\ taaaX' = p.ack /\ taaaY' = p.n + 1
    /\ delivered' = IF p.kind = "push" /\ ethjmplist THEN Append(delivered, p.n) ELSE delivered
    /\ crossed' = (crossed \/ p.ack < OurFirst + 1 + Len(numbers) + (IF at = "send" THEN 1 ELSE 0))
    /\ UNCHANGED <<at, ethjmplist, seq, peer, resent, missed, numbers, early>>

-----------------------------------------------------------------------------
(* The peer.                                                               *)
PeerGets ==
  \E p \in up :
    /\ up' = up \ {p}
    /\ \/ /\ p.kind = "syn" /\ peer.state = "listen"
          /\ peer' = [peer EXCEPT !.state = "open", !.wants = p.n + 1, !.next = @ + 1]
          /\ down' = Append(down, [kind |-> "syn", n |-> PeerFirst, ack |-> p.n + 1])
       \/ /\ p.kind # "syn"
          /\ peer' = [peer EXCEPT
               !.acked = IF p.ack > @ THEN p.ack ELSE @,
               !.wants = IF p.kind = "push" /\ p.n = @ THEN @ + 1 ELSE @]
          /\ UNCHANGED down
  /\ UNCHANGED <<at, ethjmplist, taaaX, taaaY, seq, resent, delivered, missed, numbers, early, crossed>>

PeerSends ==
  /\ peer.state = "open" /\ peer.acked > PeerFirst /\ peer.next <= MaxIn
  /\ \E kind \in {"push", "fin"} :
       /\ kind = "fin" <=> peer.next = MaxIn
       /\ down' = Append(down, [kind |-> kind, n |-> peer.next, ack |-> peer.wants])
       /\ peer' = [peer EXCEPT !.next = @ + 1, !.state = IF kind = "fin" THEN "done" ELSE @]
  /\ UNCHANGED <<at, ethjmplist, taaaX, taaaY, seq, up, resent, delivered, missed, numbers, early, crossed>>

PeerResends ==
  /\ resent < MaxResent
  /\ peer.acked < peer.next
  /\ down' = Append(down, [kind |-> IF peer.acked = PeerFirst THEN "syn"
                                     ELSE IF peer.acked = MaxIn THEN "fin" ELSE "push",
                            n |-> peer.acked, ack |-> peer.wants])
  /\ resent' = resent + 1
  /\ UNCHANGED <<at, ethjmplist, taaaX, taaaY, seq, up, peer, delivered, missed, numbers, early, crossed>>

TcpMain == create_tcp_session \/ OutAsks \/ OutDrops \/ OutAnswered \/ FillReads \/ FillAdds \/ FillStores \/ OutSends
TcpPeer == PeerGets \/ PeerSends \/ PeerResends

TcpNext == TcpMain \/ Handle \/ TcpPeer

-----------------------------------------------------------------------------
(* What the peer may throw away - everything it got an acknowledge for -   *)
(* the program's function has been called with, although acknowledging is  *)
(* all the interrupt handler's doing and the function is set by the main   *)
(* flow (ethernet.c:485,554-594).  It is lost when a wait of the main flow *)
(* drops a packet and the next one is acknowledged.                        *)
AckedIsDelivered ==
  \A n \in PeerFirst + 1 .. peer.acked - 1 :
    n < MaxIn => n \in missed \/ \E i \in DOMAIN delivered : delivered[i] = n

(* Each packet of the program has the number the peer expects, one more    *)
(* than the packet before, although the handler sets taaaX between any two *)
(* accesses of fillTcpHeader - its two loads and its sum (ethernet.c:      *)
(* 210-217) -, unless a packet came that the peer sent before it had all   *)
(* of ours, or the program began a packet before the peer's SYN was        *)
(* answered: nothing waits for that.                                       *)
NumbersFollow ==
  ~crossed /\ ~early => \A i \in DOMAIN numbers : numbers[i] = OurFirst + i
=============================================================================
