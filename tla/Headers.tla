------------------------------ MODULE Headers -------------------------------
(***************************************************************************)
(* The checksums of what kernel/dev/ethernet.c and the request ETH::OUT of *)
(* INT 0x80 send: fillIpv4Header, which the main flow and the interrupt    *)
(* handler both call, fillTcpHeader with net_checksum, and the share of a  *)
(* TCP payload, which ETH::OUT adds to a checksum that is already there.   *)
(*                                                                         *)
(* A word has two bytes of Byte values each (256 in the code); words are   *)
(* written as they go over the wire.                                       *)
(***************************************************************************)
EXTENDS Naturals, Sequences

CONSTANTS
  Byte,               (* values of a byte                                  *)
  Words,              (* bound: words of a header besides id and checksum  *)
  Payload,            (* bound: words of a payload                         *)
  MaxHeaders          (* bound: headers filled                             *)

VARIABLES
  ipv4count,
  filling,            (* the header the main flow is filling, if any       *)
  last,               (* the words of the last packet with its checksum,   *)
                      (* and (history) what shared was for it              *)
  filled,
  shared              (* history: the handler has filled a header since    *)
                      (* the main flow wrote its id                        *)

HeaderConstants ==
  /\ Byte \in Nat /\ Byte > 1
  /\ Words \in Nat /\ Words < Byte * Byte
  /\ Payload \in Nat /\ Payload < Byte * Byte
  /\ MaxHeaders \in Nat

headerVars == <<ipv4count, filling, last, filled, shared>>

Base == Byte * Byte
Word == 0 .. Base - 1
switch_endian16(w) == (w % Byte) * Byte + (w \div Byte)
Not(w) == Base - 1 - w
Total(words) ==
  LET sum[n \in 0 .. Len(words)] == IF n = 0 THEN 0 ELSE sum[n - 1] + words[n]
  IN  sum[Len(words)]
Packet(words, sharing) == [words |-> words, shared |-> sharing]

Nothing == <<>>
HeaderType ==
  /\ ipv4count \in Word /\ filling \in Seq(Word) /\ last \in [words : Seq(Word), shared : BOOLEAN]
  /\ filled \in 0 .. MaxHeaders /\ shared \in BOOLEAN

HeaderInit ==
  /\ ipv4count = 1 /\ filling = Nothing /\ last = Packet(Nothing, FALSE)
  /\ filled = 0 /\ shared = FALSE

-----------------------------------------------------------------------------
(* The carries are added in twice, the rest is cut off.                    *)
(* Mutant: once.                                                           *)
fold_Once(sum) == ((sum % Base) + (sum \div Base)) % Base
fold(sum) ==
  LET once == (sum % Base) + (sum \div Base)
  IN  (once + (once \div Base)) % Base

(* The bytes are summed as the processor loads them, low byte first.       *)
net_checksum(words) ==
  LET final == Not(fold(Total([i \in DOMAIN words |-> switch_endian16(words[i])])))
  IN  switch_endian16(final)

(* ETH::OUT: the complement of the checksum is the sum so far.             *)
WithPayload(checksum, payload) == Not(fold(Not(checksum) + Total(payload)))

-----------------------------------------------------------------------------
(* fillIpv4Header in the main flow: the id is written,                     *)
HeaderStarts(rest) ==
  /\ filled < MaxHeaders /\ filling = Nothing
  /\ filling' = <<ipv4count>> \o rest
  /\ filled' = filled + 1 /\ shared' = FALSE
  /\ UNCHANGED <<ipv4count, last>>

(* and ipv4count is read again for the sum.                                *)
HeaderSums ==
  /\ filling # Nothing
  /\ last' = Packet(Append(filling, Not(fold(ipv4count + Total(Tail(filling))))), shared)
  /\ ipv4count' = (ipv4count + 1) % Base
  /\ filling' = Nothing
  /\ UNCHANGED <<filled, shared>>

(* The handler answers a packet with a header of its own, from beginning   *)
(* to end.                                                                 *)
HandlerFills(rest) ==
  /\ filled < MaxHeaders
  /\ filled' = filled + 1
  /\ last' = Packet(<<ipv4count>> \o rest \o <<Not(fold(ipv4count + Total(rest)))>>, FALSE)
  /\ ipv4count' = (ipv4count + 1) % Base
  /\ shared' = TRUE
  /\ UNCHANGED filling

(* fillTcpHeader and the payload of ETH::OUT.                              *)
SegmentFilled(rest, payload) ==
  /\ filled < MaxHeaders /\ filling = Nothing
  /\ filled' = filled + 1
  /\ last' = Packet(rest \o payload \o <<WithPayload(net_checksum(rest), payload)>>, FALSE)
  /\ UNCHANGED <<ipv4count, filling, shared>>

Tuples(n) == [1 .. n -> Word]
HeaderNext ==
  \/ HeaderSums
  \/ \E rest \in Tuples(Words) : HeaderStarts(rest) \/ HandlerFills(rest)
  \/ \E rest \in Tuples(Words), n \in 0 .. Payload : \E payload \in Tuples(n) : SegmentFilled(rest, payload)

-----------------------------------------------------------------------------
(* Every checksum that leaves is the one the receiver finds, who drops the *)
(* packet otherwise: all words add up to 0 in ones' complement             *)
(* (ethernet.c:138-150,198-203, interrupts.c:359-378).  Not so of a packet *)
(* of the main flow if one was answered between its two reads of ipv4count *)
(* (ethernet.c:129,141).                                                   *)
ChecksumsVerify ==
  last.words # Nothing /\ ~last.shared => Total(last.words) > 0 /\ Total(last.words) % (Base - 1) = 0
=============================================================================
