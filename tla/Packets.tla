------------------------------ MODULE Packets ------------------------------
(***************************************************************************)
(* Bytes on their way from a device to the values that are inserted:       *)
(* Packet_parser::add_and_parse (parser.h) and the handle_data of the      *)
(* drivers.  A device sends; a read of the poll loop takes whatever is     *)
(* there, so that a chunk may end anywhere.  The parser belongs to the     *)
(* device and outlives the connection.                                     *)
(*                                                                         *)
(* The line is bad for a while and good afterwards: first come up to       *)
(* MaxFragments fragments of any kind (packets and texts, parts of them,   *)
(* noise), then only packets that are whole and hold no preamble in their  *)
(* payload.                                                                *)
(***************************************************************************)
EXTENDS PacketParser, RegexParser

CONSTANTS
  Fragments,       (* of each kind: what is sent, <<bytes, values>>, with   *)
                   (* NoPacket for the values of what is no whole packet    *)
  GoodPackets,     (* of each kind: what is sent when the line is good      *)
  NoPacket,
  BufferLimit,     (* 0x1000                                                *)
  MaxChunk,        (* bytes of one read: poll_size_, 0x200                  *)
  MaxFragments,    (* bound on the fragments in the model                   *)
  RecoveryPackets  (* of each kind: good packets after which the parser has *)
                   (* recovered                                             *)

Kinds == DOMAIN Fragments

ASSUME PacketsAssumption ==
  /\ Kinds \subseteq {"xsens", "ublox", "regex"}
  /\ DOMAIN GoodPackets = Kinds
  /\ \A k \in Kinds : \A fragment \in Fragments[k] \cup GoodPackets[k] :
       fragment[1] \in Seq(Byte)
  /\ RecoveryPackets \in [Kinds -> Nat \ {0}]
  /\ {BufferLimit, MaxChunk, MaxFragments} \subseteq Nat \ {0}

(* A fragment with values is one packet and no more, and fits the buffer: the *)
(* longest Xsens packet has 260 bytes, the Ublox messages that are asked for  *)
(* are shorter.                                                               *)
ASSUME WholePacketsAssumption ==
  \A k \in Kinds \ {"regex"} :
    \A fragment \in Fragments[k] \cup GoodPackets[k] :
      fragment[2] # NoPacket =>
        /\ 1 \in Preambles(k, fragment[1])
        /\ PacketEnd(k, fragment[1], 1) = Len(fragment[1])
        /\ PacketValues(k, fragment[1]) = fragment[2]
        /\ Len(fragment[1]) <= BufferLimit + 1

(* How many packets are enough for a binary parser: what is kept of the noise  *)
(* and of the packets that it swallows is no more than a full buffer, a read   *)
(* and the packet that is cut; and from one preamble to the end of the next    *)
(* packet the buffer is not cleared.  (Of lines of text, TLC finds it out.)    *)
ASSUME RecoveryAssumption ==
  \A k \in Kinds \ {"regex"} :
    /\ Preamble(k)[1] # Preamble(k)[2]
    /\ \A packet \in GoodPackets[k] :
         /\ packet[2] \notin {NoPacket, <<>>}
         /\ Preambles(k, packet[1]) = {1}
    /\ \A packet, other \in GoodPackets[k] :
         /\ Len(packet[1]) + Len(other[1]) <= BufferLimit + 2
         /\ BufferLimit + MaxChunk + Len(other[1]) <= RecoveryPackets[k] * Len(packet[1])

VARIABLES
  kind,       (* the parser of the device                                    *)
  wire,       (* bytes sent and not read                                     *)
  buffer,     (* Packet_parser::buffer                                       *)
  queue,      (* the parser's values that handle_data has not taken, as a    *)
              (* set: they come with the next read that does not throw, any  *)
              (* number of times                                             *)
  values,     (* history: values inserted since the buffer was cleared       *)
  received,   (* history: the bytes read since then                          *)
  sent,       (* number of fragments sent while the line was bad             *)
  good,       (* number of packets sent since it is good                     *)
  owed,       (* history: the values of all that was sent, if only whole     *)
              (* packets were                                                *)
  recovered,  (* history: a value was inserted since the line is good        *)
  threw       (* history: a conversion threw                                 *)

vars == <<kind, wire, buffer, queue, values, received, sent, good, owed,
          recovered, threw>>

TypeOK ==
  /\ kind \in Kinds
  /\ {wire, buffer, received} \subseteq Seq(Byte)
  /\ queue # {} => threw
  /\ Len(values) \in Nat
  /\ sent \in 0..MaxFragments
  /\ good \in 0..RecoveryPackets[kind]
  /\ {recovered, threw} \subseteq BOOLEAN
  /\ recovered => good > 0

Init ==
  /\ kind \in Kinds
  /\ wire = <<>> /\ buffer = <<>> /\ queue = {}
  /\ values = <<>> /\ received = <<>> /\ owed = <<>>
  /\ sent = 0 /\ good = 0
  /\ recovered = FALSE /\ threw = FALSE

-----------------------------------------------------------------------------
(* The device.                                                                *)

Sent(fragment) ==
  /\ Len(wire) < MaxChunk
  /\ wire' = wire \o fragment[1]
  /\ owed' = IF owed = NoPacket \/ fragment[2] = NoPacket
             THEN NoPacket ELSE owed \o fragment[2]
  /\ UNCHANGED <<kind, buffer, queue, values, received, recovered, threw>>

SendFragment ==
  /\ good = 0 /\ sent < MaxFragments
  /\ \E fragment \in Fragments[kind] : Sent(fragment)
  /\ sent' = sent + 1
  /\ UNCHANGED good

SendGood ==
  /\ good < RecoveryPackets[kind]
  /\ \E fragment \in GoodPackets[kind] : Sent(fragment)
  /\ good' = good + 1
  /\ UNCHANGED sent

-----------------------------------------------------------------------------
(* A read of the poll loop.                                                   *)

(* A buffer that was too full when the chunk came is cleared before it.       *)
Cleared == Len(buffer) > BufferLimit

(* Mutant: the buffer is cleared when it would be too full with the chunk.    *)
ExtendedWithin(chunk) ==
  (IF Len(buffer) + Len(chunk) > BufferLimit THEN <<>> ELSE buffer) \o chunk

Extended(chunk) == (IF Cleared THEN <<>> ELSE buffer) \o chunk

Parsed(b) ==
  IF kind = "regex" THEN RegexParsed(b)
  ELSE LET parsed == PacketsParsed(kind, b)
       IN  [rest |-> parsed.rest, values |-> parsed.values, threw |-> FALSE]

(* The histories begin anew when the buffer is cleared.  Those of a text       *)
(* device end when a conversion throws, or with the second good line.          *)
Since(history, new) ==
  IF threw' \/ (kind = "regex" /\ good > 1) THEN <<>>
  ELSE (IF Cleared THEN <<>> ELSE history) \o new

(* Mutant: the values remain in the queue when they have been handed over.    *)
UntakenStays(parsed) == queue \cup Range(parsed.values)

(* What of the parsed values remains in the queue.                             *)
Untaken(parsed) ==
  IF parsed.threw THEN queue \cup Range(parsed.values) ELSE {}

(* handle_data: the queue is handed over unless the parser throws; then the   *)
(* poll loop disconnects and what is under way is lost.                        *)
Receive ==
  \E n \in 1..Min({MaxChunk, Len(wire)}) :
    LET chunk  == SubSeq(wire, 1, n)
        parsed == Parsed(Extended(chunk))
    IN  /\ buffer' = parsed.rest
        /\ threw' = (threw \/ parsed.threw)
        /\ received' = Since(received, chunk)
        /\ values' = Since(values, parsed.values)
        /\ queue' = Untaken(parsed)
        /\ wire' = IF parsed.threw THEN <<>> ELSE SubSeq(wire, n + 1, Len(wire))
        /\ recovered' = (recovered \/ (good > 0 /\ ~parsed.threw
                                         /\ parsed.values # <<>>))
        /\ UNCHANGED <<kind, sent, good, owed>>

Next == SendFragment \/ SendGood \/ Receive

Spec == Init /\ [][Next]_vars

-----------------------------------------------------------------------------
(* Safety.                                                                    *)

(* What a binary parser makes of the bytes does not depend on how the reads   *)
(* have cut them: parsed at once they would have given the same values and    *)
(* left the same behind.                                                       *)
ChunksDoNotMatter ==
  kind # "regex" =>
    [rest |-> buffer, values |-> values] = PacketsParsed(kind, received)

(* As long as a device sends nothing but whole packets, each value it sent is *)
(* inserted, in order: none is left when all bytes have been read.             *)
EveryPacketArrives ==
  owed # NoPacket /\ kind # "regex" =>
    /\ IsPrefix(values, owed)
    /\ wire = <<>> => values = owed

(* The number of matches of a filter, one behind the other.                    *)
Occurrences(filter, b) ==
  LET count[i \in 1..(Len(b) + 1)] ==
        IF Found(filter, b, i) = {} THEN 0
        ELSE 1 + count[Min(Found(filter, b, i))
                         + Len(FirstMatch(filter, b, i))]
  IN  count[1]

(* No text is taken for a reading twice, although the rounds of a filter begin *)
(* where another filter's match ended.  (Readings may be lost there.)          *)
EachMatchOnce ==
  kind = "regex" =>
    \A f \in DOMAIN Filters :
      Len(SelectSeq(values, LAMBDA v : v[1] = f))
        <= Occurrences(Filters[f], received)

(* Nothing a device says well is lost on a good line (xsens_impl.h:497-552,    *)
(* ublox_impl.h:462-512), and nothing it says is inserted twice                *)
(* (regex.h:61-123).                                                           *)
NoneLostNoneTwice == EveryPacketArrives /\ EachMatchOnce

(* However long no packet comes, the buffer does not grow beyond the limit     *)
(* and one read.                                                               *)
BufferBounded == Len(buffer) <= BufferLimit + MaxChunk

(* Whatever came before (a preamble in the noise that promises a packet longer *)
(* than the buffer, a text that cannot be converted and is found again after   *)
(* each reconnection), some good packets later values are inserted again, and  *)
(* meanwhile the buffer is bounded (parser.h:50-52).                           *)
Recovers ==
  /\ BufferBounded
  /\ good = RecoveryPackets[kind] /\ wire = <<>> => recovered
=============================================================================
