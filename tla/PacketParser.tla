---------------------------- MODULE PacketParser ----------------------------
(***************************************************************************)
(* The binary parsers (Xsens_parser, devices/xsens_impl.h, and             *)
(* Ublox_parser, devices/ublox_impl.h) as operators on a buffer of bytes.  *)
(* Both skip to the first preamble, take one packet whole or nothing at    *)
(* all, and drop what they took whether its checksum is right or not.      *)
(*                                                                         *)
(* An identifier of a data item in an Xsens packet is one byte here and    *)
(* two in the code.  A value is the bytes it is converted from.            *)
(***************************************************************************)
EXTENDS PacketFormat, FiniteSetsExt

CONSTANTS
  MtData2,        (* the message identifier of measurements                  *)
  XsensItems,     (* <<identifier, length>> of each item with a parse rule   *)
  UbloxMessages   (* <<class, id, length>> of each message with one          *)

ASSUME PacketParserAssumption == MtData2 \in Byte

-----------------------------------------------------------------------------
(* Framing.  An end of 0 stands for a packet that is not complete.           *)

Preamble(kind) == IF kind = "xsens" THEN XsensPreamble ELSE UbloxPreamble

(* Mutant: the byte behind one that may begin a preamble is not looked at     *)
(* again.                                                                     *)
PreamblesGreedy(kind, b) ==
  {p \in 1..(Len(b) - 1) : /\ <<b[p], b[p + 1]>> = Preamble(kind)
                           /\ p > 1 => b[p - 1] # Preamble(kind)[1]}

Preambles(kind, b) ==
  {p \in 1..(Len(b) - 1) : <<b[p], b[p + 1]>> = Preamble(kind)}

(* Where the packet with its preamble at p ends, if all of it is there.       *)
PacketEnd(kind, b, p) ==
  LET payload == IF kind = "xsens" THEN p + 4 ELSE p + 6
      length  == IF kind = "xsens" THEN b[p + 3] ELSE b[p + 4] + Base * b[p + 5]
      checks  == IF kind = "xsens" THEN 1 ELSE 2
  IN  IF payload - 1 <= Len(b) /\ payload - 1 + length + checks <= Len(b)
      THEN payload - 1 + length + checks
      ELSE 0

-----------------------------------------------------------------------------
(* What a packet is good for.                                                 *)

(* Where the item of an Xsens packet that begins at i ends.                   *)
ItemEnd(data, i) ==
  IF i + 1 <= Len(data) /\ i + 1 + data[i + 1] <= Len(data)
  THEN i + 1 + data[i + 1]
  ELSE 0

(* data_parser: the items up to the first that is cut off; of those, the ones *)
(* that are no unknown_data.                                                  *)
ItemValues(data) ==
  LET from[i \in 1..(Len(data) + 1)] ==
        LET end == ItemEnd(data, i)
        IN  IF end = 0 THEN <<>>
            ELSE IF <<data[i], data[i + 1]>> \in XsensItems
                 THEN <<SubSeq(data, i, end)>> \o from[end + 1]
                 ELSE from[end + 1]
  IN  from[1]

(* The preamble's second byte counts for the sum, which must be 0.            *)
XsensIntact(packet) == SumOf(Tail(packet)) = 0

XsensValues(packet) ==
  IF XsensIntact(packet) /\ packet[3] = MtData2
  THEN ItemValues(SubSeq(packet, 5, Len(packet) - 1))
  ELSE <<>>

(* Data_packet::data_: class, id, length and payload.                         *)
UbloxData(packet) == SubSeq(packet, 3, Len(packet) - 2)

UbloxIntact(packet) ==
  calc_checksum(UbloxData(packet))
    = <<packet[Len(packet) - 1], packet[Len(packet)]>>

UbloxValues(packet) ==
  LET data == UbloxData(packet)
  IN  IF UbloxIntact(packet)
           /\ <<data[1], data[2], data[3] + Base * data[4]>> \in UbloxMessages
      THEN <<data>> ELSE <<>>

PacketValues(kind, packet) ==
  IF kind = "xsens" THEN XsensValues(packet) ELSE UbloxValues(packet)

-----------------------------------------------------------------------------
(* Mutant: bytes without a preamble are dropped, a first half of one too.     *)
PacketsParsedNoJunk(kind, buffer) ==
  LET parse[b \in Seq(Byte)] ==
        LET starts == Preambles(kind, b)
            start  == Min(starts)
            end    == IF starts = {} THEN Len(b) ELSE PacketEnd(kind, b, start)
            rest   == parse[SubSeq(b, end + 1, Len(b))]
        IN  IF end = 0 \/ b = <<>>
            THEN [rest |-> b, values |-> <<>>]
            ELSE [rest |-> rest.rest,
                  values |-> (IF starts = {} THEN <<>>
                              ELSE PacketValues(kind, SubSeq(b, start, end)))
                               \o rest.values]
  IN  parse[buffer]

(* Packets are taken from the front until the first preamble in what is left *)
(* has no complete packet.  Junk before that preamble stays in the buffer.   *)
PacketsParsed(kind, buffer) ==
  LET parse[b \in Seq(Byte)] ==
        LET starts == Preambles(kind, b)
            start  == Min(starts)
            end    == IF starts = {} THEN 0 ELSE PacketEnd(kind, b, start)
            rest   == parse[SubSeq(b, end + 1, Len(b))]
        IN  IF end = 0
            THEN [rest |-> b, values |-> <<>>]
            ELSE [rest |-> rest.rest,
                  values |-> PacketValues(kind, SubSeq(b, start, end))
                               \o rest.values]
  IN  parse[buffer]
=============================================================================
