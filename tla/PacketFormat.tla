---------------------------- MODULE PacketFormat ----------------------------
(***************************************************************************)
(* Bytes and how packets are written: command::packet (devices/xsens.h)    *)
(* and Data_packet::get_packet (devices/ublox.h).  The length of an Xsens  *)
(* packet is one byte, of a Ublox packet two.                              *)
(***************************************************************************)
EXTENDS Integers, Sequences, SequencesExt

CONSTANTS
  Base,           (* values of a byte: 0x100                                 *)
  XsensPreamble,  (* packet_start and sys_command                            *)
  UbloxPreamble   (* sync_1 and sync_2                                       *)

Byte == 0..(Base - 1)

ASSUME PacketFormatAssumption ==
  /\ Base \in Nat \ {0, 1}
  /\ {XsensPreamble, UbloxPreamble} \subseteq Byte \X Byte
  /\ XsensPreamble[2] = Base - 1

SumOf(bytes) ==
  LET sum[i \in 0..Len(bytes)] ==
        IF i = 0 THEN 0 ELSE (sum[i - 1] + bytes[i]) % Base
  IN  sum[Len(bytes)]

XsensHead(mid) == Append(XsensPreamble, mid)

(* The checksum leaves the first byte out.                                    *)
XsensPacket(mid, payload) ==
  LET counted == <<XsensPreamble[2], mid, Len(payload)>> \o payload
  IN  <<XsensPreamble[1]>> \o counted \o <<(Base - SumOf(counted)) % Base>>

(* chk_a, and chk_b, the sum of what chk_a has been.                          *)
calc_checksum(data) ==
  <<SumOf(data), SumOf([i \in DOMAIN data |-> SumOf(SubSeq(data, 1, i))])>>

UbloxPacket(cls, id, payload) ==
  LET data == <<cls, id, Len(payload) % Base, Len(payload) \div Base>> \o payload
  IN  UbloxPreamble \o data \o calc_checksum(data)
=============================================================================
