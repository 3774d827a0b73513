---------------------------- MODULE UbloxValues ----------------------------
(***************************************************************************)
(* The quantities that the packets of a u-blox receiver stand for          *)
(* (ublox_impl.h).  A packet that passed the parser is a record with the   *)
(* fields that decide which quantities it gives; the figures themselves    *)
(* are the fields "time", "la" and "lo", and elsewhere the packet's        *)
(* "figure".  Accuracies are in hundredths of a radian.                    *)
(***************************************************************************)
EXTENDS Integers, Sequences, SequencesExt

(* A value of quantity q, at so many ticks from the stamp of the read. *)
Value(q, v) == [quantity |-> q, value |-> v, offset |-> 0]
Values(qs, v) == [i \in DOMAIN qs |-> Value(qs[i], v)]

When(condition, values) == IF condition THEN values ELSE <<>>

-----------------------------------------------------------------------------
(* Payload_pvt: position, velocity and time                                *)

fixtype_2d == 2
fixtype_3d == 3
fixtype_3d_deadreck == 4

PositionHorizontal(p) ==
  <<Value("la", p.la), Value("lo", p.lo), Value("hacc", p.figure)>>

PositionVertical(p) == Values(<<"hg84", "hmsl", "vacc">>, p.figure)

Velocity(p) == Values(<<"vog", "crs", "sacc", "cacc", "hdg", "hdac">>, p.figure)

Pvt(p) ==
  LET fix == p.fixtype \in {fixtype_2d, fixtype_3d, fixtype_3d_deadreck}
  IN  When(p.valid_full, <<Value("ut", p.time)>>)
        \o When(fix, PositionHorizontal(p))
        \o When(fix /\ p.fixtype # fixtype_2d, PositionVertical(p))
        \o When(p.headveh_valid, Velocity(p))

-----------------------------------------------------------------------------
(* Payload_att: attitude.  An angle counts if its accuracy is known and    *)
(* good enough.                                                            *)

Angle(q, acc, figure, accuracy, limit) ==
  When(accuracy # 0 /\ accuracy < limit, <<Value(q, figure), Value(acc, accuracy)>>)

Att(p) ==
  Angle("ro", "racc", p.figure, p.accroll, 5)
    \o Angle("pi", "pacc", p.figure, p.accpitch, 5)
    \o Angle("ya", "yacc", p.figure, p.accheading, 10)

-----------------------------------------------------------------------------
(* Payload_ins: each axis has its own valid bit.                           *)

Axes == <<"rr", "pr", "yr", "fax", "fay", "faz">>

Ins(p) ==
  FlattenSeq([i \in DOMAIN Axes |->
                When(Axes[i] \in p.valid, <<Value(Axes[i], p.figure)>>)])

-----------------------------------------------------------------------------
(* Payload_raw: measurements with a time tag of their own, of which the    *)
(* last one has the stamp of the read.                                     *)

DataTypes == {"ryr", "gtmp", "rpr", "rrr", "rax", "ray", "raz"}
Measurements == [type : STRING, stag : Nat]

(* A measurement of another type, or tagged after the last one (the tag    *)
(* has wrapped), gives nothing.                                            *)
SensorData(d, reftag, figure) ==
  When(d.type \in DataTypes /\ reftag >= d.stag,
       <<[Value(d.type, figure) EXCEPT !.offset = d.stag - reftag]>>)

Raw(p) ==
  LET reftag == Last(p.sensor_data).stag
  IN  IF p.sensor_data = <<>> THEN <<>>
      ELSE FlattenSeq([i \in DOMAIN p.sensor_data |->
                         SensorData(p.sensor_data[i], reftag, p.figure)])

-----------------------------------------------------------------------------
get_values(p) ==
  CASE p.payload = "pvt" -> Pvt(p)
    [] p.payload = "att" -> Att(p)
    [] p.payload = "ins" -> Ins(p)
    [] p.payload = "raw" -> Raw(p)
    [] OTHER -> <<>>    (* not one of the rules: unsolicited                 *)

(* Payload_visitor: the values of one packet, stamped.  "of" is the number *)
(* of the packet (history).                                                *)
Visited(p, stamp, number) ==
  LET values == get_values(p)
  IN  [i \in DOMAIN values |->
         [quantity |-> values[i].quantity, value |-> values[i].value,
          stamp |-> stamp + values[i].offset, of |-> number]]

(* parse: the queue of a read, its packets in order. *)
Parsed(packets, stamp, number) ==
  FlattenSeq([i \in DOMAIN packets |-> Visited(packets[i], stamp, number + i)])

=============================================================================
