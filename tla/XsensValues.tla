---------------------------- MODULE XsensValues ----------------------------
(***************************************************************************)
(* The quantities that the messages of an Xsens stand for (xsens_impl.h).  *)
(* A message that passed the parser is a sequence of items: a date and     *)
(* time with its flag, or data with an identifier and numbers.             *)
(*                                                                         *)
(* Angles are integers, with HalfTurn for M_PI.  The units of the other    *)
(* quantities do not change.  The device tells its orientation to axes     *)
(* that point east, north and up; those of the hub point down.  A flipped  *)
(* device is mounted upside down besides: then its own axes turn as well.  *)
(***************************************************************************)
EXTENDS Quantities, SequencesExt, Functions

CONSTANT HalfTurn

(* What is known of each kind of data: its first quantity, of so many that *)
(* follow each other, its converter, and whether there is one for flipped  *)
(* axes.                                                                   *)
Kind(quantity, dim, converter, flips) ==
  [quantity |-> quantity, dim |-> dim, converter |-> converter, flips |-> flips]

Data_value ==
  [ Acceleration      |-> Kind("ax", 3, "Identity", TRUE),
    FreeAcceleration  |-> Kind("fax", 3, "Identity", TRUE),
    RateOfTurn        |-> Kind("rr", 3, "Identity", TRUE),
    LatLon            |-> Kind("la", 2, "Rad", FALSE),
    MagneticField     |-> Kind("mx", 3, "Tesla", TRUE),
    VelocityXYZ       |-> Kind("vx", 3, "Identity", TRUE),
    AltitudeEllipsoid |-> Kind("hg84", 1, "Identity", FALSE),
    AltitudeMsl       |-> Kind("hmsl", 1, "Identity", FALSE),
    EulerAngles       |-> Kind("ro", 3, "Rad", TRUE),
    Quaternion        |-> Kind("q1", 4, "Identity", TRUE) ]

-----------------------------------------------------------------------------
(* The converters, by the number of dimensions.  A quaternion that is not  *)
(* flipped is turned by half a turn around the first axis: its numbers     *)
(* change places in pairs.                                                 *)

Sign(negative, value) == IF negative THEN -value ELSE value

IdentityConverter(dims, flip, dim, value) ==
  CASE dims = 3 /\ flip  -> Sign(dim > 0, value)
    [] dims = 4 /\ flip  -> Sign(dim > 1, value)
    [] dims = 4 /\ ~flip -> Sign(dim % 2 = 0, value)
    [] OTHER             -> value

(* Euler angles turn whether flipped or not; the roll of a device that is  *)
(* not flipped is half a turn more.                                        *)
RadConverter(dims, flip, dim, value) ==
  LET result == IdentityConverter(dims, flip \/ dims = 3, dim, value)
  IN  IF dims = 3 /\ ~flip /\ dim = 0 THEN HalfTurn + result ELSE result

TeslaConverter(dims, flip, dim, value) == IdentityConverter(dims, flip, dim, value)

convert(converter, dims, flip, dim, value) ==
  CASE converter = "Identity" -> IdentityConverter(dims, flip, dim, value)
    [] converter = "Rad"      -> RadConverter(dims, flip, dim, value)
    [] converter = "Tesla"    -> TeslaConverter(dims, flip, dim, value)

(* Mutant: the numbers of a quaternion stay in place. *)
index_permuteNot(dims, flip, i) == i

index_permute(dims, flip, i) ==
  IF dims = 4 /\ ~flip THEN 2 * (i \div 2) + ((i + 1) % 2) ELSE i

value_norm(q, value) ==
  IF q \in {"lo", "ro", "pi", "ya"}
  THEN ((value + HalfTurn) % (2 * HalfTurn)) - HalfTurn
  ELSE value

-----------------------------------------------------------------------------
DataValues(kind, flip, data) ==
  LET first == AntiFunction(Quantity)[kind.quantity]
  IN  [i \in 1..kind.dim |->
         LET q == Quantity[first + i - 1]
             x == data[index_permute(kind.dim, flip, i - 1) + 1]
         IN  [quantity |-> q,
              value |-> value_norm(q, convert(kind.converter, kind.dim, flip, i - 1, x))]]

(* Date_time, data, and unknown_data, which has no values. *)
Items ==
  [did : {"UtcTime"}, valid_utc : BOOLEAN, time : Int]
    \cup [did : STRING \ {"UtcTime"}, data : Seq(Int)]

get_values(item, flip_axes) ==
  CASE item.did = "UtcTime" ->
         IF item.valid_utc THEN <<[quantity |-> "ut", value |-> item.time]>> ELSE <<>>
    [] item.did \in DOMAIN Data_value ->
         LET kind == Data_value[item.did]
         IN  DataValues(kind, flip_axes /\ kind.flips, item.data)
    [] OTHER -> <<>>

(* Data_visitor: the values of one message, stamped.  "of" is the number   *)
(* of the message (history).                                               *)
Visited(message, flip_axes, stamp, number) ==
  LET values == FlattenSeq([i \in DOMAIN message |-> get_values(message[i], flip_axes)])
  IN  [i \in DOMAIN values |->
         [quantity |-> values[i].quantity, value |-> values[i].value,
          stamp |-> stamp, of |-> number]]

(* parse: the queue of a read, its messages in order. *)
Parsed(messages, flip_axes, stamp, number) ==
  FlattenSeq([i \in DOMAIN messages |->
                Visited(messages[i], flip_axes, stamp, number + i)])

=============================================================================
