---------------------------- MODULE MCPublishing ----------------------------
(* Latitudes are scaled between two bounds, longitudes with a factor; of   *)
(* each there is one that does not fit.  Angles of an Xsens are in         *)
(* quarters of a turn.                                                     *)
EXTENDS Publishing

Symmetry == Permutations(Clients)

PvtPacket(full, fixtype, veh, la, lo) ==
  [payload |-> "pvt", valid_full |-> full, fixtype |-> fixtype, headveh_valid |-> veh,
   time |-> 100, la |-> la, lo |-> lo, figure |-> 1]

AttPacket(roll, pitch, heading) ==
  [payload |-> "att", accroll |-> roll, accpitch |-> pitch, accheading |-> heading,
   figure |-> 2]

Measured(type, stag) == [type |-> type, stag |-> stag]

MCUbloxPackets ==
  { PvtPacket(TRUE, 3, TRUE, 3, -5),
    PvtPacket(FALSE, 2, FALSE, -6, 9),
    AttPacket(2, 3, 7),
    [payload |-> "ins", valid |-> {"yr", "fax"}, figure |-> 3],
    [payload |-> "raw", figure |-> 4, sensor_data |->
       << Measured("rax", 8), Measured("raz", 2), Measured("sync", 4), Measured("ray", 5) >>] }

Item(did, data) == [did |-> did, data |-> data]
UtcTime(valid) == [did |-> "UtcTime", valid_utc |-> valid, time |-> 100]

(* Messages of a device at rest, its second or first axis up. *)
MCXsensPackets ==
  { << UtcTime(TRUE), Item("Acceleration", <<0, 1, 0>>), Item("LatLon", <<3, -5>>),
       Item("EulerAngles", <<1, 0, 1>>), Item("Quaternion", <<1, 1, 1, 1>>) >>,
    << UtcTime(FALSE), Item("Acceleration", <<1, 0, 0>>), Item("PacketCounter", <<>>),
       Item("RateOfTurn", <<0, 0, 1>>), Item("AltitudeMsl", <<4>>),
       Item("Quaternion", <<1, 0, -1, 0>>), Item("EulerAngles", <<0, -1, 0>>) >> }

MCPackets ==
  [d \in {"ublox", "xsens", "xsens flipped"} |->
     IF d = "ublox" THEN MCUbloxPackets ELSE MCXsensPackets]

MCDefaults == [la |-> [min |-> -4, max |-> 4]]
MCConfig == [lo |-> [scale |-> 1]]

=============================================================================
