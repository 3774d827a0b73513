----------------------------- MODULE MCPackets -----------------------------
(* Bytes of three bits.  A Ublox packet may claim to be longer than the      *)
(* buffer, an Xsens packet not, as in the code.  The good packets end in the *)
(* first byte of a preamble.                                                 *)
EXTENDS Packets

MCXsensPreamble == <<6, 7>>
MCUbloxPreamble == <<6, 2>>
MCXsensItems == {<<1, 1>>}
MCUbloxMessages == {<<1, 3, 1>>, <<1, 4, 7>>}
MCFilters == <<{<<1, 0>>, <<1, 3, 0>>}, {<<2, 0>>}>>
MCUnconvertible == {<<1, 3, 0>>}

XsensGood == <<XsensPacket(1, <<1, 1, 5>>), <<<<1, 1, 5>>>>>>
UbloxGood == <<UbloxPacket(1, 3, <<2>>), <<<<1, 3, 1, 0, 2>>>>>>
RegexGood == <<<<1, 0, 2, 0>>, NoPacket>>

MCGoodPackets ==
  [xsens |-> {XsensGood}, ublox |-> {UbloxGood}, regex |-> {RegexGood}]

Noise(set) == {<<bytes, NoPacket>> : bytes \in set}

MCFragments ==
  [xsens |->
     {XsensGood,
      <<XsensPacket(1, <<3, 2, 6, 7, 1, 1, 4>>), <<<<1, 1, 4>>>>>>,
      <<XsensPacket(1, <<1, 1, 2, 1, 4>>), <<<<1, 1, 2>>>>>>,
      <<XsensPacket(4, <<>>), <<>>>>}
     \cup Noise({<<6>>, <<0>>, <<6, 7, 1, 7>>, <<6, 7, 1, 3, 1, 1, 5, 5>>}),
   ublox |->
     {UbloxGood,
      <<UbloxPacket(1, 4, <<6, 2, 0, 0, 0, 0, 1>>),
        <<<<1, 4, 7, 0, 6, 2, 0, 0, 0, 0, 1>>>>>>,
      <<UbloxPacket(1, 3, <<>>), <<>>>>}
     \cup Noise({<<6>>, <<0>>, <<6, 2, 1, 3, 7, 7>>,
                 <<6, 2, 1, 3, 1, 0, 2, 7, 5>>}),
   regex |-> Noise({<<1>>, <<3>>, <<1, 0>>, <<2, 0>>, <<1, 3, 0>>})]

MCRecoveryPackets == [xsens |-> 4, ublox |-> 4, regex |-> 16]
=============================================================================
