----------------------------- MODULE Publishing -----------------------------
(***************************************************************************)
(* How what a u-blox receiver or an Xsens measures reaches the outside:    *)
(* the packets of a read become samples of the device (ublox.h, xsens.h,   *)
(* device.h), each sample goes to the SignalK processor, which sends       *)
(* deltas to its clients (signalk.h, signalk_server.cpp), and Modbus       *)
(* clients read the registers of the device (modbus.cpp).                  *)
(*                                                                         *)
(* A read is handled in one handler of the io_context, deltas included; a  *)
(* register request is answered in another one.  Clients are slow: what    *)
(* they have not read fills the buffer of their connection.                *)
(***************************************************************************)
EXTENDS UbloxValues, SignalKConverter, ModbusRegisters

CONSTANTS
  Clients,    (* SignalK clients                                             *)
  Packets,    (* of each driver: packets that the device sends               *)
  Together,   (* packets in one read, a bound                                *)
  Steps,      (* ticks between two reads                                     *)
  MaxReads,   (* bound on the reads                                          *)
  Room,       (* deltas that the buffer of a connection takes                *)
  HalfTurn    (* M_PI, for an Xsens                                          *)

Drivers == DOMAIN Packets

Xsens == INSTANCE XsensValues

ASSUME PublishingAssumption ==
  /\ Drivers \subseteq {"ublox", "xsens", "xsens flipped"}
  /\ \A d \in Drivers : \A p \in Packets[d] :
       IF d = "ublox"
       THEN /\ p.payload = "raw" => p.sensor_data \in Seq(Measurements)
            /\ p.payload = "pvt" => {p.time, p.la, p.lo} \subseteq Int
       ELSE /\ p \in Seq(Xsens!Items)
            /\ \A i \in DOMAIN p : p[i].did = "LatLon" => Len(p[i].data) = 2
  /\ {Together, MaxReads} \subseteq Nat /\ Steps \subseteq Nat
  /\ {Room, HalfTurn} \subseteq Nat \ {0}

VARIABLES
  driver,       (* of the device                                             *)
  reads,        (* number of reads                                           *)
  now,          (* get_time() of the last read                               *)
  packets,      (* number of packets read (history)                          *)
  samples,      (* Device::data_: the last sample of each quantity           *)
  cache_,       (* of the converter                                          *)
  connections_, (* of the SignalK server; their order does not matter        *)
  client,       (* what a client does                                        *)
  inbox,        (* what has been written to its connection                   *)
  unread,       (* how much of it is in the buffer                           *)
  pending,      (* writes that wait for room in the buffer                   *)
  sent,         (* all deltas, in order (history)                            *)
  since,        (* how many were sent when the client was accepted (history) *)
  slow,         (* clients that ever had a full buffer (history)             *)
  shared        (* stamps of more than one packet (history)                  *)

device == <<driver, reads, now, packets, samples, cache_, shared>>
connection == <<inbox, unread, pending, slow>>
vars == <<device, connections_, client, connection, sent, since>>

(* What is left of a delta that was freed before it was written. *)
Garbage == [path |-> "garbage"]

Quantities == {Quantity[i] : i \in DOMAIN Quantity}
NoSample(q) == [quantity |-> q, value |-> 0, stamp |-> 0, of |-> 0]
Sent == {sent[i] : i \in DOMAIN sent}

TypeOK ==
  /\ driver \in Drivers
  /\ reads \in 0..MaxReads /\ now \in Nat /\ packets \in Nat
  /\ DOMAIN samples \subseteq Quantities
  /\ DOMAIN cache_ = Position \cup Attitude
  /\ \A q \in DOMAIN samples : samples[q].quantity = q /\ samples[q].of \in 1..packets
  /\ connections_ \subseteq Clients
  /\ client \in [Clients -> {"away", "there", "gone"}]
  /\ \A c \in Clients : /\ inbox[c] \in Seq(Sent \cup {Garbage})
                        /\ unread[c] \in 0..Room
                        /\ pending[c] \in 0..Len(sent)
                        /\ since[c] \in 0..Len(sent)
  /\ slow \subseteq Clients

Init ==
  /\ driver \in Drivers
  /\ reads = 0 /\ now = 1 /\ packets = 0
  /\ samples = <<>>
  /\ cache_ = [q \in Position \cup Attitude |-> NoSample(q)]
  /\ connections_ = {}
  /\ client = [c \in Clients |-> "away"]
  /\ inbox = [c \in Clients |-> <<>>]
  /\ unread = [c \in Clients |-> 0]
  /\ pending = [c \in Clients |-> 0]
  /\ sent = <<>>
  /\ since = [c \in Clients |-> 0]
  /\ slow = {}
  /\ shared = {}

-----------------------------------------------------------------------------
(* The read                                                                *)

(* Mutant: the sample goes to the queue of every quantity. *)
WithValueEverywhere(data, s) == [q \in DOMAIN data \cup {s.quantity} |-> s]

(* The queues of the device, of which here only the last sample counts. *)
WithValue(data, s) ==
  [q \in DOMAIN data \cup {s.quantity} |-> IF q = s.quantity THEN s ELSE data[q]]

(* SignalK_pusher::insert_value: the cache, and the deltas so far. *)
Pushed(pusher, s) ==
  LET cache == WithSample(pusher.cache, s)
  IN  [cache |-> cache,
       deltas |-> IF produces_delta(cache, s)
                  THEN Append(pusher.deltas, get_delta(cache, s)) ELSE pusher.deltas]

(* Device::insert_value with each of the values of a read: in the device,  *)
(* and in its processor.                                                   *)
WithValues(values) ==
  LET data[i \in 0..Len(values)] ==
        IF i = 0 THEN samples ELSE WithValue(data[i - 1], values[i])
  IN  data[Len(values)]

AllPushed(values) ==
  LET pusher[i \in 0..Len(values)] ==
        IF i = 0 THEN [cache |-> cache_, deltas |-> <<>>]
        ELSE Pushed(pusher[i - 1], values[i])
  IN  pusher[Len(values)]

(* Mutant: a delta is written when the next one comes. *)
SendLater(c, deltas) ==
  LET n == IF deltas = <<>> THEN 0 ELSE Len(deltas) - 1
      room == IF pending[c] > 0 THEN 0 ELSE Room - unread[c]
      fit == IF n < room THEN n ELSE room
  IN  [inbox |-> inbox[c] \o SubSeq(deltas, 1, fit), unread |-> unread[c] + fit,
       pending |-> pending[c] + n - fit]

(* tcp_connection::send of each delta: what fits is written at once, and   *)
(* the rest waits for room, though its string is gone by then.             *)
Send(c, deltas) ==
  LET n == Len(deltas)
      room == IF pending[c] > 0 THEN 0 ELSE Room - unread[c]
      fit == IF n < room THEN n ELSE room
  IN  [inbox |-> inbox[c] \o SubSeq(deltas, 1, fit), unread |-> unread[c] + fit,
       pending |-> pending[c] + n - fit]

(* To all connections, whether their clients are there or not. *)
SendAll(deltas) ==
  LET to == {c \in connections_ : client[c] = "there"}
  IN  \E after \in {[c \in to |-> Send(c, deltas)]} :
        /\ inbox' = [c \in Clients |-> IF c \in to THEN after[c].inbox ELSE inbox[c]]
        /\ unread' = [c \in Clients |-> IF c \in to THEN after[c].unread ELSE unread[c]]
        /\ pending' = [c \in Clients |-> IF c \in to THEN after[c].pending ELSE pending[c]]
        /\ slow' = slow \cup {c \in to : after[c].pending > 0}

(* The driver's parse. *)
ValuesOf(ps, stamp) ==
  IF driver = "ublox" THEN Parsed(ps, stamp, packets)
  ELSE Xsens!Parsed(ps, driver = "xsens flipped", stamp, packets)

(* handle_data: the packets of a read are parsed, and their values are     *)
(* inserted in the device and its processor.                               *)
Read(ps) ==
  /\ reads < MaxReads
  /\ reads' = reads + 1
  /\ \E t \in Steps : now' = now + t
  /\ packets' = packets + Len(ps)
  /\ shared' = IF Len(ps) > 1 \/ (now' = now /\ reads > 0) THEN shared \cup {now'} ELSE shared
  /\ \E values \in {ValuesOf(ps, now')} :
       /\ samples' = WithValues(values)
       /\ \E pusher \in {AllPushed(values)} :
            /\ cache_' = pusher.cache
            /\ sent' = sent \o pusher.deltas
            /\ SendAll(pusher.deltas)
  /\ UNCHANGED <<driver, connections_, client, since>>

-----------------------------------------------------------------------------
(* The SignalK server                                                      *)

(* A client has connected: handle_accept without an error, and             *)
(* start_accept for the next one.                                          *)
HandleAccept(c) ==
  /\ client[c] = "away"
  /\ client' = [client EXCEPT ![c] = "there"]
  /\ connections_' = connections_ \cup {c}
  /\ since' = [since EXCEPT ![c] = Len(sent)]
  /\ UNCHANGED <<device, connection, sent>>

(* A client takes what there is, and writes that waited go on: from        *)
(* strings that no longer exist.                                           *)
ClientReads(c) ==
  /\ client[c] = "there" /\ unread[c] > 0
  /\ LET late == IF pending[c] < Room THEN pending[c] ELSE Room
     IN  /\ inbox' = [inbox EXCEPT ![c] = @ \o [i \in 1..late |-> Garbage]]
         /\ pending' = [pending EXCEPT ![c] = @ - late]
         /\ unread' = [unread EXCEPT ![c] = late]
  /\ UNCHANGED <<device, connections_, client, sent, since, slow>>

(* A client goes, and what it has not read with it.  Its connection stays  *)
(* in the list, and the errors of its writes are ignored.                  *)
ClientGoes(c) ==
  /\ client[c] = "there"
  /\ client' = [client EXCEPT ![c] = "gone"]
  /\ inbox' = [inbox EXCEPT ![c] = <<>>]
  /\ unread' = [unread EXCEPT ![c] = 0]
  /\ pending' = [pending EXCEPT ![c] = 0]
  /\ UNCHANGED <<device, connections_, sent, since, slow>>

ReadOf(n) == [1..n -> Packets[driver]]

Next ==
  \/ \E n \in 1..Together : \E ps \in ReadOf(n) : Read(ps)
  \/ \E c \in Clients : HandleAccept(c) \/ ClientReads(c) \/ ClientGoes(c)

Spec == Init /\ [][Next]_vars

-----------------------------------------------------------------------------
(* Properties                                                              *)

(* A delta is put together from one packet, unless packets had to share a  *)
(* stamp (signalk_converter.cpp:8-28), and the last position sent is that  *)
(* of the device, whose latitude and longitude are of one packet as well.  *)
MeasurementsNotMixed ==
  /\ \A d \in Sent : d.timestamp \notin shared =>
       \A q, r \in DOMAIN d.value : d.value[q].of = d.value[r].of
  /\ ("la" \in DOMAIN samples) = ("lo" \in DOMAIN samples)
  /\ "la" \in DOMAIN samples =>
       LET last == SelectLastInSeq(sent, LAMBDA d : d.path = "position")
       IN  /\ samples["la"].of = samples["lo"].of
           /\ last # 0
           /\ \A q \in Position : sent[last].value[q] = samples[q]

(* A client that keeps up gets exactly the deltas sent since it was        *)
(* accepted, whole and in order, whatever others do                        *)
(* (signalk_server.cpp:5-9, 41-46).                                        *)
DeltasDelivered ==
  \A c \in Clients \ slow :
    client[c] = "there" => inbox[c] = SubSeq(sent, since[c] + 1, Len(sent))

(* The number that two or four registers spell, the less significant words *)
(* first (little) or last.  The manual has the words of a double as "LE",  *)
(* the code begins with the most significant one: nothing is said of the   *)
(* order here but that it is one order, and no word is lost or repeated.   *)
Pair(r, i, little) ==
  IF little THEN r[i + 1] * Word + r[i] ELSE r[i] * Word + r[i + 1]

Whole(r, i, little) ==
  IF little THEN Pair(r, i + 2, TRUE) * Word * Word + Pair(r, i, TRUE)
  ELSE Pair(r, i, FALSE) * Word * Word + Pair(r, i + 2, FALSE)

(* What a number x of so many values stands for (modbus.texi): a value     *)
(* between two bounds or around an offset, with the top bit inverted if it *)
(* is signed.                                                              *)
Encodes(q, range, x, value) ==
  LET s == Scale(q)
      half == range \div 2
      width == s.max - s.min
      exact == s.multiplier * (value - s.offset)
      plain == IF s.signed THEN (x + half) % range ELSE x
      number == plain - half
  IN  IF s.multiplier # 0
      THEN CASE exact < -half    -> number = -half
             [] exact > half - 1 -> number = half - 1
             [] OTHER            -> number = exact
      ELSE CASE value < s.min  -> plain = 0
             [] value >= s.max -> plain = range - 1
             [] OTHER          -> LET above == (value - s.min) * range - plain * width
                                  IN  0 <= above /\ above < width

Answer(unit, address, count) ==
  read_input_registers(<<samples>>, <<[r \in 0..99 |-> 0]>>, unit, address, count)

PositionRead(little) ==
  "la" \in DOMAIN samples =>
    \A unit \in {0, 255} :
      LET r == Answer(unit, 3, 4)
      IN  /\ Encodes("la", Word * Word, Pair(r, 1, little), samples["la"].value)
          /\ Encodes("lo", Word * Word, Pair(r, 3, little), samples["lo"].value)

SampleRead(q, address, little) ==
  q \in DOMAIN samples =>
    LET r == Answer(0, address, 8)
        double == Word * Word * Word * Word
    IN  /\ Whole(r, 1, little) = samples[q].value % double
        /\ Whole(r, 5, little) = samples[q].stamp % double

(* One request returns the position of one packet, scaled as the manual    *)
(* says to the accuracy of two registers, and the time and position whole  *)
(* with their stamps, all with their words in the same order               *)
(* (modbus.cpp:38-127).                                                    *)
RegistersTell ==
  /\ \E little \in BOOLEAN : PositionRead(little)
  /\ \E little \in BOOLEAN :
       \A i \in {1, 2, 3} :
         SampleRead(Quantity[i], plain_base_address + 8 * (i - 1), little)

(* An orientation as a quaternion of any length: a turn around an axis by  *)
(* so many quarters, and one turn after another.                           *)
Turn(axis, angle) ==
  LET quarters == ((2 * angle) \div HalfTurn) % 4
      size == IF quarters = 2 THEN 0 ELSE IF quarters = 3 THEN -1 ELSE 1
  IN  [i \in 0..3 |-> CASE i = 0 -> size
                        [] i = axis -> IF quarters = 0 THEN 0 ELSE 1
                        [] OTHER -> 0]

After(p, q) ==
  (0 :> p[0] * q[0] - p[1] * q[1] - p[2] * q[2] - p[3] * q[3]) @@
  (1 :> p[0] * q[1] + p[1] * q[0] + p[2] * q[3] - p[3] * q[2]) @@
  (2 :> p[0] * q[2] - p[1] * q[3] + p[2] * q[0] + p[3] * q[1]) @@
  (3 :> p[0] * q[3] + p[1] * q[2] - p[2] * q[1] + p[3] * q[0])

Back(p) == [i \in 0..3 |-> IF i = 0 THEN p[0] ELSE -p[i]]
Square(p) == p[0] * p[0] + p[1] * p[1] + p[2] * p[2] + p[3] * p[3]

(* An Xsens, which tells its orientation twice, is known by one only:      *)
(* quaternion and Euler angles agree after their different conversions,    *)
(* flipped or not, and the acceleration of a device at rest points away    *)
(* from the third axis of the hub, down (xsens_impl.h:108-175, 250-308).   *)
OrientationTells ==
  LET Now(q) == samples[q].value
      orientation == (0 :> Now("q1")) @@ (1 :> Now("q2")) @@ (2 :> Now("q3"))
                       @@ (3 :> Now("q4"))
      angles == After(Turn(3, Now("ya")), After(Turn(2, Now("pi")), Turn(1, Now("ro"))))
      up == (0 :> 0) @@ (1 :> 0) @@ (2 :> 0) @@ (3 :> -1)
      seen == After(Back(orientation), After(up, orientation))
  IN  "q1" \in DOMAIN samples =>
        /\ \A i, j \in 0..3 : orientation[i] * angles[j] = orientation[j] * angles[i]
        /\ \A i \in 1..3 :
             seen[i] = Square(orientation) * Now(<<"ax", "ay", "az">>[i])

=============================================================================
