--------------------------- MODULE Initialisation ---------------------------
(***************************************************************************)
(* The initialisation of an Xsens, a Ublox and a Runwell device: the       *)
(* commands of initialize() one after the other, each an exec_command that *)
(* reads whatever has come in, however it is cut.  (ExecCommand has the    *)
(* handlers and timers behind one command.)  An MTi-G-710 that has just    *)
(* got its power wakes up before that, and a Runwell is asked for data by  *)
(* a timer of its own from then on.                                        *)
(*                                                                         *)
(* The bytes are those of the code, with shorter settings and texts.  The  *)
(* device, which is external, takes the commands in their order.  It       *)
(* accepts, refuses or ignores each; a device that is not Slow does so     *)
(* before the timeout.                                                     *)
(***************************************************************************)
EXTENDS Responses, FiniteSets

CONSTANTS
  Drivers,        (* subset of AllDrivers                                    *)
  FilterProfile,  (* filter_profile_ of an Xsens                             *)
  Measurements,   (* payloads of the packets that a device sends by itself   *)
  Slow,           (* BOOLEAN: a timeout may come before the answer           *)
  MaxAttempts,    (* bound on the connections                                *)
  MaxUnsolicited, (* bound on the packets nobody asked for                   *)
  MaxRequests     (* bound on the requests for data                          *)

UbloxDrivers == {"glonass", "galileo", "beidou"}  (* by gnss_type_            *)
XsensDrivers == {"mti_g_710", "mti_670", "mti_630"}
AllDrivers == UbloxDrivers \cup XsensDrivers \cup {"runwell"}

ASSUME InitialisationAssumption ==
  /\ Base = 256 /\ XsensPreamble[1] = 250
  /\ UbloxPreamble[1] = 181 /\ UbloxPreamble[2] = 98
  /\ Drivers \subseteq AllDrivers
  /\ FilterProfile \in Byte /\ Slow \in BOOLEAN
  /\ \A payload \in Measurements :
       /\ payload \in Seq(Byte) /\ Len(payload) <= 180
       /\ \A i \in DOMAIN payload : payload[i] \notin {XsensPreamble[1], UbloxPreamble[1]}
  /\ {MaxAttempts, MaxUnsolicited, MaxRequests} \subseteq Nat

-----------------------------------------------------------------------------
(* Commands: what exec_command is given (expected, error, ask), and how the  *)
(* device answers when it accepts and when it refuses.                        *)

Command(name, expected, error, ask, accept, refuse) ==
  [name |-> name, expected |-> expected, error |-> error, ask |-> ask,
   accept |-> accept, refuse |-> refuse]

UbloxAck == UbloxPreamble \o <<5, 1, 2, 0, 6>>
UbloxNak == UbloxPreamble \o <<5, 0, 2, 0, 6>>

UbloxSet(name, id) ==
  Command(name, UbloxAck, UbloxNak, <<>>,
          UbloxPacket(5, 1, <<6, id>>), {UbloxPacket(5, 0, <<6, id>>)})

UbloxRequest(name, cls, id, payload) ==
  Command(name, UbloxPreamble \o <<cls, id>>, UbloxNak, <<4, 5>>,
          UbloxPacket(cls, id, payload), {})

UbloxSerial == <<17, 18, 19, 20, 21>>

UbloxProgram ==
  <<UbloxSet("prt_usb", 0), UbloxSet("prt_uart", 0),
    UbloxRequest("mon_ver", 10, 4, <<0>>),
    UbloxRequest("sec_uniqid", 39, 3, <<1, 0, 0, 0>> \o UbloxSerial),
    UbloxSet("pms", 134),
    UbloxSet("nav5", 36), UbloxSet("gnss", 62),
    UbloxSet("rate", 8), UbloxSet("hnr", 92),
    UbloxSet("nav_pvt", 1), UbloxSet("nav_att", 1),
    UbloxSet("esf_ins", 1), UbloxSet("esf_raw", 1)>>

XsensError == XsensPreamble \o <<66, 1>>
XsensRefusal == XsensPacket(66, <<4>>)

(* An answer has the identifier of its command plus one.                      *)
do_command(name, mid) ==
  Command(name, XsensPacket(mid + 1, <<>>), XsensError, <<>>,
          XsensPacket(mid + 1, <<>>), {XsensRefusal})

do_set(name, mid) ==
  Command(name, XsensHead(mid + 1), XsensError, <<>>,
          XsensPacket(mid + 1, <<>>), {XsensRefusal})

do_check(name, mid, setting, other) ==
  Command(name, XsensPacket(mid + 1, setting), XsensError, <<>>,
          XsensPacket(mid + 1, setting), {XsensPacket(mid + 1, other)})

do_request(name, mid, ask, payload) ==
  Command(name, XsensHead(mid + 1), XsensError, ask,
          XsensPacket(mid + 1, payload), {XsensRefusal})

XsensSerial == <<7, 8, 9, 10>>

(* The settings of the output begin with the time, but for an MTi-630, which  *)
(* has no satellite receiver.                                                 *)
output_configuration(type) == IF type = "mti_630" THEN <<64, 32>> ELSE <<16, 16>>
OtherOutput == <<64, 48>>

(* The commands that each class of devices has its own settings for.          *)
OutputProgram(type) ==
  <<do_check("check_output", 192, output_configuration(type), OtherOutput),
    do_set("set_output", 192)>>

(* Without a filter profile in the options the device keeps its own.          *)
set_filter_profile ==
  IF FilterProfile = 0 THEN <<>> ELSE <<do_set("filter_profile", 100)>>

XsensProgram(type) ==
  <<do_command("goto_config", 48),
    do_request("identifier", 0, <<3>>, XsensSerial),
    do_request("product_code", 28, <<3>>, <<77>>),
    do_request("firmware", 18, <<3>>, <<1>>),
    do_set("option_flags", 72), do_set("string_output_type", 142)>>
    \o set_filter_profile \o OutputProgram(type) \o
  <<do_request("init_mt", 2, <<>>, <<>>),
    do_command("goto_measurement", 16),
    do_command("reset", 64)>>

(* Any bytes will do for an answer, as long as they are enough.               *)
RunwellRequest(name, length) ==
  Command(name, <<>>, <<88, 88, 88>>, <<Base - 1, length>>,
          [i \in 1..length |-> 48], {})

RunwellProgram ==
  <<RunwellRequest("request_id", 17), RunwellRequest("request_version", 48)>>

Program ==
  [type \in AllDrivers |->
     CASE type \in UbloxDrivers -> UbloxProgram
       [] type \in XsensDrivers -> XsensProgram(type)
       [] type = "runwell"      -> RunwellProgram]

(* What is sent that no command waits for, and what comes back: an MTi-G-710   *)
(* is told that its wakeup was seen, and tells its configuration; a Runwell   *)
(* is asked for a line of data.                                               *)
Wakeup == XsensPacket(62, <<>>)
Aside == 0
AsideReply(type) ==
  IF type = "runwell" THEN [i \in 1..18 |-> 49] ELSE XsensPacket(13, <<0>>)

(* The commands whose success initialize() takes for success.  Xsens need not *)
(* set the output if it is right, and nav5 of Ublox only counts for GLONASS   *)
(* (see UbloxGoesOn).                                                         *)
Needed(type) ==
  IF type \in XsensDrivers
  THEN {"goto_config", "identifier", "product_code", "firmware",
        "option_flags", "string_output_type", "goto_measurement"}
         \cup {set_filter_profile[i].name : i \in DOMAIN set_filter_profile}
  ELSE {Program[type][i].name : i \in DOMAIN Program[type]}
         \ (IF type \in {"galileo", "beidou"} THEN {"nav5"} ELSE {})

IndexOf(type, name) ==
  CHOOSE i \in DOMAIN Program[type] : Program[type][i].name = name

-----------------------------------------------------------------------------
VARIABLES
  driver,
  phase,         (* the port is "closed", look_for_wakeup waits for a         *)
                 (* "wakeup" or the "configuration" after it, a "command" is  *)
                 (* under way, or the device is "initialised"                 *)
  timed,         (* the timeout of look_for_wakeup is to come                 *)
  at,            (* the command's index                                       *)
  response,      (* of exec_command: what has been read,                      *)
  response_found,
  expected_len,
  asked,         (* what the caller asks for: *data until that is cleared     *)
  id_,           (* of the device: what it is made from                       *)
  wire,          (* bytes the device has sent and nobody has read             *)
  pending,       (* commands the device has still to deal with                *)
  accepted,      (* names of the commands it has accepted since the port is   *)
                 (* open                                                      *)
  attempts, unsolicited,
  waits,         (* Runwell: waits for the timer of the requests              *)
  due,           (* and those that have ended, their handlers to run          *)
  requests,      (* number of requests for data                               *)
  strayed        (* history: one was written, or is to be answered, during    *)
                 (* an initialisation                                         *)

request_vars == <<waits, due, requests, strayed>>
command_vars == <<at, response, response_found, expected_len, asked>>
vars == <<driver, phase, timed, at, response, response_found, expected_len, asked,
          id_, wire, pending, accepted, attempts, unsolicited, request_vars>>

Current == Program[driver][at]
NoId == <<>>
UnknownId == <<0>>

TypeOK ==
  /\ driver \in Drivers
  /\ phase \in {"closed", "wakeup", "configuration", "command", "initialised"}
  /\ timed => phase \in {"wakeup", "configuration"}
  /\ at \in DOMAIN Program[driver]
  /\ {response, asked, id_, wire} \subseteq Seq(Byte)
  /\ response_found \in -1..Len(response)
  /\ expected_len \in 0..(Base * Base - 1)
  /\ pending \in Seq(DOMAIN Program[driver] \cup {Aside})
  /\ phase = "command" /\ response_found >= 0 => Len(response) < expected_len
  /\ attempts \in 0..MaxAttempts
  /\ unsolicited \in 0..MaxUnsolicited
  /\ waits \in 0..1 /\ due \in Nat /\ strayed \in BOOLEAN
  /\ requests \in 0..MaxRequests

Init ==
  /\ driver \in Drivers
  /\ phase = "closed" /\ timed = FALSE
  /\ at = 1 /\ response = <<>> /\ response_found = -1
  /\ expected_len = 0 /\ asked = <<>>
  /\ id_ = NoId
  /\ wire = <<>> /\ pending = <<>> /\ accepted = {}
  /\ attempts = 0 /\ unsolicited = 0
  /\ waits = 0 /\ due = 0 /\ requests = 0 /\ strayed = FALSE

-----------------------------------------------------------------------------
(* exec_command begins for command i: the command is written.                 *)
Begin(i) ==
  /\ phase' = "command" /\ timed' = FALSE
  /\ at' = i
  /\ response' = <<>> /\ response_found' = -1
  /\ expected_len' = Len(Program[driver][i].expected)
  /\ asked' = Program[driver][i].ask
  /\ pending' = Append(pending, i)
  /\ UNCHANGED waits

(* initialize() begins.  An MTi-G-710 may have got its power just now.        *)
Connect ==
  /\ phase = "closed" /\ attempts < MaxAttempts
  /\ attempts' = attempts + 1
  /\ accepted' = {}
  /\ IF driver = "mti_g_710"
     THEN /\ phase' = "wakeup" /\ timed' = TRUE
          /\ wire' \in {<<>>, Wakeup}
          /\ UNCHANGED <<pending, waits, command_vars>>
     ELSE Begin(1) /\ UNCHANGED wire
  /\ strayed' = (strayed \/ (driver = "runwell" /\ Contains(pending, Aside)))
  /\ UNCHANGED <<driver, id_, unsolicited, due, requests>>

(* The rest of what was read with the answer is dropped.                      *)
Ended ==
  /\ at' = 1 /\ response' = <<>> /\ response_found' = -1
  /\ expected_len' = 0 /\ asked' = <<>>

(* The timer of the requests is set, which ends a wait for it, and a new one  *)
(* begins (request_data).                                                     *)
SetRequest == waits' = IF driver = "runwell" THEN 1 ELSE 0

(* connect() closes the port of a device that could not be initialised.  The  *)
(* timer of the requests is set nevertheless.                                 *)
Fail(rest) ==
  /\ phase' = "closed" /\ wire' = <<>>
  /\ Ended /\ SetRequest
  /\ UNCHANGED <<timed, pending>>

(* The poll loop takes what comes from now on.                                *)
Succeed(rest) ==
  /\ phase' = "initialised" /\ wire' = <<>>
  /\ Ended /\ SetRequest
  /\ UNCHANGED <<timed, pending>>

GoTo(name, rest) == Begin(IndexOf(driver, name)) /\ wire' = rest

(* Mutant: a failure of nav5 never counts.                                    *)
UbloxGoesOnAnyway(ok, rest) ==
  IF Current.name = "esf_raw" /\ ok THEN Succeed(rest)
  ELSE IF ok \/ Current.name = "nav5" THEN Begin(at + 1) /\ wire' = rest
  ELSE Fail(rest)

(* What initialize() does after command i.  In setup_gnss of Ublox, && binds  *)
(* tighter than ?:, so that a failure of nav5 only counts for GLONASS.  Xsens *)
(* sets the output if it is not right, and resets a device that fails.        *)
UbloxGoesOn(ok, rest) ==
  IF Current.name = "esf_raw" /\ ok THEN Succeed(rest)
  ELSE IF ok \/ (Current.name = "nav5" /\ driver # "glonass")
  THEN Begin(at + 1) /\ wire' = rest
  ELSE Fail(rest)

XsensGoesOn(ok, rest) ==
  LET name == Current.name
  IN  CASE name = "reset"                   -> Fail(rest)
        [] name = "goto_measurement" /\ ok  -> Succeed(rest)
        [] name = "check_output"            ->
             GoTo(IF ok THEN "goto_measurement" ELSE "set_output", rest)
        [] name \notin {"check_output", "reset"} /\ ~ok -> GoTo("reset", rest)
        [] OTHER                            -> Begin(at + 1) /\ wire' = rest

RunwellGoesOn(ok, rest) ==
  IF ~ok THEN Fail(rest)
  ELSE IF at = Len(Program[driver]) THEN Succeed(rest)
  ELSE Begin(at + 1) /\ wire' = rest

GoesOn(ok, rest) ==
  CASE driver \in UbloxDrivers -> UbloxGoesOn(ok, rest)
    [] driver \in XsensDrivers -> XsensGoesOn(ok, rest)
    [] driver = "runwell"      -> RunwellGoesOn(ok, rest)

-----------------------------------------------------------------------------
(* look_for_wakeup, whose result does not count.                              *)

(* The first read.  A wakeup that comes in pieces is not seen.                *)
ReadWakeup ==
  /\ phase = "wakeup"
  /\ \E n \in 1..Len(wire) :
       LET rest == SubSeq(wire, n + 1, Len(wire))
       IN  IF contains_at(SubSeq(wire, 1, n), Wakeup) >= 0
           THEN /\ phase' = "configuration" /\ timed' \in BOOLEAN
                /\ wire' = rest
                /\ pending' = Append(pending, Aside)
                /\ UNCHANGED <<waits, command_vars>>
           ELSE Begin(1) /\ wire' = rest
  /\ UNCHANGED <<driver, id_, accepted, attempts, unsolicited, due, requests, strayed>>

(* The timeout comes while the acknowledgement is written: the write throws.  *)
WakeupAckCancelled ==
  /\ phase = "wakeup"
  /\ \E n \in 1..Len(wire) : contains_at(SubSeq(wire, 1, n), Wakeup) >= 0
  /\ phase' = "closed" /\ timed' = FALSE /\ wire' = <<>>
  /\ pending' \in {pending, Append(pending, Aside)}
  /\ UNCHANGED <<driver, id_, accepted, attempts, unsolicited, command_vars,
                 request_vars>>

(* The second read takes something, whatever it is.                           *)
ReadConfiguration ==
  /\ phase = "configuration"
  /\ \E n \in 1..Len(wire) : Begin(1) /\ wire' = SubSeq(wire, n + 1, Len(wire))
  /\ UNCHANGED <<driver, id_, accepted, attempts, unsolicited, due, requests, strayed>>

(* The timeout cancels either read; but if it came between them, the second   *)
(* one has none.                                                              *)
WakeupTimeout ==
  /\ phase \in {"wakeup", "configuration"} /\ timed
  /\ Slow \/ (wire = <<>> /\ pending = <<>>)
  /\ Begin(1) /\ UNCHANGED wire
  /\ UNCHANGED <<driver, id_, accepted, attempts, unsolicited, due, requests, strayed>>

-----------------------------------------------------------------------------
(* What the requests for an identification do with their answer.              *)

IdFrom(answer) ==
  LET size == answer[4]
  IN  CASE Current.name = "sec_uniqid" /\ Len(answer) >= 6 + 9 ->
             SubSeq(answer, 11, 15)
        [] Current.name = "identifier" /\ Len(answer) > 3 ->
             IF Len(answer) > 3 + size THEN SubSeq(answer, 5, 4 + size)
             ELSE UnknownId
        [] Current.name = "request_id" -> SubSeq(answer, 1, 17)
        [] OTHER -> id_

(* Only Xsens takes an answer that is too short for a failure.                *)
Usable(answer) == Current.name = "identifier" => Len(answer) > 3

(* One turn of the loop in exec_command: a read makes the response `now'.     *)
Looked(now) ==
  LET found == contains_at(now, Current.expected)
  IN  [response |-> now, found |-> found,
       refused |-> contains_at(now, Current.error) >= 0,
       need |-> IF found >= 0 /\ asked # <<>>
                THEN ExpectedLen(asked, now, found) ELSE expected_len]

(* Mutant: one byte more than the answer has is waited for.                   *)
WholeAndMore(look) == look.found >= 0 /\ Len(look.response) > look.need

Whole(look) == look.found >= 0 /\ Len(look.response) >= look.need

Refused(look, rest) ==
  /\ look.refused
  /\ GoesOn(FALSE, rest)
  /\ UNCHANGED id_

Answered(look, rest) ==
  LET answer == SubSeq(look.response, look.found + 1, Len(look.response))
  IN  /\ ~look.refused /\ Whole(look)
      /\ id_' = IdFrom(answer)
      /\ GoesOn(Usable(answer), rest)

ReadsOn(look, rest) ==
  /\ ~look.refused /\ ~Whole(look)
  /\ response' = look.response /\ response_found' = look.found
  /\ expected_len' = look.need
  /\ asked' = IF look.found >= 0 THEN <<>> ELSE asked
  /\ wire' = rest
  /\ UNCHANGED <<phase, timed, at, id_, pending, waits>>

Read ==
  /\ phase = "command"
  /\ \E n \in 1..Len(wire) :
       \E look \in {Looked(response \o SubSeq(wire, 1, n))} :
         LET rest == SubSeq(wire, n + 1, Len(wire))
         IN  Refused(look, rest) \/ Answered(look, rest) \/ ReadsOn(look, rest)
  /\ UNCHANGED <<driver, accepted, attempts, unsolicited, due, requests, strayed>>

(* The timer cancels the read: exec_command returns false.                    *)
Timeout ==
  /\ phase = "command"
  /\ Slow \/ (wire = <<>> /\ pending = <<>>)
  /\ GoesOn(FALSE, wire)
  /\ UNCHANGED <<driver, id_, accepted, attempts, unsolicited, due, requests, strayed>>

(* disconnect(): the poll loop has ended.                                     *)
Disconnect ==
  /\ phase = "initialised"
  /\ phase' = "closed" /\ waits' = 0
  /\ UNCHANGED <<driver, timed, id_, wire, pending, accepted, attempts, unsolicited,
                 due, requests, strayed, command_vars>>

-----------------------------------------------------------------------------
(* The requests for data of a Runwell (request_data).                         *)

(* The interval is over: the handler of the wait will run.                    *)
RequestDue ==
  /\ waits = 1 /\ requests + due < MaxRequests
  /\ waits' = 0 /\ due' = due + 1
  /\ UNCHANGED <<driver, phase, timed, id_, wire, pending, accepted, attempts,
                 unsolicited, requests, strayed, command_vars>>

(* The timer is set for the next request, and this one is written: to a       *)
(* closed port as well, which throws, and in the middle of an initialisation. *)
RequestData ==
  /\ due > 0 /\ due' = due - 1
  /\ requests' = requests + 1
  /\ SetRequest
  /\ pending' = IF phase = "closed" THEN pending ELSE Append(pending, Aside)
  /\ strayed' = (strayed \/ phase = "command")
  /\ UNCHANGED <<driver, phase, timed, id_, wire, accepted, attempts, unsolicited,
                 command_vars>>

-----------------------------------------------------------------------------
(* The device.  What it sends to a closed port is lost, and what it sends to  *)
(* an initialised one goes to the poll loop.                                  *)

Sends(bytes) ==
  wire' = IF phase \in {"closed", "initialised"} THEN wire ELSE wire \o bytes

Answer ==
  /\ pending # <<>>
  /\ pending' = Tail(pending)
  /\ IF Head(pending) = Aside
     THEN UNCHANGED accepted /\ (Sends(AsideReply(driver)) \/ UNCHANGED wire)
     ELSE LET command == Program[driver][Head(pending)]
          IN  \/ Sends(command.accept) /\ accepted' = accepted \cup {command.name}
              \/ \E bytes \in command.refuse : Sends(bytes) /\ UNCHANGED accepted
              \/ UNCHANGED <<wire, accepted>>
  /\ UNCHANGED <<driver, phase, timed, id_, attempts, unsolicited, command_vars,
                 request_vars>>

(* A packet of measurements, from a device that sends them by itself.  No     *)
(* byte of its payload is one that packets begin with: exec_command does not  *)
(* parse packets, and would take a payload that spells the beginning of an    *)
(* answer for the answer.                                                     *)
Measurement(payload) ==
  IF driver \in XsensDrivers THEN XsensPacket(54, payload) ELSE UbloxPacket(1, 7, payload)

Unsolicited ==
  /\ driver # "runwell"
  /\ phase \in {"wakeup", "command"} /\ unsolicited < MaxUnsolicited
  /\ \E payload \in Measurements : Sends(Measurement(payload))
  /\ unsolicited' = unsolicited + 1
  /\ UNCHANGED <<driver, phase, timed, id_, pending, accepted, attempts,
                 command_vars, request_vars>>

Next == Connect \/ ReadWakeup \/ WakeupAckCancelled \/ ReadConfiguration
          \/ WakeupTimeout \/ Read \/ Timeout \/ Disconnect \/ RequestDue
          \/ RequestData \/ Answer \/ Unsolicited

Spec == Init /\ [][Next]_vars

-----------------------------------------------------------------------------
(* Safety.                                                                    *)

(* A device counts as initialised only if it has accepted each command that   *)
(* its initialize() needs, and an Xsens if its output is as configured, found  *)
(* so or set (xsens.h:283-309, ublox.h:475-488); the Measurements it sends by   *)
(* itself, answers to other commands, its wakeup and answers in pieces make no *)
(* difference.  A Runwell is asked for data for as long as it is connected,    *)
(* whatever is left of the requests of an earlier connection                   *)
(* (runwell.h:76-78, 135-142).  Its answers have nothing to tell them by: a    *)
(* request for data in the middle of an initialisation spoils them.            *)
InitialisedMeansReady ==
  phase = "initialised" =>
    /\ strayed \/ Needed(driver) \subseteq accepted
    /\ driver \in XsensDrivers => \/ "check_output" \in accepted
                                  \/ {"set_output", "init_mt"} \subseteq accepted
    /\ driver = "runwell" => waits + due > 0

(* Where the answer begins is found when it is there, is the first place, and *)
(* does not move when more is read; the length counts from it.                 *)
FoundIsFirst ==
  LET Occurs(i) ==
        /\ i + Len(Current.expected) <= Len(response)
        /\ SubSeq(response, i + 1, i + Len(Current.expected)) = Current.expected
  IN  phase = "command" =>
        IF response_found = -1
        THEN response # <<>> => \A i \in 0..Len(response) : ~Occurs(i)
        ELSE Occurs(response_found) /\ \A i \in 0..(response_found - 1) : ~Occurs(i)

(* A device is never known by a wrong identification, even if its answer was  *)
(* cut or comes between Measurements; it may remain unknown.  (A line of data *)
(* that was asked for meanwhile is taken for the identification of a Runwell.) *)
IdNeverWrong ==
  strayed \/ id_ \in {NoId, UnknownId}
         \cup CASE driver \in UbloxDrivers -> {UbloxSerial}
                [] driver \in XsensDrivers -> {XsensSerial}
                [] driver = "runwell"      -> {RunwellProgram[1].accept}

(* An answer is read from its first place on, however it was cut              *)
(* (tools.h:73-105), and what is made of it is right or nothing                *)
(* (xsens.h:244-264).                                                          *)
AnswersRight == FoundIsFirst /\ IdNeverWrong
=============================================================================
