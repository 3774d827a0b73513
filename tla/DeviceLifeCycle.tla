-------------------------- MODULE DeviceLifeCycle --------------------------
(***************************************************************************)
(* What the service promises of one device: it is closed, then             *)
(* initialised once, then connected or closed again, as if a single        *)
(* routine took care of it (Port_device::connect and disconnect).          *)
(***************************************************************************)
CONSTANT Devices

VARIABLE phase  (* the phase of each device *)

Init == phase = [d \in Devices |-> "closed"]

Moves(d, from, to) ==
  /\ phase[d] = from
  /\ phase' = [phase EXCEPT ![d] = to]

Start(d)   == Moves(d, "closed", "initialising")
Fail(d)    == Moves(d, "initialising", "closed")
Succeed(d) == Moves(d, "initialising", "connected")
Lose(d)    == Moves(d, "connected", "closed")

Next == \E d \in Devices : Start(d) \/ Fail(d) \/ Succeed(d) \/ Lose(d)

Spec == Init /\ [][Next]_phase
=============================================================================
