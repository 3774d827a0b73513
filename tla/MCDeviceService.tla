-------------------------- MODULE MCDeviceService --------------------------
(* Instances of DeviceService for TLC: up to three overlapping walks. *)
EXTENDS DeviceService, TLC

CONSTANTS c1, c2, c3

MCConnectors == {c1, c2, c3}

TwoConnectors == {c1, c2}

Walks == Permutations(MCConnectors)
=============================================================================
