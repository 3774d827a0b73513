-------------------------- MODULE MCInitialisation --------------------------
EXTENDS Initialisation

MCXsensPreamble == <<250, 255>>
MCUbloxPreamble == <<181, 98>>

(* Payloads that go on as if an identification had begun.                  *)
MCMeasurements == {<<255, 1>>, <<98, 39, 3>>}
=============================================================================
