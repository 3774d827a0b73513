----------------------------- MODULE MCPidFile -----------------------------
(* Three invocations; the pids have been round once, so that later daemons *)
(* may have a shorter one.                                                 *)
EXTENDS PidFile

MCInvocations == 1..3
MCPid == <<<<1, 2>>, <<3>>, <<4, 5>>>>
=============================================================================
