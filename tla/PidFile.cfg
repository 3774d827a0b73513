CONSTANTS
  Invocations <- MCInvocations
  Pid <- MCPid
  None = None

SPECIFICATION FairSpec
INVARIANTS TypeOK OneDaemonUntilRemoval TidyExit
PROPERTIES StartSucceeds
CHECK_DEADLOCK FALSE
