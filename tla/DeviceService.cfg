CONSTANTS
  c1 = c1
  c2 = c2
  c3 = c3
  Connectors <- MCConnectors
  NumDevices = 3
  Enabled = {1,2,3}
  Reopens = {3}
  Rejects = {2}
  Hangs = {3}
  CloseThrows = {1}
  Logging = {1}
  MaxLoops = 2
SYMMETRY Walks
SPECIFICATION Spec
INVARIANTS TypeOK OneOwner WatchedOnce PortNotLeaked
PROPERTIES LifeCycleSpec
