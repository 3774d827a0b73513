CONSTANTS
  c1 = c1
  c2 = c2
  c3 = c3
  Connectors <- TwoConnectors
  NumDevices = 2
  Enabled = {1, 2}
  Reopens = {}
  Rejects = {}
  Hangs = {1}
  CloseThrows = {}
  Logging = {2}
  MaxLoops = 2
SPECIFICATION FairSpec
PROPERTIES FollowsHardware LogStarts
