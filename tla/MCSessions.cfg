SPECIFICATION Spec
CONSTANTS
  Users = {user}
  Scripts = {dev, agentic}
  Agentic = {agentic}
  Ports <- MCPorts
  Proxy = proxy
  None = None
  Attempts = 2
  MaxSessions = 3
INVARIANTS
  RoundsAreWhole
  OldRoundsAreStopped
  ServicesAreServed
CHECK_DEADLOCK FALSE
