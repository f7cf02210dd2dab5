SPECIFICATION FairSpec
CONSTANTS
  l1 = l1
  l2 = l2
  s1 = s1
  s2 = s2
  a1 = a1
  a2 = a2
  a3 = a3
  Loop = {l1, l2}
  Service = {s1}
  Agent = {a1, a2, a3}
  NoAgent = NoAgent
  NoService = NoService
  Destroyable = TRUE
  MaxFaults = 0
  MaxExits = 1
  MaxAppDeaths = 0
INVARIANTS TypeOK
PROPERTIES AgentReturns EndIsShown
CHECK_DEADLOCK FALSE
