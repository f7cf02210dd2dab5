SPECIFICATION FairSpec
CONSTANTS
  l1 = l1
  l2 = l2
  s1 = s1
  s2 = s2
  a1 = a1
  a2 = a2
  a3 = a3
  Loop = {l1}
  Service = {s1, s2}
  Agent = {a1, a2, a3}
  NoAgent = NoAgent
  NoService = NoService
  Destroyable = FALSE
  MaxFaults = 1
  MaxExits = 2
  MaxAppDeaths = 1
INVARIANTS NoAgentIsLost
PROPERTIES PressureStopsAgent AgentIsKept
CHECK_DEADLOCK FALSE
