SPECIFICATION FairSpec
CONSTANTS
  a1 = a1
  a2 = a2
  a3 = a3
  Agent = {a1, a2}
  NoAgent = NoAgent
  NoAddress = NoAddress
  MaxAlive = 2
  MaxFaults = 1
  MaxDeletes = 1
  Killable = TRUE
  Reading <- LowThenMoved
  home = home
  roaming = roaming
  Absent = Absent
  Bare = Bare
  Create = Create
  Delete = Delete
INVARIANTS TypeOK HeartbeatsFindNode
PROPERTIES StatusCatchesUp HalfAliveEnds
CHECK_DEADLOCK FALSE
