SPECIFICATION FairSpec
CONSTANTS
  a1 = a1
  a2 = a2
  a3 = a3
  Agent = {a1}
  NoAgent = NoAgent
  NoAddress = NoAddress
  MaxAlive = 1
  MaxFaults = 0
  MaxDeletes = 0
  Killable = FALSE
  Reading <- LowThenMoved
  home = home
  roaming = roaming
  Absent = Absent
  Bare = Bare
  Create = Create
  Delete = Delete
PROPERTIES AdvertisedIsCertified
CHECK_DEADLOCK FALSE
