SPECIFICATION FairSpec
CONSTANTS
  p1 = p1
  p2 = p2
  p3 = p3
  Uid = {p1, p2}
  Name = {p1, p2}
  NameOf <- SameName
  Restartable = {p1}
  NoPod = NoPod
  LateArrivals = FALSE
  MaxCrashes = 1
  MaxFaults = 1
INVARIANTS RunOnce
PROPERTIES GonePodsAreStopped ResultsArePublished PodsAreAttended
