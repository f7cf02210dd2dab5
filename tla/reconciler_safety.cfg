SPECIFICATION Spec
CONSTANTS
  p1 = p1
  p2 = p2
  p3 = p3
  Uid = {p1, p2}
  Name = {p1, p2}
  NameOf <- OwnName
  Restartable = {}
  NoPod = NoPod
  LateArrivals = FALSE
  MaxCrashes = 1
  MaxFaults = 2
SYMMETRY PodSymmetry
INVARIANTS TypeOK VerdictIsReal
PROPERTIES OrphansOnlyByDeath StopOnlyUndesired KeepsContract
