SPECIFICATION FairSpec
CONSTANTS
  reconciler = reconciler
  smoke = smoke
  alpine = alpine
  app = app
  lower = lower
  upper = upper
  other = other
  broken = broken
  a = a
  b = b
  c = c
  d = d
  Task = {reconciler, smoke}
  Once = {smoke}
  Image = {alpine}
  Wants <- EachWantsAll
  Layer = {lower, upper, other}
  Path = {a, b, c}
  Dir = {d}
  Inside <- InD
  Entries <- Unlinked
  Manifests <- Moving
  Bare <- OnlyOther
  NoFile = NoFile
  Torn = Torn
  NoImage = NoImage
  MaxMoves = 1
  MaxFaults = 0
  MaxCrashes = 0
INVARIANTS ReadyAtRest SharedHolds
PROPERTIES WantedBecomesReady SealedSettles
CHECK_DEADLOCK FALSE
