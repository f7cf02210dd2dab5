SPECIFICATION Spec
CONSTANTS
  reconciler = reconciler
  smoke = smoke
  alpine = alpine
  app = app
  lower = lower
  upper = upper
  other = other
  broken = broken
  a = a
  b = b
  c = c
  d = d
  Task = {reconciler}
  Once = {}
  Image = {alpine}
  Wants <- EachWantsAll
  Layer = {lower, upper, other}
  Path = {a, b, c}
  Dir = {d}
  Inside <- InD
  Entries <- Unlinked
  Manifests <- Moving
  Bare <- OnlyOther
  NoFile = NoFile
  Torn = Torn
  NoImage = NoImage
  MaxMoves = 0
  MaxFaults = 1
  MaxCrashes = 0
INVARIANTS UnpackFindsTarball
CHECK_DEADLOCK FALSE
