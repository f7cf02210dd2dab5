SPECIFICATION Spec
CONSTANTS
  reconciler = reconciler
  smoke = smoke
  alpine = alpine
  app = app
  lower = lower
  upper = upper
  other = other
  broken = broken
  a = a
  b = b
  c = c
  d = d
  Task = {reconciler}
  Once = {}
  Image = {alpine, app}
  Wants <- EachWantsAll
  Layer = {lower, upper, other, broken}
  Path = {a, b, c}
  Dir = {d}
  Inside <- InD
  Entries <- Linked
  Manifests <- Fixed
  Bare <- OnlyOther
  NoFile = NoFile
  Torn = Torn
  NoImage = NoImage
  MaxMoves = 0
  MaxFaults = 2
  MaxCrashes = 1
INVARIANTS TypeOK TidyInv ReadyIsPrepared
CHECK_DEADLOCK FALSE
