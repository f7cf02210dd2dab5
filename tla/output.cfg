SPECIFICATION FairSpec
CONSTANTS
  w1 = w1
  w2 = w2
  q1 = q1
  pod = pod
  Workload = {w1, w2}
  Probe = {q1}
  Name = {pod}
  NameOf <- SameName
  Binary = {w2}
  Room = 1
  Keep = 2
  MaxLines <- Lines
  MaxCalls = 2
  MaxCrashes = 1
  NoStream = NoStream
INVARIANTS TypeOK LogsAreTheLastLines
PROPERTIES OutputIsDrained WritesReturn ProbesAreAnswered
CHECK_DEADLOCK FALSE
