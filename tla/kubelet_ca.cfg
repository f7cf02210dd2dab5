SPECIFICATION FairSpec
CONSTANTS
  a1 = a1
  a2 = a2
  k1 = k1
  k2 = k2
  k3 = k3
  k4 = k4
  Agent = {a1, a2}
  Key = {k1, k2, k3, k4}
  Missing = Missing
  Torn = Torn
  MaxCrashes = 2
INVARIANTS TypeOK ServedCertIsTrusted
PROPERTIES KeyIsKept ServesInTheEnd
