CONSTANTS
  Absent = Absent
  k1 = k1
  k2 = k2
  k3 = k3
  Key <- MCKey
  HasL7 <- MCHasL7
  L7Mode = TRUE
  DiskMayFail = TRUE
  Packet = {1, 2, 3, 4}
  MaxRuns = 2
  MaxWriters = 4
SPECIFICATION Spec
INVARIANTS
  CompleteBelowLimit
  NoEmptyFinalFile
PROPERTIES
  PromiseKept
