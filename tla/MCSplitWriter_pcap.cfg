CONSTANTS
  Absent = Absent
  k1 = k1
  k2 = k2
  k3 = k3
  Key <- MCKey
  HasL7 <- MCHasL7
  L7Mode = FALSE
  DiskMayFail = FALSE
  Packet = {1, 2, 3, 4, 5, 6}
  MaxRuns = 2
  MaxWriters = 2
SPECIFICATION Spec
SYMMETRY KeySymmetry
INVARIANTS
  WritersBounded
  TempFilesHoldTheirTail
  ClosedPublishesAll
PROPERTIES
  FinalFilesChangeWhole
