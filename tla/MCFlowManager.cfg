CONSTANTS
  Absent = Absent
  k1 = k1
  k2 = k2
  k3 = k3
  k4 = k4
  Key <- MCKey
  MaxSessions = 3
  Packet = {1, 2, 3, 4, 5, 6, 7}
SPECIFICATION Spec
SYMMETRY KeySymmetry
INVARIANTS
  TableBounded
  LiveAreMostRecent
  FlowsHoldTheirTail
  CompleteBelowLimit
  FlowIdsUnique
