CONSTANTS
  Absent = Absent
  Dot = Dot
  Colon = Colon
  Underscore = Underscore
  Segments <- MCSegments
  Packets <- MCPackets
  Strategies <- MCStrategies
  Filters <- MCFilters
  MaxPackets = 3
SPECIFICATION Spec
INVARIANTS
  GroupsCoverTheCapture
  SessionsAreConversations
  StrategiesNest
  FilterKeepsConversationsWhole
  PacketBucketsAreFull
  GroupsHaveTheirFile
