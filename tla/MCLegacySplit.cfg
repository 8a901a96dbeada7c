CONSTANTS
  Absent = Absent
  Dot = Dot
  Colon = Colon
  Underscore = Underscore
  Segments <- MCSegments
  Packet <- MCPacket
  Stems = {"a", "b"}
  CommandLines <- MCCommandLines
  Options <- MCOptions
  KeysOf <- MCKeysOf
  Passes <- MCPasses
  SessionOf <- MCSessionOf
  HasL7 <- MCHasL7
  Key <- MCKey
  MaxSessions = 3
  DiskMayFail = TRUE
SPECIFICATION LegacySpec
INVARIANTS
  FilesAreWhole
  EverySessionHasItsFile
