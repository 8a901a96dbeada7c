CONSTANTS
  Absent = Absent
  Packet <- MCPacket
  Captures <- MCCaptures
  KeysOf <- MCKeysOf
  Passes <- MCPasses
  HasL7 <- MCHasL7
  Panics <- MCPanics
  Key <- MCKey
  Settings <- AllSettings
  MaxSessions = 2
  ChannelCap = 2
  L7Mode = TRUE
  Disks = {FALSE, TRUE}
SPECIFICATION FairSpec
INVARIANTS
  ChannelIsFaithful
  SuccessMeansFiles
  TableAndWritersInStep
PROPERTIES
  PublishesOnlyWholeCaptures
  Terminates
