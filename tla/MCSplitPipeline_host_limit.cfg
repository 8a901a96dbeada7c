CONSTANTS
  Absent = Absent
  Packet <- MCPacket
  Captures <- MCCaptures
  KeysOf <- MCKeysOf
  Passes <- MCPasses
  HasL7 <- MCHasL7
  Panics <- MCPanics
  Key <- MCKey
  Settings <- OnlyByHost
  MaxSessions = 2
  ChannelCap = 1
  L7Mode = FALSE
  Disks = {FALSE}
SPECIFICATION Spec
INVARIANT
  PacketsGoToTheirFiles
