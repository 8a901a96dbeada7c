CONSTANTS
  Absent = Absent
  Base = 3
  Width = 2
  Key <- MCKey
  Packet <- MCPacket
  KeysOf <- MCKeysOf
  DataLen <- MCDataLen
  FiveTupleOf <- MCFiveTupleOf
  MaxFrames <- OneRunOfTwo
  DiskMayFail = FALSE
  Commands <- OnlyFilters
  Disks = {FALSE}
SPECIFICATION RoundTripSpec
INVARIANT
  OnlyTheCombination
