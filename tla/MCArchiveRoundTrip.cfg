CONSTANTS
  Absent = Absent
  Base = 3
  Width = 2
  Key <- MCKey
  Packet <- MCPacket
  KeysOf <- MCKeysOf
  DataLen <- MCDataLen
  FiveTupleOf <- MCFiveTupleOf
  MaxFrames <- MCMaxFrames
  DiskMayFail = TRUE
  Commands <- AllCommands
  Disks = {FALSE, TRUE}
SPECIFICATION RoundTripSpec
INVARIANTS
  TruncationKeepsPrefix
  ArchiveIsWhole
  IndexAnswersAsScan
  FiltersIntersect
  FilesAreTheFlows
PROPERTY
  ArchivePromiseKept
