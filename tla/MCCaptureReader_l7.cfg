CONSTANTS
  Absent = Absent
  MaxRecords = 1
  FramesOf <- OneConversation
  PcapFiles <- MCPcapFiles
  Blocks <- MCBlocks
  Million = 100
  MaxBlocks = 1
SPECIFICATION Spec
INVARIANT
  L7StartsWithinData
