CONSTANTS
  Absent = Absent
  MaxRecords = 3
  FramesOf <- AllFrames
  PcapFiles <- MCPcapFiles
  Blocks <- MCBlocks
  Million = 100
  MaxBlocks = 4
SPECIFICATION Spec
INVARIANTS
  PacketsAreWholeRecords
  PacketsFollowTheBlocks
  PacketsAreOfTheirInterface
  DissectionUndoesEncapsulation
  CutsOnlyForget
  PayloadIsNeverHeader
