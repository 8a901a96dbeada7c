CONSTANTS
  Absent = Absent
  Invalid = Invalid
  Proc = {p, q}
  UserPath = {a}
  Capture <- MCCapture
  Filters <- MCFilters
  Passes <- MCPasses
  KeysOf <- MCKeysOf
  Ports <- MCPorts
  Inode = {1, 2, 3, 4}
  MaxObjects = 2
SYMMETRY ProcessesAreAlike
SPECIFICATION Spec
INVARIANTS
  ObjectsKeepTheirCapture
  TempFileIsCleanedUp
  OpensTheLastArchive
