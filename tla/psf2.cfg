SPECIFICATION Spec
CONSTANTS
  Contents <- MCContents
  Archives <- MCArchives
  LibNames <- MCLibNames
  SplitNames = {"artist"}
  ReservedNames = {"_lib", "_lib2", "_lib3"}
  max_recursion_depth = 3
  MaxOpens = 3
INVARIANTS
  PSFTypeOK
  FilesClosed
  TagsInOrder
  Overlaid
  ReadsSlice
  LoadsWhole
  FreshFiles
PROPERTY
  LoadReturns
CHECK_DEADLOCK FALSE
