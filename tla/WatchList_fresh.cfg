SPECIFICATION FreshSpec
CONSTANTS
  Pids = {p1, p2, p3}
  Files = {f1}
  NoPid = NoPid
  NoFile = NoFile
  MaxNodes = 3
  MaxItems = 2
SYMMETRY Symmetry
INVARIANTS
  TypeOK
  WithinLimits
  NoEmptyNode
  TreesDisjoint
  FilesDisjoint
PROPERTIES
  RespawnProtected
  ImplementsTrees
