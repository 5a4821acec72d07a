SPECIFICATION Spec
CONSTANTS
  Pids = {p1}
  Files = {f1, f2}
  NoPid = NoPid
  NoFile = NoFile
  MaxNodes = 3
  MaxItems = 2
  Cells <- MCCells
  NULL = NULL
SYMMETRY Symmetry
INVARIANTS
  TypeOK
  ListsOwnedOnce
  NoListLost
PROPERTIES
  ImplementsList
