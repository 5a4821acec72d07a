SPECIFICATION HoldingSpec
CONSTANTS
  Pids = {p1, p2}
  Files = {f1}
  Clients = {c1, c2}
  Levels = {"NORESP_DROPPED_FILES", "NORESP_ALL_FILES"}
  NoPid = NoPid
  NoFile = NoFile
  Outside = Outside
  MaxNodes = 2
  MaxItems = 2
SYMMETRY Symmetry
INVARIANTS
  TypeOK
PROPERTIES
  WatchedUntilReleased
  UsesListFreshly
  RefusedRequestIsHarmless
