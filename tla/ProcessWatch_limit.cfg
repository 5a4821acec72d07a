SPECIFICATION HoldingSpec
CONSTANTS
  Pids = {p1, p2}
  Files = {f1}
  Clients = {c1}
  Levels = {"NORESP_ALL_FILES"}
  NoPid = NoPid
  NoFile = NoFile
  Outside = Outside
  MaxNodes = 3
  MaxItems = 3
PROPERTIES
  KilledOnlyOverLimit
