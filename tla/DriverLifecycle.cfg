SPECIFICATION FairDriverSpec
CONSTANTS
  Pids = {p1, p2}
  Files = {}
  Clients = {c1, c2}
  Levels = {"NORESP_NO_RESTRICTION"}
  NoPid = NoPid
  NoFile = NoFile
  Outside = Outside
  MaxNodes = 2
  MaxItems = 2
INVARIANTS
  DriverTypeOK
  GoneIsUnwatched
  NothingLeftBehind
  UndoesOnce
  WatchedWhileNotified
PROPERTIES
  DoomedLeavesList
  ChildExitEnds
  UnloadEnds
