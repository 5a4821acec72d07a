SPECIFICATION Spec
CONSTANTS
  Pids = {p1, p2}
  Files = {f1, f2}
  Levels = {"NORESP_DROPPED_FILES"}
  NoPid = NoPid
  NoFile = NoFile
  Client = Client
  Requests <- MCRequests
  MaxBusy = 2
  MaxNodes = 2
  MaxItems = 2
CONSTRAINT FewAtATime
SYMMETRY Symmetry
INVARIANTS
  TypeOK
  DeletedFileLeavesList
PROPERTIES
  CreationIsOwned
  WatchedUntilDeleted
