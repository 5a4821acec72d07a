SPECIFICATION FilterSpec
CONSTANTS
  Pids = {p1, p2, p3}
  Files = {}
  Clients = {c1}
  Levels = {"NORESP_NO_RESTRICTION"}
  NoPid = NoPid
  NoFile = NoFile
  Outside = Outside
  MaxNodes = 2
  MaxItems = 2
  MaxBusy = 3
SYMMETRY Symmetry
INVARIANTS
  FilterTypeOK
  OwnNotStripped
PROPERTIES
  WholeHandleToFamily
  CreatorTracksChild
