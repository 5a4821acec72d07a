SPECIFICATION FairSpec
CONSTANTS
  Pids = {p1, p2}
  Files = {}
  Clients = {c1}
  Levels = {"NORESP_NO_RESTRICTION"}
  NoPid = NoPid
  NoFile = NoFile
  Outside = Outside
  MaxNodes = 2
  MaxItems = 2
PROPERTIES
  ReleasedRootExits
