SPECIFICATION FairSpec
CONSTANTS
  Roles = {"proxy", "forward"}
  Procs = {s1, s2}
  NoProc = NoProc
  Hazards = {"spawn", "link", "net", "key", "inspect"}
  MaxFaults = 1
  MaxActs = 3
INVARIANTS
  NoOrphan
PROPERTIES
  KeepsTrying
  ChangeIsAsked
CHECK_DEADLOCK FALSE
