SPECIFICATION OwnerSpec
CONSTANTS
  p1 = p1
  p2 = p2
  p3 = p3
  p4 = p4
  Procs = {p1, p2, p3, p4}
  Pids <- ThreePids
  PidOf <- PidsOfFour
  NoProc = NoProc
  FirstLock = {"none", "stale"}
  Hazards = {"kill", "overlap", "ps"}
INVARIANTS
  OneOwnerAlone
  SomeoneWins
CHECK_DEADLOCK FALSE
