SPECIFICATION MCSpec
CONSTANTS
  Starters = {c1, c2}
  Stoppers = {c1, c2}
  MaxGen = 3
  Mishaps = {"factory", "serve"}
INVARIANTS
  OneServer
PROPERTIES
  StopsPrevail
CHECK_DEADLOCK FALSE
