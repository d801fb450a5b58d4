SPECIFICATION FairSpec
CONSTANTS
  wifi = wifi
  lan = lan
  direct = direct
  corporate = corporate
  http = http
  capture = capture
  NoTarget = NoTarget
  Services = {wifi, lan}
  Kinds = {"web"}
  UserValues = {direct, corporate}
  Targets = {http, capture}
  Hazards = {"command", "restore", "journal", "journal_held", "unreadable", "blind", "edit", "edit_held", "die", "die_inside", "second"}
  MaxFaults = 2
  MaxStarts = 3
INVARIANTS
  OriginalSafe
PROPERTIES
  RestoreSparesUser
  Restored
CHECK_DEADLOCK FALSE
