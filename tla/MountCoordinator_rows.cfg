SPECIFICATION MCSpec
CONSTANTS
  Mounts = {docs, media}
  Auto = {docs, media}
  Ports = {p1, p2}
  NoPort = NoPort
  FirstPort = p1
  MaxWorkers = 2
  Hazards = {"auth", "mount", "umount", "link", "wake", "table", "eject", "row", "off", "port", "server", "kill"}
  MaxFaults = 1
  MaxIntents = 1
PROPERTIES
  HangingEnds
  StraysGo
  WantedMounts
CHECK_DEADLOCK FALSE
