\* A board that is enabled by UIC commands, links with two, one and uneven lanes.
SPECIFICATION FairSpec
CONSTANTS
  Enabled = {0, 1}
  MaxDevice = 2
  MaxAttempts = 3
  InitPolls = 2
  BoardQuirks = {"broken_hce"}
  LaneCounts <- TwoOneUneven
  BootLuns = {0, 1}
  LaneList <- Lanes
  PowerList <- Power
INVARIANTS
  TypeOK
  StartedUp
  ContainersOwn
  RegisteredTrue
PROPERTIES
  ImplementsBringUp
  InitEnds
CHECK_DEADLOCK FALSE
