SPECIFICATION HardwareSpec
CONSTANTS
  None = None
  e1 = e1
  e2 = e2
  d1 = d1
  d2 = d2
  r1 = r1
  r2 = r2
  c1 = c1
  c2 = c2
  s1 = s1
  s2 = s2
  Paths <- TwoPaths
  Bay = 0
  Layouts <- OneLayout
  Budgets <- Ops
  Drives = {d1, d2}
  Requests = {r1, r2}
  Nodes <- NodesFew
  Disks = {c1, c2}
  Starts = {s1, s2}
  IomCount = 2
  Shelves <- ShelvesFew
INVARIANTS
  EnclosureOK UpdatesKeepAccess
PROPERTIES
  OneLedAtATime FaultFollowsMember EveryUpdateEnds
CHECK_DEADLOCK FALSE
