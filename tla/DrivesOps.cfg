CONSTANTS
  None = None
  a1 = a1
  a2 = a2
  Asks = {a1, a2}
  Regions = 2
  MaxErrors = 2
  Starts <- SomeStarts
  Wanted <- AllWanted
  n1 = n1
  n2 = n2
  w1 = w1
  w2 = w2
  sn = sn
  f1 = f1
  f2 = f2
  z1 = z1
  z2 = z2
  Drives = {n1, n2}
  Names <- TwoNames
  Places = {z1, z2}
  Settings = {0, 2}
  Listings <- TwoListings
  Courses <- Few
  x1 = x1
  x2 = x2
  x3 = x3
  b1 = b1
  b2 = b2
  Nodes = {1, 2}
  Ids = {x1, x2, x3}
  Holds = {"blank", "data"}
  ProbeRefresh = 2
  Forgets = 2
  Plugged <- OnePlugged
  Rounds <- FewRounds
  Hosts = {1, 2}
  Controllers = {1}
  Disks = {4, 5}
  Enclosures = {32, 33}
  Lists <- RLists
  Cards <- RCards
  AtFirst <- RAtFirst
  Shifts = 2
  Stalls = 1
  ObjectNames = {1, 2}
  DriveRecords <- KWDrives
  Reports <- KWReports
  Channel = 1
  Kinds <- KWKinds
  Changes = 2
  Buffer = 1
  Every = 2
  Swaps = 4
  Faults = 1
SPECIFICATION DrivesSpec
INVARIANTS   PushOK NothingMissed
PROPERTIES AllComeToKnow
CHECK_DEADLOCK FALSE
