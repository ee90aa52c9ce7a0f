SPECIFICATION FairSpec
CONSTANTS
  None = None
  d1 = d1
  cpu1 = cpu1
  sh1 = sh1
  Drives = {d1}
  Chips <- OneChip
  Elements <- OneElement
  Through = FALSE
  Fans <- OneFan
  OwnLimits <- ChipCrit
  SmartLimits <- SmartBoth
  DriveDefault <- DriveConfig
  NearC = 5
  HysteresisC = 2
  ReplaceAfter = 2
  Heartbeat = 2
  Puts <- PutLower
  Temps <- DriveTemps
  Samples = {54}
  Rpms <- Turning
  MaxTime = 3
  Budgets <- Ops
INVARIANTS
  ThermalInv HotIsTold ReplaceIsEarned
PROPERTIES
  LeftOnlyBelow EngineIsTold
CHECK_DEADLOCK FALSE
