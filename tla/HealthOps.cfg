SPECIFICATION FairSpec
CONSTANTS
  Drives = {d1, d2}
  MaxConcurrent = 1
  Hysteresis = 2
  Readings = {"accepted"}
  Severities = {2}
  MaxChan = 1
  Budgets <- EachTrouble
INVARIANTS
  HealthInv SticksOnlyRepeated
PROPERTIES
  SamplingGoesOn
