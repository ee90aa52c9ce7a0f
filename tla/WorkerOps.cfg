SPECIFICATION FairSpec
CONSTANTS
  s1 = s1
  n1 = n1
  Drives = {s1}
  Kind <- MCKind
  MaxJobs = 2
  Plans <- EveryStep
  Selections <- One
  MaxPerHba = 1
  EnrollPerDomain = 1
  KeepJobs = 2
  Budgets <- OpsBudgets

  
PROPERTIES
  NeverRerunBlind EndedStays RunsEnd
CHECK_DEADLOCK FALSE
