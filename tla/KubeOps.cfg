SPECIFICATION FairSpec
CONSTANTS
  None = None
  d1 = d1
  o1 = o1
  p1 = p1
  Drives = {d1}
  Ops = {o1}
  Policies = {p1}
  OpSpecs <- OneOp
  PolicySpecs <- SomePolicies
  DriveRecords <- Records
  MaxUid = 2
  MaxGen = 2
  MaxJobs = 5
  KeepJobs = 2
  Budgets <- Modes
INVARIANTS
  ControllerInv DoneOnceAGeneration
PROPERTIES
  StatusIsTold LoopClearsUp
CHECK_DEADLOCK FALSE
