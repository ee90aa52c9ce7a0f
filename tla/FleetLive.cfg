SPECIFICATION FairSpec
CONSTANTS
  Drives = {d1}
  Enrolled = {d1}
  Loop = loop
  Reqs = {r1}
  Kinds <- LiveKinds
  Verdicts = {"good", "failing"}
  DrainOnFailing = TRUE
  AutoAdd = TRUE
  Budgets <- LiveBudgets
PROPERTIES
  FailingDriveDrained RetiringDrainEnds MembershipConverges
