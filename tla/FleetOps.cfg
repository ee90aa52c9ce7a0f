SPECIFICATION Spec
CONSTANTS
  Drives = {d1, d2}
  Enrolled = {d1, d2}
  Loop = loop
  Reqs = {r1}
  Kinds <- AllKinds
  Verdicts = {"good", "failing"}
  DrainOnFailing = TRUE
  AutoAdd = TRUE
  Budgets <- OpsBudgets
SYMMETRY Symmetry
INVARIANTS
  IInv OnlyAskedDrivesRetire
