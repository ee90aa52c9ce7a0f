SPECIFICATION OSpec
CONSTANTS
  None = None
  n1 = n1
  n2 = n2
  e1 = e1
  Nodes = {n1, n2}
  Here = n1
  Reports <- Two
  Moves <- Pairs
PROPERTIES
  ObjectsAreTold TroubleIsSaid DefaultKept
CHECK_DEADLOCK FALSE
