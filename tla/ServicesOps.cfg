SPECIFICATION ServicesSpec
CONSTANTS
  None = None
  Cap = 3
  PersistTail = 2
  Budgets <- Few
  KeepMonths = 2
  Months = {1, 2, 3}
  Chances <- Some
  Uploads = {u1, u2, u3}
  q1 = q1
  q2 = q2
  Calls = {q1, q2}
  Ttl = 2
  Ticks = 4
  Gates <- GatesFew
  Attempts = 4
  Base = 1
  MaxDelay = 4
  Deadline = 20
  Usual = 5
  RetryAfters <- Afters
  Scenes <- ScenesFew
INVARIANTS
   GateOK CallOK
PROPERTIES
  FilesAreRegisters NothingKeptIsLost EventuallyOnDisk
CHECK_DEADLOCK FALSE
