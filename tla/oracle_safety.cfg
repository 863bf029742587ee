SPECIFICATION Spec
CONSTANTS
  r1 = r1
  r2 = r2
  r3 = r3
  r4 = r4
  r5 = r5
  r6 = r6
  T = T
  U = U
  None = None
  Requests = {r1, r2, r3, r4}
  Tables = {T, U}
  Menu <- SafetyMenu
  MaxConn = 2
  MaxDrops = 1
  EmbedRows = 2
SYMMETRY Symmetry
CHECK_DEADLOCK FALSE
INVARIANTS
  OrphanOnlyByLateLoss
  RunsWhereChecked
  SlotMatchesQuery
  GateHolds
  OpenTxIsCounted
