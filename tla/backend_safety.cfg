SPECIFICATION BackendSpec
CONSTANTS
  Entries = {e1, e2, e3}
  MaxDay = 2
  MaxRun = 2
  MaxKey = 2
  Names = {n1, n2}
  Wallets = {w1, w2}
  MaxTasks = 3
  MaxKeys = 3
  MaxRows = 3
  Calls = {1, 2}
  Beside = {"dmlPreview", "explainPlan", "procExecute", "embedBatch"}
  Owned = {d1, d2}
  Shared = {m1}
  MaxSetups = 3
  MaxRuns = 3
  Bases = {b1, b2}
  Gapped = {b2}
  People = {a1, a2}
  MaxChanges = 3
  Nobody = Nobody
  None = None
CHECK_DEADLOCK FALSE
INVARIANTS
  LogIsRight
  StoreIsWhole
  SandboxesOpen
  CallsLeaveTheConnection
  CommandsKeepTheirOrder
PROPERTY ProdStaysProd
