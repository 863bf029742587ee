SPECIFICATION Spec
CONSTANTS
  Conns = {dev}
  Prod = {}
  Menu <- AllRuns
  MaxTabs = 2
  MaxRuns = 2
  MaxEnds = 1
  MaxLeaves = 1
  None = None

CHECK_DEADLOCK FALSE
INVARIANTS EditorTellsTheTruth TxViewSettles
PROPERTY AskedRunsSettle
