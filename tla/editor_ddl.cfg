SPECIFICATION Spec
CONSTANTS
  Conns = {prod, dev}
  Prod = {prod}
  Menu <- HangRuns
  MaxTabs = 1
  MaxRuns = 1
  MaxEnds = 0
  MaxLeaves = 1
  None = None

CHECK_DEADLOCK FALSE
PROPERTY EveryRunSettles
