SPECIFICATION Spec
CONSTANTS
  Conns = {prod, dev}
  Prod = {prod}
  AirGapped = {}
  Psdpm = {}
  MaxTasks = 3
  Queries = {}
  None = None

CHECK_DEADLOCK FALSE
INVARIANT ProdIsAirGapped
