SPECIFICATION ScreenSpec
CONSTANTS
  Conns = {prod, dev}
  Prod = {prod}
  AirGapped = {dev}
  Psdpm = {}
  MaxTasks = 3
  Queries = {q}
  None = None
  Objects = {"pkg", "mem"}
  Library = {"lib"}
  Lines = {1}
  MemberOf <- MCMemberOf
  NameOf <- MCNameOf
  MaxChains = 4
  MaxFlying = 2
  MaxTouches = 2
  Null = Null
  Sandboxes = {"own", "shared"}
  Owned = {"own"}
  MaxOps = 3
  NoSandbox = NoSandbox
  Schemas = {"me", "other"}
  Own = "me"
  Kinds = {"REST_MODULE"}
  Configs = {"c1", "c2"}
  Filters = {"c1"}
  MaxLoads = 3
  MaxLists = 1
  MaxPreviews = 2
  Nil = Nil
  Clients = {"ana", "bob"}
  Modules = {"m1", "m2"}
  Pages = {"p1", "p2"}
  MaxCalls = 4
  Nothing = Nothing

CHECK_DEADLOCK FALSE
INVARIANTS CellsDescribeSession RowsNameTheirSession ScreensTellTheTruth
PROPERTY PageLeavesLoading
