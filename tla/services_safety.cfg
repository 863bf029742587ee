SPECIFICATION ServicesSpec
CONSTANTS
  Objects = {spec, body}
  Body = body
  Text = {x, y, bad}
  Broken = {bad}
  Labels = {l1, l2}
  BadLabels = {l2}
  MaxCommits = 3
  MaxSaves = 2
  MaxRuns = 2
  MaxEdits = 2
  MaxOpens = 1
  Users = {ana, bob}
  BATCH_SIZE = 2
  MAX_BUFFER = 2
  MaxEntries = 4
  MaxLogins = 2
  MaxFlushes = 3
  MaxGaps = 1
  Conns = {c1, c2}
  MAX_DEPTH = 2
  MaxLines = 4
  MaxWindows = 2
  Things <- MCThings
  KindOf <- MCKindOf
  MaxSelects = 2
  MaxClicks = 2
  MaxLoops = 2
  MaxBatches = 2
  Seeds = {s1, s2}
  PAGE_SIZE = 1
  Recent = 2
  Kept = 3
  MaxGens = 4
  MaxRows = 4
  MaxFetches = 3
  MaxRefreshes = 5
  MaxAnalyses = 2
  MAX_SESSIONS = 2
  MaxTasks = 2
  MaxSaid = 1
  MaxMounts = 2
  AnswerMixed = FALSE
  ChartTypes = {"bar", "kpi"}
  None = None
SYMMETRY Symmetry
CHECK_DEADLOCK FALSE
INVARIANTS
  DocumentsTellTheTruth
  UploadIsRight
  LinesRunOnceInOrder
  PanesTellTheTruth
  PanelsTellTheTruth
