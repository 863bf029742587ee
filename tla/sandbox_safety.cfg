SPECIFICATION SandboxSpec
CONSTANTS
  o1 = o1
  o2 = o2
  q1 = q1
  q2 = q2
  None = None
  Opens = {o1, o2}
  Queries = {q1, q2}
  MaxCrashes = 1
  Tables = {1, 2, 3}
  Objects = {11, 12, 13}
  MaxDepth = 2
  Schemas <- MCSchemas
  Levels = {0, 2}
  MaxEdits = 2
  MaxCalls = 3

INVARIANTS OneQueryPerHost RegistryIsLive ToldMeansClosed TornBlobIsCaught OnlyOverlapLeaksHosts SandboxIsOfTheDraft
PROPERTY EveryCallSettles
