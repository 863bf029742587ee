SPECIFICATION Spec
CONSTANTS
  Starts = {c1, c2}
  Traces = {c2}
  Others = {c2, c3}
  None = None

INVARIANTS OrphansOnlyFromTraces EndedIsReleased
PROPERTY StartsAndStepsSettle
