SPECIFICATION Spec
CONSTANTS
  None = None
  Wf = {a, b}
  Old = {a}
  Calls = {c1, c2}
  MaxOpens = 2
  MaxEdits = 1
  MaxClicks = 3
  MaxFailures = 1
SYMMETRY Places
CONSTRAINT NotCrossed
INVARIANTS
  CleanMeansStored
  DocumentInvariant
  ActiveShown
PROPERTIES
  RunsWhatIsShown
CHECK_DEADLOCK FALSE
