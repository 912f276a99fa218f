SPECIFICATION Spec
CONSTANTS
  p1 = p1  p2 = p2
  r1 = r1  r2 = r2
  c1 = c1  c2 = c2
  None = None
  Processes <- OneProcess
  Runs <- MCRuns
  Calls <- TwoCalls
  MaxIterations = 1
SYMMETRY Symmetry1
INVARIANTS
  AtMostOnceEffect
  JournalIsAhead
  EndedRunsAreSettled
\* A process may have no run left to start.
CHECK_DEADLOCK FALSE
