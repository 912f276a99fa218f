SPECIFICATION Spec
CONSTANTS
  p1 = p1  p2 = p2
  r1 = r1  r2 = r2
  c1 = c1  c2 = c2
  None = None
  Processes <- TwoProcesses
  Runs <- MCRuns
  Calls <- OneCall
  MaxIterations = 1
SYMMETRY Symmetry2
PROPERTIES
  VerdictIsFinal
  ImplementsSessionStore
\* A process may have no run left to start.
CHECK_DEADLOCK FALSE
