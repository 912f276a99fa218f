SPECIFICATION Spec
CONSTANTS
  Workers = {w1}
  Editors = {e1}
  Jobs = {once, daily, leap}
  Once = {once}
  Rare = {leap}
  Scheduled = {once}
  MaxNow = 2
  MaxRuns = 2
  MaxCrashes = 1
  Nobody = Nobody
INVARIANTS
  EditsAreKept
\* A rare job uses up MaxRuns.
CHECK_DEADLOCK FALSE
