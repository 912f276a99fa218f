SPECIFICATION Spec
CONSTANTS
  Workers = {w1}
  Editors = {e1}
  Jobs = {once, daily}
  Once = {once}
  Rare = {}
  Scheduled = {once, daily}
  MaxNow = 2
  MaxRuns = 5
  MaxCrashes = 0
  Nobody = Nobody
INVARIANTS
  CancelDisables
