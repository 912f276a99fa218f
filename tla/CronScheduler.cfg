SPECIFICATION FairSpec
CONSTANTS
  Workers = {w1, w2}
  Editors = {}
  Jobs = {daily}
  Once = {}
  Rare = {}
  Scheduled = {daily}
  MaxNow = 2
  MaxRuns = 4
  MaxCrashes = 1
  Nobody = Nobody
INVARIANTS
  RunsOncePerSlot
  DeliveredExactly
PROPERTIES
  EveryJobIsTold
