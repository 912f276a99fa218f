SPECIFICATION FairSpec
CONSTANTS
  Processes = {p1}
  Gateways = {p1}
  Tasks = {t1, t2, t3}
  MaxConcurrent = 1
  MaxPending = 2
  MaxStarts = 2
  Nobody = Nobody
\* A process may have nothing left to do.
CHECK_DEADLOCK FALSE
INVARIANTS
  EndsAreToldOnce
PROPERTIES
  EndIsFinal
  EveryEndIsTold
