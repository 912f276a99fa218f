SPECIFICATION OutboxFairSpec
CONSTANTS
  Deliveries = {r1, r2}
  Drainers = {d1, d2}
  MaxAttempts = 2
  ClaimLimit = 2
  StoreMayFail = TRUE
  MaxRestarts = 2
  MaxRequeues = 1
  NoText = NoText
INVARIANTS
  OneHolder
PROPERTIES
  DeliveredIsFinal
  EveryTextIsSettled
\* A gateway with nothing left to send stops.
CHECK_DEADLOCK FALSE
