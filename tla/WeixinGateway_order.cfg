SPECIFICATION FairSpec
CONSTANTS
  s1 = s1  s2 = s2
  Count = 3
  Stops <- NoStops
  Sessions <- MCSessions
  SessionOf <- FirstElsewhere
  StoreMayFail = FALSE
  TurnMayRaise = FALSE
  DrainMayTimeOut = FALSE
  MaxRestarts = 1
\* A gateway that is down, or has nothing left to handle, stops.
CHECK_DEADLOCK FALSE
INVARIANTS
  SilencedByNewer
PROPERTIES
  ConversationOrder
  EveryMessageSettles
