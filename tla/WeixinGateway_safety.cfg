SPECIFICATION Spec
CONSTANTS
  s1 = s1  s2 = s2
  Count = 3
  Stops <- StopSecond
  Sessions <- MCSessions
  SessionOf <- OneConversation
  StoreMayFail = TRUE
  TurnMayRaise = TRUE
  DrainMayTimeOut = TRUE
  MaxRestarts = 1
INVARIANTS
  NothingIsDropped
PROPERTIES
  RunsOncePerLife
\* A gateway that is down, or has nothing left to handle, stops.
CHECK_DEADLOCK FALSE
