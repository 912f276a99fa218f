SPECIFICATION MCSpec
CONSTANTS
  Chats = {"s1", "s2"}
  FirstChat = "s1"
  MaxTyped = 3
  Commands = {c1, c2, c3}
  MaxRunningTasks = 1
  MaxTasks = 2
  Children = 3
  NoRun = NoRun
  Servers <- ServerList
\* The threads end.
CHECK_DEADLOCK FALSE
INVARIANTS
  TurnsStayApart
  EveryProcessIsWatched
PROPERTIES
  ExitEnds
  ChildrenStop
  StopIsHeard
  EveryTurnEnds
