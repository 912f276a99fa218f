SPECIFICATION FairSpec
CONSTANTS
  t1 = t1  t2 = t2  t3 = t3
  s1 = s1  s2 = s2
  w1 = w1  w2 = w2
  NoTask = NoTask
  Tasks <- MCTasks
  Sessions <- MCSessions
  SessionOf <- MCSessionOf
  Workers <- MCWorkers
\* A closed scheduler, or one nobody uses, stops.
CHECK_DEADLOCK FALSE
INVARIANTS
  DispatchIsSound
  DrainedMeansResolved
PROPERTIES
  DrainEnds
  ImplementsSerialExecutor
