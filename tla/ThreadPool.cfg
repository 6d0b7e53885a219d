SPECIFICATION FairSpec
CONSTANTS
  w1 = w1
  w2 = w2
  w3 = w3
  c1 = c1
  c2 = c2
  t1 = t1
  t2 = t2
  t3 = t3
  Workers = {w1, w2, w3}
  QueueSize = 2
  Callers = {c1, c2}
  Creator = c1
  Destroyers = {c1, c2}
  Tasks = {t1, t2, t3}
  NoTask = NoTask
  Nobody = Nobody
INVARIANTS
  NoLostWakeup
  FreeIsSafe
  GracefulLosesNothing
  Inductive
PROPERTIES
  ImplementsTaskPool
  TasksAreExecuted
  DestroyReturns
CHECK_DEADLOCK FALSE
