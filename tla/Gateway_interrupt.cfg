\* Refutes InterruptTerminates.
SPECIFICATION GatewayFairSpec
CONSTANTS
  t1 = t1
  t2 = t2
  p1 = p1
  p2 = p2
  NoProc = NoProc
  Task <- TwoTasks
  Priority <- Mixed
  Proc <- TwoProcs
  Engine <- TwoProcs
  Server = {p1}
  Memory = {p1}
  Exclusive = TRUE
PROPERTY
  InterruptTerminates
CHECK_DEADLOCK FALSE
