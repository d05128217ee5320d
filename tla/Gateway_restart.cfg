\* Two tasks and two processes that run one after the other, the first with the
\* servers of the gateway and a memory system; every task settles.
SPECIFICATION GatewayFairSpec
CONSTANTS
  t1 = t1
  t2 = t2
  p1 = p1
  p2 = p2
  NoProc = NoProc
  Task <- TwoTasks
  Priority <- Mixed
  Proc <- TwoProcs
  Engine <- TwoProcs
  Server = {p1}
  Memory = {p1}
  Exclusive = TRUE
INVARIANTS
  StateMatchesWork
  TasksAreToldTruly
  AnswersAreDurable
PROPERTIES
  ImplementsDurableTasks
  WaitsEnd
CHECK_DEADLOCK FALSE
