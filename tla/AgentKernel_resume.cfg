\* Refutes InterruptedResumes.
SPECIFICATION FairSpec
CONSTANTS
  t1 = t1
  t2 = t2
  p1 = p1
  p2 = p2
  NoProc = NoProc
  Task <- TwoTasks
  Priority <- Mixed
  Proc <- TwoProcs
  Engine <- TwoProcs
  Memory = {p1}
  Exclusive = TRUE
PROPERTIES
  InterruptedResumes
CHECK_DEADLOCK FALSE
