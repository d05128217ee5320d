\* Two tasks and two processes on one database at the same time; one has no
\* reasoning engine, the other a memory system and an engine that may hang.
SPECIFICATION HungSpec
CONSTANTS
  t1 = t1
  t2 = t2
  p1 = p1
  p2 = p2
  NoProc = NoProc
  Task <- TwoTasks
  Priority <- Mixed
  Proc <- TwoProcs
  Engine <- OneProc
  Memory = {p1}
  Exclusive = FALSE
INVARIANTS
  ReturnedIsDurable
  ListedOnce
PROPERTIES
  TerminalRowsStay
  ShutdownEnds
CHECK_DEADLOCK FALSE
