\* Plans of four steps, patterns of three segments, cron fields over 0 .. 3,
\* ten minutes of a timer, four events in three milliseconds, graphs of eight
\* relationships, three changes in three milliseconds, three facts and three
\* episodes of which two are read, at budgets that are spent at every point, event streams of four lines.
SPECIFICATION AllSpec
CONSTANTS
  MaxSteps = 4
  Segment = {"agent", "coder", "progress"}
  MaxLength = 3
  Hi = 3
  PartsPerMinute = 4
  MaxDelay = 2
  MaxMinutes = 10
  MaxClock = 2
  MaxEvents = 4
  Entropy = {1, 2}
  Depths = {0, 1, 2, 3}
  MaxChanges = 3
  PageSize = 2
  Budgets = {0, 4, 7, 9}
  MaxLines = 4
INVARIANTS
  SortsAgree
  TriggersMatchAsWritten
  ReplayIsComplete
  GraphAnswersAgree
  ContextFits
  BodiesAreRead
CHECK_DEADLOCK FALSE
