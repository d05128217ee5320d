\* Two of every kind of call at a time, over one database or one directory.  The
\* same names do for the calls of different modules, so that few permutations do.
SPECIFICATION AllSpec
CONSTANTS
  Turn = {c1, c2, c3}
  Flush = {a1, a2}
  MaxArrays = 3
  NoArray = NoArray
  Subject = {"k1", "k2"}
  Object = {"o1", "o2"}
  Time = {1, 2}
  NewEpisodes <- Episodes
  NewFacts <- Facts
  Cycle = {a1, a2}
  Dream = {b1, b2}
  MaxRows = 3
  MaxCycles = 2
  BatchSize = 2
  AuditSize = 2
  Lesson = {l1, l2}
  Prompt = {"pa"}
  Analysis = {a1, a2}
  Proposal = {b1, b2}
  MaxTraces = 3
  MaxMutations = 3
  Recent = 2
  Upsert = {a1, a2}
  Candidate <- Candidates
  Merge = {b1, b2}
  Relate = {c1, c2}
  MaxCalls = 5
  MaxEntities = 2
  Removals = 1
  Process = {a1, a2}
  File = {f1, f2}
  Content = {v1, v2}
  Absent = Absent
  Torn = Torn
  Name = {n1}
  MaxArchives = 2
  Manager = {a1, a2}
  Key = {"system.logLevel", "logging.level", "llm.model"}
  SystemLevel = "system.logLevel"
  LoggingLevel = "logging.level"
  Value = {"v1", "v2"}
  Unset = "none"
  Upper <- Above
  Secret = {b1, b2}
  Garbled = Garbled
  MaxWrites = 4
INVARIANTS
  TurnsNeverLost
  FactsAreSound
  LearningIsOrdered
  GraphKeepsKnowledge
  RestoresFinishedSnapshots
  WritesSurvive
SYMMETRY Symmetry
CHECK_DEADLOCK FALSE
