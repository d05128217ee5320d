\* Plans of three steps with up to two replans; two skills that are registered
\* anew and refined while they run; a run of each strategy; three calls of
\* generate with three requests, two providers and entries that expire.
SPECIFICATION FairAllSpec
CONSTANTS
  None = None
  Skill <- Two
  Bodies <- TwoBodies
  MaxRegisters = 4
  MaxRefines = 1
  MaxCalls = 1
  MaxVisits = 4
  Planned = 3
  MaxReplans = 2
  MaxRecovery <- TwoThenOne
  MaxTotal = 6
  DefaultStrategy = None
  MaxSteps = 4
  SearchDepth = 2
  BeamWidth = 3
  LLMCallLimits = {3, 5}
  MaxToolCalls = 3
  MaxTokens = 6
  Call = {c1, c2, c3}
  Request = {"plain", "asked", "preset"}
  Messages <- OneMessage
  Given <- ThreeRequests
  Provider = {"p1", "p2"}
  MayExpire = TRUE
INVARIANTS
  CompositionIsAcyclic
  PlansAreSound
  AccountsHold
  AnswersAreRight
PROPERTIES
  EveryRunEnds
CHECK_DEADLOCK FALSE
