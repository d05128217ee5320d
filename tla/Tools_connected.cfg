\* Two calls over one connection whose server answers each up to twice in any
\* order, two connects to two servers with one execution under way, three
\* instances of a plugin with two unloads at once.
SPECIFICATION FairAllSpec
CONSTANTS
  Call = {c1, c2}
  MaxAnswers = 2
  Name <- Names
  Native <- Natives
  Exec = {e1}
  NoTool = NoTool
  Server <- Servers
  Prefix <- PrefixOf
  Offers <- Lists
  MaxClients = 2
  Plugin = {p1}
  Unload = {u1, u2}
  MaxInstances = 3
INVARIANTS
  AnswersBelong
  ToolsAreTrue
  ActiveIsRegistered
PROPERTY
  EveryCallSettles
CHECK_DEADLOCK FALSE
