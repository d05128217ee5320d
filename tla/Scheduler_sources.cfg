\* One trigger of every kind, registered, unregistered, started and stopped,
\* and a process that may die; guards, handlers and tasks settle.
SPECIFICATION FairSpec
CONSTANTS
  Trigger <- Sources
  Kind <- ByName
  Enabled = {"timer", "file_watch", "event_bus", "webhook"}
  Guarded = {"timer"}
  Deduplicated = {"timer", "event_bus"}
  Description <- OneWork
  MayCrash = TRUE
  MaxRegisters = 3
  MaxFires = 2
  MaxSubs = 2
INVARIANTS
  EveryFiringIsRecorded
  ListensOnce
  OnlyAnnouncedWorkIsMissed
PROPERTIES
  FiringEnds
CHECK_DEADLOCK FALSE
