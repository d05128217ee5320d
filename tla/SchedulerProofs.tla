-------------------------- MODULE SchedulerProofs --------------------------
(***************************************************************************)
(* Proofs about what starts work without being asked: the triggers of the  *)
(* scheduler, for every set of triggers and every number of firings.       *)
(***************************************************************************)
EXTENDS Scheduler, FiniteSetTheorems, TLAPS

USE SchedulerAssumption

-----------------------------------------------------------------------------
(***************************************************************************)
(* The sources.  Only the steps that register, start and stop touch them;  *)
(* what a firing does after it began leaves them alone.                    *)
(***************************************************************************)
listening == <<running, registered, timers, watchers, debounces, subs, twice>>

SourceTypes ==
  /\ running \in BOOLEAN
  /\ registered \subseteq Trigger /\ twice \subseteq Trigger
  /\ subs \in [Trigger -> Nat]

\* ListensOnce, with its parts named.
HasSource(t) ==
  /\ Kind[t] = "timer" => t \in timers
  /\ Kind[t] = "file_watch" => t \in watchers
  /\ Kind[t] = "event_bus" => subs[t] > 0

Listens == running => \A t \in registered \cap Enabled : HasSource(t)
Silent == ~running => timers \cup watchers \cup debounces = {}
Once == \A t \in Trigger \ twice : subs[t] <= IF running THEN 1 ELSE 0
OfRegistered == timers \cup watchers \subseteq registered

SourceInv == SourceTypes /\ Listens /\ Silent /\ Once /\ OfRegistered

LEMMA SourcesListen == SourceInv => ListensOnce
<1> SUFFICES ASSUME SourceInv
             PROVE  ListensOnce
  OBVIOUS
<1>1. ASSUME running, NEW t \in registered \cap Enabled
      PROVE  CASE Kind[t] = "timer" -> t \in timers
               [] Kind[t] = "file_watch" -> t \in watchers
               [] Kind[t] = "event_bus" -> subs[t] > 0
               [] Kind[t] = "webhook" -> TRUE
  <2>1. /\ Kind[t] = "timer" => t \in timers
        /\ Kind[t] = "file_watch" => t \in watchers
        /\ Kind[t] = "event_bus" => subs[t] > 0
    BY <1>1 DEF SourceInv, Listens, HasSource
  <2>2. Kind[t] \in {"timer", "file_watch", "event_bus", "webhook"}
    BY DEF SourceInv, SourceTypes
  <2> QED
    BY <2>1, <2>2
<1> QED
  BY <1>1 DEF ListensOnce, SourceInv, Silent, Once, OfRegistered

LEMMA SourceInit == Init => SourceInv
<1> SUFFICES ASSUME Init
             PROVE  SourceInv
  OBVIOUS
<1>1. ~running /\ running = FALSE /\ subs = [t \in Trigger |-> 0]
  BY DEF Init
<1>2. SourceTypes
  <2>1. running \in BOOLEAN
    BY <1>1, Zenon
  <2>2. subs \in [Trigger -> Nat]
    BY <1>1
  <2> QED
    BY <2>1, <2>2 DEF Init, SourceTypes
<1>3. Once
  BY <1>1 DEF Once
<1> QED
  BY <1>1, <1>2, <1>3 DEF Init, SourceInv, Listens, Silent, OfRegistered

LEMMA SourceStep == SourceInv /\ [Next]_vars => SourceInv'
<1> SUFFICES ASSUME SourceInv, [Next]_vars
             PROVE  SourceInv'
  OBVIOUS
<1> USE DEF SourceInv, SourceTypes, Listens, Silent, Once, OfRegistered,
            HasSource
<1>1. ASSUME NEW t \in Trigger, Register(t)
      PROVE  SourceInv'
  <2>1. /\ running' = running /\ debounces' = debounces
        /\ registered' = registered \cup {t}
    BY <1>1 DEF Register
  <2>2. CASE running
    <3>1. /\ timers' = timers \cup ({t} \cap Live("timer"))
          /\ watchers' = watchers \cup ({t} \cap Live("file_watch"))
          /\ subs' = [subs EXCEPT ![t] =
                        IF t \in Live("event_bus") THEN subs[t] + 1 ELSE subs[t]]
          /\ twice' = IF subs'[t] > 1 THEN twice \cup {t} ELSE twice
      BY <1>1, <2>2 DEF Register
    <3>2. subs' \in [Trigger -> Nat]
      BY <3>1
    <3>3. SourceTypes' /\ Silent' /\ OfRegistered'
      BY <2>1, <2>2, <3>1, <3>2
    <3>4. Listens'
      BY <2>1, <2>2, <3>1 DEF Live
    <3>5. Once'
      BY <2>1, <2>2, <3>1
    <3> QED
      BY <3>3, <3>4, <3>5
  <2>3. CASE ~running
    <3>1. /\ timers' = timers /\ watchers' = watchers /\ subs' = subs
          /\ twice' = IF subs'[t] > 1 THEN twice \cup {t} ELSE twice
      BY <1>1, <2>3 DEF Register
    <3> QED
      BY <2>1, <2>3, <3>1
  <2> QED
    BY <2>2, <2>3
<1>2. ASSUME NEW t \in Trigger, Unregister(t)
      PROVE  SourceInv'
  BY <1>2 DEF Unregister
<1>3. CASE Start
  <2>1. /\ ~running /\ running' /\ running' = TRUE
        /\ timers' = registered \cap Live("timer")
        /\ watchers' = registered \cap Live("file_watch")
        /\ subs' = [t \in Trigger |->
                      IF t \in registered \cap Live("event_bus")
                      THEN subs[t] + 1 ELSE subs[t]]
        /\ registered' = registered /\ debounces' = debounces /\ twice' = twice
    BY <1>3 DEF Start, registry
  <2>2. subs' \in [Trigger -> Nat]
    BY <2>1
  <2>3. Listens'
    BY <2>1 DEF Live
  <2>4. Once'
    BY <2>1
  <2> QED
    BY <2>1, <2>2, <2>3, <2>4
<1>4. CASE Stop \/ Crash
  <2>1. /\ ~running' /\ running' = FALSE
        /\ timers' = {} /\ watchers' = {} /\ debounces' = {} /\ twice' = {}
        /\ subs' = [t \in Trigger |-> 0]
        /\ registered' \subseteq Trigger
    BY <1>4 DEF Stop, Crash, registry
  <2>2. Once'
    BY <2>1
  <2>3. running' \in BOOLEAN
    BY <2>1, Zenon
  <2>4. SourceTypes'
    <3>1. subs' \in [Trigger -> Nat]
      BY <2>1
    <3> QED
      BY <2>1, <2>3, <3>1
  <2> QED
    BY <2>1, <2>2, <2>4
<1>5. ASSUME NEW t \in Trigger, FileChanges(t) \/ DebounceEnds(t)
      PROVE  SourceInv'
  <2>1. /\ debounces' \subseteq debounces \cup {t}
        /\ FileChanges(t) => t \in watchers
        /\ UNCHANGED <<running, registered, timers, watchers, subs, twice>>
    BY <1>5 DEF FileChanges, DebounceEnds, registry
  <2>2. Silent'
    BY <1>5, <2>1 DEF FileChanges, DebounceEnds
  <2> QED
    BY <2>1, <2>2
<1>6. CASE UNCHANGED listening
  BY <1>6 DEF listening
<1>7. ASSUME NEW t \in Trigger, TimerDue(t) \/ BusEvent(t) \/ Webhook(t)
      PROVE  UNCHANGED listening
  BY <1>7 DEF TimerDue, BusEvent, Webhook, registry, sources, listening
<1>8. ASSUME NEW f \in Fire, Progress(f)
      PROVE  UNCHANGED listening
  BY <1>8 DEF Progress, GuardAllows, GuardRejects, Submits, TaskEnds,
              TaskReturns, registry, sources, listening
<1>9. CASE KernelShutsDown \/ UNCHANGED vars
  BY <1>6, <1>9 DEF KernelShutsDown, vars, registry, sources, listening
<1> QED
  BY <1>1, <1>2, <1>3, <1>4, <1>5, <1>6, <1>7, <1>8, <1>9 DEF Next

\* Every enabled trigger that is registered has its source while the
\* scheduler runs, once, and none is left when it is stopped.
THEOREM SourcesAreHeard == Spec => []ListensOnce
<1>1. SourceInv => ListensOnce
  BY SourcesListen
<1> QED
  BY <1>1, SourceInit, SourceStep, PTL DEF Spec

-----------------------------------------------------------------------------
(***************************************************************************)
(* The firings.  A call of fireTrigger that has not begun is new, one that *)
(* has belongs to a trigger, and the kernel has a task for it only from    *)
(* the moment it was submitted.                                            *)
(***************************************************************************)
FirePc == {"new", "guard", "announcing", "submitted", "skipped", "ended", "past"}

FireTypes ==
  /\ begun \in 0 .. MaxFires
  /\ fire \in [Fire ->
       [pc : FirePc, trigger : Trigger \cup {"none"}, beside : SUBSET Fire]]
  /\ task \in [Fire -> {"none", "active", "settled"}]
  /\ stats \in [Trigger -> [fired : Nat, last : Result]]
  /\ row \in [Trigger -> [fired : Int, last : Result]]
  /\ history \in [Fire -> Result]

CallInv ==
  \A f \in Fire :
    /\ fire[f].pc = "new" <=> f > begun
    /\ fire[f].pc # "new" => fire[f].trigger \in Trigger
    /\ fire[f].pc \in {"new", "guard", "announcing"} => task[f] = "none"
    /\ Active(f) => fire[f].pc = "submitted"
    /\ fire[f].pc # "past" => (history[f] # "none" <=> fire[f].pc = "ended")

\* The counted firings of a trigger, and those that have ended.
Counted(t) ==
  {f \in Fire : fire[f].trigger = t
                  /\ fire[f].pc \in {"announcing", "submitted", "ended"}}
EndedOf(t) == {f \in Fire : fire[f].trigger = t /\ fire[f].pc \in {"ended"}}

StatsInv == \A t \in Trigger : stats[t].fired = Cardinality(Counted(t))
RowInv ==
  \A t \in registered :
    /\ row[t].fired \in Cardinality(EndedOf(t)) .. stats[t].fired
    /\ row[t].last = stats[t].last

\* Two firings for the same work, and those whose work is announced or known
\* to the kernel.
SameWork(f, g) ==
  /\ f # g
  /\ fire[f].trigger \in Deduplicated /\ fire[g].trigger \in Deduplicated
  /\ Description[fire[f].trigger] = Description[fire[g].trigger]

Working(f) == fire[f].pc = "announcing" \/ Active(f)

BesideInv ==
  \A f, g \in Fire :
    SameWork(f, g) /\ Working(f) /\ Working(g) =>
      f \in fire[g].beside \/ g \in fire[f].beside

FiringInv ==
  SourceInv /\ FireTypes /\ CallInv /\ StatsInv /\ RowInv /\ BesideInv

\* The sets of firings are finite, and those that ended were counted.
Countable ==
  \A t \in Trigger :
    /\ IsFiniteSet(Counted(t)) /\ IsFiniteSet(EndedOf(t))
    /\ Cardinality(Counted(t)) \in Nat /\ Cardinality(EndedOf(t)) \in Nat
    /\ Cardinality(EndedOf(t)) <= Cardinality(Counted(t))

LEMMA FiringsAreCountable == Countable
<1> SUFFICES ASSUME NEW t \in Trigger
             PROVE  /\ IsFiniteSet(Counted(t)) /\ IsFiniteSet(EndedOf(t))
                    /\ Cardinality(Counted(t)) \in Nat
                    /\ Cardinality(EndedOf(t)) \in Nat
                    /\ Cardinality(EndedOf(t)) <= Cardinality(Counted(t))
  BY DEF Countable
<1>1. IsFiniteSet(Fire)
  BY FS_Interval DEF Fire
<1>2. Counted(t) \in SUBSET Fire /\ EndedOf(t) \in SUBSET Counted(t)
  BY DEF Counted, EndedOf
<1>3. IsFiniteSet(Counted(t))
  BY <1>1, <1>2, FS_Subset
<1>4. IsFiniteSet(EndedOf(t)) /\ Cardinality(EndedOf(t)) <= Cardinality(Counted(t))
  BY <1>2, <1>3, FS_Subset
<1> QED
  BY <1>3, <1>4, FS_CardinalityType

LEMMA FiringsAreRecorded == FiringInv => EveryFiringIsRecorded
<1> SUFFICES ASSUME FiringInv
             PROVE  EveryFiringIsRecorded
  OBVIOUS
<1>1. \A f \in Fire : fire[f].pc # "past" =>
        (history[f] # "none" <=> fire[f].pc = "ended")
  BY DEF FiringInv, CallInv
<1>2. ASSUME NEW t \in Trigger
      PROVE  /\ stats[t].fired = Cardinality(Counted(t))
             /\ t \in registered =>
                  /\ row[t].fired \in Cardinality(EndedOf(t)) .. stats[t].fired
                  /\ row[t].last = stats[t].last
  BY DEF FiringInv, StatsInv, RowInv
<1> QED
  BY <1>1, <1>2 DEF EveryFiringIsRecorded, Counted, EndedOf

LEMMA KnownWorkIsFound == FiringInv => OnlyAnnouncedWorkIsMissed
  BY DEF FiringInv, BesideInv, SameWork, Working, OnlyAnnouncedWorkIsMissed

LEMMA FiringInit == Init => FiringInv
<1> SUFFICES ASSUME Init
             PROVE  FiringInv
  OBVIOUS
<1>1. /\ fire = [f \in Fire |-> [pc |-> "new", trigger |-> "none", beside |-> {}]]
      /\ task = [f \in Fire |-> "none"] /\ history = [f \in Fire |-> "none"]
      /\ stats = [t \in Trigger |-> [fired |-> 0, last |-> "none"]]
      /\ row = [t \in Trigger |-> [fired |-> -1, last |-> "none"]]
      /\ begun = 0 /\ registered = {}
  BY DEF Init, NoStats, NoRow
<1>2. FireTypes
  <2>1. /\ stats \in [Trigger -> [fired : Nat, last : Result]]
        /\ row \in [Trigger -> [fired : Int, last : Result]]
    BY <1>1 DEF Result
  <2>2. /\ fire \in [Fire ->
             [pc : FirePc, trigger : Trigger \cup {"none"}, beside : SUBSET Fire]]
    BY <1>1 DEF FirePc
  <2> QED
    BY <1>1, <2>1, <2>2 DEF FireTypes, Result
<1>3. CallInv
  BY <1>1 DEF CallInv, Fire, Active
<1>4. StatsInv
  <2>1. \A t \in Trigger : Counted(t) = {}
    BY <1>1 DEF Counted
  <2> QED
    BY <1>1, <2>1, FS_EmptySet DEF StatsInv
<1>5. RowInv /\ BesideInv
  BY <1>1 DEF RowInv, BesideInv, Working, Active
<1> QED
  BY <1>2, <1>3, <1>4, <1>5, SourceInit DEF FiringInv

\* A step after which the same firings are counted and ended keeps the tallies.
LEMMA SameTally ==
  ASSUME FiringInv, UNCHANGED <<stats, row>>, registered' \subseteq registered,
         \A t \in Trigger : Counted(t)' = Counted(t) /\ EndedOf(t)' = EndedOf(t)
  PROVE  StatsInv' /\ RowInv'
<1>1. registered \subseteq Trigger
  BY DEF FiringInv, SourceInv, SourceTypes
<1>2. ASSUME NEW t \in Trigger
      PROVE  stats'[t].fired = Cardinality(Counted(t)')
  BY DEF FiringInv, StatsInv
<1>3. ASSUME NEW t \in registered'
      PROVE  /\ row'[t].fired \in Cardinality(EndedOf(t)') .. stats'[t].fired
             /\ row'[t].last = stats'[t].last
  BY <1>1 DEF FiringInv, RowInv
<1> QED
  BY <1>2, <1>3 DEF StatsInv, RowInv

\* The calls S go on, and begin if they are new; what they go on to is c.
GoesOn(S) ==
  /\ S \subseteq Fire
  /\ \A f \in S : fire[f].pc \in {"new", "guard"} /\ f <= begun'
  /\ begun' \in 0 .. MaxFires
  /\ \A f \in Fire \ S : f > begun' <=> f > begun
  /\ UNCHANGED <<task, history, row, registered>>

Moves(t, S, c, beside) == GoesOn(S) /\ Now(S, t, c, beside)

Moved(t, S, c, beside) ==
  /\ fire' \in [Fire ->
       [pc : FirePc, trigger : Trigger \cup {"none"}, beside : SUBSET Fire]]
  /\ begun' \in 0 .. MaxFires
  /\ \A f \in S : fire'[f] = [pc |-> c, trigger |-> t, beside |-> beside]
  /\ \A f \in Fire \ S : fire'[f] = fire[f]
  /\ \A x \in Trigger : EndedOf(x)' = EndedOf(x)
  /\ \A x \in Trigger \ {t} : Counted(x)' = Counted(x)
  /\ c # "announcing" => Counted(t)' = Counted(t)

LEMMA MovesKeep ==
  ASSUME FiringInv, NEW t \in Trigger, NEW S,
         NEW c \in {"guard", "announcing", "skipped"}, NEW beside \in SUBSET Fire,
         Moves(t, S, c, beside)
  PROVE  Moved(t, S, c, beside) /\ CallInv'
<1>0. FireTypes /\ CallInv
  BY DEF FiringInv
<1>1. /\ fire' = [f \in Fire |->
              IF f \in S THEN [pc |-> c, trigger |-> t, beside |-> beside]
              ELSE fire[f]]
      /\ begun' \in 0 .. MaxFires /\ S \subseteq Fire
      /\ task' = task /\ history' = history
      /\ \A f \in S : fire[f].pc \in {"new", "guard"} /\ f <= begun'
      /\ \A f \in Fire \ S : f > begun' <=> f > begun
  BY DEF Moves, GoesOn, Now
<1>2. /\ \A f \in S : fire'[f] = [pc |-> c, trigger |-> t, beside |-> beside]
      /\ \A f \in Fire \ S : fire'[f] = fire[f]
  BY <1>1
<1>3. fire' \in [Fire ->
        [pc : FirePc, trigger : Trigger \cup {"none"}, beside : SUBSET Fire]]
  BY <1>0, <1>1 DEF FireTypes, FirePc
<1>4. CallInv'
  <2> SUFFICES ASSUME NEW f \in Fire
               PROVE  /\ fire'[f].pc = "new" <=> f > begun'
                      /\ fire'[f].pc # "new" => fire'[f].trigger \in Trigger
                      /\ fire'[f].pc \in {"new", "guard", "announcing"} =>
                           task'[f] = "none"
                      /\ Active(f)' => fire'[f].pc = "submitted"
                      /\ fire'[f].pc # "past" =>
                           (history'[f] # "none" <=> fire'[f].pc = "ended")
    BY DEF CallInv
  <2>1. f \in Nat /\ begun' \in Nat
    BY <1>1 DEF Fire
  <2>2. CASE f \in S
    <3>1. /\ fire'[f].pc = c /\ fire'[f].trigger = t
          /\ fire[f].pc \in {"new", "guard"} /\ f <= begun'
      BY <1>1, <1>2, <2>2
    <3>2. task[f] = "none" /\ history[f] = "none"
      BY <1>0, <3>1 DEF CallInv
    <3> QED
      BY <1>1, <2>1, <3>1, <3>2 DEF Active
  <2>3. CASE f \notin S
    BY <1>0, <1>1, <1>2, <2>3 DEF CallInv, Active
  <2> QED
    BY <2>2, <2>3
<1>5. \A x \in Trigger : EndedOf(x)' = EndedOf(x)
  BY <1>1, <1>2 DEF EndedOf
<1>6. /\ \A x \in Trigger \ {t} : Counted(x)' = Counted(x)
      /\ c # "announcing" => Counted(t)' = Counted(t)
  BY <1>1, <1>2 DEF Counted
<1> QED
  BY <1>1, <1>2, <1>3, <1>4, <1>5, <1>6 DEF Moved

\* A firing that waits for its guard, or that found a duplicate.
LEMMA QuietMoveKeeps ==
  ASSUME FiringInv, NEW t \in Trigger, NEW S, NEW c \in {"guard", "skipped"},
         NEW beside \in SUBSET Fire, Moves(t, S, c, beside), UNCHANGED stats
  PROVE  FireTypes' /\ CallInv' /\ StatsInv' /\ RowInv' /\ BesideInv'
<1>0. FireTypes /\ BesideInv /\ CallInv
  BY DEF FiringInv
<1>1. /\ fire' \in [Fire ->
           [pc : FirePc, trigger : Trigger \cup {"none"}, beside : SUBSET Fire]]
      /\ begun' \in 0 .. MaxFires /\ CallInv'
      /\ \A f \in S : fire'[f] = [pc |-> c, trigger |-> t, beside |-> beside]
      /\ \A f \in Fire \ S : fire'[f] = fire[f]
      /\ \A x \in Trigger : Counted(x)' = Counted(x) /\ EndedOf(x)' = EndedOf(x)
  <2>1. c \in {"guard", "announcing", "skipped"}
    OBVIOUS
  <2>2. Moved(t, S, c, beside) /\ CallInv'
    BY <2>1, MovesKeep
  <2> QED
    BY <2>2 DEF Moved
<1>2. /\ UNCHANGED <<task, history, row, registered, stats>>
      /\ \A f \in S : fire[f].pc \in {"new", "guard"}
  BY DEF Moves, GoesOn
<1>3. FireTypes'
  BY <1>0, <1>1, <1>2 DEF FireTypes
<1>4. StatsInv' /\ RowInv'
  BY <1>1, <1>2, SameTally
<1>5. BesideInv'
  <2>1. ASSUME NEW f \in Fire, Working(f)'
        PROVE  fire'[f] = fire[f] /\ Working(f)
    <3>1. f \notin S
      BY <1>0, <1>1, <1>2, <2>1 DEF Working, Active, CallInv
    <3> QED
      BY <1>1, <1>2, <2>1, <3>1 DEF Working, Active
  <2> SUFFICES ASSUME NEW f \in Fire, NEW g \in Fire,
                      SameWork(f, g)', Working(f)', Working(g)'
               PROVE  f \in fire'[g].beside \/ g \in fire'[f].beside
    BY DEF BesideInv
  <2>2. /\ fire'[f] = fire[f] /\ Working(f)
        /\ fire'[g] = fire[g] /\ Working(g)
    BY <2>1
  <2>3. SameWork(f, g)
    BY <2>2 DEF SameWork
  <2> QED
    BY <1>0, <2>2, <2>3 DEF BesideInv
<1> QED
  BY <1>1, <1>3, <1>4, <1>5

\* A firing that is counted and announced: it has beside it whatever else is
\* being announced, and no task that the kernel knows of is for its work.
LEMMA AnnouncementKeeps ==
  ASSUME FiringInv, NEW t \in Trigger, NEW S, ~Duplicate(t),
         NEW beside \in SUBSET Fire, Moves(t, S, "announcing", beside),
         \A f \in Fire : f \in beside <=> f \in S \/ fire[f].pc = "announcing",
         stats' = [stats EXCEPT ![t].fired = @ + Cardinality(S)]
  PROVE  FireTypes' /\ CallInv' /\ StatsInv' /\ RowInv' /\ BesideInv'
<1>0. FireTypes /\ BesideInv /\ CallInv /\ StatsInv /\ RowInv
  BY DEF FiringInv
<1>1. /\ S \in SUBSET Fire
      /\ UNCHANGED <<task, history, row, registered>>
      /\ \A f \in S : fire[f].pc \in {"new", "guard"}
  BY DEF Moves, GoesOn
<1>2. /\ fire' \in [Fire ->
           [pc : FirePc, trigger : Trigger \cup {"none"}, beside : SUBSET Fire]]
      /\ begun' \in 0 .. MaxFires /\ CallInv'
      /\ \A f \in S : fire'[f] = [pc |-> "announcing", trigger |-> t,
                                  beside |-> beside]
      /\ \A f \in Fire \ S : fire'[f] = fire[f]
      /\ \A x \in Trigger : EndedOf(x)' = EndedOf(x)
      /\ \A x \in Trigger \ {t} : Counted(x)' = Counted(x)
  <2>1. Moved(t, S, "announcing", beside) /\ CallInv'
    BY MovesKeep
  <2> QED
    BY <2>1 DEF Moved
<1>3. IsFiniteSet(S) /\ Cardinality(S) \in Nat
  <2>1. IsFiniteSet(Fire)
    BY FS_Interval DEF Fire
  <2>2. IsFiniteSet(S)
    BY <1>1, <2>1, FS_Subset
  <2> QED
    BY <2>2, FS_CardinalityType
<1>4. Cardinality(Counted(t)') = Cardinality(Counted(t)) + Cardinality(S)
  <2>1. Counted(t)' = Counted(t) \cup S
    BY <1>1, <1>2 DEF Counted
  <2>2. Counted(t) \cap S = {}
    BY <1>1 DEF Counted
  <2>3. IsFiniteSet(Counted(t)) /\ Cardinality(Counted(t)) \in Nat
    BY FiringsAreCountable DEF Countable
  <2>4. Cardinality(Counted(t) \cup S) =
          Cardinality(Counted(t)) + Cardinality(S) - Cardinality(Counted(t) \cap S)
    BY <1>3, <2>3, FS_Union
  <2>5. Cardinality(Counted(t) \cap S) = 0
    BY <2>2, FS_EmptySet
  <2> QED
    BY <1>3, <2>1, <2>3, <2>4, <2>5
<1>5. /\ stats' \in [Trigger -> [fired : Nat, last : Result]]
      /\ stats'[t].fired = stats[t].fired + Cardinality(S)
      /\ \A x \in Trigger : stats'[x].last = stats[x].last
      /\ \A x \in Trigger \ {t} : stats'[x] = stats[x]
  BY <1>0, <1>3 DEF FireTypes
<1>6. FireTypes'
  BY <1>0, <1>1, <1>2, <1>5 DEF FireTypes
<1>7. StatsInv'
  BY <1>0, <1>2, <1>4, <1>5 DEF StatsInv
<1>8. RowInv'
  <2> SUFFICES ASSUME NEW x \in registered
               PROVE  /\ row'[x].fired \in Cardinality(EndedOf(x)') .. stats'[x].fired
                      /\ row'[x].last = stats'[x].last
    BY <1>1 DEF RowInv
  <2>1. x \in Trigger
    BY DEF FiringInv, SourceInv, SourceTypes
  <2>2. stats[x].fired \in Nat /\ stats[x].fired <= stats'[x].fired
    BY <1>0, <1>3, <1>5, <2>1 DEF FireTypes
  <2>3. stats'[x].fired \in Nat
    BY <1>5, <2>1
  <2>4. /\ row[x].fired \in Cardinality(EndedOf(x)) .. stats[x].fired
        /\ row[x].last = stats[x].last
    BY <1>0 DEF RowInv
  <2>5. Cardinality(EndedOf(x)) \in Nat
    BY <2>1, FiringsAreCountable DEF Countable
  <2> QED
    BY <1>1, <1>2, <1>5, <2>1, <2>2, <2>3, <2>4, <2>5
<1>9. BesideInv'
  <2> SUFFICES ASSUME NEW f \in Fire, NEW g \in Fire,
                      SameWork(f, g)', Working(f)', Working(g)'
               PROVE  f \in fire'[g].beside \/ g \in fire'[f].beside
    BY DEF BesideInv
  <2>1. ASSUME NEW x \in S, NEW y \in Fire \ S, SameWork(x, y)', Working(y)'
        PROVE  y \in fire'[x].beside
    <3>1. t \in Deduplicated /\ Description[fire[y].trigger] = Description[t]
      BY <1>2, <2>1 DEF SameWork
    <3>2. ~Active(y)
      BY <3>1 DEF Duplicate
    <3>3. fire[y].pc = "announcing"
      BY <1>1, <1>2, <2>1, <3>2 DEF Working, Active
    <3> QED
      BY <1>2, <3>3
  <2>2. CASE f \in S /\ g \in S
    BY <1>2, <2>2
  <2>3. CASE f \in S /\ g \notin S
    BY <2>1, <2>3
  <2>4. CASE f \notin S /\ g \in S
    <3>1. SameWork(g, f)'
      BY DEF SameWork
    <3> QED
      BY <2>1, <2>4, <3>1
  <2>5. CASE f \notin S /\ g \notin S
    <3>1. fire'[f] = fire[f] /\ fire'[g] = fire[g]
      BY <1>2, <2>5
    <3>2. SameWork(f, g) /\ Working(f) /\ Working(g)
      BY <1>1, <3>1 DEF SameWork, Working, Active
    <3> QED
      BY <1>0, <3>1, <3>2 DEF BesideInv
  <2> QED
    BY <2>2, <2>3, <2>4, <2>5
<1> QED
  BY <1>2, <1>6, <1>7, <1>8, <1>9

\* The common conclusion of the steps of fireTrigger.
KeepsFiring == FireTypes' /\ CallInv' /\ StatsInv' /\ RowInv' /\ BesideInv'

LEMMA PassOnKeeps ==
  ASSUME FiringInv, NEW t \in Trigger, NEW S, GoesOn(S), PassOn(t, S)
  PROVE  KeepsFiring
<1>1. CASE Duplicate(t)
  <2>1. Now(S, t, "skipped", {}) /\ UNCHANGED stats
    BY <1>1 DEF PassOn
  <2>2. PICK beside \in SUBSET Fire : beside = {}
    OBVIOUS
  <2>3. Moves(t, S, "skipped", beside)
    BY <2>1, <2>2 DEF Moves
  <2> QED
    BY <2>1, <2>3, QuietMoveKeeps DEF KeepsFiring
<1>2. CASE ~Duplicate(t)
  <2>1. /\ Now(S, t, "announcing", S \cup {f \in Fire : fire[f].pc = "announcing"})
        /\ stats' = [stats EXCEPT ![t].fired = @ + Cardinality(S)]
    BY <1>2 DEF PassOn
  <2>2. S \subseteq Fire
    BY DEF GoesOn
  <2>3. PICK beside \in SUBSET Fire :
          beside = S \cup {f \in Fire : fire[f].pc = "announcing"}
    BY <2>2
  <2>4. Moves(t, S, "announcing", beside)
    BY <2>1, <2>3 DEF Moves
  <2>5. \A f \in Fire : f \in beside <=> f \in S \/ fire[f].pc = "announcing"
    BY <2>3
  <2> QED
    BY <1>2, <2>1, <2>4, <2>5, AnnouncementKeeps DEF KeepsFiring
<1> QED
  BY <1>1, <1>2

\* A step that leaves the firings alone; rows are read of registered triggers.
LEMMA NoFiring ==
  ASSUME FiringInv, UNCHANGED <<begun, fire, task, stats, row, history>>,
         registered' \subseteq registered
  PROVE  KeepsFiring
<1>1. FireTypes' /\ CallInv' /\ BesideInv'
  BY DEF FiringInv, FireTypes, CallInv, BesideInv, SameWork, Working, Active
<1>2. \A t \in Trigger : Counted(t)' = Counted(t) /\ EndedOf(t)' = EndedOf(t)
  BY DEF Counted, EndedOf
<1>3. StatsInv' /\ RowInv'
  BY <1>2, SameTally
<1> QED
  BY <1>1, <1>3 DEF KeepsFiring

\* The first segment of n calls of fireTrigger.
LEMMA BeginsKeeps ==
  ASSUME FiringInv, NEW t \in Trigger, NEW n \in Nat, Begins(t, n),
         UNCHANGED <<task, history, row, registered>>
  PROVE  KeepsFiring
<1> DEFINE S == begun + 1 .. begun + n
<1>1. CASE t \notin registered \cap Enabled
  <2>1. UNCHANGED <<begun, fire, task, stats, row, history>>
    BY <1>1 DEF Begins
  <2> QED
    BY <2>1, NoFiring
<1>2. CASE t \in registered \cap Enabled
  <2>1. /\ begun + n <= MaxFires /\ begun' = begun + n
        /\ IF t \in Guarded
           THEN Now(S, t, "guard", {}) /\ UNCHANGED stats
           ELSE PassOn(t, S)
    BY <1>2 DEF Begins
  <2>2. begun \in 0 .. MaxFires /\ CallInv
    BY DEF FiringInv, FireTypes
  <2>3. GoesOn(S)
    <3>1. /\ S \subseteq Fire /\ begun' \in 0 .. MaxFires
          /\ \A f \in S : f > begun /\ f <= begun'
          /\ \A f \in Fire \ S : f > begun' <=> f > begun
      BY <2>1, <2>2 DEF Fire
    <3>2. \A f \in S : fire[f].pc = "new"
      BY <2>2, <3>1 DEF CallInv
    <3> QED
      BY <3>1, <3>2 DEF GoesOn
  <2> HIDE DEF S
  <2>4. CASE t \in Guarded
    <3>1. Now(S, t, "guard", {}) /\ UNCHANGED stats
      BY <2>1, <2>4
    <3>2. PICK beside \in SUBSET Fire : beside = {}
      OBVIOUS
    <3>3. Moves(t, S, "guard", beside)
      BY <2>3, <3>1, <3>2 DEF Moves
    <3> QED
      BY <3>1, <3>3, QuietMoveKeeps DEF KeepsFiring
  <2>5. CASE t \notin Guarded
    BY <2>1, <2>3, <2>5, PassOnKeeps
  <2> QED
    BY <2>4, <2>5
<1> QED
  BY <1>1, <1>2

\* A call goes from one place to another and takes its trigger along.
Steps(f, c) ==
  /\ fire' = [fire EXCEPT ![f].pc = c]
  /\ begun' = begun

LEMMA StepsKeep ==
  ASSUME FiringInv, NEW f \in Fire, fire[f].pc # "new",
         NEW c \in FirePc \ {"new", "guard", "announcing"}, Steps(f, c)
  PROVE  /\ fire' \in [Fire ->
              [pc : FirePc, trigger : Trigger \cup {"none"}, beside : SUBSET Fire]]
         /\ fire'[f].pc = c /\ fire[f].trigger \in Trigger
         /\ \A g \in Fire : /\ fire'[g].trigger = fire[g].trigger
                            /\ fire'[g].beside = fire[g].beside
                            /\ g # f => fire'[g].pc = fire[g].pc
  BY DEF FiringInv, FireTypes, CallInv, Steps

\* The guard rejects.
LEMMA RejectsKeeps ==
  ASSUME FiringInv, NEW f \in Fire, fire[f].pc = "guard", Steps(f, "skipped"),
         UNCHANGED <<task, stats, row, history, registered>>
  PROVE  KeepsFiring
<1>0. FireTypes /\ CallInv /\ BesideInv
  BY DEF FiringInv
<1>1. "skipped" \in FirePc \ {"new", "guard", "announcing"}
  BY DEF FirePc
<1>2. /\ fire' \in [Fire ->
           [pc : FirePc, trigger : Trigger \cup {"none"}, beside : SUBSET Fire]]
      /\ fire'[f].pc = "skipped" /\ fire[f].trigger \in Trigger
      /\ \A g \in Fire : /\ fire'[g].trigger = fire[g].trigger
                         /\ fire'[g].beside = fire[g].beside
                         /\ g # f => fire'[g].pc = fire[g].pc
      /\ begun' = begun
  BY <1>1, StepsKeep DEF Steps
<1>3. FireTypes'
  BY <1>0, <1>2 DEF FireTypes
<1>4. CallInv'
  BY <1>0, <1>2 DEF CallInv, Active
<1>5. \A t \in Trigger : Counted(t)' = Counted(t) /\ EndedOf(t)' = EndedOf(t)
  BY <1>2 DEF Counted, EndedOf
<1>6. BesideInv'
  BY <1>0, <1>2 DEF BesideInv, SameWork, Working, Active
<1> QED
  BY <1>3, <1>4, <1>5, <1>6, SameTally DEF KeepsFiring

\* The kernel accepts the task of an announced firing.
LEMMA SubmissionKeeps ==
  ASSUME FiringInv, NEW f \in Fire, fire[f].pc = "announcing",
         Steps(f, "submitted"), task' = [task EXCEPT ![f] = "active"],
         UNCHANGED <<stats, row, history, registered>>
  PROVE  KeepsFiring
<1>0. FireTypes /\ CallInv /\ BesideInv
  BY DEF FiringInv
<1>1. "submitted" \in FirePc \ {"new", "guard", "announcing"}
  BY DEF FirePc
<1>2. /\ fire' \in [Fire ->
           [pc : FirePc, trigger : Trigger \cup {"none"}, beside : SUBSET Fire]]
      /\ fire'[f].pc = "submitted" /\ fire[f].trigger \in Trigger
      /\ \A g \in Fire : /\ fire'[g].trigger = fire[g].trigger
                         /\ fire'[g].beside = fire[g].beside
                         /\ g # f => fire'[g].pc = fire[g].pc
      /\ begun' = begun
  BY <1>1, StepsKeep DEF Steps
<1>3. /\ task' \in [Fire -> {"none", "active", "settled"}]
      /\ \A g \in Fire : g # f => task'[g] = task[g]
  BY <1>0 DEF FireTypes
<1>4. FireTypes'
  BY <1>0, <1>2, <1>3 DEF FireTypes
<1>5. CallInv'
  BY <1>0, <1>2, <1>3 DEF CallInv, Active
<1>6. \A t \in Trigger : Counted(t)' = Counted(t) /\ EndedOf(t)' = EndedOf(t)
  BY <1>2 DEF Counted, EndedOf
<1>7. BesideInv'
  <2>1. \A g \in Fire : Working(g)' => Working(g)
    BY <1>2, <1>3 DEF Working, Active
  <2>2. \A g, h \in Fire : SameWork(g, h)' => SameWork(g, h)
    BY <1>2 DEF SameWork
  <2> QED
    BY <1>0, <1>2, <2>1, <2>2 DEF BesideInv
<1> QED
  BY <1>4, <1>5, <1>6, <1>7, SameTally DEF KeepsFiring

\* A result is recorded.
LEMMA RecordsKeeps ==
  ASSUME FiringInv, NEW f \in Fire, fire[f].pc \in {"announcing", "submitted"},
         ~Active(f), NEW result \in {"success", "failure"}, Records(f, result),
         UNCHANGED <<begun, task, registered>>
  PROVE  KeepsFiring
<1> DEFINE t == fire[f].trigger
<1>0. FireTypes /\ CallInv /\ BesideInv /\ StatsInv /\ RowInv
  BY DEF FiringInv
<1>1. Steps(f, "ended") /\ "ended" \in FirePc \ {"new", "guard", "announcing"}
  BY DEF Records, Steps, FirePc
<1>2. /\ fire' \in [Fire ->
           [pc : FirePc, trigger : Trigger \cup {"none"}, beside : SUBSET Fire]]
      /\ fire'[f].pc = "ended" /\ t \in Trigger
      /\ \A g \in Fire : /\ fire'[g].trigger = fire[g].trigger
                         /\ fire'[g].beside = fire[g].beside
                         /\ g # f => fire'[g].pc = fire[g].pc
      /\ begun' = begun
  BY <1>1, StepsKeep DEF Steps
<1>3. /\ history' = [history EXCEPT ![f] = result]
      /\ stats' = [stats EXCEPT ![t].last = result]
      /\ row' = [row EXCEPT ![t] = stats'[t]]
  BY DEF Records
<1> HIDE DEF t
<1>4. /\ history' \in [Fire -> Result] /\ history'[f] # "none"
      /\ \A g \in Fire : g # f => history'[g] = history[g]
  BY <1>0, <1>3 DEF FireTypes, Result
<1>5. /\ stats' \in [Trigger -> [fired : Nat, last : Result]]
      /\ \A x \in Trigger : stats'[x].fired = stats[x].fired
      /\ \A x \in Trigger : x # t => stats'[x] = stats[x]
  BY <1>0, <1>2, <1>3 DEF FireTypes, Result
<1>6. /\ row' \in [Trigger -> [fired : Int, last : Result]]
      /\ row'[t] = stats'[t]
      /\ \A x \in Trigger : x # t => row'[x] = row[x]
  BY <1>0, <1>2, <1>3, <1>5 DEF FireTypes
<1>7. FireTypes'
  BY <1>0, <1>2, <1>4, <1>5, <1>6 DEF FireTypes
<1>8. CallInv'
  BY <1>0, <1>2, <1>4 DEF CallInv, Active
<1>9. BesideInv'
  <2>1. \A g \in Fire : Working(g)' => Working(g)
    BY <1>2 DEF Working, Active
  <2>2. \A g, h \in Fire : SameWork(g, h)' => SameWork(g, h)
    BY <1>2 DEF SameWork
  <2> QED
    BY <1>0, <1>2, <2>1, <2>2 DEF BesideInv
<1>10. \A x \in Trigger : Counted(x)' = Counted(x)
  BY <1>2 DEF Counted
<1>11. \A x \in Trigger : x # t => EndedOf(x)' = EndedOf(x)
  BY <1>2 DEF EndedOf, t
<1>12. StatsInv'
  BY <1>0, <1>5, <1>10 DEF StatsInv
<1>13. RowInv'
  <2>0. Countable'
    BY FiringsAreCountable, PTL
  <2> SUFFICES ASSUME NEW x \in registered
               PROVE  /\ row'[x].fired \in Cardinality(EndedOf(x)') .. stats'[x].fired
                      /\ row'[x].last = stats'[x].last
    BY DEF RowInv
  <2>1. x \in Trigger
    BY DEF FiringInv, SourceInv, SourceTypes
  <2>2. CASE x = t
    <3>1. /\ Cardinality(EndedOf(x)') \in Nat
          /\ Cardinality(EndedOf(x)') <= Cardinality(Counted(x)')
      BY <2>0, <2>1 DEF Countable
    <3>2. stats'[x].fired = Cardinality(Counted(x)') /\ stats'[x].fired \in Nat
      BY <1>5, <1>12, <2>1 DEF StatsInv
    <3> QED
      BY <1>6, <2>2, <3>1, <3>2
  <2>3. CASE x # t
    BY <1>0, <1>5, <1>6, <1>11, <2>1, <2>3 DEF RowInv
  <2> QED
    BY <2>2, <2>3
<1> QED
  BY <1>7, <1>8, <1>9, <1>12, <1>13 DEF KeepsFiring

\* The kernel settles a task.
LEMMA SettlementKeeps ==
  ASSUME FiringInv, NEW f \in Fire, TaskEnds(f)
  PROVE  KeepsFiring
<1>0. FireTypes /\ CallInv /\ BesideInv
  BY DEF FiringInv
<1>1. /\ task' = [task EXCEPT ![f] = "settled"] /\ task[f] = "active"
      /\ UNCHANGED <<begun, fire, stats, row, history, registered>>
  BY DEF TaskEnds, Active, registry, durable
<1>2. /\ task' \in [Fire -> {"none", "active", "settled"}]
      /\ task'[f] = "settled"
      /\ \A g \in Fire : g # f => task'[g] = task[g]
  BY <1>0, <1>1 DEF FireTypes
<1>3. FireTypes'
  BY <1>0, <1>1, <1>2 DEF FireTypes
<1>4. CallInv'
  BY <1>0, <1>1, <1>2 DEF CallInv, Active
<1>5. BesideInv'
  BY <1>0, <1>1, <1>2 DEF BesideInv, SameWork, Working, Active
<1>6. \A t \in Trigger : Counted(t)' = Counted(t) /\ EndedOf(t)' = EndedOf(t)
  BY <1>1 DEF Counted, EndedOf
<1> QED
  BY <1>1, <1>3, <1>4, <1>5, <1>6, SameTally DEF KeepsFiring

\* A registration writes the row of its trigger.
LEMMA RegistrationKeeps ==
  ASSUME FiringInv, NEW t \in Trigger, Register(t)
  PROVE  KeepsFiring
<1>0. FireTypes /\ CallInv /\ BesideInv /\ StatsInv /\ RowInv
  BY DEF FiringInv
<1>1. /\ registered' = registered \cup {t}
      /\ row' = [row EXCEPT ![t] = stats[t]]
      /\ UNCHANGED <<begun, fire, task, stats, history>>
  BY DEF Register
<1>2. /\ row' \in [Trigger -> [fired : Int, last : Result]]
      /\ row'[t] = stats[t]
      /\ \A x \in Trigger : x # t => row'[x] = row[x]
  BY <1>0, <1>1 DEF FireTypes
<1>3. FireTypes' /\ CallInv' /\ BesideInv'
  BY <1>0, <1>1, <1>2
     DEF FireTypes, CallInv, BesideInv, SameWork, Working, Active
<1>4. \A x \in Trigger : Counted(x)' = Counted(x) /\ EndedOf(x)' = EndedOf(x)
  BY <1>1 DEF Counted, EndedOf
<1>5. StatsInv'
  BY <1>0, <1>1, <1>4 DEF StatsInv
<1>6. RowInv'
  <2> SUFFICES ASSUME NEW x \in registered'
               PROVE  /\ row'[x].fired \in Cardinality(EndedOf(x)') .. stats'[x].fired
                      /\ row'[x].last = stats'[x].last
    BY DEF RowInv
  <2>1. x \in Trigger /\ (x = t \/ x \in registered)
    BY <1>1 DEF FiringInv, SourceInv, SourceTypes
  <2>2. CASE x = t
    <3>1. /\ Cardinality(EndedOf(x)) \in Nat
          /\ Cardinality(EndedOf(x)) <= Cardinality(Counted(x))
      BY <2>1, FiringsAreCountable DEF Countable
    <3>2. stats[x].fired = Cardinality(Counted(x)) /\ stats[x].fired \in Nat
      BY <1>0, <2>1 DEF StatsInv, FireTypes
    <3> QED
      BY <1>1, <1>2, <1>4, <2>1, <2>2, <3>1, <3>2
  <2>3. CASE x # t
    BY <1>0, <1>1, <1>2, <1>4, <2>1, <2>3 DEF RowInv
  <2> QED
    BY <2>2, <2>3
<1> QED
  BY <1>3, <1>5, <1>6 DEF KeepsFiring

\* The process dies: its firings are past, and their rows are all that is left.
LEMMA CrashKeeps ==
  ASSUME FiringInv, Crash
  PROVE  KeepsFiring
<1>0. FireTypes /\ CallInv
  BY DEF FiringInv
<1>1. /\ fire' = [f \in Fire |->
              IF fire[f].pc = "new" THEN fire[f]
              ELSE [fire[f] EXCEPT !.pc = "past"]]
      /\ task' = [f \in Fire |-> "none"]
      /\ stats' = [t \in Trigger |-> [fired |-> 0, last |-> "none"]]
      /\ registered' = {} /\ UNCHANGED <<begun, row, history>>
  BY DEF Crash, NoStats, durable
<1>2. \A f \in Fire : /\ fire[f].pc = "new" => fire'[f] = fire[f]
                      /\ fire[f].pc # "new" => /\ fire'[f].pc = "past"
                                               /\ fire'[f].trigger = fire[f].trigger
  BY <1>0, <1>1 DEF FireTypes
<1>3. FireTypes'
  <2>1. fire' \in [Fire ->
          [pc : FirePc, trigger : Trigger \cup {"none"}, beside : SUBSET Fire]]
    <3> DEFINE R == [pc : FirePc, trigger : Trigger \cup {"none"},
                     beside : SUBSET Fire]
    <3>1. fire \in [Fire -> R] /\ "past" \in FirePc
      BY <1>0 DEF FireTypes, FirePc
    <3>2. \A r \in R : [r EXCEPT !.pc = "past"] \in R
      BY <3>1
    <3> HIDE DEF R
    <3> QED
      BY <1>1, <3>1, <3>2 DEF R
  <2>2. /\ stats' \in [Trigger -> [fired : Nat, last : Result]]
        /\ task' \in [Fire -> {"none", "active", "settled"}]
    BY <1>1 DEF Result
  <2> QED
    BY <1>0, <1>1, <2>1, <2>2 DEF FireTypes
<1>4. CallInv'
  BY <1>0, <1>1, <1>2 DEF CallInv, Active
<1>5. StatsInv'
  <2>1. \A t \in Trigger : Counted(t)' = {}
    BY <1>2 DEF Counted
  <2> QED
    BY <1>1, <2>1, FS_EmptySet DEF StatsInv
<1>6. RowInv' /\ BesideInv'
  BY <1>1, <1>2 DEF RowInv, BesideInv, Working, Active
<1> QED
  BY <1>3, <1>4, <1>5, <1>6 DEF KeepsFiring

LEMMA ProgressKeeps ==
  ASSUME FiringInv, NEW f \in Fire, Progress(f)
  PROVE  KeepsFiring
<1>0. FireTypes /\ CallInv
  BY DEF FiringInv
<1>1. CASE GuardAllows(f)
  <2>1. /\ fire[f].pc = "guard" /\ PassOn(fire[f].trigger, {f})
        /\ UNCHANGED <<begun, task, history, row, registered>>
    BY <1>1 DEF GuardAllows, registry, durable
  <2>2. fire[f].trigger \in Trigger
    BY <1>0, <2>1 DEF CallInv
  <2>3. ~(f > begun) /\ f \in Nat /\ begun \in Nat
    BY <1>0, <2>1 DEF CallInv, FireTypes, Fire
  <2>4. GoesOn({f})
    BY <1>0, <2>1, <2>3 DEF GoesOn, FireTypes
  <2> QED
    BY <2>1, <2>2, <2>4, PassOnKeeps
<1>2. CASE GuardRejects(f)
  <2>1. /\ fire[f].pc = "guard" /\ Steps(f, "skipped")
        /\ UNCHANGED <<task, stats, row, history, registered>>
    BY <1>2 DEF GuardRejects, Steps, registry, durable
  <2> QED
    BY <2>1, RejectsKeeps
<1>3. CASE Submits(f) /\ accepting
  <2>1. /\ fire[f].pc = "announcing" /\ Steps(f, "submitted")
        /\ task' = [task EXCEPT ![f] = "active"]
        /\ UNCHANGED <<stats, row, history, registered>>
    BY <1>3 DEF Submits, Steps, registry, durable
  <2> QED
    BY <2>1, SubmissionKeeps
<1>4. CASE Submits(f) /\ ~accepting
  <2>1. /\ fire[f].pc = "announcing" /\ Records(f, "failure")
        /\ UNCHANGED <<begun, task, registered>>
    BY <1>4 DEF Submits, registry
  <2>2. ~Active(f)
    BY <1>0, <2>1 DEF CallInv
  <2> QED
    BY <2>1, <2>2, RecordsKeeps
<1>5. CASE TaskEnds(f)
  BY <1>5, SettlementKeeps
<1>6. CASE TaskReturns(f)
  <2>1. /\ fire[f].pc = "submitted" /\ ~Active(f) /\ Records(f, "success")
        /\ UNCHANGED <<begun, task, registered>>
    BY <1>6 DEF TaskReturns, registry
  <2> QED
    BY <2>1, RecordsKeeps
<1> QED
  BY <1>1, <1>2, <1>3, <1>4, <1>5, <1>6 DEF Progress

LEMMA FiringStep == FiringInv /\ [Next]_vars => FiringInv'
<1> SUFFICES ASSUME FiringInv, [Next]_vars
             PROVE  FiringInv'
  OBVIOUS
<1>0. SourceInv'
  BY SourceStep DEF FiringInv
<1>1. ASSUME NEW t \in Trigger, Register(t)
      PROVE  KeepsFiring
  BY <1>1, RegistrationKeeps
<1>2. ASSUME NEW t \in Trigger, Unregister(t) \/ FileChanges(t)
      PROVE  KeepsFiring
  <2>1. /\ UNCHANGED <<begun, fire, task, stats, row, history>>
        /\ registered' \subseteq registered
    BY <1>2 DEF Unregister, FileChanges, registry, durable
  <2> QED
    BY <2>1, NoFiring
<1>3. ASSUME NEW t \in Trigger,
             TimerDue(t) \/ DebounceEnds(t) \/ BusEvent(t) \/ Webhook(t)
      PROVE  KeepsFiring
  <2>1. \E n \in Nat : Begins(t, n)
    <3>1. subs[t] \in Nat
      BY DEF FiringInv, SourceInv, SourceTypes
    <3> QED
      BY <1>3, <3>1 DEF TimerDue, DebounceEnds, BusEvent, Webhook
  <2>2. UNCHANGED <<task, history, row, registered>>
    BY <1>3 DEF TimerDue, DebounceEnds, BusEvent, Webhook, registry, durable
  <2> QED
    BY <2>1, <2>2, BeginsKeeps
<1>4. ASSUME NEW f \in Fire, Progress(f)
      PROVE  KeepsFiring
  BY <1>4, ProgressKeeps
<1>5. ASSUME Start \/ Stop \/ KernelShutsDown \/ UNCHANGED vars
      PROVE  KeepsFiring
  <2>1. /\ UNCHANGED <<begun, fire, task, stats, row, history>>
        /\ registered' \subseteq registered
    BY <1>5 DEF Start, Stop, KernelShutsDown, vars, registry, durable
  <2> QED
    BY <2>1, NoFiring
<1>6. ASSUME Crash
      PROVE  KeepsFiring
  BY <1>6, CrashKeeps
<1>7. KeepsFiring
  BY <1>1, <1>2, <1>3, <1>4, <1>5, <1>6 DEF Next
<1> QED
  BY <1>0, <1>7 DEF KeepsFiring, FiringInv

THEOREM FiringInvariant == Spec => []FiringInv
  BY FiringInit, FiringStep, PTL DEF Spec

\* Every firing that the process counted is under way or has its one row in
\* the history, and the schedules table follows within those under way.
THEOREM FiringsLeaveRows == Spec => []EveryFiringIsRecorded
  BY FiringInvariant, FiringsAreRecorded, PTL

\* Deduplication misses work only while it is being announced.
THEOREM DuplicatesAreFound == Spec => []OnlyAnnouncedWorkIsMissed
  BY FiringInvariant, KnownWorkIsFound, PTL
=============================================================================
