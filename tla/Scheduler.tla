----------------------------- MODULE Scheduler -----------------------------
(***************************************************************************)
(* The scheduler (packages/scheduler: scheduler.ts, cron/cron-runner.ts,   *)
(* watchers/fs-watcher.ts, webhooks/webhook-handler.ts): triggers that     *)
(* turn timers, file changes, bus events and web requests into kernel      *)
(* tasks.                                                                  *)
(*                                                                         *)
(* Every call of fireTrigger is numbered.  It awaits the trigger's guard,  *)
(* the announcement on the event bus and the kernel's task, and anything   *)
(* else may happen during each wait.  Whether a cron expression matches is *)
(* CronRunner's matter; here a timer may be due at any time.  A caller who *)
(* registers a trigger again passes the same object, and the paths of a    *)
(* file trigger exist (those that do not are skipped by watchTrigger).     *)
(***************************************************************************)
EXTENDS Integers, FiniteSets

CONSTANTS Trigger,      \* the triggers that callers register
          Kind,         \* source.type; "timer" for interval and cron
          Enabled,      \* the triggers with enabled set
          Guarded,      \* the triggers that have a guard
          Deduplicated, \* the triggers with deduplicate set
          Description,  \* the description of each trigger's tasks
          MayCrash,     \* may the process die and start anew, once?
          MaxRegisters, \* bounds the calls of registerTrigger
          MaxFires,     \* bounds the calls of fireTrigger
          MaxSubs       \* bounds the subscriptions of one trigger

ASSUME SchedulerAssumption ==
  /\ Kind \in [Trigger -> {"timer", "file_watch", "event_bus", "webhook"}]
  /\ Enabled \subseteq Trigger /\ Guarded \subseteq Trigger
  /\ Deduplicated \subseteq Trigger
  /\ MayCrash \in BOOLEAN
  /\ MaxRegisters \in Nat /\ MaxFires \in Nat /\ MaxSubs \in Nat

Fire == 1 .. MaxFires

VARIABLES running,    \* isRunning of the scheduler and of its two runners
          registered, \* triggers
          timers,     \* the triggers with a timer in the cron runner
          watchers,   \* the triggers with a file watcher
          debounces,  \* the triggers with a debounce timer
          subs,       \* the live subscriptions of each trigger
          registers,  \* the calls of registerTrigger so far
          begun,      \* the calls of fireTrigger so far
          fire,       \* each call: its trigger, what it does, and the calls that
                      \*   were being announced when it was counted
          task,       \* the kernel's task of each call
          stats,      \* stats of each trigger object
          row,        \* stats_json in the schedules table
          history,    \* the result in each call's row of schedule_history
          accepting,  \* does the kernel accept tasks?
          crashed,    \* has the process died?
          twice       \* triggers registered while they had a subscription

registry == <<registered, registers>>
sources == <<timers, watchers, debounces, subs, twice>>
durable == <<row, history>>
vars == <<running, registry, sources, begun, fire, task, stats, durable,
          accepting, crashed>>

NoStats == [fired |-> 0, last |-> "none"]
NoRow == [fired |-> -1, last |-> "none"]

Init ==
  /\ running = FALSE
  /\ registered = {} /\ timers = {} /\ watchers = {} /\ debounces = {}
  /\ subs = [t \in Trigger |-> 0] /\ twice = {}
  /\ registers = 0 /\ begun = 0
  /\ fire = [f \in Fire |-> [pc |-> "new", trigger |-> "none", beside |-> {}]]
  /\ task = [f \in Fire |-> "none"]
  /\ stats = [t \in Trigger |-> NoStats]
  /\ row = [t \in Trigger |-> NoRow]
  /\ history = [f \in Fire |-> "none"]
  /\ accepting = TRUE /\ crashed = FALSE

Live(kind) == {t \in Enabled : Kind[t] = kind}
-----------------------------------------------------------------------------
(***************************************************************************)
(* Registration.  The timer and the watcher of a trigger are replaced; an  *)
(* event subscription is added to those it has.                            *)
(***************************************************************************)
Register(t) ==
  /\ registers < MaxRegisters
  /\ registers' = registers + 1
  /\ registered' = registered \cup {t}
  /\ row' = [row EXCEPT ![t] = stats[t]]
  /\ LET starts == IF running THEN {t} ELSE {} IN
     /\ timers' = timers \cup (starts \cap Live("timer"))
     /\ watchers' = watchers \cup (starts \cap Live("file_watch"))
     /\ subs' = [subs EXCEPT ![t] =
                   IF t \in starts \cap Live("event_bus") THEN @ + 1 ELSE @]
     /\ subs'[t] <= MaxSubs
     /\ twice' = IF subs'[t] > 1 THEN twice \cup {t} ELSE twice
  /\ UNCHANGED <<running, debounces, begun, fire, task, stats, history,
                 accepting, crashed>>

\* Neither the event subscriptions nor the debounce timers are removed.
Unregister(t) ==
  /\ t \in registered
  /\ timers' = timers \ {t}
  /\ watchers' = watchers \ {t}
  /\ registered' = registered \ {t}
  /\ UNCHANGED <<running, debounces, subs, twice, registers, begun, fire, task,
                 stats, durable, accepting, crashed>>

Start ==
  /\ ~running
  /\ running' = TRUE
  /\ timers' = registered \cap Live("timer")
  /\ watchers' = registered \cap Live("file_watch")
  /\ subs' = [t \in Trigger |->
                IF t \in registered \cap Live("event_bus") THEN subs[t] + 1
                ELSE subs[t]]
  /\ UNCHANGED <<registry, debounces, twice, begun, fire, task, stats, durable,
                 accepting, crashed>>

\* Mutant of Stop: the subscriptions stay.
StopKeepsSubscriptions ==
  /\ running
  /\ running' = FALSE
  /\ timers' = {} /\ watchers' = {} /\ debounces' = {}
  /\ UNCHANGED <<registry, subs, twice, begun, fire, task, stats, durable,
                 accepting, crashed>>

\* Calls of fireTrigger that have begun go on.
Stop ==
  /\ running
  /\ running' = FALSE
  /\ timers' = {} /\ watchers' = {} /\ debounces' = {}
  /\ subs' = [t \in Trigger |-> 0] /\ twice' = {}
  /\ UNCHANGED <<registry, begun, fire, task, stats, durable, accepting,
                 crashed>>
-----------------------------------------------------------------------------
Active(f) == task[f] = "active"

\* Mutant of Duplicate: only the trigger's own tasks are looked at.
DuplicateOfTrigger(t) ==
  /\ t \in Deduplicated
  /\ \E f \in Fire : Active(f) /\ fire[f].trigger = t

Duplicate(t) ==
  /\ t \in Deduplicated
  /\ \E f \in Fire : Active(f) /\ Description[fire[f].trigger] = Description[t]

\* The calls S of one trigger go on to pc.
Now(S, t, pc, beside) ==
  fire' = [f \in Fire |-> IF f \in S THEN [pc |-> pc, trigger |-> t, beside |-> beside]
                          ELSE fire[f]]

\* fireTrigger from the deduplication to the announcement, for the calls S.
PassOn(t, S) ==
  IF Duplicate(t)
  THEN /\ Now(S, t, "skipped", {})
       /\ UNCHANGED stats
  ELSE /\ Now(S, t, "announcing", S \cup {f \in Fire : fire[f].pc = "announcing"})
       /\ stats' = [stats EXCEPT ![t].fired = @ + Cardinality(S)]

(***************************************************************************)
(* n calls of fireTrigger begin in one turn of the event loop, each up to  *)
(* its first await; a trigger that is not registered or not enabled is     *)
(* left alone.                                                             *)
(***************************************************************************)
Begins(t, n) ==
  LET S == begun + 1 .. begun + n IN
  IF t \notin registered \cap Enabled
  THEN UNCHANGED <<begun, fire, stats>>
  ELSE /\ begun + n <= MaxFires
       /\ begun' = begun + n
       /\ IF t \in Guarded
          THEN Now(S, t, "guard", {}) /\ UNCHANGED stats
          ELSE PassOn(t, S)

TimerDue(t) ==
  /\ t \in timers
  /\ Begins(t, 1)
  /\ UNCHANGED <<running, registry, sources, task, durable, accepting,
                 crashed>>

\* A change of a watched file (re)starts the debounce timer.
FileChanges(t) ==
  /\ t \in watchers
  /\ debounces' = debounces \cup {t}
  /\ UNCHANGED <<running, registry, timers, watchers, subs, twice, begun, fire,
                 task, stats, durable, accepting, crashed>>

DebounceEnds(t) ==
  /\ t \in debounces
  /\ debounces' = debounces \ {t}
  /\ Begins(t, 1)
  /\ UNCHANGED <<running, registry, timers, watchers, subs, twice, task, durable,
                 accepting, crashed>>

\* An event of the trigger's type: the bus calls every subscribed handler.
BusEvent(t) ==
  /\ subs[t] > 0
  /\ Begins(t, subs[t])
  /\ UNCHANGED <<running, registry, sources, task, durable, accepting,
                 crashed>>

\* An authorized request; the scheduler answers it even when it is stopped.
Webhook(t) ==
  /\ t \in registered \cap Live("webhook")
  /\ Begins(t, 1)
  /\ UNCHANGED <<running, registry, sources, task, durable, accepting,
                 crashed>>

\* The guard's promise settles.
GuardAllows(f) ==
  /\ fire[f].pc = "guard"
  /\ PassOn(fire[f].trigger, {f})
  /\ UNCHANGED <<running, registry, sources, begun, task, durable, accepting,
                 crashed>>

GuardRejects(f) ==
  /\ fire[f].pc = "guard"
  /\ fire' = [fire EXCEPT ![f].pc = "skipped"]
  /\ UNCHANGED <<running, registry, sources, begun, task, stats, durable,
                 accepting, crashed>>

\* persistSchedule and recordScheduleHistory with the result of call f.
Records(f, result) ==
  LET t == fire[f].trigger IN
  /\ stats' = [stats EXCEPT ![t].last = result]
  /\ row' = [row EXCEPT ![t] = stats'[t]]
  /\ history' = [history EXCEPT ![f] = result]
  /\ fire' = [fire EXCEPT ![f].pc = "ended"]

\* Mutant of Submits: a refused task leaves no trace.
SubmitsOrGivesUp(f) ==
  /\ fire[f].pc = "announcing"
  /\ IF accepting
     THEN /\ task' = [task EXCEPT ![f] = "active"]
          /\ fire' = [fire EXCEPT ![f].pc = "submitted"]
     ELSE fire' = [fire EXCEPT ![f].pc = "skipped"] /\ UNCHANGED task
  /\ UNCHANGED <<running, registry, sources, begun, stats, durable, accepting,
                 crashed>>

\* The announcement was delivered: submitTask, which throws on a kernel that
\* is shutting down.
Submits(f) ==
  /\ fire[f].pc = "announcing"
  /\ IF accepting
     THEN /\ task' = [task EXCEPT ![f] = "active"]
          /\ fire' = [fire EXCEPT ![f].pc = "submitted"]
          /\ UNCHANGED <<stats, durable>>
     ELSE Records(f, "failure") /\ UNCHANGED task
  /\ UNCHANGED <<running, registry, sources, begun, accepting, crashed>>

\* The kernel settles the task, some time before submitTask returns it: it
\* is completed, failed or cancelled, which fireTrigger does not look at.
TaskEnds(f) ==
  /\ Active(f)
  /\ task' = [task EXCEPT ![f] = "settled"]
  /\ UNCHANGED <<running, registry, sources, begun, fire, stats, durable,
                 accepting, crashed>>

\* Mutant of TaskReturns: a kernel that shuts down forgets its callers.
TaskReturnsWhileUp(f) ==
  /\ accepting
  /\ fire[f].pc = "submitted" /\ ~Active(f)
  /\ Records(f, "success")
  /\ UNCHANGED <<running, registry, sources, begun, task, accepting, crashed>>

TaskReturns(f) ==
  /\ fire[f].pc = "submitted" /\ ~Active(f)
  /\ Records(f, "success")
  /\ UNCHANGED <<running, registry, sources, begun, task, accepting, crashed>>
-----------------------------------------------------------------------------
KernelShutsDown ==
  /\ accepting
  /\ accepting' = FALSE
  /\ UNCHANGED <<running, registry, sources, begun, fire, task, stats, durable,
                 crashed>>

\* The process dies and another one begins; only the database is left.
Crash ==
  /\ MayCrash /\ ~crashed
  /\ crashed' = TRUE
  /\ running' = FALSE
  /\ registered' = {} /\ timers' = {} /\ watchers' = {} /\ debounces' = {}
  /\ subs' = [t \in Trigger |-> 0] /\ twice' = {}
  /\ fire' = [f \in Fire |->
       IF fire[f].pc = "new" THEN fire[f] ELSE [fire[f] EXCEPT !.pc = "past"]]
  /\ task' = [f \in Fire |-> "none"]
  /\ stats' = [t \in Trigger |-> NoStats]
  /\ accepting' = TRUE
  /\ UNCHANGED <<registers, begun, durable>>

\* What fireTrigger and the kernel do on their own.
Progress(f) ==
  \/ GuardAllows(f) \/ GuardRejects(f)
  \/ Submits(f) \/ TaskEnds(f) \/ TaskReturns(f)

Next ==
  \/ \E t \in Trigger :
       \/ Register(t) \/ Unregister(t) \/ TimerDue(t) \/ FileChanges(t)
       \/ DebounceEnds(t) \/ BusEvent(t) \/ Webhook(t)
  \/ \E f \in Fire : Progress(f)
  \/ Start \/ Stop \/ KernelShutsDown \/ Crash

Spec == Init /\ [][Next]_vars

\* Guards, bus handlers and tasks settle; nobody has to fire a trigger.
FairSpec == Spec /\ WF_vars(\E f \in Fire : Progress(f))
-----------------------------------------------------------------------------
Result == {"none", "success", "failure"}

\* The type invariant: the domain of every variable of the scheduler.
TypeOK ==
  /\ running \in BOOLEAN /\ accepting \in BOOLEAN /\ crashed \in BOOLEAN
  /\ registered \subseteq Trigger
  /\ timers \subseteq Live("timer")
  /\ watchers \subseteq Live("file_watch") /\ debounces \subseteq Live("file_watch")
  /\ subs \in [Trigger -> 0 .. MaxSubs] /\ twice \subseteq Live("event_bus")
  /\ registers \in 0 .. MaxRegisters /\ begun \in 0 .. MaxFires
  /\ fire \in [Fire ->
       [pc : {"new", "guard", "announcing", "submitted", "skipped", "ended", "past"},
        trigger : Trigger \cup {"none"}, beside : SUBSET Fire]]
  /\ task \in [Fire -> {"none", "active", "settled"}]
  /\ stats \in [Trigger -> [fired : 0 .. MaxFires, last : Result]]
  /\ row \in [Trigger -> [fired : -1 .. MaxFires, last : Result]]
  /\ history \in [Fire -> Result]

(***************************************************************************)
(* A running scheduler listens to every enabled trigger that is registered,*)
(* and once (scheduler.ts:46-126): registering late, unregistering,        *)
(* stopping and starting again neither lose a source nor double it, and a  *)
(* stopped scheduler has none left.  The exception are triggers that were  *)
(* registered anew while the subscription of an earlier registration was   *)
(* left, which fire once for each.                                         *)
(***************************************************************************)
ListensOnce ==
  /\ running => \A t \in registered \cap Enabled :
       CASE Kind[t] = "timer" -> t \in timers
         [] Kind[t] = "file_watch" -> t \in watchers
         [] Kind[t] = "event_bus" -> subs[t] > 0
         [] Kind[t] = "webhook" -> TRUE
  /\ ~running => timers \cup watchers \cup debounces = {}
  /\ \A t \in Trigger \ twice : subs[t] <= IF running THEN 1 ELSE 0
  /\ timers \cup watchers \subseteq registered

(***************************************************************************)
(* Each counted firing of this process is under way, or has its one row in *)
(* the history, also when the kernel refused its task                      *)
(* (scheduler.ts:172-217).  The row of a registered trigger is never       *)
(* behind by more than the firings that are under way.                     *)
(***************************************************************************)
EveryFiringIsRecorded ==
  /\ \A t \in Trigger :
       LET Of(pcs) == Cardinality({f \in Fire : fire[f].trigger = t /\ fire[f].pc \in pcs})
       IN /\ stats[t].fired = Of({"announcing", "submitted", "ended"})
          /\ t \in registered =>
               /\ row[t].fired \in Of({"ended"}) .. stats[t].fired
               /\ row[t].last = stats[t].last
  /\ \A f \in Fire : fire[f].pc # "past" =>
       (history[f] # "none" <=> fire[f].pc = "ended")

(***************************************************************************)
(* Deduplicated triggers have the same work done twice at a time only when *)
(* one firing was being announced while the other looked for a duplicate   *)
(* (scheduler.ts:156-187): no task that the kernel knows of is missed,     *)
(* whichever trigger it is from.                                           *)
(***************************************************************************)
OnlyAnnouncedWorkIsMissed ==
  \A f, g \in {h \in Fire : Active(h) /\ fire[h].trigger \in Deduplicated} :
    f # g /\ Description[fire[f].trigger] = Description[fire[g].trigger] =>
      f \in fire[g].beside \/ g \in fire[f].beside

\* A firing that began comes to an end, if the process lives.
FiringEnds ==
  \A f \in Fire : fire[f].pc = "guard" \/ fire[f].pc = "announcing"
                    ~> fire[f].pc \in {"skipped", "ended", "past"}
-----------------------------------------------------------------------------
\* An instance for TLC: a trigger of each source, all for the same work.
Sources == {"timer", "file_watch", "event_bus", "webhook"}
ByName == [t \in Sources |-> t]
OneWork == [t \in Sources |-> "work"]
=============================================================================
