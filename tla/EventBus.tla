----------------------------- MODULE EventBus ------------------------------
(***************************************************************************)
(* The event bus (packages/event-bus: event-bus.ts, the dispatcher and the *)
(* dead letter queue).  emit writes the event to the journal, calls every  *)
(* matching handler in the same turn of the event loop, up to the first    *)
(* await of each, and then waits until all of them have settled.           *)
(*                                                                         *)
(* A handler may itself emit.  When it does so before its first await, the *)
(* inner event is dispatched while the outer one is not dispatched yet:    *)
(* stack holds the emit calls that are on the JavaScript stack, and the    *)
(* steps that need the event loop wait until it is empty.  The order in    *)
(* which the handlers of one event are called follows the subscriptions;   *)
(* no property depends on it and the model leaves it open.                 *)
(*                                                                         *)
(* The events table is a set of rows: nobody reads the order in which they *)
(* were inserted.  A query and a replay sort by the timestamp of the row   *)
(* or by its id, a ULID, which begins with a time of its own (what a       *)
(* reader sees is in EventJournal).  emit reads the clock for both, one    *)
(* after the other; the clock of the machine is taken not to be set back.  *)
(* The dead letters are an array in memory and end with the process.       *)
(***************************************************************************)
EXTENDS EventPatterns, FiniteSets

CONSTANTS Emission,   \* the emit calls
          Handler,    \* the subscribed functions
          Pattern,    \* the patterns they subscribe with
          TypeOf,     \* the event type of each emission
          Moments,    \* the readings of the clock, in milliseconds
          MaxSubscribes  \* bounds the subscribe calls, for model checking

ASSUME BusAssumption ==
  MaxSubscribes \in Nat /\ Moments \subseteq Nat /\ 0 \in Moments

VARIABLES subs,       \* handlers: the subscribed pairs of pattern and handler
          subscribes, \* the number of subscribe calls so far
          journal,    \* the events table: the emissions that have a row
          reading,    \* the last reading of the clock
          born,       \* the time in the id of each emission
          stamp,      \* the timestamp of each emission
          stack,      \* the emit calls on the stack, the innermost last
          pc,         \* what each emit call does
          targets,    \* matchingHandlers of each emission
          call,       \* what became of each handler's call for each emission
          cause,      \* the handler call that emitted it, if any
          awaited,    \* the emissions whose emitting handler call awaits them
          dlq,        \* the dead letter queue, an array in memory
          delivered   \* the emissions each handler was called with, in order

rowVars == <<journal, reading, born, stamp>>
vars == <<subs, subscribes, rowVars, stack, pc, targets, call, cause, awaited,
          dlq, delivered>>

Nobody == <<>>

Init ==
  /\ subs = {}
  /\ subscribes = 0
  /\ journal = {}
  /\ reading = 0
  /\ born = [e \in Emission |-> 0]
  /\ stamp = [e \in Emission |-> 0]
  /\ stack = <<>>
  /\ pc = [e \in Emission |-> "new"]
  /\ targets = [e \in Emission |-> {}]
  /\ call = [e \in Emission |-> [h \in Handler |-> "none"]]
  /\ cause = [e \in Emission |-> Nobody]
  /\ awaited = {}
  /\ dlq = <<>>
  /\ delivered = [h \in Handler |-> <<>>]

\* findMatchingHandlers: a handler is found once, however many patterns match.
MatchingHandlers(type) == {s[2] : s \in {x \in subs : Matches(x[1], type)}}
-----------------------------------------------------------------------------
\* subscribe, and the function that it returns; handlers may call both.
Subscribe(p, h) ==
  /\ <<p, h>> \notin subs
  /\ subscribes < MaxSubscribes
  /\ subs' = subs \cup {<<p, h>>}
  /\ subscribes' = subscribes + 1
  /\ UNCHANGED <<rowVars, stack, pc, targets, call, cause, awaited, dlq,
                 delivered>>

Unsubscribe(p, h) ==
  /\ <<p, h>> \in subs
  /\ subs' = subs \ {<<p, h>>}
  /\ UNCHANGED <<subscribes, rowVars, stack, pc, targets, call, cause, awaited,
                 dlq, delivered>>

(***************************************************************************)
(* emit up to its first handler call: it takes its id and its timestamp,   *)
(* the journal swallows the errors of the database, and the matching       *)
(* handlers are those of this moment.                                      *)
(***************************************************************************)
Dispatch(e) ==
  /\ pc[e] = "new"
  /\ \E id, time \in Moments :
       /\ reading <= id /\ id <= time
       /\ born' = [born EXCEPT ![e] = id]
       /\ stamp' = [stamp EXCEPT ![e] = time]
       /\ reading' = time
  /\ journal' \in {journal, journal \cup {e}}
  /\ targets' = [targets EXCEPT ![e] = MatchingHandlers(TypeOf[e])]
  /\ stack' = Append(stack, e)
  /\ pc' = [pc EXCEPT ![e] = "dispatching"]

\* Code outside of the bus emits.
Emit(e) ==
  /\ stack = <<>>
  /\ Dispatch(e)
  /\ UNCHANGED <<subs, subscribes, call, cause, awaited, dlq, delivered>>

\* A handler call that has to wait for an emission before it can go on.
Blocked(d, h) ==
  \E e \in awaited : cause[e] = <<d, h>> /\ pc[e] # "returned"

\* A handler emits after its first await.
EmitLater(d, h, e) ==
  /\ stack = <<>>
  /\ call[d][h] = "pending" /\ ~Blocked(d, h)
  /\ Dispatch(e)
  /\ cause' = [cause EXCEPT ![e] = <<d, h>>]
  /\ awaited' \in {awaited, awaited \cup {e}}
  /\ UNCHANGED <<subs, subscribes, call, dlq, delivered>>

\* The next handler call of the innermost emit.
Uncalled(e) == {h \in targets[e] : call[e][h] = "none"}
Calls(e, h, outcome) ==
  /\ stack # <<>> /\ e = Last(stack)
  /\ h \in Uncalled(e)
  /\ call' = [call EXCEPT ![e][h] = outcome]
  /\ delivered' = [delivered EXCEPT ![h] = Append(@, e)]

\* The handler returns a promise (a value counts as a resolved one).
CallReturns(e, h) ==
  /\ Calls(e, h, "pending")
  /\ UNCHANGED <<subs, subscribes, rowVars, stack, pc, targets, cause, awaited,
                 dlq>>

\* Mutant of CallThrows: the error ends the dispatch of its event.
CallThrowsThrough(e, h) ==
  /\ Calls(e, h, "dead")
  /\ dlq' = Append(dlq, <<e, h>>)
  /\ stack' = Front(stack)
  /\ pc' = [pc EXCEPT ![e] = "awaiting"]
  /\ UNCHANGED <<subs, subscribes, rowVars, targets, cause, awaited>>

\* The handler throws before its first await.
CallThrows(e, h) ==
  /\ Calls(e, h, "dead")
  /\ dlq' = Append(dlq, <<e, h>>)
  /\ UNCHANGED <<subs, subscribes, rowVars, stack, pc, targets, cause, awaited>>

\* The handler emits before its first await.
CallEmits(e, h, d) ==
  /\ Calls(e, h, "pending")
  /\ Dispatch(d)
  /\ cause' = [cause EXCEPT ![d] = <<e, h>>]
  /\ awaited' \in {awaited, awaited \cup {d}}
  /\ UNCHANGED <<subs, subscribes, dlq>>

\* Mutant of EndDispatch: the row is written, and its timestamp taken, when the
\* handlers have been called.
EndDispatchStamps(e) ==
  /\ stack # <<>> /\ e = Last(stack)
  /\ Uncalled(e) = {}
  /\ stack' = Front(stack)
  /\ pc' = [pc EXCEPT ![e] = "awaiting"]
  /\ \E time \in Moments :
       reading <= time /\ reading' = time /\ stamp' = [stamp EXCEPT ![e] = time]
  /\ UNCHANGED <<subs, subscribes, journal, born, targets, call, cause, awaited,
                 dlq, delivered>>

\* Every handler has been called: emit awaits Promise.allSettled.
EndDispatch(e) ==
  /\ stack # <<>> /\ e = Last(stack)
  /\ Uncalled(e) = {}
  /\ stack' = Front(stack)
  /\ pc' = [pc EXCEPT ![e] = "awaiting"]
  /\ UNCHANGED <<subs, subscribes, rowVars, targets, call, cause, awaited, dlq,
                 delivered>>

Resolve(e, h) ==
  /\ stack = <<>>
  /\ call[e][h] = "pending" /\ ~Blocked(e, h)
  /\ call' = [call EXCEPT ![e][h] = "done"]
  /\ UNCHANGED <<subs, subscribes, rowVars, stack, pc, targets, cause, awaited,
                 dlq, delivered>>

\* Mutant of Reject: only errors of the emit's own turn are queued.
RejectUnseen(e, h) ==
  /\ stack = <<>>
  /\ call[e][h] = "pending" /\ ~Blocked(e, h)
  /\ call' = [call EXCEPT ![e][h] = "dead"]
  /\ UNCHANGED <<subs, subscribes, rowVars, stack, pc, targets, cause, awaited,
                 dlq, delivered>>

Reject(e, h) ==
  /\ stack = <<>>
  /\ call[e][h] = "pending" /\ ~Blocked(e, h)
  /\ call' = [call EXCEPT ![e][h] = "dead"]
  /\ dlq' = Append(dlq, <<e, h>>)
  /\ UNCHANGED <<subs, subscribes, rowVars, stack, pc, targets, cause, awaited,
                 delivered>>

\* Mutant of Return: it waits for every handler to succeed.
ReturnOnSuccess(e) ==
  /\ stack = <<>>
  /\ pc[e] = "awaiting"
  /\ \A h \in targets[e] : call[e][h] = "done"
  /\ pc' = [pc EXCEPT ![e] = "returned"]
  /\ UNCHANGED <<subs, subscribes, rowVars, stack, targets, call, cause,
                 awaited, dlq, delivered>>

Return(e) ==
  /\ stack = <<>>
  /\ pc[e] = "awaiting"
  /\ \A h \in Handler : call[e][h] # "pending"
  /\ pc' = [pc EXCEPT ![e] = "returned"]
  /\ UNCHANGED <<subs, subscribes, rowVars, stack, targets, call, cause,
                 awaited, dlq, delivered>>

DispatchStep(e) ==
  \/ \E h \in Handler : CallReturns(e, h) \/ CallThrows(e, h)
  \/ \E h \in Handler, d \in Emission : CallEmits(e, h, d)
  \/ EndDispatch(e)

Settle(e, h) == Resolve(e, h) \/ Reject(e, h)

Next ==
  \/ \E p \in Pattern, h \in Handler : Subscribe(p, h) \/ Unsubscribe(p, h)
  \/ \E e \in Emission :
       \/ Emit(e) \/ DispatchStep(e) \/ Return(e)
       \/ \E h \in Handler :
            Settle(e, h) \/ \E d \in Emission : EmitLater(e, h, d)

Spec == Init /\ [][Next]_vars

(***************************************************************************)
(* Code on the stack runs on and continuations run, and some handler call  *)
(* that can settle does, in the end: it is not for the bus to ensure.      *)
(***************************************************************************)
LoopFairness == WF_vars(\E e \in Emission : DispatchStep(e) \/ Return(e))
HandlerFairness ==
  WF_vars(\E e \in Emission, h \in Handler : Settle(e, h))

FairSpec == Spec /\ LoopFairness /\ HandlerFairness
-----------------------------------------------------------------------------
\* The type invariant: the domain of every variable of the bus.
TypeOK ==
  /\ subs \subseteq Pattern \X Handler
  /\ subscribes \in 0 .. MaxSubscribes
  /\ journal \subseteq Emission
  /\ reading \in Moments
  /\ born \in [Emission -> Moments]
  /\ stamp \in [Emission -> Moments]
  /\ stack \in Seq(Emission)
  /\ pc \in [Emission -> {"new", "dispatching", "awaiting", "returned"}]
  /\ targets \in [Emission -> SUBSET Handler]
  /\ call \in [Emission -> [Handler -> {"none", "pending", "done", "dead"}]]
  /\ cause \in [Emission -> {Nobody} \cup (Emission \X Handler)]
  /\ awaited \subseteq Emission
  /\ dlq \in Seq(Emission \X Handler)
  /\ delivered \in [Handler -> Seq(Emission)]

(***************************************************************************)
(* When emit returns, every handler that matched at the moment of the emit *)
(* has been called, exactly once, and has ended: one that throws or        *)
(* unsubscribes another does not keep the others from their event.         *)
(***************************************************************************)
ReturnedIsHandled ==
  \A e \in Emission : pc[e] = "returned" =>
    \A h \in Handler :
      /\ h \in targets[e] <=> call[e][h] \in {"done", "dead"}
      /\ Cardinality({i \in DOMAIN delivered[h] : delivered[h][i] = e})
           = IF h \in targets[e] THEN 1 ELSE 0

(***************************************************************************)
(* The dead letter queue holds every failed handler call, once, whether it *)
(* failed in the turn of the emit or later, and no other call.             *)
(***************************************************************************)
DeadLettersAreFailures ==
  \A e \in Emission, h \in Handler :
    Cardinality({i \in DOMAIN dlq : dlq[i] = <<e, h>>})
      = IF call[e][h] = "dead" THEN 1 ELSE 0

(***************************************************************************)
(* Whoever reads the rows by timestamp or by id sees an event before those *)
(* that its handlers emitted, in its dispatch or long after it, unless     *)
(* they are of one millisecond: then the order of the two is chance.       *)
(***************************************************************************)
CausesComeFirst ==
  \A e, d \in journal :
    cause[d] # Nobody /\ cause[d][1] = e =>
      stamp[e] <= stamp[d] /\ born[e] <= born[d]

\* What the bus keeps of its events and of their failures tells what happened.
RecordsAreTrue == DeadLettersAreFailures /\ CausesComeFirst

\* An emission whose handlers all settle, and the emissions they wait for
\* too, returns to its caller.
EmitReturns == \A e \in Emission : pc[e] = "dispatching" ~> pc[e] = "returned"
=============================================================================
