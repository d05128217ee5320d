---------------------------- MODULE EventJournal ---------------------------
(***************************************************************************)
(* Replaying the journal of the event bus                                  *)
(* (event-bus/src/persistence/event-journal.ts).  The id of an event is a  *)
(* ULID: the millisecond of the emit, then random bits, so two events of   *)
(* one millisecond are ordered by chance.  A replay selects the rows once, *)
(* in the order of their ids or timestamps, and awaits its handler for     *)
(* each of them while other code goes on emitting.                         *)
(***************************************************************************)
EXTENDS Integers, Sequences, FiniteSets, SequencesExt

CONSTANTS MaxClock,   \* bounds the milliseconds that pass
          MaxEvents,  \* bounds the events that are emitted
          Entropy     \* the random parts of a ULID

VARIABLES clock,     \* the time in milliseconds
          rows,      \* the events table: the id of each event, oldest first
          replay,    \* idle, running, finished or thrown
          from,      \* where the replay starts: an id, or a time alone
          plan,      \* the ids that were selected and are not replayed yet
          replayed,  \* the ids its handler has been called with
          known      \* the number of rows when the replay began

vars == <<clock, rows, replay, from, plan, replayed, known>>

Id == (0 .. MaxClock) \X Entropy

\* Ids by their first n parts: their time (1), or all of them (2).
Before(a, b, n) ==
  \E i \in 1 .. n : a[i] < b[i] /\ \A j \in 1 .. i - 1 : a[j] = b[j]

Init ==
  /\ clock = 0
  /\ rows = <<>>
  /\ replay = "idle"
  /\ from = <<>>
  /\ plan = <<>>
  /\ replayed = <<>>
  /\ known = 0
-----------------------------------------------------------------------------
Tick ==
  /\ clock < MaxClock
  /\ clock' = clock + 1
  /\ UNCHANGED <<rows, replay, from, plan, replayed, known>>

\* persist; the id is the primary key.
Persist(r) ==
  /\ Len(rows) < MaxEvents
  /\ ~Contains(rows, <<clock, r>>)
  /\ rows' = Append(rows, <<clock, r>>)
  /\ UNCHANGED <<clock, replay, from, plan, replayed, known>>

\* What a query that sorts by the first n parts may return.
InOrder(S, n) ==
  {s \in [1 .. Cardinality(S) -> S] :
     \A i, j \in 1 .. Cardinality(S) :
       i < j => s[i] # s[j] /\ ~Before(s[j], s[i], n)}

\* Mutant of ReplayFromId: no order.
ReplayUnordered(id) ==
  /\ replay = "idle"
  /\ from' = id
  /\ plan' \in InOrder({x \in ToSet(rows) : ~Before(x, id, 2)}, 0)
  /\ replay' = "running"
  /\ known' = Len(rows)
  /\ UNCHANGED <<clock, rows, replayed>>

\* replay of a 26 character string: an id.
ReplayFromId(id) ==
  /\ replay = "idle"
  /\ from' = id
  /\ plan' \in InOrder({x \in ToSet(rows) : ~Before(x, id, 2)}, 2)
  /\ replay' = "running"
  /\ known' = Len(rows)
  /\ UNCHANGED <<clock, rows, replayed>>

\* replay of anything else: a timestamp.  Equal timestamps have no order.
ReplayFromTime(time) ==
  /\ replay = "idle"
  /\ from' = <<time>>
  /\ plan' \in InOrder({x \in ToSet(rows) : x[1] >= time}, 1)
  /\ replay' = "running"
  /\ known' = Len(rows)
  /\ UNCHANGED <<clock, rows, replayed>>

\* The handler's promise is settled and the next row is its turn.
HandlerReturns ==
  /\ replay = "running" /\ plan # <<>>
  /\ replayed' = Append(replayed, Head(plan))
  /\ plan' = Tail(plan)
  /\ UNCHANGED <<clock, rows, replay, from, known>>

\* An error of the handler ends the replay.
HandlerThrows ==
  /\ replay = "running" /\ plan # <<>>
  /\ replayed' = Append(replayed, Head(plan))
  /\ replay' = "thrown"
  /\ UNCHANGED <<clock, rows, from, plan, known>>

Finish ==
  /\ replay = "running" /\ plan = <<>>
  /\ replay' = "finished"
  /\ UNCHANGED <<clock, rows, from, plan, replayed, known>>

Next ==
  \/ Tick \/ HandlerReturns \/ HandlerThrows \/ Finish
  \/ \E r \in Entropy : Persist(r)
  \/ \E i \in DOMAIN rows : ReplayFromId(rows[i])
  \/ \E time \in 0 .. MaxClock : ReplayFromTime(time)

Spec == Init /\ [][Next]_vars
-----------------------------------------------------------------------------
\* The type invariant: the domain of every variable of the journal.
TypeOK ==
  /\ clock \in 0 .. MaxClock
  /\ rows \in Seq(Id)
  /\ replay \in {"idle", "running", "finished", "thrown"}
  /\ from \in {<<>>} \cup {<<time>> : time \in 0 .. MaxClock} \cup Id
  /\ plan \in Seq(Id)
  /\ replayed \in Seq(Id)
  /\ known \in 0 .. MaxEvents

(***************************************************************************)
(* A finished replay showed its handler every event of a later millisecond *)
(* than the start that was in the journal when it began, each once and in  *)
(* the order of the milliseconds, and nothing older than the start,        *)
(* whatever was emitted while it waited for the handler.                   *)
(***************************************************************************)
ReplayIsComplete ==
  replay = "finished" =>
    /\ \A i \in 1 .. known :
         rows[i][1] > from[1] =>
           Cardinality({j \in DOMAIN replayed : replayed[j] = rows[i]}) = 1
    /\ \A i, j \in DOMAIN replayed : i < j => replayed[i][1] <= replayed[j][1]
    /\ \A j \in DOMAIN replayed : replayed[j][1] >= from[1]
=============================================================================
