----------------------------- MODULE CronRunner -----------------------------
(***************************************************************************)
(* Cron triggers (scheduler/src/cron/cron-runner.ts): matchesCron and its  *)
(* fields, and the timer, an interval of one minute whose callback looks   *)
(* at the clock.  The event loop runs a callback at its time or later, and *)
(* the next interval begins when it runs, so what is lost once is never    *)
(* made up for.  Time is counted in parts of a minute.                     *)
(***************************************************************************)
EXTENDS Integers, Sequences

CONSTANTS PartsPerMinute,  \* the resolution of the clock
          MaxDelay,        \* the longest delay of a callback, in parts
          MaxMinutes       \* bounds the time that the model looks at

VARIABLES now,     \* the time
          due,     \* when the interval is over
          checked  \* the minutes that the callback looked at

vars == <<now, due, checked>>
-----------------------------------------------------------------------------
\* A field is the sequence of its comma-separated items; an item is a record
\* with its kind, the numbers from .. to that it names and the step written
\* after them.
Item(kind, from, to, step) ==
  [kind |-> kind, from |-> from, to |-> to, step |-> step]

\* One item: a step counts from zero, and one written after a range is lost
\* in parseInt.
MatchesItem(item, current) ==
  \/ item.kind = "any"
  \/ item.kind = "step" /\ item.step > 0 /\ current % item.step = 0
  \/ item.kind \in {"range", "exact"} /\ current \in item.from .. item.to

\* Mutant of MatchesCronField: the list is not split.
MatchesFirstItem(field, current) == MatchesItem(field[1], current)

\* A field that begins with a step is read as that step, whatever follows it.
MatchesCronField(field, current) ==
  IF field[1].kind = "step" THEN MatchesItem(field[1], current)
  ELSE \E i \in DOMAIN field : MatchesItem(field[i], current)

\* The fields and the date are functions on the five parts.
Parts == {"minute", "hour", "dayOfMonth", "month", "dayOfWeek"}
MatchesCron(expression, date) ==
  \A part \in Parts : MatchesCronField(expression[part], date[part])
-----------------------------------------------------------------------------
Minute(time) == time \div PartsPerMinute

\* Mutant of Interval: half a minute.
HalfInterval == PartsPerMinute \div 2
Interval == PartsPerMinute

\* scheduleTrigger may be called at any part of a minute.
Init ==
  /\ now \in 0 .. PartsPerMinute - 1
  /\ due = now + Interval
  /\ checked = <<>>

Tick ==
  /\ now < due + MaxDelay
  /\ now < MaxMinutes * PartsPerMinute
  /\ now' = now + 1
  /\ UNCHANGED <<due, checked>>

\* The callback: matchesCron sees the minute of the moment it runs at.
Callback ==
  /\ now >= due
  /\ checked' = Append(checked, Minute(now))
  /\ due' = now + Interval
  /\ UNCHANGED now

Next == Tick \/ Callback
Spec == Init /\ [][Next]_vars

\* The type invariant: times are counted from the start of the clock.
TypeOK == now \in Nat /\ due \in Nat /\ checked \in Seq(Nat)
-----------------------------------------------------------------------------
\* No minute is looked at twice: a trigger does not fire twice in a minute
\* that its expression names.
NoMinuteTwice ==
  \A i, j \in DOMAIN checked : i # j => checked[i] # checked[j]
=============================================================================
