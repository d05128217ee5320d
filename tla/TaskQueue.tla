----------------------------- MODULE TaskQueue -----------------------------
(***************************************************************************)
(* The kernel's PriorityTaskQueue (queue/priority-task-queue.ts): an array *)
(* kept sorted by descending priority.  Array.prototype.sort is stable, so *)
(* pushing an element and sorting again puts it behind every element of    *)
(* the same or of a higher priority.                                       *)
(***************************************************************************)
EXTENDS Integers, Sequences, FiniteSets, SequencesExt

CONSTANTS Task,      \* the tasks (their ids)
          Priority   \* the priority a request gave each of them

ASSUME PriorityAssumption == Priority \in [Task -> Int]

Queued(q) == {q[i] : i \in DOMAIN q}

Sorted(q) == \A i, j \in DOMAIN q : i < j => Priority[q[i]] >= Priority[q[j]]

\* Nothing is queued twice.
Distinct(q) == \A i, j \in DOMAIN q : q[i] = q[j] => i = j

\* Where the stable sort by b.priority - a.priority puts a pushed task.
IsPosition(q, t, i) ==
  /\ \A j \in 1 .. i - 1 : Priority[q[j]] >= Priority[t]
  /\ \A j \in i .. Len(q) : Priority[q[j]] < Priority[t]

Enqueue(q, t) ==
  InsertAt(q, CHOOSE i \in 1 .. Len(q) + 1 : IsPosition(q, t, i), t)

\* indexOf and splice; a task that is not queued leaves the queue alone.
RemoveTask(q, t) ==
  IF t \in Queued(q)
  THEN RemoveAt(q, CHOOSE i \in DOMAIN q : q[i] = t)
  ELSE q
=============================================================================
