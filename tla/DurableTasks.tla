---------------------------- MODULE DurableTasks ----------------------------
(***************************************************************************)
(* What the kernel promises about the tasks table: a row belongs to the    *)
(* process that accepted the task, which alone moves it from pending over  *)
(* executing to settled (completed, failed or cancelled), until it lets go *)
(* of the database or ends.  Recovery then turns the unfinished rows       *)
(* nobody holds back to pending, and no settled row is ever touched again. *)
(***************************************************************************)
CONSTANTS Task,   \* the tasks
          Proc,   \* the processes
          NoProc  \* the holder of a row that no process answers for

VARIABLES row,    \* each task's row: absent, pending, executing or settled
          holder  \* the process that answers for it

vars == <<row, holder>>

Init ==
  /\ row = [t \in Task |-> "absent"]
  /\ holder = [t \in Task |-> NoProc]

\* Process p accepts task t.
Accept(p, t) ==
  /\ row[t] = "absent"
  /\ row' = [row EXCEPT ![t] = "pending"]
  /\ holder' = [holder EXCEPT ![t] = p]

\* The holder of t begins to execute it.
Begin(t) ==
  /\ holder[t] # NoProc
  /\ row[t] = "pending"
  /\ row' = [row EXCEPT ![t] = "executing"]
  /\ UNCHANGED holder

(***************************************************************************)
(* The holder of every task in S settles it.  Only shutdown settles more   *)
(* than one, and only a task that cannot even begin settles when pending.  *)
(***************************************************************************)
Settle(S) ==
  /\ \A t \in S : holder[t] # NoProc /\ row[t] # "absent"
  /\ row' = [t \in Task |-> IF t \in S THEN "settled" ELSE row[t]]
  /\ UNCHANGED holder

\* Process p no longer answers for its rows: it is closing, or dead.
Release(p) ==
  /\ holder' = [t \in Task |-> IF holder[t] = p THEN NoProc ELSE holder[t]]
  /\ UNCHANGED row

\* A process that boots takes the unfinished rows back to pending.
Recover ==
  /\ \A t \in Task : holder[t] = NoProc
  /\ row' = [t \in Task |-> IF row[t] = "executing" THEN "pending" ELSE row[t]]
  /\ UNCHANGED holder

Next ==
  \/ \E p \in Proc, t \in Task : Accept(p, t)
  \/ \E t \in Task : Begin(t)
  \/ \E S \in SUBSET Task : Settle(S)
  \/ \E p \in Proc : Release(p)
  \/ Recover

Spec == Init /\ [][Next]_vars
=============================================================================
