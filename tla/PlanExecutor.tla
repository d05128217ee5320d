--------------------------- MODULE PlanExecutor ----------------------------
(***************************************************************************)
(* Executing a plan: executePlan (planner/src/execution/plan-executor.ts), *)
(* the replanning it falls back on (replanning/dynamic-replanner.ts) and   *)
(* getReadySteps (decomposition/dag-builder.ts).                           *)
(*                                                                         *)
(* Steps are numbered, the first ones by the plan; a recovery step takes   *)
(* the next number.  No step ever leaves the plan, so the steps are 1 ..   *)
(* total.  The steps of a ready batch run one after the other; the order   *)
(* is that of the step list in the code and open here.                     *)
(***************************************************************************)
EXTENDS Integers, FiniteSets

CONSTANTS Planned,     \* the number of steps of the plan as decomposed
          MaxReplans,  \* policy.maxReplans
          MaxRecovery, \* bounds the recovery steps that the model proposes in
                       \* the first replan, the second, ...
          MaxTotal     \* bounds the steps of a plan

Ids == 1 .. MaxTotal

VARIABLES total,      \* the steps of the current plan are 1 .. total
          deps,       \* plan.dependencies: <<a, b>> when b depends on a
          optional,   \* the steps that may be skipped
          stepState,  \* step.state
          done,       \* completedStepIds
          batch,      \* the ready steps that this round has not begun
          current,    \* the step whose task is in the kernel, or 0
          pc,         \* what executePlan does
          version,    \* plan.version
          asked,      \* the dependencies of the plan as decomposed
          repairs     \* the recovery steps that were put before each step

vars == <<total, deps, optional, stepState, done, batch, current, pc, version,
          asked, repairs>>

Steps == 1 .. total
Preds(D, s) == {d[1] : d \in {x \in D : x[2] = s}}

\* What DAGBuilder.validateDAG accepts (MCHelpers checks that it does).
IsDag(S, D) ==
  /\ D \subseteq S \X S
  /\ \A T \in (SUBSET S) \ {{}} : \E s \in T : Preds(D, s) \cap T = {}

Init ==
  /\ total = Planned
  /\ deps \in SUBSET (Steps \X Steps) /\ IsDag(Steps, deps)
  /\ optional \in SUBSET Steps
  /\ stepState = [s \in Ids |-> IF s \in Steps THEN "pending" ELSE "absent"]
  /\ done = {}
  /\ batch = {}
  /\ current = 0
  /\ pc = "choosing"
  /\ version = 1
  /\ asked = deps
  /\ repairs = [s \in Ids |-> {}]
-----------------------------------------------------------------------------
ReadySteps ==
  {s \in Steps \ done : stepState[s] = "pending" /\ Preds(deps, s) \subseteq done}

\* The loop condition and the search for ready steps; without one the call
\* throws FC_PLANNER_EXECUTION_DEADLOCK.
Choose ==
  /\ pc = "choosing"
  /\ batch' = IF Cardinality(done) < total THEN ReadySteps ELSE {}
  /\ pc' = IF Cardinality(done) >= total THEN "succeeded"
           ELSE IF ReadySteps = {} THEN "deadlocked" ELSE "batch"
  /\ UNCHANGED <<total, deps, optional, stepState, done, current, version,
                 asked, repairs>>

\* The next step of the batch is submitted to the kernel.
Submit(s) ==
  /\ pc = "batch"
  /\ s \in batch
  /\ batch' = batch \ {s}
  /\ current' = s
  /\ stepState' = [stepState EXCEPT ![s] = "executing"]
  /\ pc' = "running"
  /\ UNCHANGED <<total, deps, optional, done, version, asked, repairs>>

EndBatch ==
  /\ pc = "batch" /\ batch = {}
  /\ pc' = "choosing"
  /\ UNCHANGED <<total, deps, optional, stepState, done, batch, current,
                 version, asked, repairs>>

\* submitTask returned a task that is not failed and has no error: it was
\* completed, or cancelled when it had completed.
StepSucceeds ==
  /\ pc = "running"
  /\ stepState' = [stepState EXCEPT ![current] = "completed"]
  /\ done' = done \cup {current}
  /\ current' = 0
  /\ pc' = "batch"
  /\ UNCHANGED <<total, deps, optional, batch, version, asked, repairs>>

\* Mutant of StepSkipped: the skipped step does not count as done.
StepDropped ==
  /\ pc = "running"
  /\ current \in optional
  /\ stepState' = [stepState EXCEPT ![current] = "skipped"]
  /\ current' = 0
  /\ pc' = "batch"
  /\ UNCHANGED <<total, deps, optional, done, batch, version, asked, repairs>>

\* The task failed, or submitTask threw, and the step is optional.
StepSkipped ==
  /\ pc = "running"
  /\ current \in optional
  /\ stepState' = [stepState EXCEPT ![current] = "skipped"]
  /\ done' = done \cup {current}
  /\ current' = 0
  /\ pc' = "batch"
  /\ UNCHANGED <<total, deps, optional, batch, version, asked, repairs>>

\* It is not: replan is called and, within its budget, asks the model.
StepFails ==
  /\ pc = "running"
  /\ current \notin optional
  /\ stepState' = [stepState EXCEPT ![current] = "failed"]
  /\ pc' = IF version >= MaxReplans + 1 THEN "failed" ELSE "replanning"
  /\ UNCHANGED <<total, deps, optional, done, batch, current, version, asked,
                 repairs>>

\* Mutant of NewDeps: the recovery steps are not put before the failed step.
NewDepsBeside(failed, first, last) ==
  deps \cup {<<p, first>> : p \in Preds(deps, failed)}
       \cup {<<r, r + 1>> : r \in first .. last - 1}

(***************************************************************************)
(* The edges of the new plan, with the recovery steps first .. last:       *)
(* those between completed steps, the failed step's prerequisites before   *)
(* the first recovery step, the recovery steps in a chain and before the   *)
(* failed step, the failed step before its dependents, and the edges that  *)
(* have nothing to do with it and lead to a step that is not completed.    *)
(***************************************************************************)
NewDeps(failed, first, last) ==
  LET completed == {s \in Steps : stepState[s] = "completed"} IN
  {d \in deps : d[1] \in completed /\ d[2] \in completed}
    \cup {<<p, first>> : p \in Preds(deps, failed)}
    \cup {<<r, r + 1>> : r \in first .. last - 1}
    \cup {<<last, failed>>}
    \cup {d \in deps : d[1] = failed}
    \cup {d \in deps : failed \notin {d[1], d[2]} /\ d[2] \notin completed}

\* replan, with n recovery steps; what topologicalSort rejects is a failure.
Replan(n) ==
  LET last == total + n
      edges == NewDeps(current, total + 1, last)
  IN
  /\ pc = "replanning"
  /\ n <= MaxRecovery[version] /\ last \in Ids
  /\ IF IsDag(1 .. last, edges)
     THEN /\ total' = last
          /\ deps' = edges
          /\ stepState' = [s \in Ids |->
               IF s \notin 1 .. last \/ stepState[s] = "completed"
               THEN stepState[s] ELSE "pending"]
          /\ repairs' = [repairs EXCEPT ![current] = @ \cup (total + 1 .. last)]
          /\ version' = version + 1
          /\ pc' = "choosing"
     ELSE /\ pc' = "failed"
          /\ UNCHANGED <<total, deps, stepState, repairs, version>>
  /\ batch' = {}
  /\ current' = 0
  /\ UNCHANGED <<optional, done, asked>>

Advance ==
  \/ Choose \/ EndBatch \/ StepSucceeds \/ StepSkipped \/ StepFails
  \/ \E s \in Ids : Submit(s)
  \/ \E n \in Ids : Replan(n)

Ended == pc \in {"succeeded", "failed", "deadlocked"}
Next == Advance

Spec == Init /\ [][Next]_vars

\* Every awaited call settles: submitTask, the model and the event bus.
FairSpec == Spec /\ WF_vars(Advance)
-----------------------------------------------------------------------------
\* The type invariant: the domain of every variable of the executor.
TypeOK ==
  /\ total \in Ids
  /\ deps \subseteq Steps \X Steps
  /\ optional \subseteq Steps
  /\ stepState \in [Ids -> {"absent", "pending", "executing", "completed",
                            "failed", "skipped"}]
  /\ done \subseteq Steps
  /\ batch \subseteq Steps
  /\ current \in Steps \cup {0}
  /\ pc \in {"choosing", "batch", "running", "replanning", "succeeded",
             "failed", "deadlocked"}
  /\ version \in 1 .. MaxReplans + 1
  /\ asked \subseteq (1 .. Planned) \X (1 .. Planned)
  /\ repairs \in [Ids -> SUBSET Ids]

(***************************************************************************)
(* However often the plan was rebuilt, a step runs only after everything   *)
(* the decomposition put before it, and a step that failed only after the  *)
(* recovery steps that were put before it.  No step that is done runs once *)
(* more, although the states of the others are reset.                      *)
(***************************************************************************)
PrerequisitesFirst ==
  pc = "running" =>
    /\ Preds(asked, current) \cup repairs[current] \subseteq done
    /\ current \notin done

\* Rebuilding the plan never makes it cyclic and never leaves it without a
\* step to run: the deadlock error of executePlan cannot happen.
NeverDeadlocks == pc # "deadlocked" /\ IsDag(Steps, deps)

\* The plan fails only when the replans are used up.
FailsOnlyOnBudget == pc = "failed" => version = MaxReplans + 1
=============================================================================
