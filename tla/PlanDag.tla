------------------------------ MODULE PlanDag ------------------------------
(***************************************************************************)
(* The dependency graph of a plan (planner/src/decomposition): how         *)
(* goal-decomposer.ts makes the edges from what the model answers, and the *)
(* algorithms of dag-builder.ts.  Steps are their positions 1 .. n in the  *)
(* step list; an edge <<a, b>> says that b depends on a.  A repeated edge  *)
(* adds as much to an in-degree as it later takes away, so edges are a set *)
(* and every adjacency list is in the order of the step list.  Steps have  *)
(* ids of their own here; when the model answers with one id for two steps *)
(* (goal-decomposer.ts:57) the loop below counts one of them and the plan  *)
(* is refused as if it had a cycle.                                        *)
(***************************************************************************)
EXTENDS Integers, Sequences, FiniteSets, SequencesExt, FiniteSetsExt

Preds(edges, s) == {e[1] : e \in {x \in edges : x[2] = s}}

(***************************************************************************)
(* decompose: a reference that names no step, or the step itself, is       *)
(* dropped; a step without dependsOn is linked to the one before it when   *)
(* the strategy is sequential.                                             *)
(***************************************************************************)
NoList == {0}
Decompose(n, dependsOn, sequential) ==
  UNION {IF dependsOn[s] # NoList
         THEN {<<a, s>> : a \in (dependsOn[s] \cap 1 .. n) \ {s}}
         ELSE IF sequential /\ s > 1 THEN {<<s - 1, s>>} ELSE {} :
           s \in 1 .. n}

InDegree(n, edges) == [s \in 1 .. n |-> Cardinality(Preds(edges, s))]

\* The steps of S in the order of the step list.
InListOrder(S) ==
  CHOOSE q \in [1 .. Cardinality(S) -> S] :
    /\ ToSet(q) = S
    /\ \A i, j \in DOMAIN q : i < j => q[i] < q[j]

\* The steps whose last incoming edge goes away with u.
Freed(n, edges, degree, u) ==
  {v \in 1 .. n : <<u, v>> \in edges /\ degree[v] = 1}

\* Kahn's algorithm, the loop of validateDAG and topologicalSort: its state when
\* it begins, and after one more round.
KahnStart(n, edges) ==
  [degree |-> InDegree(n, edges),
   queue |-> InListOrder({s \in 1 .. n : InDegree(n, edges)[s] = 0}),
   sorted |-> <<>>]
KahnRound(n, edges, loop) ==
  LET u == Head(loop.queue) IN
  [degree |-> [v \in 1 .. n |->
                 loop.degree[v] - IF <<u, v>> \in edges THEN 1 ELSE 0],
   queue |-> Tail(loop.queue) \o InListOrder(Freed(n, edges, loop.degree, u)),
   sorted |-> Append(loop.sorted, u)]

\* No step is queued twice, so the queue is empty after n rounds at most.
Kahn(n, edges) ==
  LET kahn[k \in 0 .. n] ==
        IF k = 0 THEN KahnStart(n, edges)
        ELSE IF kahn[k - 1].queue = <<>> THEN kahn[k - 1]
        ELSE KahnRound(n, edges, kahn[k - 1])
  IN kahn
TopologicalSort(n, edges) == Kahn(n, edges)[n].sorted

\* Mutant of Validates: no look for longer cycles.
ValidatesEdges(n, edges) ==
  \A e \in edges : {e[1], e[2]} \subseteq 1 .. n /\ e[1] # e[2]

\* validateDAG does not throw.
Validates(n, edges) ==
  /\ \A e \in edges : {e[1], e[2]} \subseteq 1 .. n /\ e[1] # e[2]
  /\ Len(TopologicalSort(n, edges)) = n

\* The loop of topologicalLevelSort.  The next wave is of the steps whose last
\* incoming edge goes away with a step of this one.
FirstWave(n, edges) ==
  [degree |-> InDegree(n, edges),
   level |-> {s \in 1 .. n : InDegree(n, edges)[s] = 0}]
NextWave(n, edges, wave) ==
  LET Lower(v) == wave.degree[v] - Cardinality(Preds(edges, v) \cap wave.level)
  IN [degree |-> [v \in 1 .. n |-> Lower(v)],
      level |-> {v \in 1 .. n : wave.degree[v] > 0 /\ Lower(v) = 0}]

\* Every wave has a step that no other one has, so the waves end after n.
Waves(n, edges) ==
  LET waves[k \in 0 .. n] == IF k = 0 THEN FirstWave(n, edges)
                             ELSE NextWave(n, edges, waves[k - 1])
  IN waves
TopologicalLevelSort(n, edges) ==
  LET waves == Waves(n, edges)
      Ends == {k \in 0 .. n : waves[k].level = {}}
  IN [k \in 1 .. Min(Ends) |-> waves[k - 1].level]

\* getReadySteps among steps that are all pending.
ReadySteps(n, edges, done) ==
  {s \in 1 .. n \ done : Preds(edges, s) \subseteq done}
-----------------------------------------------------------------------------
\* The reference: a relation is acyclic when every set of steps that is not
\* empty has one that depends on no other one of them.
Acyclic(n, edges) ==
  \A S \in (SUBSET (1 .. n)) \ {{}} : \E s \in S : Preds(edges, s) \cap S = {}
=============================================================================
