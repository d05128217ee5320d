--------------------------- MODULE GraphTraversal ---------------------------
(***************************************************************************)
(* The queries of the knowledge graph                                      *)
(* (knowledge-graph/src/queries/graph-traversal.ts).  An edge is a row of  *)
(* relationships [from, to, weight, active]; edges are walked both ways.   *)
(* The recursive query of SQLite yields every path that meets no entity    *)
(* twice; a path is a sequence of entities.  (The query looks for an id in *)
(* the text of the path, graph-traversal.ts:109 and 200, which finds just  *)
(* the entities on it: all ids are made by ulid and have one length, and   *)
(* no separator is a letter of theirs.)                                    *)
(***************************************************************************)
EXTENDS Integers, Sequences, SequencesExt, FiniteSetsExt

DepthCap == 10

Active(edges) == {r \in edges : r.active}
\* Mutant of OtherEnd: an edge is only walked from its source.
TargetEnd(r, e) == r.to

\* The other end of an edge, by the CASE of both queries.
OtherEnd(r, e) == IF r.from = e THEN r.to ELSE r.from
EdgesAt(edges, e) == {r \in Active(edges) : e \in {r.from, r.to}}

(***************************************************************************)
(* The rows of the recursion after depth steps: the paths from an entity   *)
(* with the edges they took.  A path that reached `target` goes no further.*)
(***************************************************************************)
Extended(row, r) ==
  LET next == OtherEnd(r, Last(row.path))
  IN IF next \in ToSet(row.path) THEN {}
     ELSE {[path |-> Append(row.path, next), weight |-> row.weight + r.weight]}
Steps(edges, rows, target) ==
  UNION {UNION {Extended(row, r) : r \in EdgesAt(edges, Last(row.path))} :
           row \in {x \in rows : Last(x.path) # target}}

Levels(edges, start, target, depth) ==
  LET level[d \in 0 .. depth] ==
        IF d = 0 THEN {[path |-> <<start>>, weight |-> 0]}
        ELSE Steps(edges, level[d - 1], target)
  IN level
Rows(edges, start, target, depth) ==
  UNION {Levels(edges, start, target, depth)[d] : d \in 0 .. depth}

Nowhere == -1
Bounded(depth) == IF depth < DepthCap THEN depth ELSE DepthCap

\* getSubgraph, which getNeighbors repeats: the active edges among entities.
Subgraph(edges, ids) == {r \in Active(edges) : {r.from, r.to} \subseteq ids}

(***************************************************************************)
(* getNeighbors: the entities that rows end at and the edges among them.   *)
(* (The list of the code names an entity once per path to it.)             *)
(***************************************************************************)
Neighbors(edges, center, depth) ==
  LET ids == {Last(row.path) : row \in Rows(edges, center, Nowhere, Bounded(depth))}
  IN IF depth <= 0 THEN [entities |-> {center}, relationships |-> {}]
     ELSE [entities |-> ids, relationships |-> Subgraph(edges, ids)]

Between(edges, a, b) == {r \in Active(edges) : {r.from, r.to} = {a, b}}
Lightest(edges) ==
  CHOOSE r \in edges : \A x \in edges : r.weight <= x.weight

\* The edges of a path, looked up again.
Along(edges, path) ==
  [i \in 1 .. Len(path) - 1 |-> Lightest(Between(edges, path[i], path[i + 1]))]

ComesFirst(a, b) == \/ Len(a.path) < Len(b.path)
                    \/ Len(a.path) = Len(b.path) /\ a.weight <= b.weight
NoPath == [path |-> <<>>, relationships |-> <<>>, weight |-> 0]

(***************************************************************************)
(* findPath: a row that ends at the target, of the least depth and then of *)
(* the least weight.                                                       *)
(***************************************************************************)
FindPath(edges, from, to, maxDepth) ==
  LET rows == {row \in Rows(edges, from, to, Bounded(maxDepth)) : Last(row.path) = to}
      best == CHOOSE row \in rows : \A x \in rows : ComesFirst(row, x)
  IN CASE from = to -> [path |-> <<from>>, relationships |-> <<>>, weight |-> 0]
       [] from # to /\ rows = {} -> NoPath
       [] OTHER -> [path |-> best.path, relationships |-> Along(edges, best.path),
                    weight |-> best.weight]
-----------------------------------------------------------------------------
(***************************************************************************)
(* getEntityAtTime.  An entity is its version: 0 as it was created, at     *)
(* time 0, and k after its k-th change, at time changed[k]; that change's  *)
(* row holds version k - 1.  The rows come latest first, but those of the  *)
(* same millisecond in the order of the index on (entity_id, changed_at    *)
(* DESC), which is that of their insertion; the last row wins.             *)
(***************************************************************************)
EntityAtTime(changed, timestamp) ==
  LET later == {k \in DOMAIN changed : changed[k] > timestamp}
      first == Min({changed[k] : k \in later})
  IN IF later = {} THEN Len(changed)
     ELSE Max({k \in later : changed[k] = first}) - 1
=============================================================================
