--------------------------- MODULE KnowledgeGraph ---------------------------
(***************************************************************************)
(* The tables of the knowledge graph and the operations that wait between  *)
(* reading and writing them: upsertEntities and upsertRelationships        *)
(* (knowledge-graph/src/knowledge-graph.ts), updateEntity and mergeEntities*)
(* (entities/entity-manager.ts), createRelationship and updateRelationship *)
(* (relationships/relationship-manager.ts).  A foreign key that has no row *)
(* makes a statement throw, and deleting an entity deletes its             *)
(* relationships and its history (migrations/scripts/index.ts:248-268).    *)
(* Entities are of one type and relationships of one type.  The facts of   *)
(* an entity are its properties, each a key with a value, and its memory   *)
(* ids, each a key of its own.  Its description, confidence and embedding  *)
(* and the properties and the weight of a relationship are left out: the   *)
(* last write counts for them.                                             *)
(***************************************************************************)
EXTENDS Naturals, FiniteSets, FiniteSetsExt

CONSTANTS Upsert, Candidate,  \* calls of upsertEntities, and what they may bring
          Merge, Relate,      \* calls of mergeEntities and upsertRelationships
          MaxCalls,           \* bounds how many of these calls are ever made
          MaxEntities,        \* bounds the entities that are ever created
          Removals            \* bounds the deletions by callers

VARIABLES entities,   \* the rows of entities by their id
          rels,       \* the rows of relationships by their id
          history,    \* the rows of entity_history
          born,       \* how many entities were created
          removed,    \* how many deletions callers made
          upserts, merges, relates, \* where each call is and what it has read
          known,      \* ghost: the facts of the upserts that returned
          exposed,    \* ghost: the facts of calls that overlapped, and those
                      \*   for whose key another value came to count
          fresh,      \* ghost: relationships written since a merge repointed
          orphaned    \* ghost: relationships that the end of a merge deleted

tables == <<entities, rels, history, born, removed>>
calls == <<upserts, merges, relates>>
ghosts == <<known, exposed, fresh, orphaned>>
vars == <<tables, calls, ghosts>>

EntityId == 1 .. MaxEntities
RelId == Relate          \* a call creates at most one relationship
Missing == 0             \* no entity
\* What a call has not read yet.
NoRow == [name |-> "", aliases |-> {}, facts |-> {}]
NoEnds == [from |-> Missing, to |-> Missing, active |-> FALSE]
Fresh == [pc |-> "new"]
Done == [pc |-> "done"]
Busy(c) == c.pc \notin {"new", "done"}
MayBegin ==
  Cardinality({u \in Upsert : upserts[u] # Fresh})
    + Cardinality({m \in Merge : merges[m] # Fresh})
    + Cardinality({r \in Relate : relates[r] # Fresh}) < MaxCalls

\* { ...old, ...new }, and what of the old facts it replaces.
Spread(old, new) == {f \in old : \A g \in new : g.key # f.key} \cup new
Replaced(old, new) == {f \in old : \E g \in new : g.key = f.key /\ g # f}

Exists(e) == e \in DOMAIN entities
NamesOf(row) == {row.name} \cup row.aliases

Init ==
  /\ entities = [e \in {} |-> 0] /\ rels = [r \in {} |-> 0]
  /\ history = {} /\ born = 0 /\ removed = 0
  /\ upserts = [u \in Upsert |-> Fresh]
  /\ merges = [m \in Merge |-> Fresh]
  /\ relates = [r \in Relate |-> Fresh]
  /\ known = {} /\ exposed = {} /\ fresh = {} /\ orphaned = {}

(***************************************************************************)
(* What the calls under way put at stake: the candidate of an upsert, and  *)
(* all that the source of a merge holds.                                   *)
(***************************************************************************)
AtStake ==
  (UNION {upserts[u].cand.facts : u \in {v \in Upsert : Busy(upserts[v])}})
    \cup (UNION {entities[e].facts :
                   e \in {merges[m].source : m \in {n \in Merge : Busy(merges[n])}}
                           \cap DOMAIN entities})
Alone == ~(\E u \in Upsert : Busy(upserts[u])) /\ ~(\E m \in Merge : Busy(merges[m]))
Exposes(stake) == exposed' = IF Alone THEN exposed ELSE exposed \cup stake \cup AtStake
-----------------------------------------------------------------------------
\* resolveEntity: the first row of that name, and after an await the first that
\* has a name or an alias in common with the candidate.  Rows come by their id.
First(S) == IF S = {} THEN Missing ELSE Min(S)
ExactMatch(c) == First({e \in DOMAIN entities : entities[e].name = c.name})
AnyMatch(c) ==
  First({e \in DOMAIN entities : NamesOf(entities[e]) \cap NamesOf(c) # {}})

Resolve(u, c) ==
  /\ upserts[u] = Fresh /\ MayBegin
  /\ upserts' = [upserts EXCEPT
                   ![u] = [pc |-> "scan", cand |-> c, found |-> ExactMatch(c),
                           row |-> NoRow]]
  /\ Exposes(c.facts)
  /\ UNCHANGED <<tables, merges, relates, known, fresh, orphaned>>

Snapshot(e) == IF Exists(e) THEN entities[e] ELSE NoRow

\* The rest of resolveEntity: `existing` is the row as it is read here.
Scan(u) ==
  LET call == upserts[u]
      e == IF call.found # Missing THEN call.found ELSE AnyMatch(call.cand)
  IN
  /\ call.pc = "scan"
  /\ upserts' = [upserts EXCEPT
       ![u] = [pc |-> "act", cand |-> call.cand, found |-> e, row |-> Snapshot(e)]]
  /\ UNCHANGED <<tables, merges, relates, ghosts>>

\* The row with the id e, by the statements of createEntity and updateEntity.
Put(e, row) == entities' = [x \in DOMAIN entities \cup {e} |->
                              IF x = e THEN row ELSE entities[x]]
Record(e, change) == history' = history \cup {[entity |-> e, change |-> change]}
Returns(u) ==
  /\ upserts' = [upserts EXCEPT ![u] = Done]
  /\ known' = known \cup upserts[u].cand.facts

\* createEntity, up to its first await.
CreateEntity(u) ==
  LET call == upserts[u] IN
  /\ call.pc = "act" /\ call.found = Missing
  /\ born < MaxEntities
  /\ born' = born + 1
  /\ Put(born', call.cand)
  /\ Record(born', "created")
  /\ Returns(u)
  /\ UNCHANGED <<rels, removed, merges, relates, exposed, fresh, orphaned>>

\* updateEntity reads the row again, and throws when it is gone.
ReadEntity(u) ==
  LET call == upserts[u] IN
  /\ call.pc = "act" /\ call.found # Missing
  /\ upserts' = [upserts EXCEPT
       ![u] = IF Exists(call.found) THEN [call EXCEPT !.pc = "write"] ELSE Done]
  /\ UNCHANGED <<tables, merges, relates, ghosts>>

\* updateEntity writes what the caller made of the row that it had resolved.
\* The history row of an entity that is gone has no foreign key: it throws.
UpdateEntity(u) ==
  LET call == upserts[u] IN
  /\ call.pc = "write"
  /\ IF Exists(call.found)
       THEN /\ Put(call.found,
                   [name |-> call.cand.name,
                    aliases |-> call.row.aliases \cup call.cand.aliases,
                    facts |-> Spread(call.row.facts, call.cand.facts)])
            /\ Record(call.found, "updated")
            /\ Returns(u)
            /\ exposed' = exposed \cup Replaced(call.row.facts, call.cand.facts)
       ELSE /\ upserts' = [upserts EXCEPT ![u] = Done]
            /\ UNCHANGED <<entities, history, known, exposed>>
  /\ UNCHANGED <<rels, born, removed, merges, relates, fresh, orphaned>>
-----------------------------------------------------------------------------
\* DELETE FROM entities: its relationships and its history go with it.
Touches(r, e) == e \in {rels[r].from, rels[r].to}
RelsOf(e) == {r \in DOMAIN rels : Touches(r, e)}
Cascade(e) ==
  /\ entities' = [x \in DOMAIN entities \ {e} |-> entities[x]]
  /\ rels' = [r \in DOMAIN rels \ RelsOf(e) |-> rels[r]]
  /\ history' = {h \in history : h.entity # e}

\* deleteEntity by a caller: what it holds is meant to go.
DeleteEntity(e) ==
  /\ removed < Removals
  /\ Exists(e)
  /\ removed' = removed + 1
  /\ Cascade(e)
  /\ exposed' = exposed \cup entities[e].facts
  /\ UNCHANGED <<born, calls, known, fresh, orphaned>>

\* mergeEntities reads the source and, after an await, the target.
StartMerge(m, s, t) ==
  /\ merges[m] = Fresh /\ MayBegin
  /\ s # t /\ Exists(s)
  /\ merges' = [merges EXCEPT ![m] =
       [pc |-> "target", source |-> s, target |-> t, from |-> entities[s],
        into |-> NoRow, name |-> NoRow.name]]
  /\ Exposes(entities[s].facts)
  /\ UNCHANGED <<tables, upserts, relates, known, fresh, orphaned>>

ReadTarget(m) ==
  LET call == merges[m] IN
  /\ call.pc = "target"
  /\ merges' = [merges EXCEPT
       ![m] = IF Exists(call.target)
                THEN [call EXCEPT !.pc = "repoint", !.into = entities[call.target]]
                ELSE Done]
  /\ UNCHANGED <<tables, upserts, relates, ghosts>>

\* Mutant of Repointed: the second statement is forgotten.
RepointedFromOnly(r, s, t) == [rels[r] EXCEPT !.from = IF @ = s THEN t ELSE @]

Repointed(r, s, t) ==
  [rels[r] EXCEPT !.from = IF @ = s THEN t ELSE @, !.to = IF @ = s THEN t ELSE @]

\* Both statements throw when the target is gone and there are relationships to
\* repoint; otherwise updateEntity reads the target and throws when it is gone.
Repoint(m) ==
  LET call == merges[m]
      s == call.source
      t == call.target
  IN
  /\ call.pc = "repoint"
  /\ IF Exists(t)
       THEN /\ rels' = [r \in DOMAIN rels |-> Repointed(r, s, t)]
            /\ merges' = [merges EXCEPT
                 ![m] = [call EXCEPT !.pc = "write", !.name = entities[t].name]]
            /\ fresh' = (fresh \ ({m} \X RelId)) \cup ((Merge \ {m}) \X RelsOf(s))
       ELSE merges' = [merges EXCEPT ![m] = Done] /\ UNCHANGED <<rels, fresh>>
  /\ UNCHANGED <<entities, history, born, removed, upserts, relates,
                 known, exposed, orphaned>>

\* Mutant of Merged: what the source knew is not taken over.
MergedAliases(call) ==
  [name |-> call.name,
   aliases |-> (NamesOf(call.from) \cup call.into.aliases) \ {call.into.name},
   facts |-> call.into.facts]

\* The name is the one that updateEntity read a moment ago.  For a property
\* that both have the value of the target counts.
Merged(call) ==
  [name |-> call.name,
   aliases |-> (NamesOf(call.from) \cup call.into.aliases) \ {call.into.name},
   facts |-> Spread(call.from.facts, call.into.facts)]

WriteTarget(m) ==
  LET call == merges[m] IN
  /\ call.pc = "write"
  /\ IF Exists(call.target)
       THEN /\ Put(call.target, Merged(call))
            /\ Record(call.target, "updated")
            /\ merges' = [merges EXCEPT ![m].pc = "delete"]
            /\ exposed' = exposed \cup Replaced(call.from.facts, call.into.facts)
       ELSE /\ merges' = [merges EXCEPT ![m] = Done]
            /\ UNCHANGED <<entities, history, exposed>>
  /\ UNCHANGED <<rels, born, removed, upserts, relates, known, fresh, orphaned>>

\* After the event: the history row of the source throws when the source is gone.
DeleteSource(m) ==
  LET s == merges[m].source IN
  /\ merges[m].pc = "delete"
  /\ merges' = [merges EXCEPT ![m] = Done]
  /\ IF Exists(s)
       THEN Cascade(s) /\ orphaned' = {<<m, r>> : r \in RelsOf(s)}
       ELSE UNCHANGED <<entities, rels, history, orphaned>>
  /\ UNCHANGED <<born, removed, upserts, relates, known, exposed, fresh>>
-----------------------------------------------------------------------------
\* The first relationship between the two that is active.
Find(f, t) == {r \in DOMAIN rels : rels[r].from = f /\ rels[r].to = t /\ rels[r].active}

FindRelationship(r, f, t) ==
  /\ relates[r] = Fresh /\ MayBegin
  /\ {f, t} \subseteq 1 .. born
  /\ \E found \in IF Find(f, t) = {} THEN {r} ELSE Find(f, t) :
       relates' = [relates EXCEPT ![r] =
                     [pc |-> "act", from |-> f, to |-> t, found |-> found,
                      row |-> NoEnds]]
  /\ UNCHANGED <<tables, upserts, merges, ghosts>>

\* Written after the merges under way had repointed what there was.
Renewed(r) == fresh \cup {<<m, r>> : m \in Merge}
PutRel(r, row) == rels' = [x \in DOMAIN rels \cup {r} |-> IF x = r THEN row ELSE rels[x]]

CreateRelationship(r) ==
  LET call == relates[r] IN
  /\ call.pc = "act" /\ call.found = r
  /\ relates' = [relates EXCEPT ![r] = Done]
  /\ IF Exists(call.from) /\ Exists(call.to)
       THEN /\ PutRel(r, [from |-> call.from, to |-> call.to, active |-> TRUE])
            /\ fresh' = Renewed(r)
       ELSE UNCHANGED <<rels, fresh>>
  /\ UNCHANGED <<entities, history, born, removed, upserts, merges, known,
                 exposed, orphaned>>

\* updateRelationship reads the row and throws when it is gone.
ReadRelationship(r) ==
  LET call == relates[r] IN
  /\ call.pc = "act" /\ call.found # r
  /\ relates' = [relates EXCEPT ![r] =
       IF call.found \in DOMAIN rels
         THEN [call EXCEPT !.pc = "write", !.row = rels[call.found]]
         ELSE Done]
  /\ UNCHANGED <<tables, upserts, merges, ghosts>>

\* It writes the whole row that it read, its ends included.
UpdateRelationship(r) ==
  LET call == relates[r] IN
  /\ call.pc = "write"
  /\ relates' = [relates EXCEPT ![r] = Done]
  /\ IF call.found \in DOMAIN rels /\ Exists(call.row.from) /\ Exists(call.row.to)
       THEN PutRel(call.found, call.row) /\ fresh' = Renewed(call.found)
       ELSE UNCHANGED <<rels, fresh>>
  /\ UNCHANGED <<entities, history, born, removed, upserts, merges, known,
                 exposed, orphaned>>

EndRelationship(r) ==
  /\ r \in DOMAIN rels /\ rels[r].active
  /\ removed < Removals
  /\ removed' = removed + 1
  /\ rels' = [rels EXCEPT ![r].active = FALSE]
  /\ UNCHANGED <<entities, history, born, calls, ghosts>>

DeleteRelationship(r) ==
  /\ r \in DOMAIN rels
  /\ removed < Removals
  /\ removed' = removed + 1
  /\ rels' = [x \in DOMAIN rels \ {r} |-> rels[x]]
  /\ UNCHANGED <<entities, history, born, calls, ghosts>>
-----------------------------------------------------------------------------
Next ==
  \/ \E u \in Upsert, c \in Candidate : Resolve(u, c)
  \/ \E u \in Upsert : Scan(u) \/ CreateEntity(u) \/ ReadEntity(u) \/ UpdateEntity(u)
  \/ \E m \in Merge, s, t \in EntityId : StartMerge(m, s, t)
  \/ \E m \in Merge : ReadTarget(m) \/ Repoint(m) \/ WriteTarget(m) \/ DeleteSource(m)
  \/ \E r \in Relate, f, t \in EntityId : FindRelationship(r, f, t)
  \/ \E r \in Relate : CreateRelationship(r) \/ ReadRelationship(r) \/ UpdateRelationship(r)
  \/ \E e \in EntityId : DeleteEntity(e)
  \/ \E r \in RelId : EndRelationship(r) \/ DeleteRelationship(r)

Spec == Init /\ [][Next]_vars
-----------------------------------------------------------------------------
\* The type invariant: the domain of every variable of the knowledge graph, and
\* its foreign keys.
TypeOK ==
  /\ DOMAIN entities \subseteq 1 .. born /\ born <= MaxEntities
  /\ DOMAIN rels \subseteq RelId /\ removed <= Removals
  /\ \A r \in DOMAIN rels : Exists(rels[r].from) /\ Exists(rels[r].to)
  /\ \A h \in history : Exists(h.entity)

(***************************************************************************)
(* What an upsert that returned has recorded, every memory id and every    *)
(* property with its value, is held by an entity for ever, through later   *)
(* upserts and merges, unless                                              *)
(*   - the entity was deleted;                                             *)
(*   - a later upsert gave the property another value, or a merge met      *)
(*     another in the target, which counts (knowledge-graph.ts:174,        *)
(*     entity-manager.ts:260);                                             *)
(*   - the call overlapped with another: then the later write drops what   *)
(*     the other added, and two merges in a chain or against each other    *)
(*     drop what their sources held.                                       *)
(***************************************************************************)
NothingForgotten ==
  \A f \in known \ exposed : \E e \in DOMAIN entities : f \in entities[e].facts

(***************************************************************************)
(* A merge keeps the relationships of both entities: those that go with    *)
(* its source were created, written back as they had been, or moved there  *)
(* by another merge, after it had repointed the others                     *)
(* (entity-manager.ts:246-288).                                            *)
(***************************************************************************)
MergeKeepsRelationships == orphaned \subseteq fresh
=============================================================================
