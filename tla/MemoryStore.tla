---------------------------- MODULE MemoryStore ----------------------------
(***************************************************************************)
(* The episodic and the semantic memory and their upkeep: consolidate      *)
(* (memory/src/consolidation/consolidation-daemon.ts) extracts facts and   *)
(* procedures from episodes, dream (dreaming-engine.ts) retracts facts     *)
(* that newer ones contradict.  Both read the tables once and then wait at *)
(* every statement, so other cycles and writers come between; the tables   *)
(* survive a crash of the process and the cycles do not.  A key stands for *)
(* a pair of subject and predicate, by letters without their case, and     *)
(* for the pair of a task (or session) and "resulted_in".                  *)
(***************************************************************************)
EXTENDS Integers, Sequences, FiniteSets

CONSTANTS Key, Object,     \* of facts; the tasks of episodes are keys
          Cycle,           \* the cycles of consolidation and of dreaming that
          Dream,           \*   may be under way at once
          Time,            \* the values of timestamp and of validFrom
          NewEpisodes, NewFacts, \* what callers record and assert
          MaxRows,         \* bounds the episodes and the facts of other writers
          MaxCycles,       \* bounds the cycles of consolidation
          BatchSize,       \* the limit of getUnconsolidated
          AuditSize        \* the limit of getAllActive

VARIABLES episodes,   \* the rows of episodic_memories
          facts,      \* the rows of semantic_memories
          procedures, \* the tasks that the rows of procedural_memories are of
          cycles,     \* what each cycle of consolidation has yet to do
          dreams,     \* the retractions that each dream has yet to do
          cycled,     \* how many cycles of consolidation began
          asserted,   \* how many facts other writers asserted
          again,      \* episodes that a cycle may meet a second time
          denied      \* facts that somebody retracted by retractFact

vars == <<episodes, facts, procedures, cycles, dreams, cycled, asserted, again,
          denied>>

Init ==
  /\ episodes = <<>> /\ facts = <<>> /\ procedures = <<>>
  /\ cycles = [c \in Cycle |-> {}]
  /\ dreams = [d \in Dream |-> {}]
  /\ cycled = 0 /\ asserted = 0
  /\ again = {} /\ denied = {}

\* A new episode by what a cycle looks at: its task, whether it is of a tool
\* call, whether it is important enough for a fact.  A new fact: confidence 2 is
\* a full one.  The source of a fact is its episode, or 0.
Episode(e) ==
  [task |-> e.task, summary |-> e.summary, time |-> e.time, tool |-> e.tool,
   important |-> e.important, consolidated |-> FALSE]
Fact(f, source) ==
  [key |-> f.key, object |-> f.object, from |-> f.from,
   confidence |-> f.confidence, source |-> source, active |-> TRUE]

\* recordEpisode, from the kernel or from a flush.
RecordEpisode(e) ==
  /\ Len(episodes) + asserted < MaxRows
  /\ episodes' = Append(episodes, Episode(e))
  /\ UNCHANGED <<facts, procedures, cycles, dreams, cycled, asserted, again, denied>>

\* assertFact, also from extractAndAssertUserFacts.
AssertFact(f) ==
  /\ Len(episodes) + asserted < MaxRows
  /\ asserted' = asserted + 1
  /\ facts' = Append(facts, Fact(f, 0))
  /\ UNCHANGED <<episodes, procedures, cycles, dreams, cycled, again, denied>>

\* The row of a fact gets its valid_until, unless it has one.
Retracted(f) == [facts EXCEPT ![f].active = FALSE]

\* retractFact by a caller.
RetractFact(f) ==
  /\ facts[f].active
  /\ facts' = Retracted(f)
  /\ denied' = denied \cup {f}
  /\ UNCHANGED <<episodes, procedures, cycles, dreams, cycled, asserted, again>>
-----------------------------------------------------------------------------
\* getUnconsolidated: the oldest episodes that are not consolidated.
Older(d, e) ==
  \/ episodes[d].time < episodes[e].time
  \/ episodes[d].time = episodes[e].time /\ d < e
Unconsolidated ==
  LET rows == {e \in DOMAIN episodes : ~episodes[e].consolidated} IN
  {e \in rows : Cardinality({d \in rows : Older(d, e)}) < BatchSize}

\* The statements for the episodes of one task: a procedure, facts, the mark.
WorkOn(task, batch) ==
  LET mine == {e \in batch : episodes[e].task = task}
      tools == {e \in mine : episodes[e].tool}
      first == CHOOSE e \in mine : \A d \in mine \ {e} : Older(e, d)
      Do(what, of) == [do |-> what, task |-> task, first |-> first, of |-> of]
  IN
  {Do("mark", mine)}
  \cup {Do("fact", {e}) : e \in {d \in mine : episodes[d].important}}
  \cup (IF Cardinality(tools) < 2 THEN {} ELSE {Do("procedure", tools)})

\* Mutant of Rank: the episodes are marked before their facts are asserted.
RankMarkedFirst == [mark |-> 1, procedure |-> 2, fact |-> 3]

\* The order of the statements: the tasks as they come up in the batch; for
\* each the procedure, the facts by their episodes, the mark.
Rank == [procedure |-> 1, fact |-> 2, mark |-> 3]
Precedes(x, y) ==
  IF x.task # y.task THEN Older(x.first, y.first)
  ELSE \/ Rank[x.do] < Rank[y.do]
       \/ x.do = "fact" /\ y.do = "fact" /\ \A d \in x.of, e \in y.of : Older(d, e)

\* The episodes that a cycle has not marked yet.
Unmarked(c) == UNION {x.of : x \in {y \in cycles[c] : y.do = "mark"}}

\* consolidate up to its first await.
BeginCycle(c) ==
  LET batch == Unconsolidated IN
  /\ cycles[c] = {} /\ cycled < MaxCycles
  /\ batch # {}
  /\ cycled' = cycled + 1
  /\ cycles' = [cycles EXCEPT ![c] =
       UNION {WorkOn(episodes[e].task, batch) : e \in batch}]
  /\ again' = again \cup (batch \cap UNION {Unmarked(d) : d \in Cycle})
  /\ UNCHANGED <<episodes, facts, procedures, dreams, asserted, denied>>

Extracted(e) ==
  Fact([key |-> episodes[e].task, object |-> episodes[e].summary,
        from |-> episodes[e].time, confidence |-> 1], e)

\* The next statement of a cycle; consolidate waits after each.
CycleStep(c) ==
  \E x \in cycles[c] :
    /\ \A y \in cycles[c] : ~Precedes(y, x)
    /\ procedures' = IF x.do = "procedure"
                     THEN Append(procedures, x.task) ELSE procedures
    /\ IF x.do = "fact"
       THEN \E e \in x.of : facts' = Append(facts, Extracted(e))
       ELSE UNCHANGED facts
    /\ episodes' = [e \in DOMAIN episodes |->
         IF x.do = "mark" /\ e \in x.of
         THEN [episodes[e] EXCEPT !.consolidated = TRUE] ELSE episodes[e]]
    /\ cycles' = [cycles EXCEPT ![c] = @ \ {x}]
    /\ UNCHANGED <<dreams, cycled, asserted, again, denied>>

\* A statement throws and the cycle rejects.
CycleFails(c) ==
  /\ cycles[c] # {}
  /\ cycles' = [cycles EXCEPT ![c] = {}]
  /\ again' = again \cup Unmarked(c)
  /\ UNCHANGED <<episodes, facts, procedures, dreams, cycled, asserted, denied>>
-----------------------------------------------------------------------------
\* getAllActive: the most certain of the active facts, the latest first.
Surer(f, g) ==
  \/ facts[f].confidence > facts[g].confidence
  \/ facts[f].confidence = facts[g].confidence /\ f > g
Active ==
  LET rows == {f \in DOMAIN facts : facts[f].active} IN
  {f \in rows : Cardinality({g \in rows : Surer(g, f)}) < AuditSize}

OfKey(f, rows) == {g \in rows : facts[g].key = facts[f].key}

\* Mutant of Superseded: the newest is taken from the end of the result.
SupersededUnsorted(rows) ==
  {f \in rows : \E g \in OfKey(f, rows) :
     /\ \A h \in OfKey(f, rows) \ {g} : Surer(h, g)
     /\ facts[f].object # facts[g].object}

\* Of the facts with one key the newest is the last by validFrom; the sort is
\* stable, so that of equals it is the last of the result.  Those that have
\* another object are superseded.
Superseded(rows) ==
  LET Behind(g, h) == \/ facts[g].from > facts[h].from
                      \/ facts[g].from = facts[h].from /\ Surer(h, g)
  IN {f \in rows : \E g \in OfKey(f, rows) :
        /\ \A h \in OfKey(f, rows) \ {g} : Behind(g, h)
        /\ facts[f].object # facts[g].object}

\* The retractions: the keys as they come up in the result, for each the facts
\* from the oldest on.
Retractions(rows) ==
  {[of |-> f,
    first |-> CHOOSE g \in OfKey(f, rows) :
                \A h \in OfKey(f, rows) \ {g} : Surer(g, h)] :
   f \in Superseded(rows)}
RetractedFirst(x, y) ==
  IF x.first # y.first THEN Surer(x.first, y.first)
  ELSE \/ facts[x.of].from < facts[y.of].from
       \/ facts[x.of].from = facts[y.of].from /\ Surer(x.of, y.of)

\* dream up to its first await.
BeginDream(d) ==
  /\ dreams[d] = {}
  /\ Superseded(Active) # {}
  /\ dreams' = [dreams EXCEPT ![d] = Retractions(Active)]
  /\ UNCHANGED <<episodes, facts, procedures, cycles, cycled, asserted, again, denied>>

\* Its next retraction.
DreamStep(d) ==
  \E x \in dreams[d] :
    /\ \A y \in dreams[d] : ~RetractedFirst(y, x)
    /\ facts' = Retracted(x.of)
    /\ dreams' = [dreams EXCEPT ![d] = @ \ {x}]
    /\ UNCHANGED <<episodes, procedures, cycles, cycled, asserted, again, denied>>

\* The process dies; the tables are all that is left.
Crash ==
  /\ (\E c \in Cycle : cycles[c] # {}) \/ \E d \in Dream : dreams[d] # {}
  /\ cycles' = [c \in Cycle |-> {}]
  /\ dreams' = [d \in Dream |-> {}]
  /\ again' = again \cup UNION {Unmarked(c) : c \in Cycle}
  /\ UNCHANGED <<episodes, facts, procedures, cycled, asserted, denied>>

Next ==
  \/ \E e \in NewEpisodes : RecordEpisode(e)
  \/ \E f \in NewFacts : AssertFact(f)
  \/ \E f \in DOMAIN facts : RetractFact(f)
  \/ \E c \in Cycle : BeginCycle(c) \/ CycleStep(c) \/ CycleFails(c)
  \/ \E d \in Dream : BeginDream(d) \/ DreamStep(d)
  \/ Crash

Spec == Init /\ [][Next]_vars
-----------------------------------------------------------------------------
\* The type invariant: the domain of every variable of the store.
TypeOK ==
  /\ \A e \in DOMAIN episodes :
       episodes[e].task \in Key /\ episodes[e].consolidated \in BOOLEAN
  /\ \A f \in DOMAIN facts :
       /\ facts[f].key \in Key /\ facts[f].active \in BOOLEAN
       /\ facts[f].source \in {0} \cup DOMAIN episodes
  /\ \A i \in DOMAIN procedures : procedures[i] \in Key
  /\ \A c \in Cycle : \A x \in cycles[c] :
       /\ x.do \in DOMAIN Rank
       /\ x.first \in x.of \/ x.do # "mark"
       /\ x.of \subseteq DOMAIN episodes
  /\ \A d \in Dream : \A x \in dreams[d] : {x.of, x.first} \subseteq DOMAIN facts
  /\ cycled \in 0 .. MaxCycles /\ Len(episodes) + asserted \in 0 .. MaxRows
  /\ again \subseteq DOMAIN episodes /\ denied \subseteq DOMAIN facts

FactsOf(e) == {f \in DOMAIN facts : facts[f].source = e}

(***************************************************************************)
(* An episode that counts as consolidated has its fact if it is important, *)
(* whatever cycle failed or process died (consolidation-daemon.ts:86-105), *)
(* and it has two only if two cycles worked on it at once or the first was *)
(* cut short before it marked it.                                          *)
(***************************************************************************)
ExtractedOnce ==
  \A e \in DOMAIN episodes :
    /\ episodes[e].consolidated /\ episodes[e].important => FactsOf(e) # {}
    /\ Cardinality(FactsOf(e)) > 1 => e \in again

\* The fact of a key that dream counts as the newest of all: of equals in time
\* the one with less confidence, then the older.
IsNewest(f) ==
  \A g \in DOMAIN facts :
    facts[g].key = facts[f].key =>
      \/ facts[f].from > facts[g].from
      \/ facts[f].from = facts[g].from /\
           \/ facts[f].confidence < facts[g].confidence
           \/ facts[f].confidence = facts[g].confidence /\ f <= g

(***************************************************************************)
(* Dreams (dreaming-engine.ts:58-82) retract only what something newer     *)
(* contradicts: however they overlap each other and the writers, and       *)
(* whatever their limit hides from them, the newest fact of a key stays    *)
(* active, unless somebody retracted that very fact.                       *)
(***************************************************************************)
NewestIsBelieved ==
  \A f \in DOMAIN facts \ denied : IsNewest(f) => facts[f].active
=============================================================================
