------------------------------- MODULE Stores -------------------------------
(***************************************************************************)
(* What outlives a task: the working memory, the stores of episodes and    *)
(* facts, the knowledge graph, what was learned from failures, snapshots   *)
(* of the workspace and the settings.  They share no state, so each        *)
(* behaviour is about one of them, its focus.  What TLC takes for the      *)
(* constants that are not plain sets and numbers stands at the end.        *)
(***************************************************************************)
EXTENDS WorkingMemory, Integers, FiniteSets, TLC

CONSTANTS Subject, Object, Time, NewEpisodes, NewFacts,  \* see MemoryStore,
          Cycle, Dream, MaxRows, MaxCycles, BatchSize, AuditSize, \* Subject: Key
          Lesson, Prompt, Analysis, Proposal, MaxTraces,
          MaxMutations, Recent,                            \* SelfImprovement
          Upsert, Candidate, Merge, Relate, MaxCalls, MaxEntities,
          Removals,                                        \* KnowledgeGraph
          Process, File, Content, Absent, Torn, Name, MaxArchives, \* Snapshots
          Manager, Key, SystemLevel, LoggingLevel, Value, Unset, Upper,
          Secret, Garbled, MaxWrites                       \* Settings

VARIABLE focus
VARIABLES rows, facts, procedures, cycles, dreams, cycled, asserted, again, denied
VARIABLES recent, traced, analyses, patterns, learned, proposals, mutations
VARIABLES entities, rels, history, born, removed, upserts, merges, relates, known,
          crossed, fresh, orphaned
VARIABLES files, archive, manifest, contents, op, complete, restored, replaced
VARIABLES file, config, vault, loaded, failed, cache, writes, meant, kept, current,
          due, seen

storeVars == <<rows, facts, procedures, cycles, dreams, cycled, asserted, again,
               denied>>
lessonVars == <<recent, traced, analyses, patterns, learned, proposals, mutations>>
graphVars == <<entities, rels, history, born, removed, upserts, merges, relates,
               known, crossed, fresh, orphaned>>
snapshotVars == <<files, archive, manifest, contents, op, complete, restored,
                  replaced>>
settingVars == <<file, config, vault, loaded, failed, cache, writes, meant, kept,
                 current, due, seen>>
-----------------------------------------------------------------------------
Store == INSTANCE MemoryStore WITH Key <- Subject, episodes <- rows

Lessons == INSTANCE SelfImprovement

Graph == INSTANCE KnowledgeGraph WITH exposed <- crossed

Archiver == INSTANCE Snapshots WITH Value <- Content

Config == INSTANCE Settings

ASSUME BoundsAssumption ==
  {MaxRows, MaxCycles, BatchSize, AuditSize, MaxTraces, MaxMutations, Recent,
   MaxCalls, MaxEntities, Removals, MaxArchives, MaxWrites} \subseteq Nat

ASSUME RecordsAssumption ==
  /\ NewEpisodes \subseteq [task : Subject, summary : Object, time : Time,
                             tool : BOOLEAN, important : BOOLEAN]
  /\ NewFacts \subseteq [key : Subject, object : Object, from : Time,
                          confidence : Nat]
  /\ Time \subseteq Int

\* No prompt has the name that stands for none.
ASSUME PromptAssumption == "none" \notin Prompt

\* Archives are told apart by stamps, which are numbers.
ASSUME ArchiveAssumption == Absent \notin Nat /\ Torn \notin Nat

\* There is something to set, and a layer may leave a key alone.
ASSUME ConfigAssumption ==
  /\ SystemLevel \in Key /\ LoggingLevel \in Key
  /\ Value # {} /\ Unset \notin Value /\ Upper \in [Key -> Value \cup {Unset}]
-----------------------------------------------------------------------------
\* What is not in focus is in one of its initial states for ever.
AllInit ==
  /\ focus \in {"turns", "store", "lessons", "graph", "snapshots", "settings"}
  /\ Init /\ Store!Init /\ Lessons!Init /\ Graph!Init /\ Archiver!Init
  /\ Config!Init
  /\ focus # "snapshots" => \A f, g \in File : files[f] = files[g]

AllNext ==
  \/ /\ focus = "turns" /\ Next
     /\ UNCHANGED <<storeVars, lessonVars, graphVars, snapshotVars, settingVars>>
  \/ /\ focus = "store" /\ Store!Next
     /\ UNCHANGED <<vars, lessonVars, graphVars, snapshotVars, settingVars>>
  \/ /\ focus = "lessons" /\ Lessons!Next
     /\ UNCHANGED <<vars, storeVars, graphVars, snapshotVars, settingVars>>
  \/ /\ focus = "graph" /\ Graph!Next
     /\ UNCHANGED <<vars, storeVars, lessonVars, snapshotVars, settingVars>>
  \/ /\ focus = "snapshots" /\ Archiver!Next
     /\ UNCHANGED <<vars, storeVars, lessonVars, graphVars, settingVars>>
  \/ /\ focus = "settings" /\ Config!Next
     /\ UNCHANGED <<vars, storeVars, lessonVars, graphVars, snapshotVars>>

AllNextInFocus == AllNext /\ UNCHANGED focus
AllSpec ==
  AllInit /\ [][AllNextInFocus]_<<focus, vars, storeVars, lessonVars, graphVars,
                                  snapshotVars, settingVars>>
-----------------------------------------------------------------------------
(***************************************************************************)
(* Facts are drawn from an episode at least once and, unless cycles meet,  *)
(* at most once (consolidation-daemon.ts:86-105), and dreams leave the     *)
(* newest fact of a subject alone (dreaming-engine.ts:58-82).              *)
(***************************************************************************)
FactsAreSound == Store!ExtractedOnce /\ Store!NewestIsBelieved

(***************************************************************************)
(* A lesson is kept once (anti-pattern-store.ts), and the versions of a    *)
(* prompt tell their order (prompt-evolution-engine.ts).                   *)
(***************************************************************************)
LearningIsOrdered == Lessons!LearnedOnce /\ Lessons!VersionsTellOrder

(***************************************************************************)
(* Upserts and merges lose neither facts nor relationships, except those   *)
(* listed at KnowledgeGraph (entity-manager.ts, knowledge-graph.ts).       *)
(***************************************************************************)
GraphKeepsKnowledge == Graph!NothingForgotten /\ Graph!MergeKeepsRelationships

\* A rollback extracts only what was finished (zstd-archiver.ts:27-128).
RestoresFinishedSnapshots == Archiver!RestoresFinishedSnapshots

\* Settings and secrets outlive the writes of others (config-manager.ts,
\* keystore.ts), except as written at Settings.
WritesSurvive == Config!WritesSurvive
-----------------------------------------------------------------------------
(***************************************************************************)
(* An instance for TLC.  Two tool calls of one task, the later of them     *)
(* important, and an important episode of another; two facts on one        *)
(* subject that are at odds.                                               *)
(***************************************************************************)
E(task, summary, time, tool, important) ==
  [task |-> task, summary |-> summary, time |-> time, tool |-> tool,
   important |-> important]
F(key, object, from, confidence) ==
  [key |-> key, object |-> object, from |-> from, confidence |-> confidence]
Episodes == {E("k1", "o1", 2, TRUE, TRUE), E("k1", "o2", 1, TRUE, FALSE),
             E("k2", "o2", 1, FALSE, TRUE)}
Facts == {F("k1", "o1", 1, 2), F("k1", "o2", 2, 2)}

\* Two names for one entity, given with two values of a property, and another
\* entity by the second of them.
Is(key, value) == [key |-> key, value |-> value]
Candidates == {[name |-> "x", aliases |-> {}, facts |-> {Is("p", 1), Is("m1", 0)}],
               [name |-> "x", aliases |-> {"y"}, facts |-> {Is("p", 2)}],
               [name |-> "y", aliases |-> {}, facts |-> {Is("q", 1)}]}

\* A layer above the global file says something about the third key.
Above == ("system.logLevel" :> "none") @@ ("logging.level" :> "none")
           @@ ("llm.model" :> "v2")

\* Calls and processes are told apart by their names only.
Symmetry == Permutations(Upsert) \cup Permutations(Merge)
=============================================================================
