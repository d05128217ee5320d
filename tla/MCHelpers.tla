----------------------------- MODULE MCHelpers ------------------------------
(***************************************************************************)
(* Checks the helpers that the components call: the dependency graph of a  *)
(* plan, the patterns of subscriptions, the fields of cron expressions and *)
(* their timer, the replay of the event journal, the queries of the graph, *)
(* the context made from the memory, the bodies of a provider's responses. *)
(* They share no state, so each behaviour is about one of them, its focus. *)
(* For those that are pure functions the initial states are the inputs.    *)
(***************************************************************************)
EXTENDS PlanDag, EventPatterns, GraphTraversal, Retrieval, CompletionBodies

CONSTANTS MaxSteps,                          \* of a plan
          Segment, MaxLength,                \* of an event type
          Hi,                                \* the last value of a cron field
          PartsPerMinute, MaxDelay, MaxMinutes, \* see CronRunner
          MaxClock, MaxEvents, Entropy,      \* see EventJournal
          Depths, MaxChanges,                \* of a query, of an entity
          Budgets,                           \* of a context, in tokens
          MaxLines                           \* of an event stream

ASSUME HelpersAssumption ==
  /\ PartsPerMinute \in Nat \ {0} /\ MaxDelay \in Nat /\ MaxMinutes \in Nat
  /\ MaxClock \in Nat /\ MaxEvents \in Nat /\ Entropy \subseteq Nat
  /\ Depths \subseteq Nat /\ Budgets \subseteq Nat /\ PageSize \in Nat

VARIABLES focus, input
VARIABLES now, due, checked
VARIABLES clock, rows, replay, from, plan, replayed, known

timerVars == <<now, due, checked>>
journalVars == <<clock, rows, replay, from, plan, replayed, known>>

Runner == INSTANCE CronRunner
Journal == INSTANCE EventJournal

NoInput == <<>>

\* Every answer of the model with up to MaxSteps steps that names at most two
\* dependencies of a step, missing steps included, or none at all.
Plans ==
  LET Lists == {S \in SUBSET (1 .. MaxSteps) : Cardinality(S) <= 2} \cup {NoList}
  IN UNION {[n : {m}, dependsOn : [1 .. m -> Lists], sequential : BOOLEAN] :
              m \in 2 .. MaxSteps}

Names(S) == UNION {[1 .. m -> S] : m \in 1 .. MaxLength}
Subscriptions == [pattern : Names(Segment \cup {Star}), type : Names(Segment)]

Values == 0 .. Hi
Items ==
  {Runner!Item("any", 0, 0, 0)}
    \cup {Runner!Item("step", 0, 0, k) : k \in 1 .. 3}
    \cup {Runner!Item("exact", v, v, 0) : v \in Values}
    \cup {Runner!Item("range", v, w, k) : v, w \in Values, k \in {0, 2}}
Fields == {<<a>> : a \in Items} \cup {<<a, b>> : a, b \in Items}
\* The values of a field begin at 0 or at 1.
Cron == {c \in [field : Fields, lo : {0, 1}, current : Values] : c.current >= c.lo}

\* Eight relationships of four entities: a square, a diagonal, one that is no
\* longer valid, a second and lighter one, and one to the entity itself.
Edge(a, b, weight, active) ==
  [from |-> a, to |-> b, weight |-> weight, active |-> active]
Graph == {Edge(1, 2, 1, TRUE), Edge(2, 3, 2, TRUE), Edge(4, 3, 1, TRUE),
          Edge(1, 4, 3, TRUE), Edge(2, 4, 1, TRUE), Edge(1, 3, 1, FALSE),
          Edge(3, 2, 1, TRUE), Edge(1, 1, 1, TRUE)}
Queries == [edges : SUBSET Graph, depth : Depths]

\* The times of the changes of an entity, and the time that is asked for.
Words(S, n) == UNION {[1 .. m -> S] : m \in 0 .. n}
Histories ==
  {h \in [changed : Words(1 .. 3, MaxChanges), timestamp : 0 .. 3] :
     \A i, j \in DOMAIN h.changed : i < j => h.changed[i] <= h.changed[j]}

\* Records of both stores in the order of their queries, three at most: facts of
\* 95 percent, which do not decay, before those of 80, newer episodes before older.
Record(kind, importance, decayed, time, tokens) ==
  [kind |-> kind, vector |-> 20, keyword |-> 10, recency |-> 20, frequency |-> 0,
   importance |-> importance, decayed |-> decayed, time |-> time, tokens |-> tokens]
Fact(importance, decayed, tokens) == Record("fact", importance, decayed, 1, tokens)
Episode(decayed, time, tokens) == Record("episode", 50, decayed, time, tokens)
FactRecords ==
  {Fact(95, TRUE, 2), Fact(95, FALSE, 3), Fact(80, TRUE, 3), Fact(80, FALSE, 2)}
EpisodeRecords ==
  {Episode(TRUE, 2, 2), Episode(FALSE, 2, 1), Episode(TRUE, 1, 1), Episode(FALSE, 1, 2)}
SurestFirst(facts) ==
  \A i, j \in DOMAIN facts : i < j => facts[i].importance >= facts[j].importance
NewestFirst(episodes) ==
  \A i, j \in DOMAIN episodes : i < j => episodes[i].time >= episodes[j].time
Headers == <<1, 2>>
Contexts ==
  [facts : {f \in Words(FactRecords, 3) : SurestFirst(f)},
   episodes : {e \in Words(EpisodeRecords, 3) : NewestFirst(e)},
   limit : {1, 2}, budget : Budgets]

\* Bodies with an object in them whose strings hold braces, quotation marks and
\* escapes; and event streams.
Glued(words) ==
  LET glued[j \in 0 .. Len(words)] ==
        IF j = 0 THEN <<>> ELSE glued[j - 1] \o words[j]
  IN glued
Glue(words) == Glued(words)[Len(words)]
InQuotes ==
  {<<Quote>> \o Glue(w) \o <<Quote>> :
     w \in Words({<<Other>>, <<Open>>, <<Close>>,
                  <<Escape, Quote>>, <<Escape, Escape>>}, 2)}
Braced(S) == {<<Open>> \o Glue(w) \o <<Close>> : w \in S}
Flat == Braced(Words(InQuotes, 1))
Objects == Flat \cup Braced({<<x, <<Other>>>> : x \in Flat})
Texts ==
  [prefix : Words({Close, Quote, Other}, 2), object : Objects,
   suffix : Words({Open, Close, Quote}, 2)]

Line(kind, text, usage) ==
  [data |-> TRUE, kind |-> kind, text |-> text, usage |-> usage]
Unsaid == Estimated
DataLines ==
  {Line("content", <<"a">>, Unsaid), Line("content", <<"b">>, 7),
   Line("tool", <<>>, Unsaid), Line("error", <<>>, Unsaid),
   Line("unnamed", <<>>, Unsaid), Line("noise", <<>>, Unsaid),
   Line("done", <<>>, Unsaid)}
Streams == Words(DataLines, MaxLines)

AllInit ==
  /\ Runner!Init /\ Journal!Init
  /\ \/ focus = "plan" /\ input \in Plans
     \/ focus = "pattern" /\ input \in Subscriptions
     \/ focus = "cron" /\ input \in Cron
     \/ focus = "query" /\ input \in Queries
     \/ focus = "history" /\ input \in Histories
     \/ focus = "context" /\ input \in Contexts
     \/ focus = "body" /\ input \in Texts
     \/ focus = "stream" /\ input \in Streams
     \/ focus \in {"timer", "journal"} /\ input = NoInput
  /\ focus # "timer" => now = 0

AllNext ==
  \/ focus = "timer" /\ Runner!Next /\ UNCHANGED <<focus, input, journalVars>>
  \/ focus = "journal" /\ Journal!Next /\ UNCHANGED <<focus, input, timerVars>>

AllSpec == AllInit /\ [][AllNext]_<<focus, input, timerVars, journalVars>>
-----------------------------------------------------------------------------
(***************************************************************************)
(* decompose and dag-builder.ts: a plan is accepted exactly when its       *)
(* dependencies have no cycle; the sorted list then has every step once    *)
(* and after all it depends on, and each wave is what getReadySteps finds  *)
(* once the waves before it are done.                                      *)
(***************************************************************************)
SortsAgree ==
  focus = "plan" =>
    LET n == input.n
        edges == Decompose(n, input.dependsOn, input.sequential)
        sorted == TopologicalSort(n, edges)
        waves == TopologicalLevelSort(n, edges)
        Earlier(i) == UNION {waves[j] : j \in 1 .. i - 1}
    IN
    /\ Validates(n, edges) <=> Acyclic(n, edges)
    /\ Validates(n, edges) =>
         /\ ToSet(sorted) = 1 .. n /\ Len(sorted) = n
         /\ \A i, j \in 1 .. n : <<sorted[i], sorted[j]>> \in edges => i < j
         /\ Earlier(Len(waves) + 1) = 1 .. n
         /\ \A i \in DOMAIN waves : waves[i] = ReadySteps(n, edges, Earlier(i))

(***************************************************************************)
(* PatternMatcher.matches: an exact name, and a pattern with one wildcard  *)
(* at its start or its end, match what one reads them to match ("tool.*"   *)
(* also matches "tool").  Wildcards in the middle do not.                  *)
(***************************************************************************)
EdgeWildcards ==
  focus = "pattern" =>
    LET pattern == input.pattern
        type == input.type
    IN
    /\ Stars(pattern) = {} => (Matches(pattern, type) <=> pattern = type)
    /\ Stars(pattern) \in {{1}, {Len(pattern)}} =>
         (Matches(pattern, type) <=> Glob(pattern, type))

\* The values that an item of a field with the values lo .. Hi stands for.
Denotes(item, lo) ==
  CASE item.kind = "any" -> lo .. Hi
    [] item.kind = "step" -> {v \in lo .. Hi : (v - lo) % item.step = 0}
    [] item.kind = "exact" -> {item.from}
    [] item.kind = "range" ->
         {v \in item.from .. item.to :
            item.step = 0 \/ (v - item.from) % item.step = 0}

\* The part of the syntax that a trigger can rely on.
Plain(field, lo) ==
  /\ \A i \in DOMAIN field :
       /\ field[i].kind = "range" => field[i].step = 0
       /\ field[i].kind = "step" => lo = 0
  /\ field[1].kind = "step" => Len(field) = 1

(***************************************************************************)
(* matchesCronField: a plain field matches exactly the values that it      *)
(* stands for: lists, ranges and single values in every field, and steps   *)
(* in those that count from zero (minute, hour, day of the week).          *)
(***************************************************************************)
PlainFieldsAreStandard ==
  focus = "cron" /\ Plain(input.field, input.lo) =>
    (Runner!MatchesCronField(input.field, input.current) <=>
       \E i \in DOMAIN input.field :
         input.current \in Denotes(input.field[i], input.lo))

\* No minute is looked at twice (cron-runner.ts:53-60): a trigger does not
\* fire twice in a minute that its expression names.
NoMinuteTwice == Runner!NoMinuteTwice

\* What makes a trigger fire: an event's name, a minute of the clock.
TriggersMatchAsWritten == EdgeWildcards /\ PlainFieldsAreStandard /\ NoMinuteTwice

\* A replay (event-journal.ts:101) that finished showed its handler what was
\* in the journal when it began, whatever was emitted while it waited.
ReplayIsComplete == Journal!ReplayIsComplete

\* The entities within so many relationships of one, by breadth.
Touching(edges, S) == {r \in edges : r.active /\ {r.from, r.to} \cap S # {}}
Wider(edges, S) == S \cup UNION {{r.from, r.to} : r \in Touching(edges, S)}
Balls(edges, e, depth) ==
  LET ball[d \in 0 .. depth] == IF d = 0 THEN {e} ELSE Wider(edges, ball[d - 1])
  IN ball
Ball(edges, e, depth) == Balls(edges, e, depth)[depth]

(***************************************************************************)
(* getNeighbors and findPath (graph-traversal.ts:55-251), whose recursive  *)
(* query enumerates paths: the neighbours are the entities that a search   *)
(* by breadth reaches within the depth asked for, ten at most; a path is   *)
(* found exactly when that search reaches its end, and then it is no       *)
(* longer than it has to be, is connected, and weighs what its             *)
(* relationships weigh.                                                    *)
(***************************************************************************)
QueriesAgree ==
  focus = "query" =>
    \A a, b \in 1 .. 4 :
      LET ball == Ball(input.edges, a, Bounded(input.depth))
          found == FindPath(input.edges, a, b, input.depth)
          length == Len(found.path) - 1
      IN
      /\ Neighbors(input.edges, a, input.depth).entities = ball
      /\ b \notin ball <=> found = NoPath
      /\ b \in ball /\ a # b =>
           /\ found.path[1] = a /\ Last(found.path) = b
           /\ b \notin Ball(input.edges, a, length - 1)
           /\ \A i \in 1 .. length :
                {found.relationships[i].from, found.relationships[i].to}
                  = {found.path[i], found.path[i + 1]}
           /\ found.weight =
                Total([i \in 1 .. length |-> found.relationships[i].weight], length)

\* The version that an entity had at a time: one more for each change up to it.
VersionAt(h) == Cardinality({k \in DOMAIN h.changed : h.changed[k] <= h.timestamp})

\* getEntityAtTime (graph-traversal.ts:284-314) yields the entity as it was, when
\* no two of its changes happened in one millisecond: the query orders by it only.
AtTimeIsExact ==
  focus = "history" /\ IsInjective(input.changed) =>
    EntityAtTime(input.changed, input.timestamp) = VersionAt(input)

\* What the graph answers about the present and about the past.
GraphAnswersAgree == QueriesAgree /\ AtTimeIsExact

(***************************************************************************)
(* The context of a task (hybrid-retriever.ts:86-129) fits the budget, and *)
(* of the page that is read of a store what is left out is never better    *)
(* than what is in it: records are dropped from the worst on, episodes out *)
(* of range are never shown, and an episode that was found is left out     *)
(* only when the budget is spent.  Nothing is claimed of what is beyond    *)
(* the page, older or less sure: a better record there is not seen.        *)
(***************************************************************************)
ContextFits ==
  focus = "context" =>
    LET query == [from |-> 1, to |-> 1, limit |-> input.limit, minScore |-> 1000]
        context == RetrieveForContext(query, input.episodes, input.facts,
                                      Headers, input.budget)
        found == Search(query, input.episodes, input.facts)
        All(records) == Tokens(records, Len(records))
        OnPage(records) == {records[i] : i \in Page(records)}
        BestOf(shown, all) ==
          /\ ToSet(shown) \subseteq all
          /\ \A m \in all \ ToSet(shown), x \in ToSet(shown) : Score(x) >= Score(m)
    IN
    /\ context.used <= input.budget
    /\ All(context.facts) + All(context.episodes) <= context.used
    /\ BestOf(context.facts, OnPage(input.facts))
    /\ BestOf(context.episodes, {m \in OnPage(input.episodes) : m.time = 1})
    /\ Len(context.episodes) < Len(found.episodic) => context.used + 2 > input.budget

\* The lines that say something: up to [DONE], without what is no JSON; and of
\* them those that count the tokens.
Said(lines) ==
  {i \in DOMAIN lines :
     lines[i].kind # "noise" /\ \A j \in 1 .. i : lines[j].kind # "done"}
Counted(lines) == {i \in Said(lines) : lines[i].usage # Unsaid}
SaidText(lines) ==
  Glue([i \in DOMAIN lines |-> IF i \in Said(lines) THEN lines[i].text ELSE <<>>])

(***************************************************************************)
(* What a provider's response is read as (openai.provider.ts:120-313).  The*)
(* scan for a JSON object finds its end, whatever its strings hold, what   *)
(* is after it, and what is before it without an opening brace.  An event  *)
(* stream yields the text and the count of tokens of all that it says      *)
(* before [DONE].  An error with a message in it, or a stream without a    *)
(* chunk, is never taken for an answer; an error without a message is a    *)
(* chunk that adds nothing, and alone it is read as an empty answer.       *)
(***************************************************************************)
BodiesAreRead ==
  /\ focus = "body" =>
       FirstObject(input.prefix \o input.object \o input.suffix) = input.object
  /\ focus = "stream" =>
       LET response == Generate([kind |-> "ok", lines |-> input])
           fails == \/ Said(input) = {}
                    \/ \E i \in Said(input) : input[i].kind = "error"
                    \/ /\ SaidText(input) = <<>>
                       /\ \E i \in Said(input) : input[i].kind = "tool"
       IN IF fails THEN "error" \in DOMAIN response
          ELSE /\ response.text = SaidText(input)
               /\ Counted(input) # {} =>
                    response.tokens = input[Max(Counted(input))].usage
=============================================================================
