----------------------------- MODULE Retrieval -----------------------------
(***************************************************************************)
(* The search of the memory and the context made from it                   *)
(* (memory/src/retrieval/hybrid-retriever.ts).  The five parts of a score  *)
(* and the decay are numbers from real functions (cosines, exponentials,   *)
(* logarithms); here a record has its parts in percent, and a decayed      *)
(* record keeps half of its score.  The records of a store come in the     *)
(* order of its query: the episodes from the newest on, the facts from the *)
(* surest on.                                                              *)
(***************************************************************************)
EXTENDS Integers, Sequences, SequencesExt, FiniteSetsExt

CONSTANT PageSize     \* the candidates that are read of a store: 500 in the code

\* DEFAULT_WEIGHTS, in percent.
Weights == [vector |-> 40, keyword |-> 20, recency |-> 15, importance |-> 15,
            frequency |-> 10]

(***************************************************************************)
(* The score of an episode or a fact: the weighted sum of its parts, under *)
(* the decay since it was last used; a fact of more than 90 percent        *)
(* confidence, its importance, does not decay.                             *)
(***************************************************************************)
Relevance(m) ==
  Weights.vector * m.vector + Weights.keyword * m.keyword
    + Weights.recency * m.recency + Weights.importance * m.importance
    + Weights.frequency * m.frequency
Keeps(m) == m.kind = "fact" /\ m.importance > 90
Score(m) == IF m.decayed /\ ~Keeps(m) THEN Relevance(m) \div 2 ELSE Relevance(m)

\* Where the sort by score, which is stable, puts one record of a store before
\* another.
Before(records, i, j) ==
  \/ Score(records[i]) > Score(records[j])
  \/ Score(records[i]) = Score(records[j]) /\ i < j

\* The records at the positions of P in the order of the sort.
Sorted(records, P) ==
  LET order == CHOOSE q \in [1 .. Cardinality(P) -> P] :
                 \A i, j \in DOMAIN q : i < j => Before(records, q[i], q[j])
  IN [k \in 1 .. Cardinality(P) |-> records[order[k]]]

\* The candidates that the slice after the sort leaves, as many as the limit.
Ranked(records, P, limit) ==
  {i \in P : Cardinality({j \in P : Before(records, j, i)}) < limit}

\* The time range of a query holds for episodes only.
InRange(m, query) == m.time \in query.from .. query.to

\* getAll and getActiveFacts: the first records only, whatever their score.
Page(records) == {i \in DOMAIN records : i <= PageSize}

\* search: what each page has to say, at least as good as minScore.
Found(records, P, query) ==
  Sorted(records, {i \in Ranked(records, P, query.limit) :
                     Score(records[i]) >= query.minScore})
Search(query, episodes, facts) ==
  [episodic |-> Found(episodes, {i \in Page(episodes) : InRange(episodes[i], query)},
                      query),
   semantic |-> Found(facts, Page(facts), query)]

\* The sum of the first k of some numbers, and the length of the first k lines.
Total(numbers, k) ==
  LET total[j \in 0 .. k] == IF j = 0 THEN 0 ELSE total[j - 1] + numbers[j]
  IN total[k]
Tokens(records, k) == Total([i \in DOMAIN records |-> records[i].tokens], k)

(***************************************************************************)
(* One half of retrieveForContext: a header if it leaves a token of the    *)
(* budget, with or without it the records from the best on, until one does *)
(* not fit.                                                                *)
(***************************************************************************)
AddHeader(used, header, budget) ==
  IF used + header < budget THEN used + header ELSE used
Fitting(records, used, budget) ==
  Max({k \in 0 .. Len(records) :
         \A j \in 1 .. k : used + Tokens(records, j) <= budget})
WithLines(lines, used) ==
  [lines |-> lines, used |-> used + Tokens(lines, Len(lines))]

\* Mutant of Section: a record that does not fit is passed over.
SectionOfAllThatFit(records, header, used, budget) ==
  LET start == AddHeader(used, header, budget)
      Add(lines, m) ==
        IF WithLines(Append(lines, m), start).used > budget THEN lines
        ELSE Append(lines, m)
  IN WithLines(FoldLeft(Add, <<>>, records), start)

Section(records, header, used, budget) ==
  LET start == AddHeader(used, header, budget)
  IN IF records = <<>> THEN WithLines(<<>>, used)
     ELSE WithLines(SubSeq(records, 1, Fitting(records, start, budget)), start)

(***************************************************************************)
(* retrieveForContext: the facts and then the episodes that a search finds.*)
(* The memory system appends up to two procedures whatever the budget is.  *)
(***************************************************************************)
RetrieveForContext(query, episodes, facts, headers, budget) ==
  LET found == Search(query, episodes, facts)
      f == Section(found.semantic, headers[1], 0, budget)
      e == Section(found.episodic, headers[2], f.used, budget)
  IN [facts |-> f.lines, episodes |-> e.lines, used |-> e.used]
=============================================================================
