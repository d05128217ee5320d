--------------------------- MODULE SelfImprovement ---------------------------
(***************************************************************************)
(* Learning from failures (self-improvement/src): anti-patterns extracted  *)
(* from the traces of failed tasks (anti-patterns/), and versions of the   *)
(* prompts (prompt-evolution/, rollback/).  Both wait for the model in the *)
(* middle: an analysis before it looks for the anti-pattern that it found, *)
(* a proposal after it chose its version.                                  *)
(***************************************************************************)
EXTENDS Integers, Sequences, FiniteSets

CONSTANTS Lesson,    \* pairs of a context and a mistake
          Prompt,    \* the targets of proposals
          Analysis,  \* the calls of processTrace and
          Proposal,  \*   of proposePromptImprovement that may wait at once
          MaxTraces, MaxMutations, \* bound the traces and the proposals
          Recent     \* the limit of recentTraces

VARIABLES recent,    \* recentTraces: whether each was successful
          traced,    \* how many traces were processed
          analyses,  \* the analyses that wait for the model
          patterns,  \* the rows of anti_patterns
          learned,   \* how often each lesson was drawn
          proposals, \* the version of each proposal that waits for the model
          mutations  \* the rows of prompt_mutations

vars == <<recent, traced, analyses, patterns, learned, proposals, mutations>>

NoProposal == [target |-> "none", version |-> 0, overtaken |-> FALSE]

Init ==
  /\ recent = <<>> /\ traced = 0
  /\ analyses = {}
  /\ patterns = <<>>
  /\ learned = [l \in Lesson |-> 0]
  /\ proposals = [p \in Proposal |-> NoProposal]
  /\ mutations = <<>>

\* The latest traces are kept.
Shifted(s) == IF Len(s) > Recent THEN Tail(s) ELSE s

\* processTrace: a failed trace goes to the model.
ProcessTrace(a, success) ==
  /\ traced < MaxTraces /\ traced' = traced + 1
  /\ recent' = Shifted(Append(recent, success))
  /\ IF success THEN UNCHANGED analyses
     ELSE a \notin analyses /\ analyses' = analyses \cup {a}
  /\ UNCHANGED <<patterns, learned, proposals, mutations>>

Known(l) == {i \in DOMAIN patterns : patterns[i].lesson = l}
Learn(l) == learned' = [learned EXCEPT ![l] = @ + 1]

\* Mutant of RecordLesson: the anti-pattern is not looked for.
RecordLessonAnew(l) ==
  /\ patterns' = Append(patterns, [lesson |-> l, occurrences |-> 1])
  /\ Learn(l)

\* record: the row of the lesson counts one more occurrence, or is inserted.
RecordLesson(l) ==
  /\ patterns' =
       IF Known(l) = {} THEN Append(patterns, [lesson |-> l, occurrences |-> 1])
       ELSE [i \in DOMAIN patterns |->
               IF i = CHOOSE j \in Known(l) : TRUE
               THEN [patterns[i] EXCEPT !.occurrences = @ + 1] ELSE patterns[i]]
  /\ Learn(l)

\* The model names a lesson, or fails and the heuristic does.
EndAnalysis(a, l) ==
  /\ a \in analyses
  /\ analyses' = analyses \ {a}
  /\ RecordLesson(l)
  /\ UNCHANGED <<recent, traced, proposals, mutations>>
-----------------------------------------------------------------------------
Versions(t) == {mutations[i].version : i \in {j \in DOMAIN mutations :
                                                mutations[j].target = t}}

\* Mutant of LatestVersion: the rows are counted that are still active.
CountActive(t) ==
  Cardinality({i \in DOMAIN mutations :
                 mutations[i].target = t /\ mutations[i].status = "active"})

\* getLatestVersionNumber.
LatestVersion(t) ==
  IF Versions(t) = {} THEN 0
  ELSE CHOOSE v \in Versions(t) : \A w \in Versions(t) : w <= v

\* proposeImprovement up to the call of the model.
BeginProposal(p, t) ==
  /\ proposals[p] = NoProposal
  /\ Len(mutations) + Cardinality({q \in Proposal : proposals[q] # NoProposal})
       < MaxMutations
  /\ proposals' = [proposals EXCEPT ![p] =
       [target |-> t, version |-> LatestVersion(t) + 1, overtaken |-> FALSE]]
  /\ UNCHANGED <<recent, traced, analyses, patterns, learned, mutations>>

\* The row is active whether or not the model changed the prompt, and other
\* proposals for the target that wait keep the version they have.
EndProposal(p, valid) ==
  LET new == proposals[p] IN
  /\ new # NoProposal
  /\ mutations' = Append(mutations,
       [target |-> new.target, version |-> new.version, valid |-> valid,
        status |-> "active", overtaken |-> new.overtaken])
  /\ proposals' = [q \in Proposal |->
       IF q = p THEN NoProposal
       ELSE IF proposals[q].target = new.target
            THEN [proposals[q] EXCEPT !.overtaken = TRUE] ELSE proposals[q]]
  /\ UNCHANGED <<recent, traced, analyses, patterns, learned>>

\* rollbackChange and applyPromptImprovement.
SetStatus(i, status) ==
  /\ mutations[i].status # status
  /\ mutations' = [mutations EXCEPT ![i].status = status]
  /\ UNCHANGED <<recent, traced, analyses, patterns, learned, proposals>>

\* getActivePrompt: the rows that may be the prompt of a target; rows of one
\* version come in any order.
ActivePrompts(t) ==
  LET active == {i \in DOMAIN mutations :
                   mutations[i].target = t /\ mutations[i].status = "active"} IN
  {i \in active : \A j \in active : mutations[j].version <= mutations[i].version}

Next ==
  \/ \E a \in Analysis, success \in BOOLEAN : ProcessTrace(a, success)
  \/ \E a \in analyses, l \in Lesson : EndAnalysis(a, l)
  \/ \E p \in Proposal, t \in Prompt : BeginProposal(p, t)
  \/ \E p \in Proposal, valid \in BOOLEAN : EndProposal(p, valid)
  \/ \E i \in DOMAIN mutations, s \in {"active", "rolled_back"} : SetStatus(i, s)

Spec == Init /\ [][Next]_vars
-----------------------------------------------------------------------------
\* The type invariant: the domain of every variable.
TypeOK ==
  /\ recent \in Seq(BOOLEAN) /\ Len(recent) <= Recent
  /\ traced \in 0 .. MaxTraces /\ analyses \subseteq Analysis
  /\ \A i \in DOMAIN patterns :
       patterns[i].lesson \in Lesson /\ patterns[i].occurrences \in Nat \ {0}
  /\ learned \in [Lesson -> Nat]
  /\ \A p \in Proposal : proposals[p].target \in Prompt \cup {"none"}
  /\ \A i \in DOMAIN mutations :
       /\ mutations[i].target \in Prompt /\ mutations[i].version \in Nat \ {0}
       /\ mutations[i].status \in {"active", "rolled_back"}

(***************************************************************************)
(* Each lesson has one anti-pattern that counts how often it was drawn,    *)
(* however the analyses overlap (anti-pattern-store.ts:25-102).            *)
(***************************************************************************)
LearnedOnce ==
  \A l \in Lesson :
    /\ Cardinality(Known(l)) <= 1
    /\ learned[l] > 0 => \E i \in Known(l) : patterns[i].occurrences = learned[l]

(***************************************************************************)
(* Of two proposals for a target the later has the higher version, also    *)
(* after rollbacks, unless the earlier came while the later waited for the *)
(* model (prompt-evolution-engine.ts:33-117); so without such a proposal   *)
(* at most one row is the prompt of its target.                            *)
(***************************************************************************)
VersionsTellOrder ==
  /\ \A j \in DOMAIN mutations : \A i \in 1 .. j - 1 :
       mutations[i].target = mutations[j].target =>
         mutations[i].version < mutations[j].version \/ mutations[j].overtaken
  /\ \A t \in Prompt :
       (\A i \in DOMAIN mutations : mutations[i].target = t => ~mutations[i].overtaken)
         => Cardinality(ActivePrompts(t)) <= 1
=============================================================================
