----------------------------- MODULE Reasoning -----------------------------
(***************************************************************************)
(* The reasoning engine: runTask (reasoning/src/reasoning-engine.ts) runs  *)
(* one task with the ReAct loop (react/react-loop.ts), the direct strategy *)
(* or the tree search (tree-search/).  The task may be cancelled, and its  *)
(* time may run out, at every await: of the event bus, of the model and of *)
(* a tool.  A tool call always returns a result, successful or not         *)
(* (tool-runtime/src/pipeline/execution-pipeline.ts catches every error).  *)
(***************************************************************************)
EXTENDS Integers, Sequences, FiniteSets, SequencesExt

CONSTANTS None,
          DefaultStrategy, \* options.defaultStrategy, or None
          MaxSteps,        \* maxSteps of the ReAct loop
          MaxDepth,        \* maxDepth of the tree search
          BeamWidth,
          LLMCallLimits,   \* the budgets of model calls that tasks have
          MaxToolCalls, MaxTokens \* the rest of their budget

Strategy == {"react", "direct", "tree_search"}

\* Why a run returned or threw.
Reasons == {"finish", "limit", "winner", "best", "cancelled", "noTool", "llm",
            "llmBudget", "toolBudget", "tokenBudget", "duration"}

VARIABLES task,       \* what the task needs and its budget of model calls
          running,    \* the strategy that was selected for it
          aborted,    \* task.cancellation.signal.aborted
          late,       \* has it run for maxDuration?
          consumed,   \* task.budget.consumed
          pc,         \* what the run waits for or how it ended
          step,       \* currentStep, or the depth of the search
          steps,      \* the steps of the ReAct loop or the direct strategy
          active,     \* activeBranches of the tree search
          candidates, \* candidateBranches
          ended,      \* why the run returned or threw
          calls,      \* how many calls of the model were begun
          afterAbort  \* how many calls of model and tools began after that

vars == <<task, running, aborted, late, consumed, pc, step, steps, active,
          candidates, ended, calls, afterAbort>>

\* A task by what the run looks for in it: taskRequiresTool, and its budget.
Tasks == [requiresTool : BOOLEAN, maxLLMCalls : LLMCallLimits]

\* StrategySelector.select, which looks for words in the tags and the
\* description of a task.
Wordings == [tags : SUBSET Strategy, words : {"tree_search", "direct", "other"}]
Select(t) ==
  IF DefaultStrategy # None THEN DefaultStrategy
  ELSE IF "tree_search" \in t.tags THEN "tree_search"
  ELSE IF "direct" \in t.tags THEN "direct"
  ELSE IF "react" \in t.tags \/ t.words = "other" THEN "react"
  ELSE t.words

\* A reply of the model by what ToolCallParser looks for in it: a JSON object
\* that names a tool or an answer, "Final Answer:" and "Action:".
Replies ==
  [json : {"tool", "answer", "none"}, final : BOOLEAN, action : BOOLEAN]

\* ToolCallParser.parse: what is neither is a final answer.
Parse(r) ==
  IF r.json = "tool" \/ (r.json = "none" /\ ~r.final /\ r.action)
  THEN "tool" ELSE "finish"

Kinds == {Parse(r) : r \in Replies}

StepResult(action, success) == [action |-> action, success |-> success]

\* The indexes of the tool calls, and of the failures, among steps.
ToolSteps(s) == {i \in DOMAIN s : s[i].action = "tool"}
FailedSteps(s) == {i \in DOMAIN s : ~s[i].success}

\* StateEvaluator.evaluate, in percent: matches is the share of the words of
\* the goal that the last step contains, completed whether it contains a
\* word such as "done" or "success".
Evaluate(s, matches, completed) ==
  LET n == Len(s)
      failed == Cardinality(FailedSteps(s))
      base == 30 + (40 * (n - failed)) \div n + matches \div 5 IN
  [score |-> CASE completed /\ failed = 0 -> IF base > 95 THEN base ELSE 95
               [] completed /\ failed > 0 -> IF base < 75 THEN base ELSE 75
               [] OTHER -> base,
   isComplete |-> completed]

NewBranch == [steps |-> <<>>, evaluation |-> [score |-> 10, isComplete |-> FALSE]]
Extended(b, r, matches, completed) ==
  [steps |-> Append(b.steps, r),
   evaluation |-> Evaluate(Append(b.steps, r), matches, completed)]

\* BeamSearch: the best branches, and the first that ends the search.
PruneBranches(bs) ==
  LET sorted == SortSeq(bs, LAMBDA a, b : a.evaluation.score > b.evaluation.score) IN
  SubSeq(sorted, 1, IF Len(bs) < BeamWidth THEN Len(bs) ELSE BeamWidth)
Wins(b) == b.evaluation.isComplete \/ b.evaluation.score >= 90
FindWinningBranch(bs) == SelectSeq(bs, Wins)
-----------------------------------------------------------------------------
Init ==
  /\ task \in Tasks
  /\ running \in {Select(w) : w \in Wordings}
  /\ aborted = FALSE /\ late = FALSE
  /\ consumed = [llmCalls |-> 0, toolCalls |-> 0, tokens |-> 0]
  /\ pc = "selected"
  /\ step = 0
  /\ steps = <<>> /\ active = <<>> /\ candidates = <<>>
  /\ ended = None
  /\ calls = 0 /\ afterAbort = 0

plan == <<task, running>>
budget == <<plan, aborted, late, consumed>>
search == <<active, candidates>>

Begins == afterAbort' = IF aborted THEN afterAbort + 1 ELSE afterAbort
CallsModel == pc' = "asking" /\ calls' = calls + 1 /\ Begins
Returns(why) == pc' = "returned" /\ ended' = why
Throws(why) == pc' = "threw" /\ ended' = why

\* After reasoning.strategy.selected.
Starts ==
  /\ pc = "selected"
  /\ CASE running = "react" ->
            pc' = "head" /\ UNCHANGED <<step, search, calls, afterAbort>>
       [] running = "direct" -> CallsModel /\ UNCHANGED <<step, search>>
       [] running = "tree_search" ->
            /\ step' = 1
            /\ active' = <<NewBranch>> /\ candidates' = <<>>
            /\ pc' = "expanding"
            /\ UNCHANGED <<calls, afterAbort>>
  /\ UNCHANGED <<budget, steps, ended>>

\* The model cannot be reached: every strategy lets the error through.
ModelFails ==
  /\ pc = "asking"
  /\ Throws("llm")
  /\ UNCHANGED <<budget, step, steps, search, calls, afterAbort>>
-----------------------------------------------------------------------------
\* The ReAct loop.
StepBegins ==
  /\ pc = "head" /\ step < MaxSteps
  /\ step' = step + 1
  /\ IF aborted THEN Throws("cancelled") ELSE pc' = "started" /\ UNCHANGED ended
  /\ UNCHANGED <<budget, steps, search, calls, afterAbort>>

LimitReached ==
  /\ pc = "head" /\ step = MaxSteps
  /\ IF task.requiresTool /\ ToolSteps(steps) = {}
     THEN Throws("noTool") ELSE Returns("limit")
  /\ UNCHANGED <<budget, step, steps, search, calls, afterAbort>>

\* Mutant of Exceeded: one more call than the budget allows.
ExceededLate ==
  IF consumed.llmCalls > task.maxLLMCalls THEN "llmBudget"
  ELSE IF consumed.toolCalls >= MaxToolCalls THEN "toolBudget"
  ELSE IF consumed.tokens >= MaxTokens THEN "tokenBudget"
  ELSE IF late THEN "duration" ELSE None

\* assertBudget.
Exceeded ==
  IF consumed.llmCalls >= task.maxLLMCalls THEN "llmBudget"
  ELSE IF consumed.toolCalls >= MaxToolCalls THEN "toolBudget"
  ELSE IF consumed.tokens >= MaxTokens THEN "tokenBudget"
  ELSE IF late THEN "duration" ELSE None

AsksModel ==
  /\ pc = "started"
  /\ IF Exceeded = None
     THEN CallsModel /\ UNCHANGED ended
     ELSE Throws(Exceeded) /\ UNCHANGED <<calls, afterAbort>>
  /\ UNCHANGED <<budget, step, steps, search>>

Consume(tokens) ==
  consumed' = [consumed EXCEPT !.llmCalls = @ + 1, !.tokens = @ + tokens]

\* A final answer without a tool call that the task requires is refused.
Nudged(kind, tokens) ==
  /\ running = "react" /\ pc = "asking" /\ kind = "finish"
  /\ task.requiresTool /\ ToolSteps(steps) = {}
  /\ Consume(tokens)
  /\ IF step = MaxSteps THEN Throws("noTool") ELSE pc' = "head" /\ UNCHANGED ended
  /\ UNCHANGED <<plan, aborted, late, step, steps, search, calls, afterAbort>>

Answers(kind, tokens) ==
  /\ running = "react" /\ pc = "asking" /\ kind = "finish"
  /\ ~(task.requiresTool /\ ToolSteps(steps) = {})
  /\ Consume(tokens)
  /\ steps' = Append(steps, StepResult("finish", TRUE))
  /\ pc' = "finishing"
  /\ UNCHANGED <<plan, aborted, late, step, search, ended, calls, afterAbort>>

Acts(kind, tokens) ==
  /\ running = "react" /\ pc = "asking" /\ kind = "tool"
  /\ Consume(tokens)
  /\ IF consumed.toolCalls >= MaxToolCalls
     THEN Throws("toolBudget") /\ UNCHANGED afterAbort
     ELSE pc' = "acting" /\ Begins /\ UNCHANGED ended
  /\ UNCHANGED <<plan, aborted, late, step, steps, search, calls>>

ToolReturns(success) ==
  /\ running = "react" /\ pc = "acting"
  /\ consumed' = [consumed EXCEPT !.toolCalls = @ + 1]
  /\ steps' = Append(steps, StepResult("tool", success))
  /\ pc' = "stepped"
  /\ UNCHANGED <<plan, aborted, late, step, search, ended, calls, afterAbort>>

\* After reasoning.step.completed.
StepEnds ==
  /\ running = "react" /\ pc \in {"stepped", "finishing"}
  /\ IF pc = "stepped" THEN pc' = "head" /\ UNCHANGED ended ELSE Returns("finish")
  /\ UNCHANGED <<budget, step, steps, search, calls, afterAbort>>
-----------------------------------------------------------------------------
\* The direct strategy: one call of the model, at most one of a tool.
DirectAnswers(kind) ==
  /\ running = "direct" /\ pc = "asking"
  /\ IF kind = "tool"
     THEN pc' = "acting" /\ Begins /\ UNCHANGED steps
     ELSE /\ steps' = <<StepResult("finish", TRUE)>>
          /\ pc' = "finishing" /\ UNCHANGED afterAbort
  /\ UNCHANGED <<budget, step, search, ended, calls>>

DirectToolReturns(success) ==
  /\ running = "direct" /\ pc = "acting"
  /\ steps' = <<StepResult("tool", success)>>
  /\ pc' = "finishing"
  /\ UNCHANGED <<budget, step, search, ended, calls, afterAbort>>

\* After reasoning.direct.completed.
DirectEnds ==
  /\ running = "direct" /\ pc = "finishing"
  /\ Returns("finish")
  /\ UNCHANGED <<budget, step, steps, search, calls, afterAbort>>
-----------------------------------------------------------------------------
\* The tree search: the branches of one depth, one after the other.
Branch == active[Len(candidates) + 1]

ExpandsBranch ==
  /\ pc = "expanding" /\ Len(candidates) < Len(active)
  /\ CallsModel
  /\ UNCHANGED <<budget, step, steps, search, ended>>

\* The step "finish" completes its branch whatever it says.
TreeAnswers(kind, matches) ==
  /\ running = "tree_search" /\ pc = "asking"
  /\ IF kind = "tool"
     THEN pc' = "acting" /\ Begins /\ UNCHANGED candidates
     ELSE /\ candidates' = Append(candidates,
               Extended(Branch, StepResult("finish", TRUE), matches, TRUE))
          /\ pc' = "expanding" /\ UNCHANGED afterAbort
  /\ UNCHANGED <<budget, step, steps, active, ended, calls>>

TreeToolReturns(success, matches, completed) ==
  /\ running = "tree_search" /\ pc = "acting"
  /\ candidates' = Append(candidates,
       Extended(Branch, StepResult("tool", success), matches, completed))
  /\ pc' = "expanding"
  /\ UNCHANGED <<budget, step, steps, active, ended, calls, afterAbort>>

\* Every branch is expanded: one wins, or the best go on.
DepthEnds ==
  LET winners == FindWinningBranch(candidates) IN
  /\ pc = "expanding" /\ Len(candidates) = Len(active)
  /\ IF winners # <<>>
     THEN /\ active' = <<Head(winners)>> /\ ended' = "winner"
          /\ pc' = "finishing" /\ UNCHANGED candidates
     ELSE /\ active' = PruneBranches(candidates) /\ UNCHANGED <<candidates, ended>>
          /\ pc' = "pruned"
  /\ UNCHANGED <<budget, step, steps, calls, afterAbort>>

\* After reasoning.tree_search.pruned.
NextDepth ==
  /\ pc = "pruned"
  /\ candidates' = <<>>
  /\ IF step = MaxDepth
     THEN pc' = "finishing" /\ ended' = "best" /\ UNCHANGED step
     ELSE pc' = "expanding" /\ step' = step + 1 /\ UNCHANGED ended
  /\ UNCHANGED <<budget, steps, active, calls, afterAbort>>

\* After reasoning.tree_search.completed.
TreeEnds ==
  /\ running = "tree_search" /\ pc = "finishing"
  /\ pc' = "returned"
  /\ UNCHANGED <<budget, step, steps, search, ended, calls, afterAbort>>
-----------------------------------------------------------------------------
\* cancelTask of the kernel, and the clock.
Cancel ==
  /\ pc \notin {"returned", "threw"} /\ ~aborted
  /\ aborted' = TRUE
  /\ UNCHANGED <<plan, late, consumed, pc, step, steps, search, ended, calls,
                 afterAbort>>

TimePasses ==
  /\ pc \notin {"returned", "threw"} /\ ~late
  /\ late' = TRUE
  /\ UNCHANGED <<plan, aborted, consumed, pc, step, steps, search, ended, calls,
                 afterAbort>>

Progress ==
  \/ Starts \/ ModelFails \/ StepBegins \/ LimitReached \/ AsksModel
  \/ \E k \in Kinds, t \in 1..2 : Nudged(k, t) \/ Answers(k, t) \/ Acts(k, t)
  \/ \E s \in BOOLEAN : ToolReturns(s) \/ DirectToolReturns(s)
  \/ StepEnds \/ DirectEnds \/ ExpandsBranch \/ DepthEnds \/ NextDepth \/ TreeEnds
  \/ \E k \in Kinds : DirectAnswers(k)
  \/ \E k \in Kinds, m \in {0, 50, 100} : TreeAnswers(k, m)
  \/ \E s, c \in BOOLEAN, m \in {0, 50, 100} : TreeToolReturns(s, m, c)

Ended == pc \in {"returned", "threw"}
Next == Progress \/ Cancel \/ TimePasses

Spec == Init /\ [][Next]_vars

\* The providers answer or time out, the tools of this repository end or time
\* out, the event bus returns.
FairSpec == Spec /\ WF_vars(Progress)
-----------------------------------------------------------------------------
\* The type invariant: the domain of every variable of the engine.
TypeOK ==
  /\ task \in Tasks /\ running \in Strategy
  /\ aborted \in BOOLEAN /\ late \in BOOLEAN
  /\ consumed \in [llmCalls : Nat, toolCalls : Nat, tokens : Nat]
  /\ pc \in {"selected", "head", "started", "asking", "acting", "stepped",
             "expanding", "pruned", "finishing", "returned", "threw"}
  /\ step \in 0..(IF MaxSteps > MaxDepth THEN MaxSteps ELSE MaxDepth)
  /\ \A i \in DOMAIN steps :
       steps[i] \in [action : {"tool", "finish"}, success : BOOLEAN]
  /\ calls \in Nat /\ afterAbort \in Nat

(***************************************************************************)
(* The ReAct loop spends no more calls than the task's budget has, and     *)
(* what it reports as consumed is what it did: a tool call for each tool   *)
(* step and a model call for each reply.                                   *)
(***************************************************************************)
BudgetHolds ==
  running = "react" =>
    /\ calls <= task.maxLLMCalls
    /\ consumed.toolCalls = Cardinality(ToolSteps(steps))
    /\ consumed.toolCalls + (IF pc = "acting" THEN 1 ELSE 0) <= MaxToolCalls
    /\ consumed.llmCalls =
         calls - (IF pc = "asking" \/ ended = "llm" THEN 1 ELSE 0)

(***************************************************************************)
(* After a cancellation the ReAct loop begins at most one more call of the *)
(* model and one of a tool, those of the step that it is in.               *)
(***************************************************************************)
AbortIsNoticed == running = "react" => afterAbort <= 2
=============================================================================
