----------------------------- MODULE Execution ------------------------------
(***************************************************************************)
(* What a task goes through once the kernel runs it: the executor of       *)
(* plans, the executor of skills, the reasoning engine and the LLM router. *)
(* They call each other but share no state, and each takes any outcome of  *)
(* what it calls, so each behaviour is about one of them, its focus.  What *)
(* TLC takes for the constants that are not plain sets and numbers stands  *)
(* at the end.                                                             *)
(***************************************************************************)
EXTENDS SkillExecutor, FiniteSetsExt

CONSTANTS Planned, MaxReplans, MaxRecovery, MaxTotal, \* see PlanExecutor
          DefaultStrategy, MaxSteps, SearchDepth, BeamWidth, \* see Reasoning,
          LLMCallLimits, MaxToolCalls, MaxTokens, \* SearchDepth is its MaxDepth
          Call, Request, Messages, Given, Provider, MayExpire  \* see LLMRouter

VARIABLE focus
VARIABLES total, deps, optional, stepState, done, batch, current, planPc, version,
          asked, repairs
VARIABLES task, running, aborted, late, consumed, runPc, step, steps, active,
          candidates, ended, modelCalls, afterAbort
VARIABLES providers, default, cache, cost, callPc, request, route, result

planVars == <<total, deps, optional, stepState, done, batch, current, planPc,
              version, asked, repairs>>
runVars == <<task, running, aborted, late, consumed, runPc, step, steps, active,
             candidates, ended, modelCalls, afterAbort>>
routerVars == <<providers, default, cache, cost, callPc, request, route, result>>
allVars == <<focus, vars, planVars, runVars, routerVars>>

Plan == INSTANCE PlanExecutor WITH pc <- planPc

Engine == INSTANCE Reasoning
            WITH MaxDepth <- SearchDepth, pc <- runPc, calls <- modelCalls

Router == INSTANCE LLMRouter WITH pc <- callPc

ASSUME PlanAssumption ==
  /\ Planned \in Nat \ {0} /\ MaxTotal \in Nat /\ Planned <= MaxTotal
  /\ MaxReplans \in Nat /\ MaxRecovery \in [1 .. MaxReplans -> Nat \ {0}]

ASSUME EngineAssumption ==
  /\ DefaultStrategy \in Engine!Strategy \cup {None}
  /\ None \notin Engine!Strategy \cup Engine!Reasons
  /\ LLMCallLimits \cup {MaxSteps, SearchDepth, BeamWidth, MaxToolCalls, MaxTokens}
       \subseteq Nat \ {0}

ASSUME RouterAssumption ==
  /\ \A r \in Request : Given[r].provider \in Provider \cup {None}
  /\ None \notin Provider \cup Request /\ MayExpire \in BOOLEAN
-----------------------------------------------------------------------------
\* What is not in focus is in one of its initial states for ever.
AllInit ==
  /\ focus \in {"plan", "skill", "reasoning", "router"}
  /\ Init /\ Plan!Init /\ Engine!Init /\ Router!Init
  /\ focus # "plan" => deps = {} /\ optional = {}
  /\ focus # "reasoning" =>
       /\ task = [requiresTool |-> FALSE, maxLLMCalls |-> Max(LLMCallLimits)]
       /\ running = "direct"

notSkill == <<focus, planVars, runVars, routerVars>>
notPlan == <<focus, vars, runVars, routerVars>>
notRun == <<focus, vars, planVars, routerVars>>
notRouter == <<focus, vars, planVars, runVars>>

AllNext ==
  \/ focus = "skill" /\ Next /\ UNCHANGED notSkill
  \/ focus = "plan" /\ Plan!Next /\ UNCHANGED notPlan
  \/ focus = "reasoning" /\ Engine!Next /\ UNCHANGED notRun
  \/ focus = "router" /\ Router!Next /\ UNCHANGED notRouter

\* Only one of them runs, so that fairness to their disjunction is fairness to
\* each; see the fairness of each module.
Progress ==
  \/ focus = "skill" /\ Run /\ UNCHANGED notSkill
  \/ focus = "plan" /\ Plan!Advance /\ UNCHANGED notPlan
  \/ focus = "reasoning" /\ Engine!Progress /\ UNCHANGED notRun
  \/ focus = "router" /\ (\E c \in Call : Router!Progress(c)) /\ UNCHANGED notRouter

AllSpec == AllInit /\ [][AllNext]_allVars
FairAllSpec == AllSpec /\ WF_allVars(Progress)
-----------------------------------------------------------------------------
(***************************************************************************)
(* However a plan is rebuilt, a step runs after what the decomposition and *)
(* each replan put before it (plan-executor.ts:32-145), the plan has a     *)
(* step to run, and it fails only when its replans are used up             *)
(* (dynamic-replanner.ts).                                                 *)
(***************************************************************************)
PlansAreSound ==
  Plan!PrerequisitesFirst /\ Plan!NeverDeadlocks /\ Plan!FailsOnlyOnBudget

(***************************************************************************)
(* The ReAct loop keeps its budgets and notices a cancellation             *)
(* (react-loop.ts:35-204), and each execution of a skill is counted once,  *)
(* whatever became of it (skill-executor.ts:164-218).                      *)
(***************************************************************************)
AccountsHold ==
  Engine!BudgetHolds /\ Engine!AbortIsNoticed /\ EveryExecutionIsCounted

\* Calls of generate that run at once do not get each other's answers, unless
\* their requests differ in a preset only, and the provider asked for goes
\* first (llm-router.ts, response-cache.ts).
AnswersAreRight == Router!AnswersMatchRequests /\ Router!AskedComesFirst

UnderWay ==
  CASE focus = "plan" -> ~Plan!Ended
    [] focus = "skill" -> frames # <<>>
    [] focus = "reasoning" -> ~Engine!Ended
    [] focus = "router" -> \E c \in Call : Router!UnderWay(c)

(***************************************************************************)
(* Whatever a task has begun ends: an execution of a plan or a skill, a    *)
(* run of the reasoning engine, every call of generate.                    *)
(***************************************************************************)
EveryRunEnds == UnderWay ~> ~UnderWay
-----------------------------------------------------------------------------
(***************************************************************************)
(* An instance for TLC.  Two skills that can call each other, or not, with *)
(* every failure policy; fallback steps are later steps.                   *)
(***************************************************************************)
Do(sub, policy, next, guarded) ==
  [calls |-> sub, onFailure |-> policy, fallback |-> next,
   conditional |-> guarded]

Two == {"A", "B"}
TwoBodies ==
  [A |-> {<<Do("B", "retry", 0, FALSE)>>,
          <<Do(None, "fallback", 3, FALSE), Do("B", "abort", 0, TRUE),
            Do(None, "skip", 0, FALSE)>>,
          <<Do(None, "skip", 0, TRUE)>>},
   B |-> {<<Do("A", "abort", 0, FALSE)>>,
          <<Do(None, "retry", 0, FALSE), Do(None, "fallback", 9, FALSE)>>}]

\* One or two recovery steps in the first replan, one in the second.
TwoThenOne == <<2, 1>>

\* Three requests with the same messages: one gives nothing else, one asks for
\* the provider "p1", one gives the temperature that is preset.
Open == [provider |-> None, model |-> None, temperature |-> None, maxTokens |-> None]
ThreeRequests ==
  [plain |-> Open, asked |-> [Open EXCEPT !.provider = "p1"],
   preset |-> [Open EXCEPT !.temperature = "0.7"]]
OneMessage == [r \in DOMAIN ThreeRequests |-> "m"]
=============================================================================
