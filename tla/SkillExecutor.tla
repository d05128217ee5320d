--------------------------- MODULE SkillExecutor ---------------------------
(***************************************************************************)
(* Executing a skill: execute and executeStepAction                        *)
(* (skills/src/executor/skill-executor.ts), over a registry that changes   *)
(* while they wait.  The calls of execute for sub-skills form a stack;     *)
(* each frame works on the manifest that was registered when it began.     *)
(* Conditions, tools and the model answer either way.  The calls from      *)
(* outside come one after the other here; in the code they may overlap     *)
(* (skills-engine.ts:42), and share only the registry, which changes       *)
(* between any two steps here too, and statistics that no await splits.    *)
(***************************************************************************)
EXTENDS SkillRegistry, FiniteSets

CONSTANTS MaxCalls,  \* bounds the calls of execute from outside
          MaxVisits  \* bounds the steps that one frame may go through

MaxDepth == 5
Attempts == 3

VARIABLES frames,   \* the calls of execute, the innermost last
          calls,    \* the calls from outside so far
          entered,  \* the executions of each skill that passed the checks
          stats     \* totalExecutions and successCount of each skill

execVars == <<frames, calls, entered, stats>>
vars == <<registryVars, execVars>>

Init ==
  /\ RegistryInit
  /\ frames = <<>>
  /\ calls = 0
  /\ entered = [s \in Skill |-> 0]
  /\ stats = [s \in Skill |-> [total |-> 0, success |-> 0]]

Top == frames[Len(frames)]
Current == Top.steps[Top.at]
WithTop(frame) == [frames EXCEPT ![Len(frames)] = frame]

\* A frame at the beginning of its steps.
Frame(s) ==
  [skill |-> s, steps |-> registry[s].steps, at |-> 1, attempts |-> 0,
   failed |-> 0, aborted |-> FALSE, waiting |-> FALSE, visits |-> 0]

MoveTo(frame, index) ==
  [frame EXCEPT !.at = index, !.attempts = 0, !.visits = @ + 1]

(***************************************************************************)
(* What a frame does when an attempt at its step ended: a success goes on  *)
(* to the next step; a failure is tried again if the policy and the number *)
(* of attempts allow it, and else follows the policy.                      *)
(***************************************************************************)
Settled(frame, ok) ==
  LET step == frame.steps[frame.at]
      max == IF step.onFailure = "retry" THEN Attempts ELSE 1
      back == [frame EXCEPT !.waiting = FALSE]
      lost == [back EXCEPT !.failed = @ + 1]
  IN
  IF ok THEN MoveTo(back, frame.at + 1)
  ELSE IF frame.attempts + 1 < max THEN [back EXCEPT !.attempts = @ + 1]
  ELSE IF step.onFailure = "abort" THEN [lost EXCEPT !.aborted = TRUE]
  ELSE IF step.onFailure = "fallback" /\ step.fallback \in DOMAIN frame.steps
       THEN MoveTo(lost, step.fallback)
  ELSE MoveTo(lost, frame.at + 1)

AtStep ==
  /\ frames # <<>>
  /\ ~Top.waiting /\ ~Top.aborted
  /\ Top.at \in DOMAIN Top.steps
  /\ Top.visits < MaxVisits
-----------------------------------------------------------------------------
(***************************************************************************)
(* execute throws before its first step when it is too deep or the skill   *)
(* is unknown, and may throw for a missing input or a missing tool.        *)
(***************************************************************************)
Refuses(s) == Len(frames) > MaxDepth \/ registry[s] = NoSkill

\* A call from outside, of a skill that is registered.
Execute(s) ==
  /\ frames = <<>>
  /\ calls < MaxCalls
  /\ calls' = calls + 1
  /\ registry[s] # NoSkill
  /\ \/ UNCHANGED <<frames, entered>>  \* it throws
     \/ /\ ~Refuses(s)
        /\ frames' = Append(frames, Frame(s))
        /\ entered' = [entered EXCEPT ![s] = @ + 1]
  /\ UNCHANGED <<registryVars, stats>>

\* The step's condition does not hold.
SkipStep ==
  /\ AtStep
  /\ Current.conditional /\ Top.attempts = 0
  /\ frames' = WithTop(MoveTo(Top, Top.at + 1))
  /\ UNCHANGED <<registryVars, calls, entered, stats>>

\* An attempt at a step that calls no skill.
Attempt(ok) ==
  /\ AtStep
  /\ Current.calls = None
  /\ frames' = WithTop(Settled(Top, ok))
  /\ UNCHANGED <<registryVars, calls, entered, stats>>

\* An attempt at a step that does: the call begins, or it throws.
CallSubSkill ==
  /\ AtStep
  /\ Current.calls # None
  /\ LET s == Current.calls IN
        \/ frames' = WithTop(Settled(Top, FALSE)) /\ UNCHANGED entered
        \/ /\ ~Refuses(s)
           /\ frames' = Append(WithTop([Top EXCEPT !.waiting = TRUE]), Frame(s))
           /\ entered' = [entered EXCEPT ![s] = @ + 1]
  /\ UNCHANGED <<registryVars, calls, stats>>

\* Mutant of Finish: an aborted execution returns before it is counted.
FinishUnlessAborted ==
  /\ frames # <<>>
  /\ ~Top.waiting
  /\ Top.aborted \/ Top.at \notin DOMAIN Top.steps
  /\ LET success == ~Top.aborted /\ Top.failed = 0
         rest == SubSeq(frames, 1, Len(frames) - 1)
     IN
     /\ stats' = IF Top.aborted THEN stats
                 ELSE [stats EXCEPT ![Top.skill] =
                         [total |-> @.total + 1,
                          success |-> IF success THEN @.success + 1 ELSE @.success]]
     /\ frames' = IF rest = <<>> THEN rest
                  ELSE [rest EXCEPT ![Len(rest)] = Settled(@, success)]
  /\ UNCHANGED <<registryVars, calls, entered>>

\* The end of execute: updateStats, and the result for the caller's step.
Finish ==
  /\ frames # <<>>
  /\ ~Top.waiting
  /\ Top.aborted \/ Top.at \notin DOMAIN Top.steps
  /\ LET success == ~Top.aborted /\ Top.failed = 0
         rest == SubSeq(frames, 1, Len(frames) - 1)
     IN
     /\ stats' = [stats EXCEPT ![Top.skill] =
          [total |-> @.total + 1,
           success |-> IF success THEN @.success + 1 ELSE @.success]]
     /\ frames' = IF rest = <<>> THEN rest
                  ELSE [rest EXCEPT ![Len(rest)] = Settled(@, success)]
  /\ UNCHANGED <<registryVars, calls, entered>>

Run == SkipStep \/ Attempt(TRUE) \/ Attempt(FALSE) \/ CallSubSkill \/ Finish

Next ==
  \/ RegistryNext /\ UNCHANGED execVars
  \/ \E s \in Skill : Execute(s)
  \/ Run

Spec == Init /\ [][Next]_vars

\* Tools, sub-skills and the model answer.
FairSpec == Spec /\ WF_vars(Run)
-----------------------------------------------------------------------------
\* The type invariant: the domain of every variable of the executor.
TypeOK ==
  /\ \A s \in Skill : registry[s].version \in Nat /\
       \A i \in DOMAIN registry[s].steps : registry[s].steps[i] \in Step
  /\ registers \in 0 .. MaxRegisters /\ Len(refining) <= MaxRefines
  /\ \A i \in DOMAIN frames :
       /\ frames[i].skill \in Skill /\ frames[i].at \in Nat \ {0}
       /\ frames[i].attempts \in 0 .. Attempts - 1
       /\ frames[i].visits \in 0 .. MaxVisits
  /\ calls \in 0 .. MaxCalls
  /\ entered \in [Skill -> Nat]
  /\ stats \in [Skill -> [total : Nat, success : Nat]]

\* Whatever is registered during an execution, it never nests deeper than
\* the limit: the stack of calls cannot grow without bound.
NestingIsBounded == Len(frames) <= MaxDepth + 1

(***************************************************************************)
(* Each execution that began is counted once, also when it was aborted or  *)
(* was one of several attempts at a sub-skill.                             *)
(***************************************************************************)
EveryExecutionIsCounted ==
  \A s \in Skill :
    entered[s] = stats[s].total
                   + Cardinality({i \in DOMAIN frames : frames[i].skill = s})
=============================================================================
