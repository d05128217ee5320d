--------------------------- MODULE SkillRegistry ---------------------------
(***************************************************************************)
(* The skill registry (skills/src/registry/skill-registry.ts) and refine   *)
(* (skills/src/skills-engine.ts).  A manifest is a version and a sequence  *)
(* of steps; a step calls another skill or does something by itself.       *)
(* Everything runs in one process, and refine waits for the model between  *)
(* reading a skill and registering what it made of it.                     *)
(***************************************************************************)
EXTENDS Integers, Sequences

CONSTANTS Skill,        \* the ids of skills
          Bodies,       \* the step sequences that callers register, by skill
          None,         \* a skill that is not registered
          MaxRegisters, \* bounds the registrations by callers
          MaxRefines    \* bounds the calls of refine

ASSUME RegistryAssumption ==
  /\ None \notin Skill
  /\ MaxRegisters \in Nat /\ MaxRefines \in Nat

\* A step: the skill it calls (None for the other actions), its onFailure
\* policy, the index of its fallback step (0 without one) and whether it
\* has a condition.
Step == [calls : Skill \cup {None}, onFailure : {"abort", "skip", "retry", "fallback"},
         fallback : Nat, conditional : BOOLEAN]
NoSkill == [version |-> 0, steps |-> <<>>]

VARIABLES registry,  \* skills: the manifest of each skill
          refining,  \* the calls of refine that wait for the model
          registers  \* the registrations by callers so far

registryVars == <<registry, refining, registers>>

RegistryInit ==
  /\ registry = [s \in Skill |-> NoSkill]
  /\ refining = <<>>
  /\ registers = 0

\* The sub-skills of a step sequence.
SubSkills(steps) == {steps[i].calls : i \in DOMAIN steps} \ {None}

\* Mutant of FormsCycle: only the skill's own steps are looked at.
CallsItself(s, steps) == s \in SubSkills(steps)

(***************************************************************************)
(* detectCompositionCycle: the depth-first search from the sub-skills of   *)
(* the new steps meets skill s.  It does not when some set of skills       *)
(* without s has the sub-skills and all that its members call.  (The       *)
(* search would also throw at a cycle without s; there is none.)           *)
(***************************************************************************)
FormsCycle(s, steps) ==
  ~ \E C \in SUBSET (Skill \ {s}) :
      /\ SubSkills(steps) \subseteq C
      /\ \A x \in C : SubSkills(registry[x].steps) \subseteq C

\* register: replaces the skill, or throws and changes nothing.
Put(s, manifest) ==
  IF FormsCycle(s, manifest.steps) THEN UNCHANGED registry
  ELSE registry' = [registry EXCEPT ![s] = manifest]

\* A caller, or loadFromDirectory, registers a manifest.
Register(s) ==
  /\ registers < MaxRegisters
  /\ registers' = registers + 1
  /\ \E steps \in Bodies[s] : Put(s, [version |-> 1, steps |-> steps])
  /\ UNCHANGED refining

\* refine up to the answer of the model.
BeginRefine(s) ==
  /\ registry[s] # NoSkill
  /\ Len(refining) < MaxRefines
  /\ refining' = Append(refining, [skill |-> s, manifest |-> registry[s]])
  /\ UNCHANGED <<registry, registers>>

\* The policies are made more lenient and the version is bumped.
Improve(manifest) ==
  [version |-> manifest.version + 1,
   steps |-> [i \in DOMAIN manifest.steps |->
                IF manifest.steps[i].onFailure = "abort"
                THEN [manifest.steps[i] EXCEPT !.onFailure = "retry"]
                ELSE manifest.steps[i]]]

\* The answer of the i-th call: what was read is improved and registered.
EndRefine(i) ==
  LET s == refining[i].skill IN
  /\ s # None
  /\ refining' = [refining EXCEPT ![i].skill = None]
  /\ Put(s, Improve(refining[i].manifest))
  /\ UNCHANGED registers

RegistryNext ==
  \/ \E s \in Skill : Register(s) \/ BeginRefine(s)
  \/ \E i \in DOMAIN refining : EndRefine(i)

RegistrySpec == RegistryInit /\ [][RegistryNext]_registryVars
-----------------------------------------------------------------------------
(***************************************************************************)
(* No skill invokes itself, directly or through others: every set of       *)
(* skills has one that calls none of them.  register checks only the paths *)
(* from the new skill, against definitions that later calls replace.       *)
(***************************************************************************)
CompositionIsAcyclic ==
  \A T \in (SUBSET Skill) \ {{}} :
    \E s \in T : SubSkills(registry[s].steps) \cap T = {}
=============================================================================
