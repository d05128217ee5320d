-------------------------- MODULE ExecutionProofs --------------------------
(***************************************************************************)
(* Theorems about what a task goes through: the skill registry and the     *)
(* skill executor, for every set of skills and every manifest; the plan    *)
(* executor, for every plan; the router, for every set of calls.           *)
(***************************************************************************)
EXTENDS Execution, SequenceFacts

(***************************************************************************)
(* What detectCompositionCycle accepts keeps the composition acyclic.  A   *)
(* set of skills each of which calls one of the set would have to contain  *)
(* the new skill; but then its part inside the closed set that the search  *)
(* found is such a set of old skills.                                      *)
(***************************************************************************)
LEMMA PutKeepsAcyclic ==
  ASSUME NEW s, NEW manifest,
         registry = [x \in Skill |-> registry[x]],
         CompositionIsAcyclic, Put(s, manifest)
  PROVE  /\ CompositionIsAcyclic'
         /\ registry' = [x \in Skill |-> registry'[x]]
<1>1. CASE registry' = registry
  BY <1>1 DEF CompositionIsAcyclic
<1>2. CASE registry' # registry
  <2>1. /\ ~FormsCycle(s, manifest.steps)
        /\ registry' = [registry EXCEPT ![s] = manifest]
    BY <1>2 DEF Put
  <2>2. s \in Skill
    BY <1>2, <2>1
  <2>3. PICK C \in SUBSET (Skill \ {s}) :
          /\ SubSkills(manifest.steps) \subseteq C
          /\ \A x \in C : SubSkills(registry[x].steps) \subseteq C
    BY <2>1 DEF FormsCycle
  <2>4. /\ registry'[s] = manifest
        /\ \A x \in Skill \ {s} : registry'[x] = registry[x]
    BY <2>1, <2>2
  <2>5. SUFFICES ASSUME NEW T \in (SUBSET Skill) \ {{}},
                        \A x \in T : SubSkills(registry'[x].steps) \cap T # {}
                 PROVE  FALSE
    BY <2>1 DEF CompositionIsAcyclic
  <2>6. s \in T
    BY <2>4, <2>5 DEF CompositionIsAcyclic
  <2>7. T \cap C \in (SUBSET Skill) \ {{}}
    BY <2>3, <2>4, <2>5, <2>6
  <2>8. PICK x \in T \cap C : SubSkills(registry[x].steps) \cap (T \cap C) = {}
    BY <2>7 DEF CompositionIsAcyclic
  <2>9. /\ SubSkills(registry'[x].steps) = SubSkills(registry[x].steps)
        /\ SubSkills(registry[x].steps) \subseteq C
    BY <2>3, <2>4, <2>8
  <2> QED BY <2>5, <2>8, <2>9
<1> QED BY <1>1, <1>2

(***************************************************************************)
(* Registrations by callers and refinements that overtake each other never *)
(* make a skill call itself, whatever the manifests are.                   *)
(***************************************************************************)
THEOREM CompositionStaysAcyclic == Spec => []CompositionIsAcyclic
<1> DEFINE IInv == /\ CompositionIsAcyclic
                   /\ registry = [x \in Skill |-> registry[x]]
<1>1. Init => IInv
  <2> SUFFICES ASSUME Init PROVE IInv
    OBVIOUS
  <2>1. registry = [s \in Skill |-> NoSkill]
    BY DEF Init, RegistryInit
  <2>2. \A s \in Skill : SubSkills(registry[s].steps) = {}
    <3>1. ASSUME NEW s \in Skill PROVE SubSkills(registry[s].steps) = {}
      <4>1. registry[s].steps = <<>>
        BY <2>1 DEF NoSkill
      <4>2. DOMAIN registry[s].steps = {}
        BY <4>1
      <4> QED BY <4>2 DEF SubSkills
    <3> QED BY <3>1
  <2> QED BY <2>1, <2>2 DEF CompositionIsAcyclic
<1>2. IInv /\ [Next]_vars => IInv'
  <2> SUFFICES ASSUME IInv, [Next]_vars PROVE IInv'
    OBVIOUS
  <2>1. CASE UNCHANGED registry
    BY <2>1 DEF CompositionIsAcyclic
  <2>2. ASSUME NEW s \in Skill, Register(s) PROVE IInv'
    BY <2>2, PutKeepsAcyclic DEF Register
  <2>3. ASSUME NEW s \in Skill, BeginRefine(s) PROVE IInv'
    BY <2>1, <2>3 DEF BeginRefine
  <2>4. ASSUME NEW i \in DOMAIN refining, EndRefine(i) PROVE IInv'
    BY <2>4, PutKeepsAcyclic DEF EndRefine
  <2>5. CASE RegistryNext
    BY <2>2, <2>3, <2>4, <2>5 DEF RegistryNext
  <2>6. CASE \E s \in Skill : Execute(s)
    BY <2>1, <2>6 DEF Execute, registryVars
  <2>7. CASE Run
    BY <2>1, <2>7 DEF Run, SkipStep, Attempt, CallSubSkill, Finish, registryVars
  <2>8. CASE UNCHANGED vars
    BY <2>1, <2>8 DEF vars, registryVars
  <2> QED BY <2>5, <2>6, <2>7, <2>8 DEF Next
<1> QED BY <1>1, <1>2, PTL DEF Spec
-----------------------------------------------------------------------------
\* Frames of any kind: only the length of the stack matters.
Bounded(F) == Len(F) <= MaxDepth + 1 /\ \E S : F \in Seq(S)

\* Replacing the innermost frame keeps the stack's length.
LEMMA WithTopKeepsLength ==
  ASSUME NEW frame, NEW S, frames \in Seq(S), frames # <<>>
  PROVE  /\ WithTop(frame) \in Seq(S \cup {frame})
         /\ Len(WithTop(frame)) = Len(frames)
BY DEF WithTop

\* A new frame is put only on a stack that is not too deep.
LEMMA PushStaysBounded ==
  ASSUME NEW frame, NEW F, NEW S, F \in Seq(S), Len(F) <= MaxDepth
  PROVE  Bounded(Append(F, frame))
<1>1. F \in Seq(S \cup {frame})
  OBVIOUS
<1>2. /\ Append(F, frame) \in Seq(S \cup {frame})
      /\ Len(Append(F, frame)) = Len(F) + 1
  BY <1>1
<1> QED BY <1>2 DEF Bounded, MaxDepth

(***************************************************************************)
(* The calls of execute nest at most MaxDepth + 1 deep, whatever is        *)
(* registered while they run.                                              *)
(***************************************************************************)
THEOREM NestingStaysBounded == Spec => []NestingIsBounded
<1>1. Init => Bounded(frames)
  <2> SUFFICES ASSUME Init PROVE Bounded(frames)
    OBVIOUS
  <2>1. frames = <<>> /\ frames \in Seq({})
    BY DEF Init
  <2> QED BY <2>1 DEF Bounded, MaxDepth
<1>2. Bounded(frames) /\ [Next]_vars => Bounded(frames)'
  <2> SUFFICES ASSUME Bounded(frames), [Next]_vars PROVE Bounded(frames')
    BY DEF Bounded
  <2>1. PICK S : frames \in Seq(S)
    BY DEF Bounded
  <2>2. Len(frames) <= MaxDepth + 1
    BY DEF Bounded
  <2>3. ASSUME NEW frame, frames # <<>>
        PROVE  Bounded(WithTop(frame))
    BY <2>1, <2>2, <2>3, WithTopKeepsLength DEF Bounded
  <2>4. CASE RegistryNext /\ UNCHANGED execVars
    BY <2>4 DEF execVars
  <2>5. ASSUME NEW s \in Skill, Execute(s) PROVE Bounded(frames')
    <3>1. CASE frames' = frames
      BY <3>1
    <3>2. CASE ~Refuses(s) /\ frames' = Append(frames, Frame(s))
      <4>1. Len(frames) <= MaxDepth
        BY <2>1, <3>2 DEF Refuses, MaxDepth
      <4> QED BY <2>1, <3>2, <4>1, PushStaysBounded
    <3> QED BY <2>5, <3>1, <3>2 DEF Execute
  <2>6. CASE SkipStep
    BY <2>3, <2>6 DEF SkipStep, AtStep
  <2>7. ASSUME NEW ok, Attempt(ok) PROVE Bounded(frames')
    BY <2>3, <2>7 DEF Attempt, AtStep
  <2>8. CASE CallSubSkill
    <3> DEFINE s == Current.calls
               caller == [Top EXCEPT !.waiting = TRUE]
    <3>1. frames # <<>>
      BY <2>8 DEF CallSubSkill, AtStep
    <3>2. CASE frames' = WithTop(Settled(Top, FALSE))
      BY <2>3, <3>1, <3>2
    <3>3. CASE ~Refuses(s) /\ frames' = Append(WithTop(caller), Frame(s))
      <4> HIDE DEF s, caller
      <4>1. Len(frames) <= MaxDepth
        BY <2>1, <3>3 DEF Refuses, MaxDepth
      <4>2. /\ WithTop(caller) \in Seq(S \cup {caller})
            /\ Len(WithTop(caller)) = Len(frames)
        BY <2>1, <3>1, WithTopKeepsLength
      <4> QED BY <3>3, <4>1, <4>2, PushStaysBounded
    <3> QED BY <2>8, <3>2, <3>3 DEF CallSubSkill
  <2>9. CASE Finish
    <3> DEFINE rest == SubSeq(frames, 1, Len(frames) - 1)
    <3>1. frames # <<>>
      BY <2>9 DEF Finish
    <3>2. Len(frames) \in Nat /\ Len(frames) >= 1
      BY <2>1, <3>1
    <3>3. rest \in Seq(S) /\ Len(rest) = Len(frames) - 1
      <4>1. \A i \in 1 .. Len(frames) - 1 : frames[i] \in S
        BY <2>1, <3>2
      <4>2. Len(frames) - 1 \in Int /\ 1 \in Int
        BY <3>2
      <4>3. /\ rest \in Seq(S)
            /\ Len(rest) = IF 1 <= Len(frames) - 1
                           THEN Len(frames) - 1 - 1 + 1 ELSE 0
        BY ONLY <4>1, <4>2, SubSeqProperties
      <4> HIDE DEF rest
      <4>4. ASSUME NEW n \in Nat, n >= 1
            PROVE  (IF 1 <= n - 1 THEN n - 1 - 1 + 1 ELSE 0) = n - 1
        BY ONLY <4>4
      <4>5. Len(rest) = Len(frames) - 1
        BY <3>2, <4>3, <4>4, Zenon
      <4> QED BY <4>3, <4>5
    <3>4. Bounded(rest)
      <4> HIDE DEF rest
      <4> QED BY <2>2, <3>2, <3>3 DEF Bounded, MaxDepth
    <3>5. ASSUME NEW frame, rest # <<>>
          PROVE  Bounded([rest EXCEPT ![Len(rest)] = frame])
      <4> HIDE DEF rest
      <4>1. /\ [rest EXCEPT ![Len(rest)] = frame] \in Seq(S \cup {frame})
            /\ Len([rest EXCEPT ![Len(rest)] = frame]) = Len(rest)
        BY <3>3, <3>5
      <4> QED BY <3>4, <4>1 DEF Bounded
    <3>6. \/ rest = <<>> /\ frames' = rest
          \/ /\ rest # <<>>
             /\ \E frame : frames' = [rest EXCEPT ![Len(rest)] = frame]
      BY <2>9 DEF Finish
    <3> QED BY <3>4, <3>5, <3>6
  <2>10. CASE UNCHANGED vars
    BY <2>10 DEF vars, execVars
  <2> QED BY <2>4, <2>5, <2>6, <2>7, <2>8, <2>9, <2>10 DEF Next, Run
<1>3. Bounded(frames) => NestingIsBounded
  BY DEF Bounded, NestingIsBounded
<1> QED BY <1>1, <1>2, <1>3, PTL DEF Spec

-----------------------------------------------------------------------------
(***************************************************************************)
(* The executor of plans.  First what the edges of a rebuilt plan are.     *)
(***************************************************************************)
Edges(S) == S \X S

LEMMA PredsAreEdges ==
  ASSUME NEW S, NEW D \in SUBSET Edges(S), NEW a, NEW b
  PROVE  a \in Plan!Preds(D, b) <=> <<a, b>> \in D
  BY DEF Plan!Preds, Edges

\* An edge of the new plan that leads to an old step other than the failed
\* one is an edge of the old plan; the recovery steps form a chain from the
\* prerequisites of the failed step to that step.
LEMMA NewEdges ==
  ASSUME NEW f \in Plan!Steps, NEW l \in Nat, total \in Nat, total < l,
         deps \in SUBSET Edges(Plan!Steps), stepState[f] # "completed",
         NEW d \in Plan!NewDeps(f, total + 1, l)
  PROVE  /\ d \in Edges(1 .. l)
         /\ \/ d \in deps /\ (d[2] = f => d[1] = f)
            \/ d[2] = total + 1 /\ <<d[1], f>> \in deps
            \/ d[2] \in total + 2 .. l /\ d[1] = d[2] - 1
            \/ d[1] = l /\ d[2] = f
<1>2. /\ f \in 1 .. total /\ total + 1 \in 1 .. l /\ l \in 1 .. l
      /\ \A s \in Plan!Steps : s \in 1 .. total /\ s \in 1 .. l
  BY DEF Plan!Steps
<1>3. \/ /\ d \in deps
         /\ \/ d[1] = f
            \/ d[2] # f
            \/ stepState[d[2]] = "completed"
      \/ \E p \in Plan!Preds(deps, f) : d = <<p, total + 1>>
      \/ \E r \in total + 1 .. l - 1 : d = <<r, r + 1>>
      \/ d = <<l, f>>
  BY DEF Plan!NewDeps
<1>4. CASE /\ d \in deps
           /\ d[1] = f \/ d[2] # f \/ stepState[d[2]] = "completed"
  <2>1. d \in Edges(1 .. l)
    BY <1>2, <1>4 DEF Edges
  <2> QED
    BY <1>4, <2>1
<1>5. CASE \E p \in Plan!Preds(deps, f) : d = <<p, total + 1>>
  <2>1. PICK p \in Plan!Preds(deps, f) : d = <<p, total + 1>>
    BY <1>5
  <2>2. <<p, f>> \in deps
    BY PredsAreEdges
  <2>3. p \in Plan!Steps
    BY <2>2 DEF Edges
  <2> QED
    BY <1>2, <2>1, <2>2, <2>3 DEF Edges
<1>6. CASE \E r \in total + 1 .. l - 1 : d = <<r, r + 1>>
  <2>1. PICK r \in total + 1 .. l - 1 : d = <<r, r + 1>>
    BY <1>6
  <2>2. r \in 1 .. l /\ r + 1 \in 1 .. l /\ r + 1 \in total + 2 .. l
    OBVIOUS
  <2>3. d[1] = r /\ d[2] = r + 1 /\ r = (r + 1) - 1
    BY <2>1
  <2> QED
    BY <2>1, <2>2, <2>3 DEF Edges
<1>7. CASE d = <<l, f>>
  BY <1>2, <1>7 DEF Edges
<1> QED
  BY <1>3, <1>4, <1>5, <1>6, <1>7

LEMMA KeptEdges ==
  ASSUME NEW f \in Plan!Steps, NEW l \in Nat, total \in Nat, total < l,
         deps \in SUBSET Edges(Plan!Steps)
  PROVE  LET E == Plan!NewDeps(f, total + 1, l) IN
         /\ <<l, f>> \in E
         /\ \A r \in total + 1 .. l - 1 : <<r, r + 1>> \in E
         /\ \A a, b \in Plan!Steps :
              <<a, b>> \in deps /\ b # f /\ stepState[b] # "completed"
                => <<a, b>> \in E
  BY DEF Plan!NewDeps, Plan!Steps, Edges

\* Rebuilding keeps the plan acyclic: in a set of steps that meets the
\* chain the chain's first one has no predecessor, or else the failed step
\* stands for the chain in the old plan.
LEMMA RebuildsDag ==
  ASSUME NEW f \in Plan!Steps, NEW l \in Nat, total \in Nat, total < l,
         Plan!IsDag(Plan!Steps, deps), stepState[f] # "completed"
  PROVE  Plan!IsDag(1 .. l, Plan!NewDeps(f, total + 1, l))
<1> DEFINE E == Plan!NewDeps(f, total + 1, l)
           chain == total + 1 .. l
<1>0. /\ deps \in SUBSET Edges(Plan!Steps)
      /\ \A s \in Plan!Steps : s \in 1 .. total
      /\ \A s \in 1 .. l : s \in Plan!Steps \/ s \in chain
      /\ \A s \in chain : s \in 1 .. l /\ s \notin Plan!Steps
  BY DEF Plan!IsDag, Plan!Steps, Edges
<1>1. \A d \in E :
        /\ d \in Edges(1 .. l)
        /\ \/ d \in deps /\ (d[2] = f => d[1] = f)
           \/ d[2] = total + 1 /\ <<d[1], f>> \in deps
           \/ d[2] \in total + 2 .. l /\ d[1] = d[2] - 1
           \/ d[1] = l /\ d[2] = f
  BY <1>0, NewEdges
<1> HIDE DEF E
<1>3. E \in SUBSET Edges(1 .. l)
  BY <1>1
<1>2. ASSUME NEW a, NEW b, <<a, b>> \in E
      PROVE  /\ a \in 1 .. l /\ b \in 1 .. l
             /\ \/ <<a, b>> \in deps /\ (b = f => a = f)
                \/ b = total + 1 /\ <<a, f>> \in deps
                \/ b \in total + 2 .. l /\ a = b - 1
                \/ a = l /\ b = f
  BY <1>1, <1>2 DEF Edges
<1>4. ASSUME NEW T \in (SUBSET (1 .. l)) \ {{}}
      PROVE  \E s \in T : Plan!Preds(E, s) \cap T = {}
  <2>1. CASE T \cap chain = {}
    <3>1. T \in (SUBSET Plan!Steps) \ {{}}
      BY <1>0, <2>1
    <3>2. PICK s \in T : Plan!Preds(deps, s) \cap T = {}
      BY <3>1 DEF Plan!IsDag
    <3>3. ASSUME NEW a \in T, a \in Plan!Preds(E, s)
          PROVE  FALSE
      <4>1. <<a, s>> \in E
        BY <1>3, <3>3, PredsAreEdges
      <4>2. s \in 1 .. total /\ a \in 1 .. total
        BY <1>0, <3>1
      <4>a. \/ <<a, s>> \in deps
            \/ s = total + 1
            \/ s \in total + 2 .. l
            \/ a = l
        BY <1>2, <4>1
      <4>3. <<a, s>> \in deps
        BY <4>a, <4>2
      <4>4. a \in Plan!Preds(deps, s)
        BY <1>0, <4>3, PredsAreEdges
      <4> QED
        BY <3>2, <4>4
    <3> QED
      BY <3>3
  <2>2. CASE T \cap chain # {}
    <3> DEFINE U == (T \cap Plan!Steps) \cup {f}
    <3>1. U \in (SUBSET Plan!Steps) \ {{}}
      OBVIOUS
    <3>2. PICK s \in U : Plan!Preds(deps, s) \cap U = {}
      BY <3>1 DEF Plan!IsDag
    <3>3. CASE s = f
      <4> DEFINE C == T \cap chain
      <4>1. C \in SUBSET Nat /\ C # {}
        BY <2>2
      <4>2. PICK r \in C : \A x \in C : r <= x
        <5> HIDE DEF C
        <5> QED
          BY <4>1, LeastNatural
      <4>3. ASSUME NEW a \in T, a \in Plan!Preds(E, r)
            PROVE  FALSE
        <5>1. <<a, r>> \in E
          BY <1>3, <4>3, PredsAreEdges
        <5>2. r \in chain /\ r \notin Plan!Steps /\ r # f
          BY <1>0, <4>2
        <5>3. \/ r = total + 1 /\ <<a, f>> \in deps
              \/ r \in total + 2 .. l /\ a = r - 1 /\ a \in chain
          <6>1. <<a, r>> \notin deps
            BY <1>0, <5>2 DEF Edges
          <6>2. \/ r = total + 1 /\ <<a, f>> \in deps
                \/ r \in total + 2 .. l /\ a = r - 1
            BY <1>2, <5>1, <5>2, <6>1
          <6> QED
            BY <6>2
        <5>4. CASE r = total + 1 /\ <<a, f>> \in deps
          <6>1. a \in Plan!Preds(deps, f) /\ a \in Plan!Steps
            BY <1>0, <5>4, PredsAreEdges DEF Edges
          <6> QED
            BY <3>2, <3>3, <4>3, <6>1
        <5>5. CASE a = r - 1 /\ a \in chain
          <6>1. a \in C
            BY <4>3, <5>5
          <6>2. r <= a /\ r \in Int
            BY <4>2, <5>2, <6>1
          <6> QED
            BY <5>5, <6>2
        <5> QED
          BY <5>3, <5>4, <5>5
      <4> QED
        BY <4>2, <4>3
    <3>4. CASE s # f
      <4>1. s \in T /\ s \in Plan!Steps
        BY <3>2, <3>4
      <4>2. ASSUME NEW a \in T, a \in Plan!Preds(E, s)
            PROVE  FALSE
        <5>1. <<a, s>> \in E
          BY <1>3, <4>2, PredsAreEdges
        <5>a. \/ <<a, s>> \in deps
              \/ s = total + 1
              \/ s \in total + 2 .. l
          BY <1>2, <3>4, <5>1
        <5>2. <<a, s>> \in deps
          <6>1. s \in 1 .. total
            BY <1>0, <4>1
          <6> QED
            BY <5>a, <6>1
        <5>3. a \in Plan!Preds(deps, s) /\ a \in Plan!Steps
          BY <1>0, <5>2, PredsAreEdges DEF Edges
        <5> QED
          BY <3>2, <4>2, <5>3
      <4> QED
        BY <4>1, <4>2
    <3> QED
      BY <3>3, <3>4
  <2> QED
    BY <2>1, <2>2
<1> QED
  BY <1>3, <1>4 DEF Plan!IsDag, E, Edges

-----------------------------------------------------------------------------
(***************************************************************************)
(* Now the executor.  A step that is due has its prerequisites done, and a *)
(* step that is not done is pending unless it runs.  A prerequisite of the *)
(* plan as decomposed is still one until it is done, and so is a recovery  *)
(* step, or it comes before the next one of its chain.                     *)
(***************************************************************************)
AtWork == {"running", "replanning"}

PlanTypes ==
  /\ total \in Nat /\ Planned <= total /\ total <= MaxTotal
  /\ stepState \in [Plan!Ids -> {"absent", "pending", "executing", "completed",
                                 "failed", "skipped"}]
  /\ done \subseteq Plan!Steps /\ batch \subseteq Plan!Steps
  /\ asked \subseteq Edges(1 .. Planned)
  /\ repairs \in [Plan!Ids -> SUBSET Plan!Steps]
  /\ version \in 1 .. MaxReplans + 1

DueInv ==
  /\ \A s \in batch : Plan!Preds(deps, s) \subseteq done /\ s \notin done
  /\ planPc \in AtWork =>
       /\ current \in Plan!Steps \ (done \cup batch)
       /\ Plan!Preds(deps, current) \subseteq done

PendingInv ==
  /\ \A s \in Plan!Ids : stepState[s] = "completed" => s \in done
  /\ planPc \in AtWork \cup {"choosing", "batch"} =>
       \A s \in Plan!Steps \ done :
         stepState[s] = "pending" \/ (planPc \in AtWork /\ s = current)

\* A recovery step whose successor in its chain is not done before it.
Links(r) == r + 1 \notin done /\ <<r, r + 1>> \in deps

OrderInv ==
  /\ \A s \in Plan!Steps \ done : \A r \in Plan!Steps \ done :
       /\ <<r, s>> \in asked => <<r, s>> \in deps
       /\ r \in repairs[s] =>
            <<r, s>> \in deps \/ (r + 1 \in repairs[s] /\ Links(r))
  /\ \A s \in Plan!Ids \ Plan!Steps : repairs[s] = {}

BudgetInv ==
  /\ planPc = "replanning" => version <= MaxReplans
  /\ planPc # "deadlocked"
  /\ planPc = "failed" => version = MaxReplans + 1

PlanInv ==
  /\ PlanTypes /\ DueInv /\ PendingInv /\ OrderInv /\ BudgetInv
  /\ Plan!IsDag(Plan!Steps, deps)

\* When all that a step waits for in the present plan is done, so is
\* everything that was ever put before it.
LEMMA NothingWasSkipped ==
  ASSUME PlanTypes, OrderInv, Plan!IsDag(Plan!Steps, deps),
         NEW s \in Plan!Steps \ done, Plan!Preds(deps, s) \subseteq done
  PROVE  Plan!Preds(asked, s) \cup repairs[s] \subseteq done
<1>0. /\ deps \in SUBSET Edges(Plan!Steps)
      /\ asked \in SUBSET Edges(1 .. Planned)
      /\ 1 .. Planned \subseteq Plan!Steps
      /\ repairs[s] \subseteq Plan!Steps
      /\ \A r \in Plan!Steps : r \in Nat /\ total - r \in Nat
  BY PlanAssumption DEF Plan!IsDag, Edges, PlanTypes, Plan!Steps, Plan!Ids
<1>1. \A r \in Plan!Steps \ done : <<r, s>> \notin deps
  BY <1>0, PredsAreEdges
<1>2. ASSUME NEW r \in Plan!Preds(asked, s), r \notin done
      PROVE  FALSE
  <2>1. <<r, s>> \in asked
    BY <1>0, <1>2, PredsAreEdges
  <2>2. r \in Plan!Steps
    BY <1>0, <2>1 DEF Edges
  <2> QED
    BY <1>1, <1>2, <2>1, <2>2 DEF OrderInv
<1>3. ASSUME repairs[s] \ done # {}
      PROVE  FALSE
  <2> DEFINE T == {n \in Nat : \E r \in repairs[s] \ done : n = total - r}
  <2>1. T \in SUBSET Nat /\ T # {}
    BY <1>0, <1>3
  <2>2. PICK n \in T : \A x \in T : n <= x
    <3> HIDE DEF T
    <3> QED
      BY <2>1, LeastNatural
  <2>3. PICK r \in repairs[s] \ done : n = total - r
    BY <2>2
  <2>4. r + 1 \in repairs[s] \ done
    BY <1>0, <1>1, <2>3 DEF OrderInv, Links
  <2>5. r \in Nat /\ r + 1 \in Nat /\ total \in Nat /\ total - (r + 1) \in Nat
    BY <1>0, <2>3, <2>4 DEF PlanTypes
  <2>6. total - (r + 1) \in T
    BY <2>4, <2>5
  <2>7. n <= total - (r + 1)
    <3> HIDE DEF T
    <3> QED
      BY <2>2, <2>6
  <2> QED
    BY <2>3, <2>5, <2>7
<1> QED
  BY <1>2, <1>3

LEMMA PlanInit == Plan!Init => PlanInv
<1> SUFFICES ASSUME Plan!Init PROVE PlanInv
  OBVIOUS
<1>1. /\ total = Planned /\ Planned \in Nat /\ MaxTotal \in Nat
      /\ Planned <= MaxTotal /\ MaxReplans \in Nat
      /\ Plan!Steps = 1 .. Planned /\ Plan!Ids = 1 .. MaxTotal
  BY PlanAssumption DEF Plan!Init, Plan!Steps, Plan!Ids
<1>2. PlanTypes
  BY <1>1 DEF PlanTypes, Plan!Init, Edges
<1> QED
  BY <1>1, <1>2
     DEF PlanInv, DueInv, PendingInv, OrderInv, BudgetInv, Plan!Init, AtWork

\* The steps that leave the plan as it is.
LEMMA ExecutionStep ==
  ASSUME PlanInv, UNCHANGED <<total, deps, asked, repairs, version>>,
         \/ Plan!Choose \/ Plan!EndBatch \/ Plan!StepSucceeds
         \/ Plan!StepSkipped \/ Plan!StepFails
         \/ \E s \in Plan!Ids : Plan!Submit(s)
  PROVE  PlanInv'
<1>a. /\ PlanTypes /\ DueInv /\ PendingInv /\ OrderInv /\ BudgetInv
      /\ Plan!IsDag(Plan!Steps, deps)
      /\ MaxReplans \in Nat
  BY PlanAssumption DEF PlanInv
<1>b. Plan!Steps' = Plan!Steps /\ Plan!Ids' = Plan!Ids
  BY DEF Plan!Steps, Plan!Ids
<1>c. \A s \in Plan!Steps : Plan!Preds(deps, s)' = Plan!Preds(deps, s)
  BY DEF Plan!Preds
<1>d. Plan!IsDag(Plan!Steps, deps)'
  BY <1>a, <1>b DEF Plan!IsDag, Plan!Preds
<1>e. Plan!Steps \subseteq Plan!Ids /\ 0 \notin Plan!Steps
  BY <1>a, PlanAssumption DEF Plan!Steps, Plan!Ids, PlanTypes
<1>f. deps \in SUBSET Edges(Plan!Steps)
  BY <1>a DEF Plan!IsDag, Edges
<1>0. /\ PlanTypes /\ DueInv /\ PendingInv /\ OrderInv /\ BudgetInv
      /\ Plan!IsDag(Plan!Steps, deps)
      /\ Plan!Steps' = Plan!Steps /\ Plan!Ids' = Plan!Ids
      /\ Plan!IsDag(Plan!Steps, deps)'
      /\ \A s \in Plan!Steps : Plan!Preds(deps, s)' = Plan!Preds(deps, s)
      /\ Plan!Steps \subseteq Plan!Ids /\ 0 \notin Plan!Steps
      /\ MaxReplans \in Nat
      /\ deps \in SUBSET Edges(Plan!Steps)
  BY <1>a, <1>b, <1>c, <1>d, <1>e, <1>f
<1>1. CASE Plan!Choose
  <2>1. Plan!ReadySteps \subseteq Plan!Steps \ done
    BY DEF Plan!ReadySteps
  <2>2. ASSUME planPc' = "deadlocked"
        PROVE  FALSE
    <3>1. ~(Plan!Cardinality(done) >= total) /\ Plan!ReadySteps = {}
      <4>1. planPc' = IF Plan!Cardinality(done) >= total THEN "succeeded"
                      ELSE IF Plan!ReadySteps = {} THEN "deadlocked" ELSE "batch"
        BY <1>1 DEF Plan!Choose
      <4> QED
        BY <2>2, <4>1
    <3>a. total \in Nat /\ Plan!Cardinality(1 .. total) = total
      <4>1. total \in Nat
        BY <1>0 DEF PlanTypes
      <4>2. Cardinality(1 .. total) = total
        BY <4>1, FS_Interval
      <4> QED
        BY <4>1, <4>2 DEF Plan!Cardinality, Cardinality
    <3>2. done # Plan!Steps
      <4>1. done # 1 .. total
        BY <3>1, <3>a
      <4> QED
        BY <4>1 DEF Plan!Steps
    <3>3. Plan!Steps \ done \in (SUBSET Plan!Steps) \ {{}}
      BY <1>0, <3>2 DEF PlanTypes
    <3>4. PICK s \in Plan!Steps \ done :
            Plan!Preds(deps, s) \cap (Plan!Steps \ done) = {}
      BY <1>0, <3>3 DEF Plan!IsDag
    <3>5. ASSUME NEW a \in Plan!Preds(deps, s)
          PROVE  a \in Plan!Steps
      <4>1. <<a, s>> \in deps
        BY <1>0, <3>5, PredsAreEdges
      <4> QED
        BY <1>0, <4>1 DEF Edges
    <3>6. stepState[s] = "pending"
      BY <1>0, <1>1 DEF PendingInv, Plan!Choose, AtWork
    <3> QED
      BY <3>1, <3>4, <3>5, <3>6 DEF Plan!ReadySteps
  <2>3. PlanTypes'
    BY <1>0, <1>1, <2>1 DEF PlanTypes, Plan!Choose
  <2>4. DueInv'
    <3>1. planPc' \notin AtWork
      BY <1>1 DEF Plan!Choose, AtWork
    <3>2. \A s \in batch' : Plan!Preds(deps, s) \subseteq done /\ s \notin done
      BY <1>1 DEF Plan!Choose, Plan!ReadySteps
    <3> QED
      BY <1>0, <1>1, <3>1, <3>2 DEF DueInv, Plan!Choose
  <2>5. PendingInv'
    BY <1>0, <1>1 DEF PendingInv, Plan!Choose, AtWork
  <2>6. OrderInv' /\ BudgetInv'
    BY <1>0, <1>1, <2>2 DEF OrderInv, Links, BudgetInv, Plan!Choose
  <2> QED
    BY <1>0, <2>3, <2>4, <2>5, <2>6 DEF PlanInv
<1>2. CASE Plan!EndBatch
  BY <1>0, <1>2
     DEF PlanInv, PlanTypes, DueInv, PendingInv, OrderInv, Links, BudgetInv, AtWork,
         Plan!EndBatch
<1>3. CASE \E s \in Plan!Ids : Plan!Submit(s)
  <2>1. PICK s \in Plan!Ids : Plan!Submit(s)
    BY <1>3
  <2>2. s \in Plan!Steps \ done /\ Plan!Preds(deps, s) \subseteq done
    BY <1>0, <2>1 DEF DueInv, PlanTypes, Plan!Submit
  <2>3. PlanTypes'
    BY <1>0, <2>1, <2>2 DEF PlanTypes, Plan!Submit
  <2>4. DueInv'
    BY <1>0, <2>1, <2>2 DEF DueInv, Plan!Submit
  <2>5. PendingInv'
    BY <1>0, <2>1, <2>2 DEF PendingInv, Plan!Submit, AtWork, PlanTypes
  <2>6. OrderInv' /\ BudgetInv'
    BY <1>0, <2>1 DEF OrderInv, Links, BudgetInv, Plan!Submit
  <2> QED
    BY <1>0, <2>3, <2>4, <2>5, <2>6 DEF PlanInv
<1>4. CASE Plan!StepFails
  <2>1. PlanTypes'
    BY <1>0, <1>4 DEF PlanTypes, Plan!StepFails
  <2>2. DueInv'
    BY <1>0, <1>4 DEF DueInv, Plan!StepFails, AtWork
  <2>3. PendingInv'
    BY <1>0, <1>4 DEF PendingInv, Plan!StepFails, AtWork, PlanTypes, DueInv
  <2>4. OrderInv'
    BY <1>0, <1>4 DEF OrderInv, Links, Plan!StepFails
  <2>5. BudgetInv'
    BY <1>0, <1>4 DEF BudgetInv, Plan!StepFails, PlanTypes
  <2> QED
    BY <1>0, <2>1, <2>2, <2>3, <2>4, <2>5 DEF PlanInv
<1>5. CASE Plan!StepSucceeds \/ Plan!StepSkipped
  <2>0. /\ planPc = "running" /\ planPc' = "batch"
        /\ done' = done \cup {current} /\ batch' = batch /\ current' = 0
        /\ \E x \in {"completed", "skipped"} :
             stepState' = [stepState EXCEPT ![current] = x]
    BY <1>5 DEF Plan!StepSucceeds, Plan!StepSkipped
  <2>1. /\ current \in Plan!Steps \ (done \cup batch)
        /\ Plan!Preds(deps, current) \subseteq done
    BY <1>0, <2>0 DEF DueInv, AtWork
  <2>2. PlanTypes'
    BY <1>0, <2>0, <2>1 DEF PlanTypes
  <2>3. DueInv'
    BY <1>0, <2>0, <2>1 DEF DueInv, AtWork
  <2>4. PendingInv'
    BY <1>0, <2>0, <2>1 DEF PendingInv, AtWork, PlanTypes
  <2>5. OrderInv'
    <3>1. ASSUME NEW r \in Plan!Steps \ done', Links(r)
          PROVE  Links(r)'
      <4>1. r + 1 # current
        BY <1>0, <2>0, <2>1, <3>1, PredsAreEdges DEF Links
      <4> QED
        BY <2>0, <3>1, <4>1 DEF Links
    <3> QED
      BY <1>0, <2>0, <3>1 DEF OrderInv
  <2>6. BudgetInv'
    BY <1>0, <2>0 DEF BudgetInv
  <2> QED
    BY <1>0, <2>2, <2>3, <2>4, <2>5, <2>6 DEF PlanInv
<1> QED
  BY <1>1, <1>2, <1>3, <1>4, <1>5

LEMMA ReplanStep ==
  ASSUME PlanInv, NEW n \in Plan!Ids, Plan!Replan(n)
  PROVE  PlanInv'
<1> DEFINE l == total + n
           E == Plan!NewDeps(current, total + 1, l)
<1>0. /\ PlanTypes /\ DueInv /\ PendingInv /\ OrderInv /\ BudgetInv
      /\ Plan!IsDag(Plan!Steps, deps)
      /\ deps \in SUBSET Edges(Plan!Steps)
      /\ total \in Nat /\ n \in Nat \ {0} /\ l \in Nat /\ total < l
      /\ l <= MaxTotal /\ MaxReplans \in Nat
      /\ Plan!Steps = 1 .. total /\ Plan!Steps \subseteq 1 .. l
      /\ Plan!Ids' = Plan!Ids /\ 1 .. l \subseteq Plan!Ids
  BY PlanAssumption
     DEF PlanInv, Plan!Steps, Plan!Ids, Plan!IsDag, PlanTypes, Edges, Plan!Replan
<1>1. /\ current \in Plan!Steps \ done
      /\ Plan!Preds(deps, current) \subseteq done
      /\ planPc = "replanning" /\ version <= MaxReplans
      /\ stepState[current] # "completed"
  BY <1>0 DEF DueInv, AtWork, BudgetInv, PendingInv, Plan!Replan
<1>2. Plan!IsDag(1 .. l, E)
  BY <1>0, <1>1, RebuildsDag
<1>3. Plan!Preds(asked, current) \cup repairs[current] \subseteq done
  BY <1>0, <1>1, NothingWasSkipped
<1>4. /\ <<l, current>> \in E
      /\ \A r \in total + 1 .. l - 1 : <<r, r + 1>> \in E
      /\ \A a, b \in Plan!Steps :
           <<a, b>> \in deps /\ b # current /\ stepState[b] # "completed"
             => <<a, b>> \in E
  BY <1>0, <1>1, KeptEdges
<1>5. /\ total' = l /\ deps' = E
      /\ stepState' = [s \in Plan!Ids |->
           IF s \notin 1 .. l \/ stepState[s] = "completed"
           THEN stepState[s] ELSE "pending"]
      /\ repairs' = [repairs EXCEPT ![current] = @ \cup (total + 1 .. l)]
      /\ version' = version + 1
      /\ planPc' = "choosing"
      /\ batch' = {} /\ current' = 0 /\ UNCHANGED <<done, asked>>
  BY <1>2 DEF Plan!Replan
<1> HIDE DEF E
<1>6. Plan!Steps' = 1 .. l
  BY <1>5 DEF Plan!Steps
<1>7. PlanTypes'
  <2>1. /\ total' \in Nat /\ Planned <= total' /\ total' <= MaxTotal
        /\ done' \subseteq Plan!Steps' /\ batch' \subseteq Plan!Steps'
        /\ asked' \subseteq Edges(1 .. Planned)
        /\ version' \in 1 .. MaxReplans + 1
    BY <1>0, <1>1, <1>5, <1>6, PlanAssumption DEF PlanTypes
  <2>2. stepState' \in [Plan!Ids -> {"absent", "pending", "executing",
                                     "completed", "failed", "skipped"}]
    BY <1>0, <1>5 DEF PlanTypes
  <2>3. repairs' \in [Plan!Ids -> SUBSET (1 .. l)]
    <3>1. repairs \in [Plan!Ids -> SUBSET (1 .. l)]
      BY <1>0 DEF PlanTypes
    <3>2. total + 1 .. l \subseteq 1 .. l
      BY <1>0
    <3>3. repairs[current] \cup (total + 1 .. l) \in SUBSET (1 .. l)
      BY <1>0, <1>1, <3>1, <3>2
    <3> DEFINE new == repairs[current] \cup (total + 1 .. l)
    <3> HIDE DEF new
    <3>4. repairs' = [repairs EXCEPT ![current] = new]
      BY <1>5 DEF new
    <3> QED
      BY <3>1, <3>3, <3>4 DEF new
  <2> QED
    BY <1>0, <1>6, <2>1, <2>2, <2>3 DEF PlanTypes
<1>8. DueInv'
  BY <1>5 DEF DueInv, AtWork
<1>9. PendingInv'
  BY <1>0, <1>5, <1>6 DEF PendingInv, AtWork, PlanTypes
<1>10. OrderInv'
  <2> DEFINE chain == total + 1 .. l
  <2>0. /\ \A s \in 1 .. l : s \in Plan!Steps \/ s \in Plan!Ids \ Plan!Steps
        /\ \A s \in Plan!Ids \ (1 .. l) : s \notin Plan!Steps
        /\ current \in Plan!Ids /\ repairs \in [Plan!Ids -> SUBSET Plan!Steps]
        /\ \A r \in chain : r \notin done
        /\ \A s \in Plan!Steps \ done : stepState[s] # "completed"
    BY <1>0, <1>1 DEF PlanTypes, PendingInv
  <2>1. /\ repairs'[current] = repairs[current] \cup chain
        /\ \A s \in Plan!Ids \ {current} : repairs'[s] = repairs[s]
    BY <1>5, <2>0
  <2>2. \A r \in Plan!Steps \ done : <<r, current>> \notin deps
    BY <1>0, <1>1, PredsAreEdges
  <2>3. ASSUME NEW s \in (1 .. l) \ done, NEW r \in (1 .. l) \ done,
               <<r, s>> \in asked
        PROVE  <<r, s>> \in E
    <3>1. r \in Plan!Steps /\ s \in Plan!Steps
      BY <1>0, <2>3, PlanAssumption DEF PlanTypes, Edges
    <3>2. s # current
      <4>1. asked \in SUBSET Edges(1 .. Planned)
        BY <1>0 DEF PlanTypes
      <4> QED
        BY <1>3, <2>3, <4>1, PredsAreEdges
    <3>3. <<r, s>> \in deps
      BY <1>0, <2>3, <3>1 DEF OrderInv
    <3> QED
      BY <1>4, <2>0, <2>3, <3>1, <3>2, <3>3
  <2>4. ASSUME NEW s \in (1 .. l) \ done, NEW r \in (1 .. l) \ done,
               r \in repairs'[s]
        PROVE  \/ <<r, s>> \in E
               \/ /\ r + 1 \in repairs'[s]
                  /\ r + 1 \notin done /\ <<r, r + 1>> \in E
    <3>1. CASE s = current
      <4>1. r \in chain
        BY <1>3, <2>1, <2>4, <3>1
      <4>2. r = l \/ (r \in total + 1 .. l - 1 /\ r + 1 \in chain)
        BY <1>0, <4>1
      <4>3. CASE r = l
        BY <1>4, <3>1, <4>3
      <4>4. CASE r \in total + 1 .. l - 1 /\ r + 1 \in chain
        <5>1. r + 1 \in repairs'[s]
          BY <2>1, <3>1, <4>4
        <5>2. r + 1 \notin done
          BY <2>0, <4>4
        <5>3. <<r, r + 1>> \in E
          BY <1>4, <4>4
        <5> QED
          BY <5>1, <5>2, <5>3
      <4> QED
        BY <4>2, <4>3, <4>4
    <3>2. CASE s # current /\ s \in Plan!Steps
      <4>1. s \in Plan!Ids \ {current} /\ repairs'[s] = repairs[s]
        BY <1>0, <2>1, <3>2
      <4>2. r \in Plan!Steps \ done /\ r \in repairs[s]
            /\ repairs[s] \subseteq Plan!Steps
        BY <2>0, <2>4, <4>1
      <4>3. \/ <<r, s>> \in deps
            \/ r + 1 \in repairs[s] /\ r + 1 \notin done /\ <<r, r + 1>> \in deps
        BY <1>0, <2>4, <3>2, <4>2 DEF OrderInv, Links
      <4>4. CASE <<r, s>> \in deps
        BY <1>4, <2>0, <2>4, <3>2, <4>2, <4>4
      <4>5. CASE r + 1 \in repairs[s] /\ r + 1 \notin done /\ <<r, r + 1>> \in deps
        <5> DEFINE q == r + 1
        <5>1. q \in Plan!Steps \ done /\ q \in repairs[s] /\ <<r, q>> \in deps
          BY <4>2, <4>5
        <5> HIDE DEF q
        <5>2. q # current
          BY <2>2, <4>2, <5>1
        <5>3. <<r, q>> \in E
          BY <1>4, <2>0, <4>2, <5>1, <5>2
        <5> QED
          BY <4>1, <5>1, <5>3 DEF q
      <4> QED
        BY <4>3, <4>4, <4>5
    <3>3. CASE s \notin Plan!Steps
      <4>1. s \in Plan!Ids \ Plan!Steps /\ s # current
        BY <1>1, <2>0, <3>3
      <4>2. repairs'[s] = {}
        BY <1>0, <2>1, <4>1 DEF OrderInv
      <4> QED
        BY <2>4, <4>2
    <3> QED
      BY <3>1, <3>2, <3>3
  <2>5. ASSUME NEW s \in Plan!Ids \ (1 .. l)
        PROVE  repairs'[s] = {}
    <3>1. s \in Plan!Ids \ Plan!Steps /\ s # current
      BY <1>1, <2>0
    <3> QED
      BY <1>0, <2>1, <3>1 DEF OrderInv
  <2> QED
    BY <1>0, <1>5, <1>6, <2>3, <2>4, <2>5 DEF OrderInv, Links
<1>11. BudgetInv'
  BY <1>5 DEF BudgetInv
<1>12. Plan!IsDag(Plan!Steps, deps)'
  BY <1>2, <1>5, <1>6 DEF Plan!IsDag, Plan!Preds
<1> QED
  BY <1>7, <1>8, <1>9, <1>10, <1>11, <1>12 DEF PlanInv

LEMMA PlanStep == PlanInv /\ [Plan!Next]_(Plan!vars) => PlanInv'
<1> SUFFICES ASSUME PlanInv, [Plan!Next]_(Plan!vars)
             PROVE  PlanInv'
  OBVIOUS
<1>1. CASE \E n \in Plan!Ids : Plan!Replan(n)
  BY <1>1, ReplanStep
<1>2. CASE \/ Plan!Choose \/ Plan!EndBatch \/ Plan!StepSucceeds
           \/ Plan!StepSkipped \/ Plan!StepFails
           \/ \E s \in Plan!Ids : Plan!Submit(s)
  <2>1. UNCHANGED <<total, deps, asked, repairs, version>>
    BY <1>2 DEF Plan!Choose, Plan!EndBatch, Plan!StepSucceeds, Plan!StepSkipped,
                Plan!StepFails, Plan!Submit
  <2> QED
    BY <1>2, <2>1, ExecutionStep
<1>3. CASE UNCHANGED Plan!vars
  BY <1>3
     DEF Plan!vars, PlanInv, PlanTypes, DueInv, PendingInv, OrderInv, Links,
         BudgetInv, Plan!Steps, Plan!IsDag, Plan!Preds
<1> QED
  BY <1>1, <1>2, <1>3 DEF Plan!Next, Plan!Advance

\* A plan stays sound however often it is rebuilt: a step runs only after
\* what the decomposition and the recoveries put before it, the executor
\* never finds itself without a step to run, and it gives up only when the
\* replans are used up (executePlan, replan).
THEOREM PlansStaySound == Plan!Spec => []PlansAreSound
<1>1. PlanInv => PlansAreSound
  <2> SUFFICES ASSUME PlanInv PROVE PlansAreSound
    OBVIOUS
  <2>1. Plan!PrerequisitesFirst
    <3> SUFFICES ASSUME planPc = "running"
                 PROVE  /\ Plan!Preds(asked, current) \cup repairs[current] \subseteq done
                        /\ current \notin done
      BY DEF Plan!PrerequisitesFirst
    <3>1. current \in Plan!Steps \ done /\ Plan!Preds(deps, current) \subseteq done
      BY DEF PlanInv, DueInv, AtWork
    <3> QED
      BY <3>1, NothingWasSkipped DEF PlanInv
  <2>2. Plan!NeverDeadlocks /\ Plan!FailsOnlyOnBudget
    BY DEF PlanInv, BudgetInv, Plan!NeverDeadlocks, Plan!FailsOnlyOnBudget
  <2> QED
    BY <2>1, <2>2 DEF PlansAreSound
<1> QED
  BY PlanInit, PlanStep, <1>1, PTL DEF Plan!Spec

-----------------------------------------------------------------------------
(***************************************************************************)
(* The router.  The calls share the cache and the list of providers.  An   *)
(* entry of the cache answers a request that has its key, and what a call  *)
(* has got answers one that has the key of its own.  Requests with one key *)
(* are alike.  Only the first provider of what is left of a route can be   *)
(* the one that the request names.                                         *)
(***************************************************************************)
RouterTypes ==
  /\ providers \in Seq(Provider)
  /\ \A i, j \in DOMAIN providers : providers[i] = providers[j] => i = j
  /\ default \in Provider \cup {None}
  /\ cache \in [Router!Key -> Router!Responses]
  /\ result \in [Call -> Router!Responses]
  /\ request \in [Call -> Request \cup {None}]
  /\ route \in [Call -> Seq(Provider)]
  /\ callPc \in [Call -> {"idle", "hit", "starting", "trying", "answered",
                          "returned", "threw"}]

\* The answer is one to a request with the key k.
Answers(answer, k) ==
  answer.request \in Request /\ Router!GenerateKey(answer.request) = k

AnswerInv ==
  /\ \A c \in Call :
       /\ callPc[c] # "idle" => request[c] \in Request
       /\ callPc[c] \in {"hit", "answered", "returned"} =>
            Answers(result[c], Router!GenerateKey(request[c]))
  /\ \A k \in Router!Key :
       cache[k] # Router!NoResponse => Answers(cache[k], k)

RouteInv ==
  \A c \in Call :
    /\ callPc[c] \in {"trying", "answered"} =>
         \A i \in DOMAIN route[c] : i > 1 => route[c][i] # Router!Asked(request[c])
    /\ callPc[c] = "answered" =>
         route[c] # <<>> /\ result[c].provider = route[c][1]

RouterInv == RouterTypes /\ AnswerInv /\ RouteInv

LEMMA RouteIsOrdered ==
  ASSUME RouterTypes, NEW target \in Provider
  PROVE  /\ Router!Route(target) \in Seq(Provider)
         /\ \A i \in DOMAIN Router!Route(target) :
              i > 1 => Router!Route(target)[i] # target
<1>1. CASE target \in Router!ToSet(providers)
  <2> DEFINE i == CHOOSE i \in DOMAIN providers : providers[i] = target
             rest == RemoveAt(providers, i)
  <2>1. i \in 1 .. Len(providers) /\ providers[i] = target
    BY <1>1 DEF Router!ToSet, RouterTypes
  <2>2. Router!Route(target) = <<target>> \o rest
    BY <1>1 DEF Router!Route, Router!RemoveAt, RemoveAt
  <2>3. providers \in Seq(Provider)
    BY DEF RouterTypes
  <2> HIDE DEF i
  <2>4. /\ rest \in Seq(Provider)
        /\ Len(rest) = Len(providers) - 1
        /\ \A j \in 1 .. Len(providers) - 1 :
             rest[j] = IF j < i THEN providers[j] ELSE providers[j + 1]
    BY <2>1, <2>3, RemoveAtIndexes
  <2> HIDE DEF rest
  <2>5. ASSUME NEW j \in 1 .. Len(rest)
        PROVE  rest[j] # target
    <3>1. PICK k \in DOMAIN providers : rest[j] = providers[k] /\ k # i
      <4>1. j \in 1 .. Len(providers) /\ j + 1 \in 1 .. Len(providers)
        BY <2>3, <2>4
      <4>2. CASE j < i
        BY <2>1, <2>3, <2>4, <4>1, <4>2
      <4>3. CASE ~(j < i)
        BY <2>1, <2>3, <2>4, <4>1, <4>3
      <4> QED
        BY <4>2, <4>3
    <3> QED
      BY <2>1, <3>1 DEF RouterTypes
  <2>6. <<target>> \in Seq(Provider) /\ Len(<<target>>) = 1
    OBVIOUS
  <2>7. /\ Router!Route(target) \in Seq(Provider)
        /\ Len(Router!Route(target)) = Len(rest) + 1
        /\ \A k \in 2 .. Len(rest) + 1 : Router!Route(target)[k] = rest[k - 1]
    BY <2>2, <2>4, <2>6
  <2>8. Len(rest) \in Nat
    BY <2>4
  <2> QED
    BY <2>5, <2>7, <2>8
<1>2. CASE target \notin Router!ToSet(providers)
  <2>1. Router!Route(target) = providers
    BY <1>2 DEF Router!Route
  <2> QED
    BY <1>2, <2>1 DEF Router!ToSet, RouterTypes
<1> QED
  BY <1>1, <1>2

LEMMA KeysOfRequests == \A r \in Request : Router!GenerateKey(r) \in Router!Key
  BY DEF Router!Key

\* What the key leaves of a field tells the values of the field apart, but
\* for none and the preset.
LEMMA SameKeyIsAlike ==
  ASSUME NEW q, NEW r, Router!GenerateKey(q) = Router!GenerateKey(r)
  PROVE  Router!Alike(q, r)
<1> DEFINE Spelt(x) == [f \in Router!Field |->
                          IF Given[x][f] = None THEN Router!Preset[f] ELSE Given[x][f]]
<1>1. Messages[q] = Messages[r] /\ Spelt(q) = Spelt(r)
  <2>1. <<Messages[q], Spelt(q)>> = <<Messages[r], Spelt(r)>>
    BY DEF Router!GenerateKey
  <2> HIDE DEF Spelt
  <2> QED
    BY <2>1
<1>2. ASSUME NEW f \in Router!Field
      PROVE  \/ Given[q][f] = Given[r][f]
             \/ {Given[q][f], Given[r][f]} = {None, Router!Preset[f]}
  <2>1. Spelt(q)[f] = Spelt(r)[f]
    BY <1>1
  <2>2. (IF Given[q][f] = None THEN Router!Preset[f] ELSE Given[q][f])
          = (IF Given[r][f] = None THEN Router!Preset[f] ELSE Given[r][f])
    BY <2>1
  <2> QED
    BY <2>2
<1> QED
  BY <1>1, <1>2 DEF Router!Alike

LEMMA RouterInit == Router!Init => RouterInv
  BY DEF Router!Init, RouterInv, RouterTypes, AnswerInv, RouteInv,
         Router!Responses, Router!NoResponse, Answers

LEMMA RouterStep == RouterInv /\ [Router!Next]_(Router!vars) => RouterInv'
<1> SUFFICES ASSUME RouterInv, [Router!Next]_(Router!vars)
             PROVE  RouterInv'
  OBVIOUS
<1>0. RouterTypes /\ AnswerInv /\ RouteInv /\ None \notin Provider
      /\ \A r \in Request : Router!Asked(r) \in Provider \cup {None}
  BY RouterAssumption DEF RouterInv, Router!Asked
<1>1. ASSUME NEW p \in Provider, NEW d \in BOOLEAN,
             Router!RegisterProvider(p, d)
      PROVE  RouterInv'
  <2>1. UNCHANGED <<cache, callPc, request, route, result>>
    BY <1>1 DEF Router!RegisterProvider
  <2>2. default' \in Provider \cup {None}
    BY <1>0, <1>1 DEF Router!RegisterProvider, RouterTypes
  <2>3. /\ providers' \in Seq(Provider)
        /\ \A i, j \in DOMAIN providers' : providers'[i] = providers'[j] => i = j
    <3>1. CASE p \in Router!ToSet(providers)
      BY <1>0, <1>1, <3>1 DEF Router!RegisterProvider, RouterTypes
    <3>2. CASE p \notin Router!ToSet(providers)
      <4>1. providers' = Append(providers, p)
        BY <1>1, <3>2 DEF Router!RegisterProvider
      <4>2. \A i \in DOMAIN providers : providers[i] # p
        BY <3>2 DEF Router!ToSet
      <4>3. providers \in Seq(Provider)
        BY <1>0 DEF RouterTypes
      <4>4. /\ providers' \in Seq(Provider)
            /\ Len(providers') = Len(providers) + 1
            /\ providers'[Len(providers) + 1] = p
            /\ \A j \in 1 .. Len(providers) : providers'[j] = providers[j]
        BY <4>1, <4>3, AppendIndexes
      <4>5. \A i \in DOMAIN providers' : i \in DOMAIN providers \/ i = Len(providers) + 1
        BY <4>3, <4>4
      <4>6. ASSUME NEW i \in DOMAIN providers', NEW j \in DOMAIN providers',
                   providers'[i] = providers'[j]
            PROVE  i = j
        <5>1. \A k \in DOMAIN providers : providers'[k] = providers[k]
                                           /\ providers'[k] # p
          BY <4>2, <4>3, <4>4
        <5>2. CASE i \in DOMAIN providers /\ j \in DOMAIN providers
          BY <1>0, <4>6, <5>1, <5>2 DEF RouterTypes
        <5>3. CASE i \notin DOMAIN providers
          BY <4>4, <4>5, <4>6, <5>1, <5>3
        <5>4. CASE j \notin DOMAIN providers
          BY <4>4, <4>5, <4>6, <5>1, <5>4
        <5> QED
          BY <5>2, <5>3, <5>4
      <4> QED
        BY <4>4, <4>6
    <3> QED
      BY <3>1, <3>2
  <2> QED
    BY <1>0, <2>1, <2>2, <2>3 DEF RouterInv, RouterTypes, AnswerInv, RouteInv
<1>2. ASSUME NEW c \in Call, NEW r \in Request, Router!Hit(c, r)
      PROVE  RouterInv'
  <2> DEFINE k == Router!GenerateKey(r)
             e == cache[k]
             a == [e EXCEPT !.cached = TRUE]
  <2>1. e \in Router!Responses /\ Answers(e, k)
    BY <1>0, <1>2, KeysOfRequests DEF Router!Hit, RouterTypes, AnswerInv
  <2>2. a \in Router!Responses /\ Answers(a, k)
    BY <2>1 DEF Router!Responses, Answers
  <2>3. /\ result' = [result EXCEPT ![c] = a]
        /\ request' = [request EXCEPT ![c] = r]
        /\ callPc' = [callPc EXCEPT ![c] = "hit"]
        /\ UNCHANGED <<providers, default, cache, route>>
    BY <1>2 DEF Router!Hit
  <2> HIDE DEF a, e
  <2>4. RouterTypes'
    BY <1>0, <2>2, <2>3 DEF RouterTypes
  <2>5. AnswerInv'
    BY <1>0, <2>2, <2>3 DEF RouterTypes, AnswerInv
  <2>6. RouteInv'
    BY <1>0, <2>3 DEF RouterTypes, RouteInv
  <2> QED
    BY <2>4, <2>5, <2>6 DEF RouterInv
<1>3. ASSUME NEW c \in Call, NEW r \in Request, Router!Miss(c, r)
      PROVE  RouterInv'
  <2> DEFINE k == Router!GenerateKey(r)
  <2>1. k \in Router!Key
    BY KeysOfRequests
  <2>3. /\ cache' = [cache EXCEPT ![k] = Router!NoResponse]
        /\ request' = [request EXCEPT ![c] = r]
        /\ callPc' = [callPc EXCEPT ![c] = "starting"]
        /\ UNCHANGED <<providers, default, route, result>>
    BY <1>3 DEF Router!Miss
  <2>0. Router!NoResponse \in Router!Responses
    BY DEF Router!NoResponse, Router!Responses
  <2>4. RouterTypes'
    BY <1>0, <2>0, <2>3 DEF RouterTypes
  <2>5. AnswerInv'
    BY <1>0, <2>3 DEF RouterTypes, AnswerInv
  <2>6. RouteInv'
    BY <1>0, <2>3 DEF RouterTypes, RouteInv
  <2> QED
    BY <2>4, <2>5, <2>6 DEF RouterInv
<1>4. ASSUME NEW c \in Call, Router!ChooseRoute(c)
      PROVE  RouterInv'
  <2> DEFINE asked1 == Router!Asked(request[c])
             target == IF asked1 # None THEN asked1 ELSE default
  <2>1. request[c] \in Request /\ asked1 \in Provider \cup {None}
    BY <1>0, <1>4 DEF Router!ChooseRoute, AnswerInv
  <2>2. UNCHANGED <<providers, default, cache, request, result>>
    BY <1>4 DEF Router!ChooseRoute
  <2>3. CASE target = None
    <3>1. callPc' = [callPc EXCEPT ![c] = "threw"] /\ UNCHANGED route
      BY <1>4, <2>3 DEF Router!ChooseRoute
    <3>2. RouterTypes'
      BY <1>0, <2>2, <3>1 DEF RouterTypes
    <3>3. AnswerInv'
      BY <1>0, <2>1, <2>2, <3>1 DEF RouterTypes, AnswerInv
    <3>4. RouteInv'
      BY <1>0, <2>2, <3>1 DEF RouterTypes, RouteInv
    <3> QED
      BY <3>2, <3>3, <3>4 DEF RouterInv
  <2>4. CASE target # None
    <3>1. /\ callPc' = [callPc EXCEPT ![c] = "trying"]
          /\ route' = [route EXCEPT ![c] = Router!Route(target)]
      BY <1>4, <2>4 DEF Router!ChooseRoute
    <3>2. target \in Provider
      BY <1>0, <2>1, <2>4 DEF RouterTypes
    <3> DEFINE q == Router!Route(target)
    <3>3. /\ q \in Seq(Provider)
          /\ \A i \in DOMAIN q : i > 1 => q[i] # target
      BY <1>0, <3>2, RouteIsOrdered
    <3>4. \A i \in DOMAIN q : i > 1 => q[i] # asked1
      <4>1. CASE asked1 # None
        BY <3>3, <4>1
      <4>2. CASE asked1 = None
        <5>1. \A i \in DOMAIN q : q[i] \in Provider
          BY <3>3
        <5> QED
          BY <1>0, <4>2, <5>1
      <4> QED
        BY <4>1, <4>2
    <3> HIDE DEF q
    <3>5. route' = [route EXCEPT ![c] = q]
      BY <3>1 DEF q
    <3>6. RouterTypes'
      BY <1>0, <2>2, <3>1, <3>3, <3>5 DEF RouterTypes
    <3>7. AnswerInv'
      BY <1>0, <1>4, <2>2, <3>1 DEF RouterTypes, AnswerInv, Router!ChooseRoute
    <3>8. RouteInv'
      BY <1>0, <2>2, <3>1, <3>4, <3>5 DEF RouterTypes, RouteInv
    <3> QED
      BY <3>6, <3>7, <3>8 DEF RouterInv
  <2> QED
    BY <2>3, <2>4
<1>5. ASSUME NEW c \in Call, Router!ProviderAnswers(c)
      PROVE  RouterInv'
  <2> DEFINE a == [provider |-> Head(route[c]), request |-> request[c],
                   costUsd |-> 1, cached |-> FALSE]
  <2>1. route[c] \in Seq(Provider) /\ route[c] # <<>> /\ callPc[c] = "trying"
    BY <1>0, <1>5 DEF RouterTypes, Router!ProviderAnswers
  <2>2. /\ a \in Router!Responses /\ Answers(a, Router!GenerateKey(request[c]))
        /\ a.provider = route[c][1]
    <3>1. Head(route[c]) \in Provider /\ Head(route[c]) = route[c][1]
      BY <2>1
    <3>2. request[c] \in Request
      BY <1>0, <2>1 DEF AnswerInv
    <3> QED
      BY <3>1, <3>2 DEF Router!Responses, Answers
  <2>3. /\ result' = [result EXCEPT ![c] = a]
        /\ callPc' = [callPc EXCEPT ![c] = "answered"]
        /\ UNCHANGED <<providers, default, cache, request, route>>
    BY <1>5 DEF Router!ProviderAnswers
  <2> HIDE DEF a
  <2>4. RouterTypes'
    BY <1>0, <2>2, <2>3 DEF RouterTypes
  <2>5. AnswerInv'
    BY <1>0, <2>1, <2>2, <2>3 DEF RouterTypes, AnswerInv
  <2>6. RouteInv'
    BY <1>0, <2>1, <2>2, <2>3 DEF RouterTypes, RouteInv
  <2> QED
    BY <2>4, <2>5, <2>6 DEF RouterInv
<1>6. ASSUME NEW c \in Call, Router!ProviderFails(c)
      PROVE  RouterInv'
  <2>1. route[c] \in Seq(Provider) /\ route[c] # <<>> /\ callPc[c] = "trying"
    BY <1>0, <1>6 DEF RouterTypes, Router!ProviderFails
  <2> DEFINE q == Tail(route[c])
  <2>2. /\ q \in Seq(Provider) /\ Len(q) = Len(route[c]) - 1
        /\ \A i \in 1 .. Len(q) : q[i] = route[c][i + 1]
    BY <2>1
  <2>3. \A i \in DOMAIN q : q[i] # Router!Asked(request[c])
    <3>1. ASSUME NEW i \in 1 .. Len(q)
          PROVE  q[i] # Router!Asked(request[c])
      <4>1. i + 1 \in DOMAIN route[c] /\ i + 1 > 1
        BY <2>1, <2>2
      <4> QED
        BY <1>0, <2>1, <2>2, <4>1 DEF RouteInv
    <3> QED
      BY <2>2, <3>1
  <2> HIDE DEF q
  <2>4. /\ route' = [route EXCEPT ![c] = q]
        /\ UNCHANGED <<providers, default, cache, callPc, request, result>>
    BY <1>0, <1>6 DEF Router!ProviderFails, RouterTypes, q
  <2>5. RouterTypes'
    BY <1>0, <2>2, <2>4 DEF RouterTypes
  <2>6. AnswerInv'
    BY <1>0, <2>4 DEF AnswerInv
  <2>7. RouteInv'
    BY <1>0, <2>1, <2>3, <2>4 DEF RouterTypes, RouteInv
  <2> QED
    BY <2>5, <2>6, <2>7 DEF RouterInv
<1>7. ASSUME NEW c \in Call, Router!AllFailed(c)
      PROVE  RouterInv'
  BY <1>0, <1>7
     DEF Router!AllFailed, RouterInv, RouterTypes, AnswerInv, RouteInv
<1>8. ASSUME NEW c \in Call, Router!StoreAndReturn(c)
      PROVE  RouterInv'
  <2>1. /\ callPc[c] = "answered" /\ request[c] \in Request
        /\ result[c] \in Router!Responses
        /\ Answers(result[c], Router!GenerateKey(request[c]))
    BY <1>0, <1>8 DEF Router!StoreAndReturn, RouterTypes, AnswerInv
  <2> DEFINE k == Router!GenerateKey(request[c])
  <2>6. k \in Router!Key
    BY <2>1, KeysOfRequests
  <2>2. /\ cache' = [cache EXCEPT ![k] = result[c]]
        /\ callPc' = [callPc EXCEPT ![c] = "returned"]
        /\ UNCHANGED <<providers, default, request, route, result>>
    BY <1>8 DEF Router!StoreAndReturn
  <2>3. RouterTypes'
    BY <1>0, <2>1, <2>2 DEF RouterTypes
  <2>4. AnswerInv'
    BY <1>0, <2>1, <2>2 DEF RouterTypes, AnswerInv
  <2>5. RouteInv'
    BY <1>0, <2>2 DEF RouterTypes, RouteInv
  <2> QED
    BY <2>3, <2>4, <2>5 DEF RouterInv
<1>9. ASSUME NEW c \in Call, Router!ReturnHit(c)
      PROVE  RouterInv'
  BY <1>0, <1>9
     DEF Router!ReturnHit, RouterInv, RouterTypes, AnswerInv, RouteInv
<1>10. CASE UNCHANGED Router!vars
  BY <1>10 DEF Router!vars, RouterInv, RouterTypes, AnswerInv, RouteInv
<1> QED
  BY <1>1, <1>2, <1>3, <1>4, <1>5, <1>6, <1>7, <1>8, <1>9, <1>10
     DEF Router!Next, Router!Progress

\* Calls of generate that run at once get the answers to their own requests,
\* from the cache too, or to requests that differ from them in a preset that
\* is left out or not, and no other provider answers before the one that was
\* asked for has failed (llm-router.ts, response-cache.ts, route-selector.ts).
THEOREM AnswersStayRight == Router!Spec => []AnswersAreRight
<1>1. RouterInv => AnswersAreRight
  <2> SUFFICES ASSUME RouterInv PROVE AnswersAreRight
    OBVIOUS
  <2>1. ASSUME NEW c \in Call, callPc[c] = "returned"
        PROVE  /\ result[c].request \in Request
               /\ Router!Alike(result[c].request, request[c])
    BY <2>1, SameKeyIsAlike DEF RouterInv, AnswerInv, Answers
  <2>2. ASSUME NEW c \in Call, callPc[c] = "answered",
               Router!Asked(request[c]) \in Router!ToSet(route[c])
        PROVE  result[c].provider = Router!Asked(request[c])
    <3>1. route[c] \in Seq(Provider)
      BY DEF RouterInv, RouterTypes
    <3>2. PICK i \in DOMAIN route[c] : route[c][i] = Router!Asked(request[c])
      BY <2>2 DEF Router!ToSet
    <3>3. i = 1
      BY <2>2, <3>1, <3>2 DEF RouterInv, RouteInv
    <3> QED
      BY <2>2, <3>2, <3>3 DEF RouterInv, RouteInv
  <2> QED
    BY <2>1, <2>2
     DEF AnswersAreRight, Router!AnswersMatchRequests, Router!AskedComesFirst
<1> QED
  BY RouterInit, RouterStep, <1>1, PTL DEF Router!Spec

-----------------------------------------------------------------------------
(***************************************************************************)
(* The accounts of a run of the ReAct loop.  At most one call of the model *)
(* and one of a tool is under way; they are not consumed yet.              *)
(***************************************************************************)
LEMMA OneMore ==
  ASSUME NEW n \in Nat, NEW A \in SUBSET (1 .. n), NEW B,
         B = A \/ B = A \cup {n + 1}
  PROVE  /\ Cardinality(A) \in Nat
         /\ Cardinality(B) = Cardinality(A) + IF n + 1 \in B THEN 1 ELSE 0
<1>1. IsFiniteSet(A)
  <2>1. IsFiniteSet(1 .. n)
    BY FS_Interval
  <2> QED
    BY <2>1, FS_Subset
<1>2. Cardinality(A) \in Nat
  BY <1>1, FS_CardinalityType
<1>3. n + 1 \notin A
  OBVIOUS
<1>4. CASE B = A
  BY <1>2, <1>3, <1>4
<1>5. CASE B = A \cup {n + 1}
  <2>1. Cardinality(B) = Cardinality(A) + 1
    BY <1>1, <1>3, <1>5, FS_AddElement
  <2> QED
    BY <1>2, <1>5, <2>1
<1> QED
  BY <1>4, <1>5

StepRow == [action : {"tool", "finish"}, success : BOOLEAN]

RunTypes ==
  /\ task.maxLLMCalls \in Nat
  /\ aborted \in BOOLEAN
  /\ consumed \in [llmCalls : Nat, toolCalls : Nat, tokens : Nat]
  /\ runPc \in {"selected", "head", "started", "asking", "acting", "stepped",
                "finishing", "returned", "threw"}
  /\ steps \in Seq(StepRow)
  /\ modelCalls \in Nat /\ afterAbort \in Nat

\* A run has a reason to end when it has ended.
EndInv == ended # None => runPc \in {"returned", "threw"}

SpentInv ==
  /\ modelCalls <= task.maxLLMCalls
  /\ modelCalls =
       consumed.llmCalls + (IF runPc = "asking" \/ ended = "llm" THEN 1 ELSE 0)
  /\ consumed.toolCalls = Cardinality(Engine!ToolSteps(steps))
  /\ consumed.toolCalls + (IF runPc = "acting" THEN 1 ELSE 0) <= MaxToolCalls

\* A step begins only before a cancellation, so that what it does after it is
\* at most to ask the model and to call a tool.
NoticeInv ==
  /\ afterAbort <= 2
  /\ ~aborted \/ runPc = "started" => afterAbort = 0
  /\ runPc = "asking" => afterAbort <= 1

RunInv == running = "react" => RunTypes /\ EndInv /\ SpentInv /\ NoticeInv

\* One more step of the loop is one more tool step, or none.
LEMMA StepCounts ==
  ASSUME steps \in Seq(StepRow), NEW r \in StepRow
  PROVE  /\ Append(steps, r) \in Seq(StepRow)
         /\ Cardinality(Engine!ToolSteps(steps)) \in Nat
         /\ Cardinality(Engine!ToolSteps(Append(steps, r))) =
              Cardinality(Engine!ToolSteps(steps))
                + IF r.action = "tool" THEN 1 ELSE 0
<1> DEFINE q == Append(steps, r)
           n == Len(steps)
           A == Engine!ToolSteps(steps)
           B == Engine!ToolSteps(q)
<1>1. /\ q \in Seq(StepRow) /\ n \in Nat
      /\ Len(q) = n + 1
      /\ q[n + 1] = r
      /\ \A j \in 1 .. n : q[j] = steps[j]
  BY AppendIndexes
<1> HIDE DEF q
<1>2. DOMAIN steps = 1 .. n /\ DOMAIN q = 1 .. n + 1
  BY <1>1
<1>3. A \in SUBSET (1 .. n)
  BY <1>2 DEF Engine!ToolSteps
<1>4. /\ B = IF r.action = "tool" THEN A \cup {n + 1} ELSE A
      /\ n + 1 \in B <=> r.action = "tool"
  BY <1>1, <1>2 DEF Engine!ToolSteps
<1> HIDE DEF A, B, n
<1>5. /\ Cardinality(A) \in Nat
      /\ Cardinality(B) = Cardinality(A) + IF n + 1 \in B THEN 1 ELSE 0
  BY <1>1, <1>3, <1>4, OneMore
<1> QED
  BY <1>1, <1>4, <1>5 DEF q, A, B

LEMMA RunInit == Engine!Init => RunInv
<1> SUFFICES ASSUME Engine!Init PROVE RunTypes /\ EndInv /\ SpentInv /\ NoticeInv
  BY DEF RunInv
<1>1. /\ aborted = FALSE /\ runPc = "selected" /\ steps = <<>> /\ ended = None
      /\ modelCalls = 0 /\ afterAbort = 0
      /\ consumed = [llmCalls |-> 0, toolCalls |-> 0, tokens |-> 0]
  BY DEF Engine!Init
<1>2. task.maxLLMCalls \in Nat
  BY EngineAssumption DEF Engine!Init, Engine!Tasks
<1>3. steps \in Seq(StepRow)
  BY <1>1
<1>4. Cardinality(Engine!ToolSteps(steps)) = 0
  <2>1. Engine!ToolSteps(steps) = {}
    BY <1>1 DEF Engine!ToolSteps
  <2> QED
    BY <2>1, FS_EmptySet
<1>5. None # "llm" /\ MaxToolCalls \in Nat
  BY EngineAssumption DEF Engine!Reasons
<1>6. RunTypes
  BY <1>1, <1>2, <1>3 DEF RunTypes
<1>7. EndInv /\ NoticeInv
  BY <1>1 DEF EndInv, NoticeInv
<1>8. SpentInv
  <2>1. consumed.llmCalls = 0 /\ consumed.toolCalls = 0
    BY <1>1
  <2>2. runPc # "asking" /\ runPc # "acting" /\ ended # "llm" /\ MaxToolCalls >= 0
    BY <1>1, <1>5
  <2> QED
    BY <1>1, <1>2, <1>4, <2>1, <2>2 DEF SpentInv
<1> QED
  BY <1>6, <1>7, <1>8

LEMMA RunStep == RunInv /\ [Engine!Next]_(Engine!vars) => RunInv'
<1> SUFFICES ASSUME RunInv, [Engine!Next]_(Engine!vars), running' = "react"
             PROVE  RunTypes' /\ EndInv' /\ SpentInv' /\ NoticeInv'
  BY DEF RunInv
<1>a. running = "react" /\ task' = task
  BY DEF Engine!Next, Engine!Progress, Engine!Starts, Engine!ModelFails,
         Engine!StepBegins, Engine!LimitReached, Engine!AsksModel, Engine!Nudged,
         Engine!Answers, Engine!Acts, Engine!ToolReturns, Engine!StepEnds,
         Engine!DirectAnswers, Engine!DirectToolReturns, Engine!DirectEnds,
         Engine!ExpandsBranch, Engine!TreeAnswers, Engine!TreeToolReturns,
         Engine!DepthEnds, Engine!NextDepth, Engine!TreeEnds, Engine!Cancel,
         Engine!TimePasses, Engine!vars, Engine!plan, Engine!budget
<1>b. RunTypes /\ EndInv /\ SpentInv /\ NoticeInv
  BY <1>a DEF RunInv
<1>c. /\ None \notin Engine!Reasons
      /\ MaxToolCalls \in Nat
  BY EngineAssumption
<1>d. /\ consumed.llmCalls \in Nat /\ consumed.toolCalls \in Nat
      /\ consumed.tokens \in Nat
  BY <1>b DEF RunTypes
<1>e. ASSUME UNCHANGED <<steps, consumed, modelCalls, afterAbort, aborted>>,
             RunTypes, runPc' \in {"head", "started", "returned", "threw"},
             runPc \notin {"asking", "acting"}, ended # "llm",
             \/ ended' = None
             \/ ended' # "llm" /\ runPc' \in {"returned", "threw"},
             runPc' = "started" => afterAbort = 0
      PROVE  RunTypes' /\ EndInv' /\ SpentInv' /\ NoticeInv'
  <2>1. RunTypes' /\ EndInv'
    BY <1>a, <1>b, <1>e DEF RunTypes, EndInv
  <2>2. SpentInv'
    BY <1>a, <1>b, <1>c, <1>e DEF SpentInv, Engine!ToolSteps, Engine!Reasons
  <2>3. NoticeInv'
    BY <1>b, <1>e DEF NoticeInv
  <2> QED
    BY <2>1, <2>2, <2>3
<1>f. runPc \notin {"returned", "threw"} => ended = None /\ ended # "llm"
  BY <1>b, <1>c DEF EndInv, Engine!Reasons
<1>1. CASE Engine!Starts
  <2>1. /\ runPc = "selected" /\ runPc' = "head"
        /\ UNCHANGED <<steps, consumed, modelCalls, afterAbort, aborted, ended>>
    BY <1>a, <1>1 DEF Engine!Starts, Engine!budget
  <2> QED
    BY <1>b, <1>e, <1>f, <2>1
<1>2. CASE Engine!ModelFails
  <2>1. /\ runPc = "asking" /\ runPc' = "threw" /\ ended' = "llm"
        /\ UNCHANGED <<steps, consumed, modelCalls, afterAbort, aborted>>
    BY <1>2 DEF Engine!ModelFails, Engine!Throws, Engine!budget
  <2>2. RunTypes' /\ EndInv' /\ NoticeInv'
    BY <1>a, <1>b, <2>1 DEF RunTypes, EndInv, NoticeInv
  <2>3. SpentInv'
    BY <1>a, <1>b, <1>d, <2>1, <1>c DEF SpentInv, Engine!ToolSteps
  <2> QED
    BY <2>2, <2>3
<1>3. CASE Engine!StepBegins
  <2>1. /\ runPc = "head"
        /\ UNCHANGED <<steps, consumed, modelCalls, afterAbort, aborted>>
        /\ \/ aborted /\ runPc' = "threw" /\ ended' = "cancelled"
           \/ ~aborted /\ runPc' = "started" /\ ended' = ended
    BY <1>3 DEF Engine!StepBegins, Engine!Throws, Engine!budget
  <2>2. ~aborted => afterAbort = 0
    BY <1>b DEF NoticeInv
  <2> QED
    BY <1>b, <1>e, <1>f, <2>1, <2>2
<1>4. CASE Engine!LimitReached
  <2>1. /\ runPc = "head" /\ runPc' \in {"returned", "threw"}
        /\ ended' \in {"noTool", "limit"}
        /\ UNCHANGED <<steps, consumed, modelCalls, afterAbort, aborted>>
    BY <1>4 DEF Engine!LimitReached, Engine!Throws, Engine!Returns, Engine!budget
  <2> QED
    BY <1>b, <1>e, <1>f, <2>1
<1>5. CASE Engine!AsksModel
  <2>1. CASE Engine!Exceeded # None
    <3>1. /\ runPc = "started" /\ runPc' = "threw" /\ ended' = Engine!Exceeded
          /\ UNCHANGED <<steps, consumed, modelCalls, afterAbort, aborted>>
      BY <1>5, <2>1 DEF Engine!AsksModel, Engine!Throws, Engine!budget
    <3>2. Engine!Exceeded # "llm"
      BY <1>c DEF Engine!Exceeded, Engine!Reasons
    <3> QED
      BY <1>b, <1>e, <1>f, <3>1, <3>2
  <2>2. CASE Engine!Exceeded = None
    <3>1. /\ runPc = "started" /\ runPc' = "asking" /\ modelCalls' = modelCalls + 1
          /\ afterAbort' = IF aborted THEN afterAbort + 1 ELSE afterAbort
          /\ UNCHANGED <<steps, consumed, aborted, ended>>
      BY <1>5, <2>2 DEF Engine!AsksModel, Engine!CallsModel, Engine!Begins,
                        Engine!budget
    <3>2. ~(consumed.llmCalls >= task.maxLLMCalls)
      BY <1>c, <2>2 DEF Engine!Exceeded, Engine!Reasons
    <3>3. RunTypes'
      BY <1>a, <1>b, <3>1 DEF RunTypes
    <3>4. EndInv' /\ NoticeInv'
      BY <1>b, <1>f, <3>1 DEF EndInv, NoticeInv, RunTypes
    <3>5. SpentInv'
      <4>1. modelCalls = consumed.llmCalls /\ task.maxLLMCalls \in Nat
        BY <1>b, <1>d, <1>f, <3>1 DEF SpentInv, RunTypes
      <4>2. modelCalls' <= task.maxLLMCalls
        BY <1>d, <3>1, <3>2, <4>1
      <4>3. consumed'.toolCalls = Cardinality(Engine!ToolSteps(steps))'
        BY <1>b, <3>1 DEF SpentInv, Engine!ToolSteps
      <4> QED
        BY <1>a, <1>b, <1>c, <1>d, <1>f, <3>1, <4>1, <4>2, <4>3 DEF SpentInv
    <3> QED
      BY <3>3, <3>4, <3>5
  <2> QED
    BY <2>1, <2>2
<1>6. ASSUME NEW t \in 1 .. 2, runPc = "asking", Engine!Consume(t)
      PROVE  /\ consumed' \in [llmCalls : Nat, toolCalls : Nat, tokens : Nat]
             /\ consumed'.llmCalls = modelCalls
             /\ consumed'.toolCalls = consumed.toolCalls
             /\ modelCalls <= task.maxLLMCalls
  <2>1. consumed \in [llmCalls : Nat, toolCalls : Nat, tokens : Nat]
    BY <1>b DEF RunTypes
  <2>2. /\ consumed' \in [llmCalls : Nat, toolCalls : Nat, tokens : Nat]
        /\ consumed'.llmCalls = consumed.llmCalls + 1
        /\ consumed'.toolCalls = consumed.toolCalls
    <3>1. t \in Nat
      OBVIOUS
    <3>2. consumed' = [consumed EXCEPT !.llmCalls = @ + 1, !.tokens = @ + t]
      BY <1>6 DEF Engine!Consume
    <3> DEFINE c == [consumed EXCEPT !.llmCalls = @ + 1]
    <3>3. /\ c \in [llmCalls : Nat, toolCalls : Nat, tokens : Nat]
          /\ c.llmCalls = consumed.llmCalls + 1
          /\ c.toolCalls = consumed.toolCalls
      BY <2>1
    <3>4. consumed' = [c EXCEPT !.tokens = @ + t]
      BY <3>2
    <3> HIDE DEF c
    <3>5. c.tokens + t \in Nat
      BY <3>1, <3>3
    <3>6. /\ consumed' \in [llmCalls : Nat, toolCalls : Nat, tokens : Nat]
          /\ consumed'.llmCalls = c.llmCalls
          /\ consumed'.toolCalls = c.toolCalls
      BY <3>3, <3>4, <3>5
    <3> QED
      BY <3>3, <3>6
  <2> QED
    BY <1>6, <1>b, <1>d, <2>2 DEF SpentInv
<1>7. ASSUME NEW k \in Engine!Kinds, NEW t \in 1 .. 2, Engine!Nudged(k, t)
      PROVE  RunTypes' /\ EndInv' /\ SpentInv' /\ NoticeInv'
  <2>1. /\ runPc = "asking" /\ Engine!Consume(t)
        /\ \/ runPc' = "threw" /\ ended' = "noTool"
           \/ runPc' = "head" /\ ended' = ended
        /\ UNCHANGED <<steps, modelCalls, afterAbort, aborted>>
    BY <1>7 DEF Engine!Nudged, Engine!Throws
  <2>2. RunTypes'
    BY <1>a, <1>b, <1>6, <2>1 DEF RunTypes
  <2>3. EndInv' /\ NoticeInv'
    BY <1>b, <1>f, <2>1 DEF EndInv, NoticeInv
  <2>4. SpentInv'
    BY <1>a, <1>b, <1>c, <1>d, <1>6, <1>f, <2>1
       DEF SpentInv, Engine!ToolSteps, RunTypes
  <2> QED
    BY <2>2, <2>3, <2>4
<1>8. ASSUME NEW k \in Engine!Kinds, NEW t \in 1 .. 2, Engine!Answers(k, t)
      PROVE  RunTypes' /\ EndInv' /\ SpentInv' /\ NoticeInv'
  <2> DEFINE r == Engine!StepResult("finish", TRUE)
  <2>1. /\ runPc = "asking" /\ Engine!Consume(t)
        /\ runPc' = "finishing" /\ steps' = Append(steps, r)
        /\ UNCHANGED <<modelCalls, afterAbort, aborted, ended>>
    BY <1>8 DEF Engine!Answers
  <2>2. r \in StepRow /\ r.action # "tool"
    BY DEF Engine!StepResult, StepRow
  <2> HIDE DEF r
  <2>3. /\ steps' \in Seq(StepRow)
        /\ Cardinality(Engine!ToolSteps(steps))' = Cardinality(Engine!ToolSteps(steps))
    <3>1. steps \in Seq(StepRow)
      BY <1>b DEF RunTypes
    <3>2. Cardinality(Engine!ToolSteps(steps))'
            = Cardinality(Engine!ToolSteps(Append(steps, r)))
      BY <2>1 DEF Engine!ToolSteps
    <3> QED
      BY <2>1, <2>2, <3>1, <3>2, StepCounts
  <2>4. RunTypes'
    BY <1>a, <1>b, <1>6, <2>1, <2>3 DEF RunTypes
  <2>5. EndInv' /\ NoticeInv'
    BY <1>b, <1>f, <2>1 DEF EndInv, NoticeInv
  <2>6. SpentInv'
    BY <1>a, <1>b, <1>c, <1>d, <1>6, <1>f, <2>1, <2>3 DEF SpentInv, RunTypes
  <2> QED
    BY <2>4, <2>5, <2>6
<1>9. ASSUME NEW k \in Engine!Kinds, NEW t \in 1 .. 2, Engine!Acts(k, t)
      PROVE  RunTypes' /\ EndInv' /\ SpentInv' /\ NoticeInv'
  <2>1. /\ runPc = "asking" /\ Engine!Consume(t)
        /\ UNCHANGED <<steps, modelCalls, aborted>>
        /\ \/ /\ runPc' = "threw" /\ ended' = "toolBudget"
              /\ afterAbort' = afterAbort
           \/ /\ ~(consumed.toolCalls >= MaxToolCalls)
              /\ runPc' = "acting" /\ ended' = ended
              /\ afterAbort' = IF aborted THEN afterAbort + 1 ELSE afterAbort
    BY <1>9 DEF Engine!Acts, Engine!Throws, Engine!Begins
  <2>2. RunTypes'
    BY <1>a, <1>b, <1>6, <2>1 DEF RunTypes
  <2>3. EndInv' /\ NoticeInv'
    BY <1>b, <1>f, <2>1 DEF EndInv, NoticeInv, RunTypes
  <2>4. SpentInv'
    BY <1>a, <1>b, <1>c, <1>d, <1>6, <1>f, <2>1
       DEF SpentInv, Engine!ToolSteps, RunTypes
  <2> QED
    BY <2>2, <2>3, <2>4
<1>10. ASSUME NEW s \in BOOLEAN, Engine!ToolReturns(s)
       PROVE  RunTypes' /\ EndInv' /\ SpentInv' /\ NoticeInv'
  <2> DEFINE r == Engine!StepResult("tool", s)
  <2>1. /\ runPc = "acting" /\ runPc' = "stepped"
        /\ consumed' = [consumed EXCEPT !.toolCalls = @ + 1]
        /\ steps' = Append(steps, r)
        /\ UNCHANGED <<modelCalls, afterAbort, aborted, ended>>
    BY <1>10 DEF Engine!ToolReturns
  <2>2. r \in StepRow /\ r.action = "tool"
    BY DEF Engine!StepResult, StepRow
  <2> HIDE DEF r
  <2>3. /\ consumed' \in [llmCalls : Nat, toolCalls : Nat, tokens : Nat]
        /\ consumed'.llmCalls = consumed.llmCalls
        /\ consumed'.toolCalls = consumed.toolCalls + 1
    <3>1. consumed \in [llmCalls : Nat, toolCalls : Nat, tokens : Nat]
      BY <1>b DEF RunTypes
    <3> QED
      BY <2>1, <3>1
  <2>4. /\ steps' \in Seq(StepRow)
        /\ Cardinality(Engine!ToolSteps(steps)) \in Nat
        /\ Cardinality(Engine!ToolSteps(steps))'
             = Cardinality(Engine!ToolSteps(steps)) + 1
    <3>1. steps \in Seq(StepRow)
      BY <1>b DEF RunTypes
    <3>2. Cardinality(Engine!ToolSteps(steps))'
            = Cardinality(Engine!ToolSteps(Append(steps, r)))
      BY <2>1 DEF Engine!ToolSteps
    <3> QED
      BY <2>1, <2>2, <3>1, <3>2, StepCounts
  <2>5. RunTypes'
    BY <1>a, <1>b, <2>1, <2>3, <2>4 DEF RunTypes
  <2>6. EndInv' /\ NoticeInv'
    BY <1>b, <1>f, <2>1 DEF EndInv, NoticeInv
  <2>7. SpentInv'
    BY <1>a, <1>b, <1>c, <1>d, <1>f, <2>1, <2>3, <2>4 DEF SpentInv, RunTypes
  <2> QED
    BY <2>5, <2>6, <2>7
<1>11. CASE Engine!StepEnds
  <2>1. /\ runPc \in {"stepped", "finishing"}
        /\ UNCHANGED <<steps, consumed, modelCalls, afterAbort, aborted>>
        /\ \/ runPc' = "head" /\ ended' = ended
           \/ runPc' = "returned" /\ ended' = "finish"
    BY <1>11 DEF Engine!StepEnds, Engine!Returns, Engine!budget
  <2> QED
    BY <1>b, <1>e, <1>f, <2>1
<1>12. CASE Engine!Cancel
  <2>1. /\ ~aborted /\ aborted' = TRUE
        /\ UNCHANGED <<runPc, steps, consumed, modelCalls, afterAbort, ended>>
    BY <1>12 DEF Engine!Cancel
  <2>2. RunTypes' /\ EndInv' /\ NoticeInv'
    BY <1>a, <1>b, <2>1 DEF RunTypes, EndInv, NoticeInv
  <2>3. SpentInv'
    BY <1>a, <1>b, <2>1 DEF SpentInv, Engine!ToolSteps
  <2> QED
    BY <2>2, <2>3
<1>13. CASE Engine!TimePasses \/ UNCHANGED Engine!vars
  <2>1. UNCHANGED <<runPc, steps, consumed, modelCalls, afterAbort, ended, aborted>>
    BY <1>13 DEF Engine!TimePasses, Engine!vars
  <2>2. RunTypes' /\ EndInv' /\ NoticeInv'
    BY <1>a, <1>b, <2>1 DEF RunTypes, EndInv, NoticeInv
  <2>3. SpentInv'
    BY <1>a, <1>b, <2>1 DEF SpentInv, Engine!ToolSteps
  <2> QED
    BY <2>2, <2>3
<1>14. ~ (Engine!ExpandsBranch \/ Engine!DepthEnds \/ Engine!NextDepth)
  BY <1>b DEF RunTypes, Engine!ExpandsBranch, Engine!DepthEnds, Engine!NextDepth
<1>15. ~ (Engine!DirectEnds \/ Engine!TreeEnds)
  BY <1>a DEF Engine!DirectEnds, Engine!TreeEnds
<1>16. /\ ~ \E k \in Engine!Kinds : Engine!DirectAnswers(k)
       /\ ~ \E s \in BOOLEAN : Engine!DirectToolReturns(s)
       /\ ~ \E k \in Engine!Kinds, m \in {0, 50, 100} : Engine!TreeAnswers(k, m)
       /\ ~ \E s, c \in BOOLEAN, m \in {0, 50, 100} :
              Engine!TreeToolReturns(s, m, c)
  BY <1>a DEF Engine!DirectAnswers, Engine!DirectToolReturns, Engine!TreeAnswers,
              Engine!TreeToolReturns
<1> QED
  BY <1>1, <1>2, <1>3, <1>4, <1>5, <1>7, <1>8, <1>9, <1>10, <1>11, <1>12, <1>13,
     <1>14, <1>15, <1>16 DEF Engine!Next, Engine!Progress
-----------------------------------------------------------------------------
(***************************************************************************)
(* Counting executions.  A frame keeps the skill that it was made for, so  *)
(* that a call puts one more frame of its skill on the stack and the end   *)
(* of an execution takes one away and counts it.                           *)
(***************************************************************************)
Of(F, s) == {i \in DOMAIN F : F[i].skill = s}

StackInv ==
  /\ \E S : frames \in Seq(S)
  /\ \A i \in DOMAIN frames : "skill" \in DOMAIN frames[i]

CountInv ==
  /\ entered \in [Skill -> Nat]
  /\ stats \in [Skill -> [total : Nat, success : Nat]]
  /\ \A s \in Skill : entered[s] = stats[s].total + Cardinality(Of(frames, s))

LEMMA MoveToKeepsSkill ==
  ASSUME NEW frame, "skill" \in DOMAIN frame, NEW i
  PROVE  /\ "skill" \in DOMAIN MoveTo(frame, i)
         /\ MoveTo(frame, i).skill = frame.skill
<1> DEFINE a == [frame EXCEPT !.at = i]
           b == [a EXCEPT !.attempts = 0]
<1>1. "skill" \in DOMAIN a /\ a.skill = frame.skill
  OBVIOUS
<1>2. MoveTo(frame, i) = [b EXCEPT !.visits = @ + 1]
  BY DEF MoveTo
<1> HIDE DEF a
<1>3. "skill" \in DOMAIN b /\ b.skill = frame.skill
  BY <1>1
<1> HIDE DEF b
<1> QED
  BY <1>2, <1>3

LEMMA SettledKeepsSkill ==
  ASSUME NEW frame, "skill" \in DOMAIN frame, NEW ok
  PROVE  /\ "skill" \in DOMAIN Settled(frame, ok)
         /\ Settled(frame, ok).skill = frame.skill
<1> DEFINE back == [frame EXCEPT !.waiting = FALSE]
           lost == [back EXCEPT !.failed = @ + 1]
<1>1. "skill" \in DOMAIN back /\ back.skill = frame.skill
  OBVIOUS
<1> HIDE DEF back
<1>2. "skill" \in DOMAIN lost /\ lost.skill = frame.skill
  BY <1>1
<1> HIDE DEF lost
<1>4. /\ "skill" \in DOMAIN [back EXCEPT !.attempts = @ + 1]
      /\ [back EXCEPT !.attempts = @ + 1].skill = frame.skill
      /\ "skill" \in DOMAIN [lost EXCEPT !.aborted = TRUE]
      /\ [lost EXCEPT !.aborted = TRUE].skill = frame.skill
  BY <1>1, <1>2
<1>5. \/ \E i : Settled(frame, ok) = MoveTo(back, i)
      \/ \E i : Settled(frame, ok) = MoveTo(lost, i)
      \/ Settled(frame, ok) = [back EXCEPT !.attempts = @ + 1]
      \/ Settled(frame, ok) = [lost EXCEPT !.aborted = TRUE]
  BY DEF Settled, back, lost
<1> QED
  BY <1>1, <1>2, <1>4, <1>5, MoveToKeepsSkill

\* Another frame of the same skill in the place of one changes no count.
LEMMA ReplaceCounts ==
  ASSUME NEW F, NEW G, NEW i, DOMAIN G = DOMAIN F,
         \A j \in DOMAIN F : "skill" \in DOMAIN F[j],
         \A j \in DOMAIN F : j # i => G[j] = F[j],
         i \in DOMAIN F => G[i].skill = F[i].skill /\ "skill" \in DOMAIN G[i]
  PROVE  /\ \A j \in DOMAIN G : "skill" \in DOMAIN G[j]
         /\ \A s : Of(G, s) = Of(F, s)
<1>1. \A j \in DOMAIN F : G[j].skill = F[j].skill /\ "skill" \in DOMAIN G[j]
  OBVIOUS
<1>2. ASSUME NEW s PROVE Of(G, s) = Of(F, s)
  BY <1>1 DEF Of
<1> QED
  BY <1>1, <1>2

\* A new frame counts for its skill.
LEMMA PushCounts ==
  ASSUME NEW S, NEW F \in Seq(S), NEW f, "skill" \in DOMAIN f,
         \A j \in DOMAIN F : "skill" \in DOMAIN F[j]
  PROVE  /\ Append(F, f) \in Seq(S \cup {f})
         /\ \A j \in DOMAIN Append(F, f) : "skill" \in DOMAIN Append(F, f)[j]
         /\ \A s : /\ Cardinality(Of(F, s)) \in Nat
                   /\ Cardinality(Of(Append(F, f), s))
                        = Cardinality(Of(F, s)) + IF f.skill = s THEN 1 ELSE 0
<1> DEFINE T == S \cup {f}
           G == Append(F, f)
           n == Len(F)
<1>1. /\ F \in Seq(T) /\ f \in T /\ n \in Nat
  OBVIOUS
<1> HIDE DEF T, n
<1>2. /\ G \in Seq(T)
      /\ Len(G) = n + 1 /\ G[n + 1] = f
      /\ \A j \in 1 .. n : G[j] = F[j]
  BY <1>1, AppendIndexes DEF n
<1> HIDE DEF G
<1>3. DOMAIN F = 1 .. n /\ DOMAIN G = 1 .. n + 1
  BY <1>1, <1>2 DEF n
<1>4. \A j \in DOMAIN G : "skill" \in DOMAIN G[j]
  <2> SUFFICES ASSUME NEW j \in DOMAIN G PROVE "skill" \in DOMAIN G[j]
    OBVIOUS
  <2>1. CASE j = n + 1
    BY <1>2, <2>1
  <2>2. CASE j # n + 1
    BY <1>1, <1>2, <1>3, <2>2
  <2> QED
    BY <2>1, <2>2
<1>5. ASSUME NEW s
      PROVE  /\ Cardinality(Of(F, s)) \in Nat
             /\ Cardinality(Of(G, s))
                  = Cardinality(Of(F, s)) + IF f.skill = s THEN 1 ELSE 0
  <2> DEFINE A == Of(F, s)
             B == Of(G, s)
  <2>1. A \in SUBSET (1 .. n)
    BY <1>3 DEF Of
  <2>2. /\ B = IF f.skill = s THEN A \cup {n + 1} ELSE A
        /\ n + 1 \in B <=> f.skill = s
    BY <1>1, <1>2, <1>3 DEF Of
  <2> HIDE DEF A, B
  <2>3. /\ Cardinality(A) \in Nat
        /\ Cardinality(B) = Cardinality(A) + IF n + 1 \in B THEN 1 ELSE 0
    BY <1>1, <2>1, <2>2, OneMore
  <2> QED
    BY <2>2, <2>3 DEF A, B
<1> QED
  BY <1>2, <1>4, <1>5 DEF G, T

\* The frames below the innermost, which counts for its skill.
LEMMA PopCounts ==
  ASSUME NEW S, NEW F \in Seq(S), F # <<>>,
         \A j \in DOMAIN F : "skill" \in DOMAIN F[j]
  PROVE  LET rest == SubSeq(F, 1, Len(F) - 1) IN
         /\ rest \in Seq(S)
         /\ \A j \in DOMAIN rest : "skill" \in DOMAIN rest[j]
         /\ \A s : /\ Cardinality(Of(rest, s)) \in Nat
                   /\ Cardinality(Of(F, s)) =
                        Cardinality(Of(rest, s))
                          + IF F[Len(F)].skill = s THEN 1 ELSE 0
<1> DEFINE G == SubSeq(F, 1, Len(F) - 1)
           n == Len(F) - 1
           f == F[Len(F)]
<1>1. /\ n \in Nat /\ Len(F) = n + 1 /\ F \in Seq(S)
      /\ DOMAIN F = 1 .. n + 1 /\ f = F[n + 1]
  OBVIOUS
<1>2. /\ G \in Seq(S) /\ Len(G) = n
      /\ \A j \in 1 .. n : G[j] = F[j]
  BY <1>1, SubSeqProperties
<1> HIDE DEF G, n, f
<1>3. DOMAIN G = 1 .. n
  BY <1>1, <1>2
<1>4. \A j \in DOMAIN G : "skill" \in DOMAIN G[j]
  BY <1>1, <1>2, <1>3
<1>5. ASSUME NEW s
      PROVE  /\ Cardinality(Of(G, s)) \in Nat
             /\ Cardinality(Of(F, s))
                  = Cardinality(Of(G, s)) + IF f.skill = s THEN 1 ELSE 0
  <2> DEFINE A == Of(G, s)
             B == Of(F, s)
  <2>1. A \in SUBSET (1 .. n)
    BY <1>3 DEF Of
  <2>2. /\ B = IF f.skill = s THEN A \cup {n + 1} ELSE A
        /\ n + 1 \in B <=> f.skill = s
    BY <1>1, <1>2, <1>3 DEF Of
  <2> HIDE DEF A, B
  <2>3. /\ Cardinality(A) \in Nat
        /\ Cardinality(B) = Cardinality(A) + IF n + 1 \in B THEN 1 ELSE 0
    BY <1>1, <2>1, <2>2, OneMore
  <2> QED
    BY <2>2, <2>3 DEF A, B
<1> QED
  BY <1>2, <1>4, <1>5 DEF G, f

LEMMA CountStep == StackInv /\ CountInv /\ [Next]_vars => StackInv' /\ CountInv'
<1> SUFFICES ASSUME StackInv, CountInv, [Next]_vars
             PROVE  StackInv' /\ CountInv'
  OBVIOUS
<1>0. /\ entered \in [Skill -> Nat]
      /\ stats \in [Skill -> [total : Nat, success : Nat]]
      /\ \A j \in DOMAIN frames : "skill" \in DOMAIN frames[j]
  BY DEF CountInv, StackInv
<1>1. PICK S : frames \in Seq(S)
  BY DEF StackInv
<1>2. CASE UNCHANGED <<frames, entered, stats>>
  BY <1>2 DEF StackInv, CountInv, Of
<1>3. ASSUME NEW f, frames # <<>>, f.skill = Top.skill, "skill" \in DOMAIN f
      PROVE  /\ WithTop(f) \in Seq(S \cup {f})
             /\ \A j \in DOMAIN WithTop(f) : "skill" \in DOMAIN WithTop(f)[j]
             /\ \A s : Of(WithTop(f), s) = Of(frames, s)
  <2> DEFINE k == Len(frames)
  <2>1. k \in DOMAIN frames /\ f.skill = frames[k].skill
    BY <1>1, <1>3 DEF Top
  <2>2. WithTop(f) = [frames EXCEPT ![k] = f]
    BY DEF WithTop
  <2> DEFINE G == WithTop(f)
  <2> HIDE DEF k
  <2>3. /\ G \in Seq(S \cup {f}) /\ DOMAIN G = DOMAIN frames
        /\ \A j \in DOMAIN frames : j # k => G[j] = frames[j]
        /\ G[k] = f
    BY <1>1, <2>1, <2>2
  <2>4. G[k].skill = frames[k].skill /\ "skill" \in DOMAIN G[k]
    BY <1>3, <2>1, <2>3
  <2> HIDE DEF G
  <2>5. /\ \A j \in DOMAIN G : "skill" \in DOMAIN G[j]
        /\ \A s : Of(G, s) = Of(frames, s)
    BY <1>0, <2>3, <2>4, ReplaceCounts
  <2> QED
    BY <2>3, <2>5 DEF G
<1>4. ASSUME NEW f, frames # <<>>, f.skill = Top.skill, "skill" \in DOMAIN f,
             frames' = WithTop(f), UNCHANGED <<entered, stats>>
      PROVE  StackInv' /\ CountInv'
  <2>1. /\ frames' \in Seq(S \cup {f})
        /\ \A j \in DOMAIN frames' : "skill" \in DOMAIN frames'[j]
        /\ \A s : Of(frames', s) = Of(frames, s)
    BY <1>3, <1>4
  <2>2. StackInv'
    BY <2>1 DEF StackInv
  <2>3. \A s \in Skill : entered'[s] = stats'[s].total + Cardinality(Of(frames', s))
    BY <1>4, <2>1 DEF CountInv
  <2> QED
    BY <1>0, <1>4, <2>2, <2>3 DEF CountInv, Of
<1>5. frames # <<>> => "skill" \in DOMAIN Top
  BY <1>0, <1>1 DEF Top
<1>6. ASSUME NEW F, NEW T, F \in Seq(T),
             \A j \in DOMAIN F : "skill" \in DOMAIN F[j],
             \A t : Of(F, t) = Of(frames, t),
             NEW s, frames' = Append(F, Frame(s)),
             entered' = [entered EXCEPT ![s] = @ + 1], stats' = stats
      PROVE  StackInv' /\ CountInv'
  <2> DEFINE f == Frame(s)
  <2>1. "skill" \in DOMAIN f /\ f.skill = s
    BY DEF Frame
  <2> HIDE DEF f
  <2>2. /\ frames' \in Seq(T \cup {f})
        /\ \A j \in DOMAIN frames' : "skill" \in DOMAIN frames'[j]
        /\ \A t : /\ Cardinality(Of(F, t)) \in Nat
                  /\ Cardinality(Of(frames', t))
                       = Cardinality(Of(F, t)) + IF s = t THEN 1 ELSE 0
    BY <1>6, <2>1, PushCounts DEF f
  <2>3. ASSUME NEW t \in Skill
        PROVE  entered'[t] = stats'[t].total + Cardinality(Of(frames', t))
    <3>1. entered[t] = stats[t].total + Cardinality(Of(frames, t))
      BY DEF CountInv
    <3>2. /\ entered'[t] = entered[t] + IF s = t THEN 1 ELSE 0
          /\ stats'[t].total = stats[t].total
      BY <1>0, <1>6
    <3>3. Of(F, t) = Of(frames, t) /\ stats[t].total \in Nat
      BY <1>0, <1>6
    <3>4. Cardinality(Of(frames, t)) \in Nat
      BY <2>2, <3>3
    <3>5. Cardinality(Of(frames', t))
            = Cardinality(Of(frames, t)) + IF s = t THEN 1 ELSE 0
      BY <2>2, <3>3
    <3> QED
      BY <3>1, <3>2, <3>3, <3>4, <3>5
  <2>4. entered' \in [Skill -> Nat]
    <3>1. entered' = [t \in Skill |-> entered'[t]]
      BY <1>0, <1>6
    <3>2. ASSUME NEW t \in Skill PROVE entered'[t] \in Nat
      <4>1. entered[t] \in Nat
        BY <1>0
      <4>2. entered'[t] = IF s = t THEN entered[t] + 1 ELSE entered[t]
        BY <1>0, <1>6
      <4> QED
        BY <4>1, <4>2
    <3> QED
      BY <3>1, <3>2
  <2>5. StackInv'
    BY <2>2 DEF StackInv
  <2> QED
    BY <1>0, <1>6, <2>3, <2>4, <2>5 DEF CountInv, Of
<1>7. CASE RegistryNext /\ UNCHANGED execVars
  BY <1>2, <1>7 DEF execVars
<1>8. ASSUME NEW s \in Skill, Execute(s)
      PROVE  StackInv' /\ CountInv'
  <2>1. CASE UNCHANGED <<frames, entered>>
    BY <1>2, <1>8, <2>1 DEF Execute
  <2>2. CASE /\ frames' = Append(frames, Frame(s))
             /\ entered' = [entered EXCEPT ![s] = @ + 1]
    <3>1. stats' = stats
      BY <1>8 DEF Execute
    <3> QED
      BY <1>0, <1>1, <1>6, <2>2, <3>1
  <2> QED
    BY <1>8, <2>1, <2>2 DEF Execute
<1>9. CASE SkipStep
  <2> DEFINE f == MoveTo(Top, Top.at + 1)
  <2>1. frames # <<>> /\ frames' = WithTop(f) /\ UNCHANGED <<entered, stats>>
    BY <1>9 DEF SkipStep, AtStep
  <2>2. f.skill = Top.skill /\ "skill" \in DOMAIN f
    BY <1>5, <2>1, MoveToKeepsSkill
  <2> HIDE DEF f
  <2> QED
    BY <1>4, <2>1, <2>2
<1>10. ASSUME NEW ok, frames # <<>>
       PROVE  /\ Settled(Top, ok).skill = Top.skill
              /\ "skill" \in DOMAIN Settled(Top, ok)
  BY <1>5, <1>10, SettledKeepsSkill
<1>11. ASSUME NEW ok \in BOOLEAN, Attempt(ok)
       PROVE  StackInv' /\ CountInv'
  <2>1. /\ frames # <<>> /\ frames' = WithTop(Settled(Top, ok))
        /\ UNCHANGED <<entered, stats>>
    BY <1>11 DEF Attempt, AtStep
  <2> QED
    BY <1>4, <1>10, <2>1
<1>12. CASE CallSubSkill
  <2> DEFINE s == Current.calls
             w == [Top EXCEPT !.waiting = TRUE]
  <2>1. /\ frames # <<>> /\ UNCHANGED stats
        /\ \/ frames' = WithTop(Settled(Top, FALSE)) /\ UNCHANGED entered
           \/ /\ frames' = Append(WithTop(w), Frame(s))
              /\ entered' = [entered EXCEPT ![s] = @ + 1]
    BY <1>12 DEF CallSubSkill, AtStep
  <2>2. w.skill = Top.skill /\ "skill" \in DOMAIN w
    BY <1>5, <2>1
  <2> HIDE DEF w, s
  <2>3. CASE frames' = WithTop(Settled(Top, FALSE)) /\ UNCHANGED entered
    BY <1>4, <1>10, <2>1, <2>3
  <2>4. CASE /\ frames' = Append(WithTop(w), Frame(s))
             /\ entered' = [entered EXCEPT ![s] = @ + 1]
    <3>1. /\ WithTop(w) \in Seq(S \cup {w})
          /\ \A j \in DOMAIN WithTop(w) : "skill" \in DOMAIN WithTop(w)[j]
          /\ \A t : Of(WithTop(w), t) = Of(frames, t)
      BY <1>3, <2>1, <2>2
    <3> QED
      BY <1>6, <2>1, <2>4, <3>1
  <2> QED
    BY <2>1, <2>3, <2>4
<1>13. CASE Finish
  <2> DEFINE success == ~Top.aborted /\ Top.failed = 0
             rest == SubSeq(frames, 1, Len(frames) - 1)
             t == Top.skill
  <2>1. /\ frames # <<>> /\ UNCHANGED entered
        /\ stats' = [stats EXCEPT ![t] =
             [total |-> @.total + 1,
              success |-> IF success THEN @.success + 1 ELSE @.success]]
        /\ frames' = IF rest = <<>> THEN rest
                     ELSE [rest EXCEPT ![Len(rest)] = Settled(@, success)]
    BY <1>13 DEF Finish
  <2>2. /\ rest \in Seq(S)
        /\ \A j \in DOMAIN rest : "skill" \in DOMAIN rest[j]
        /\ \A s : /\ Cardinality(Of(rest, s)) \in Nat
                  /\ Cardinality(Of(frames, s)) =
                       Cardinality(Of(rest, s)) + IF t = s THEN 1 ELSE 0
    BY <1>0, <1>1, <2>1, PopCounts DEF Top
  <2>3. ASSUME NEW s \in Skill
        PROVE  /\ stats'[s] \in [total : Nat, success : Nat]
               /\ stats'[s].total = stats[s].total + IF t = s THEN 1 ELSE 0
    <3>1. stats[s] \in [total : Nat, success : Nat]
      BY <1>0
    <3>2. CASE s = t
      <4>1. stats'[s] = [total |-> stats[s].total + 1,
                         success |-> IF success THEN stats[s].success + 1
                                     ELSE stats[s].success]
        BY <1>0, <2>1, <3>2
      <4> HIDE DEF success, t
      <4> QED
        BY <3>1, <3>2, <4>1
    <3>3. CASE s # t
      <4>1. stats'[s] = stats[s]
        BY <1>0, <2>1, <3>3
      <4> HIDE DEF t
      <4> QED
        BY <3>1, <3>3, <4>1
    <3> QED
      BY <3>2, <3>3
  <2>4. stats' \in [Skill -> [total : Nat, success : Nat]]
    <3>1. stats' = [s \in Skill |-> stats'[s]]
      BY <1>0, <2>1
    <3> QED
      BY <2>3, <3>1
  <2> HIDE DEF success, rest, t
  <2>5. /\ StackInv'
        /\ \A s : Of(frames', s) = Of(rest, s)
    <3>1. CASE rest = <<>>
      BY <2>1, <2>2, <3>1 DEF StackInv
    <3>2. CASE rest # <<>>
      <4> DEFINE f == Settled(rest[Len(rest)], success)
      <4>1. Len(rest) \in DOMAIN rest
        BY <2>2, <3>2
      <4>2. f.skill = rest[Len(rest)].skill /\ "skill" \in DOMAIN f
        BY <2>2, <4>1, SettledKeepsSkill
      <4>3. frames' = [rest EXCEPT ![Len(rest)] = f]
        BY <2>1, <3>2
      <4> HIDE DEF f
      <4>4. /\ frames' \in Seq(S \cup {f})
            /\ \A j \in DOMAIN frames' : "skill" \in DOMAIN frames'[j]
            /\ \A s : Of(frames', s) = Of(rest, s)
        <5> DEFINE k == Len(rest)
        <5>1. k \in DOMAIN rest /\ f.skill = rest[k].skill
          BY <4>1, <4>2
        <5>2. frames' = [rest EXCEPT ![k] = f]
          BY <4>3
        <5> HIDE DEF k
        <5>3. /\ frames' \in Seq(S \cup {f}) /\ DOMAIN frames' = DOMAIN rest
              /\ \A j \in DOMAIN rest : j # k => frames'[j] = rest[j]
              /\ frames'[k] = f
          BY <2>2, <5>1, <5>2
        <5>4. frames'[k].skill = rest[k].skill /\ "skill" \in DOMAIN frames'[k]
          BY <4>2, <5>1, <5>3
        <5>5. /\ \A j \in DOMAIN frames' : "skill" \in DOMAIN frames'[j]
              /\ \A s : Of(frames', s) = Of(rest, s)
          BY <2>2, <5>3, <5>4, ReplaceCounts
        <5> QED
          BY <5>3, <5>5
      <4> QED
        BY <4>4 DEF StackInv
    <3> QED
      BY <3>1, <3>2
  <2>6. ASSUME NEW s \in Skill
        PROVE  entered'[s] = stats'[s].total + Cardinality(Of(frames', s))
    <3>1. entered[s] = stats[s].total + Cardinality(Of(frames, s))
      BY DEF CountInv
    <3>2. Of(frames', s) = Of(rest, s) /\ stats[s].total \in Nat
      BY <1>0, <2>5
    <3> QED
      BY <2>1, <2>2, <2>3, <3>1, <3>2
  <2> QED
    BY <1>0, <2>1, <2>4, <2>5, <2>6 DEF CountInv, Of
<1>14. CASE UNCHANGED vars
  BY <1>2, <1>14 DEF vars, execVars
<1> QED
  BY <1>7, <1>8, <1>9, <1>11, <1>12, <1>13, <1>14 DEF Next, Run

(***************************************************************************)
(* Whatever the model answers, and whenever the task is cancelled or its   *)
(* time runs out, a run of the ReAct loop stays within its budgets, tells  *)
(* truly what it used, and begins at most two calls after a cancellation;  *)
(* and every execution of a skill is counted once (react-loop.ts:35-204,   *)
(* skill-executor.ts:164-218).                                             *)
(***************************************************************************)
THEOREM AccountsStay == Spec /\ Engine!Spec => []AccountsHold
<1>1. Init => StackInv /\ CountInv
  <2> SUFFICES ASSUME Init PROVE StackInv /\ CountInv
    OBVIOUS
  <2>1. /\ frames = <<>> /\ frames \in Seq({}) /\ DOMAIN frames = {}
        /\ entered = [s \in Skill |-> 0]
        /\ stats = [s \in Skill |-> [total |-> 0, success |-> 0]]
    BY DEF Init
  <2>2. ASSUME NEW s \in Skill PROVE Cardinality(Of(frames, s)) = 0
    <3>1. Of(frames, s) = {}
      BY <2>1 DEF Of
    <3> QED
      BY <3>1, FS_EmptySet
  <2>3. StackInv
    BY <2>1 DEF StackInv
  <2> QED
    BY <2>1, <2>2, <2>3 DEF CountInv
<1>2. CountInv => EveryExecutionIsCounted
  BY DEF CountInv, EveryExecutionIsCounted, Of
<1>3. RunInv => Engine!BudgetHolds /\ Engine!AbortIsNoticed
  <2> SUFFICES ASSUME RunTypes, SpentInv, NoticeInv, EndInv
               PROVE  Engine!BudgetHolds /\ Engine!AbortIsNoticed
    BY DEF RunInv, Engine!BudgetHolds, Engine!AbortIsNoticed
  <2>1. Engine!Cardinality(Engine!ToolSteps(steps))
          = Cardinality(Engine!ToolSteps(steps))
    BY DEF Engine!Cardinality, Cardinality
  <2>2. consumed.llmCalls \in Nat /\ modelCalls \in Nat
    BY DEF RunTypes
  <2>3. Engine!BudgetHolds
    BY <2>1, <2>2 DEF SpentInv, Engine!BudgetHolds
  <2>4. Engine!AbortIsNoticed
    BY DEF NoticeInv, Engine!AbortIsNoticed
  <2> QED
    BY <2>3, <2>4
<1> QED
  BY <1>1, <1>2, <1>3, CountStep, RunInit, RunStep, PTL
     DEF Spec, Engine!Spec, AccountsHold

-----------------------------------------------------------------------------
(***************************************************************************)
(* The behaviours that the run explores are behaviours of each component,  *)
(* so that all of the above holds in every state of them.                  *)
(***************************************************************************)
LEMMA ComponentsOfExecution ==
  AllSpec => Spec /\ Plan!Spec /\ Engine!Spec /\ Router!Spec
<1>1. AllInit => Init /\ Plan!Init /\ Engine!Init /\ Router!Init
  BY DEF AllInit
<1>2. [AllNext]_allVars => /\ [Next]_vars /\ [Plan!Next]_(Plan!vars)
                           /\ [Engine!Next]_(Engine!vars)
                           /\ [Router!Next]_(Router!vars)
  BY DEF AllNext, allVars, notSkill, notPlan, notRun, notRouter, planVars, runVars,
         routerVars, Plan!vars, Engine!vars, Router!vars
<1> QED
  BY <1>1, <1>2, PTL DEF AllSpec, Spec, Plan!Spec, Engine!Spec, Router!Spec

\* Every invariant of the run, for all values of the constants.
THEOREM ExecutionStaysSound ==
  AllSpec => [](/\ CompositionIsAcyclic /\ NestingIsBounded /\ PlansAreSound
                /\ AccountsHold /\ AnswersAreRight)
  BY ComponentsOfExecution, CompositionStaysAcyclic, NestingStaysBounded,
     PlansStaySound, AccountsStay, AnswersStayRight, PTL
=============================================================================
