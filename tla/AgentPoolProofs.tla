-------------------------- MODULE AgentPoolProofs --------------------------
(***************************************************************************)
(* Proofs about the pool of agents, for every set of delegations and roles *)
(* and whatever the limits are set to while it runs.                       *)
(***************************************************************************)
EXTENDS AgentPool, SequenceFacts, FiniteSetTheorems

USE PoolAssumption

-----------------------------------------------------------------------------
(***************************************************************************)
(* The pool.  The queue holds every delegation that waits for a slot,      *)
(* once, and an instance executes only while its delegate call is in       *)
(* flight.  Only finitely many calls were ever made, so that they can be   *)
(* counted.                                                                *)
(***************************************************************************)

Made == {d \in Delegation : pc[d] # "new"}

QueueInv ==
  /\ IsInjective(queue)
  /\ \A d \in Delegation : pc[d] = "queued" <=> d \in ToSet(queue)

InstanceInv ==
  \A d \in Delegation :
    /\ pc[d] \in {"new", "queued"} => inst[d] = "none"
    /\ pc[d] \in {"acquired", "running"} => inst[d] \in {"executing", "cancelled"}
    /\ pc[d] = "returned" => inst[d] # "executing"
    /\ pc[d] \in InFlight /\ inst[d] \notin {"none", "executing"} => d \in recalls

RecallInv ==
  \A d \in Delegation :
    /\ state[d] = "executing" => pc[d] = "running" /\ d \notin recalls
    /\ pc[d] \in {"completing", "failing"} => state[d] \in {"completed", "failed"}
    /\ d \in recalls => pc[d] \in {"running", "completing", "failing", "returned"}
    /\ d \in recalls /\ pc[d] # "returned" => inst[d] = "cancelled"

PeakInv == \A a \in Role : limit[a] <= peak[a]

LifeInv ==
  TypeOK /\ IsFiniteSet(Made) /\ QueueInv /\ InstanceInv /\ RecallInv /\ PeakInv

LEMMA LifeInit == Init => LifeInv
<1> SUFFICES ASSUME Init
             PROVE  LifeInv
  OBVIOUS
<1>1. Made = {}
  BY DEF Init, Made
<1>2. IsFiniteSet(Made)
  BY <1>1, FS_EmptySet
<1>3. TypeOK
  BY DEF Init, TypeOK, Pc
<1>4. QueueInv
  BY DEF Init, QueueInv, ToSet, IsInjective
<1> QED
  BY <1>2, <1>3, <1>4 DEF Init, LifeInv, InstanceInv, RecallInv, PeakInv, InFlight

\* A role waits in the queue exactly if a delegation for it is queued.
WaitsInv ==
  \A a \in Role :
    Waits(a) = {} <=> \A d \in Delegation : RoleOf[d] = a => pc[d] # "queued"

LEMMA WaitsAreQueued == LifeInv => WaitsInv
<1> SUFFICES ASSUME LifeInv, NEW a \in Role
             PROVE  Waits(a) = {} <=>
                      \A d \in Delegation : RoleOf[d] = a => pc[d] # "queued"
  BY DEF WaitsInv
<1>1. queue \in Seq(Delegation) /\ QueueInv
  BY DEF LifeInv, TypeOK
<1>2. ASSUME NEW d \in Delegation, RoleOf[d] = a, pc[d] = "queued"
      PROVE  Waits(a) # {}
  BY <1>1, <1>2 DEF QueueInv, Waits, ToSet
<1>3. ASSUME NEW i \in Waits(a)
      PROVE  \E d \in Delegation : RoleOf[d] = a /\ pc[d] = "queued"
  <2>1. i \in DOMAIN queue /\ queue[i] \in Delegation /\ RoleOf[queue[i]] = a
    BY <1>1 DEF Waits
  <2>2. pc[queue[i]] = "queued"
    BY <1>1, <2>1 DEF QueueInv, ToSet
  <2> QED
    BY <2>1, <2>2
<1> QED
  BY <1>2, <1>3

\* What releaseSlot does: it leaves the slot free when no delegation waits for
\* the role, and otherwise hands it to the one that was enqueued first.
Frees(d, s, c) ==
  /\ Waits(RoleOf[d]) = {}
  /\ inst' = [inst EXCEPT ![d] = s] /\ pc' = [pc EXCEPT ![d] = c]
  /\ UNCHANGED queue

HandsOn(d, s, c, i) ==
  /\ i \in Waits(RoleOf[d]) /\ \A j \in Waits(RoleOf[d]) : i <= j
  /\ inst' = [inst EXCEPT ![d] = s, ![queue[i]] = "executing"]
  /\ pc' = [pc EXCEPT ![d] = c, ![queue[i]] = "acquired"]
  /\ queue' = RemoveAt(queue, i)

LEMMA ReleaseCases ==
  ASSUME LifeInv, NEW d \in Delegation, NEW s, NEW c, ReleaseSlot(d, s, c)
  PROVE  Frees(d, s, c) \/ \E i \in DOMAIN queue : HandsOn(d, s, c, i)
<1>1. CASE Waits(RoleOf[d]) = {}
  BY <1>1 DEF ReleaseSlot, Frees
<1>2. CASE Waits(RoleOf[d]) # {}
  <2> DEFINE i == CHOOSE k \in Waits(RoleOf[d]) :
                    \A j \in Waits(RoleOf[d]) : k <= j
  <2>1. Waits(RoleOf[d]) \in SUBSET Nat
    <3>1. queue \in Seq(Delegation)
      BY DEF LifeInv, TypeOK
    <3> QED
      BY <3>1 DEF Waits
  <2>2. \E k \in Waits(RoleOf[d]) : \A j \in Waits(RoleOf[d]) : k <= j
    BY <1>2, <2>1, LeastNatural
  <2>3. i \in Waits(RoleOf[d]) /\ \A j \in Waits(RoleOf[d]) : i <= j
    BY <2>2
  <2>4. HandsOn(d, s, c, i)
    BY <1>2, <2>3 DEF ReleaseSlot, HandsOn
  <2>5. i \in DOMAIN queue
    BY <2>3 DEF Waits
  <2> HIDE DEF i
  <2> QED
    BY <2>4, <2>5
<1> QED
  BY <1>1, <1>2

\* What the invariants need to know of a step that releases the slot of d.
LEMMA ReleaseKeeps ==
  ASSUME LifeInv, NEW d \in Delegation, pc[d] \in InFlight,
         NEW s \in DelegationState, NEW c \in InFlight \cup {"returned"},
         ReleaseSlot(d, s, c)
  PROVE  /\ inst' \in [Delegation -> {"none"} \cup DelegationState]
         /\ pc' \in [Delegation -> Pc]
         /\ queue' \in Seq(Delegation)
         /\ IsFiniteSet(Made)' /\ QueueInv'
         /\ inst'[d] = s /\ pc'[d] = c
         /\ \A e \in Delegation \ {d} :
              \/ inst'[e] = inst[e] /\ pc'[e] = pc[e]
              \/ /\ pc[e] = "queued" /\ pc'[e] = "acquired"
                 /\ inst'[e] = "executing"
<1>0. /\ queue \in Seq(Delegation)
      /\ inst \in [Delegation -> {"none"} \cup DelegationState]
      /\ pc \in [Delegation -> Pc]
      /\ IsFiniteSet(Made) /\ QueueInv
  BY DEF LifeInv, TypeOK
<1>1. CASE Frees(d, s, c)
  <2>1. Made' = Made
    BY <1>0, <1>1 DEF Frees, Made, InFlight
  <2>2. QueueInv'
    BY <1>0, <1>1 DEF Frees, QueueInv, InFlight
  <2> QED
    BY <1>0, <1>1, <2>1, <2>2 DEF Frees, Pc, InFlight
<1>2. ASSUME NEW i \in DOMAIN queue, HandsOn(d, s, c, i)
      PROVE  /\ inst' \in [Delegation -> {"none"} \cup DelegationState]
             /\ pc' \in [Delegation -> Pc]
             /\ queue' \in Seq(Delegation)
             /\ IsFiniteSet(Made)' /\ QueueInv'
             /\ inst'[d] = s /\ pc'[d] = c
             /\ \A e \in Delegation \ {d} :
                  \/ inst'[e] = inst[e] /\ pc'[e] = pc[e]
                  \/ /\ pc[e] = "queued" /\ pc'[e] = "acquired"
                     /\ inst'[e] = "executing"
  <2> DEFINE f == queue[i]
  <2>0. i \in 1 .. Len(queue)
    BY <1>0
  <2>1. f \in Delegation /\ pc[f] = "queued" /\ f # d
    BY <1>0, <2>0 DEF QueueInv, InFlight, ToSet
  <2>2. /\ inst' = [inst EXCEPT ![d] = s, ![f] = "executing"]
        /\ pc' = [pc EXCEPT ![d] = c, ![f] = "acquired"]
        /\ queue' = RemoveAt(queue, i)
    BY <1>2 DEF HandsOn
  <2>3. IsInjective(queue)
    BY <1>0 DEF QueueInv
  <2>4. /\ queue' \in Seq(Delegation)
        /\ IsInjective(queue')
        /\ ToSet(queue') = ToSet(queue) \ {f}
    BY <1>0, <2>0, <2>2, <2>3, RemoveAtIndexes, RemoveAtElements
  <2> HIDE DEF f
  <2>5. Made' = Made
    BY <1>0, <2>1, <2>2 DEF Made, InFlight
  <2>6. QueueInv'
    <3>1. \A e \in Delegation : pc'[e] = "queued" <=> pc[e] = "queued" /\ e # f
      BY <1>0, <2>1, <2>2 DEF InFlight
    <3> QED
      BY <1>0, <2>4, <3>1 DEF QueueInv
  <2>7. inst' \in [Delegation -> {"none"} \cup DelegationState]
    BY <1>0, <2>1, <2>2 DEF DelegationState
  <2>8. pc' \in [Delegation -> Pc]
    BY <1>0, <2>1, <2>2 DEF Pc, InFlight
  <2>9. /\ inst'[d] = s /\ pc'[d] = c
        /\ \A e \in Delegation \ {d} :
             \/ inst'[e] = inst[e] /\ pc'[e] = pc[e]
             \/ /\ pc[e] = "queued" /\ pc'[e] = "acquired"
                /\ inst'[e] = "executing"
    BY <1>0, <2>1, <2>2
  <2> QED
    BY <1>0, <2>4, <2>5, <2>6, <2>7, <2>8, <2>9
<1> QED
  BY <1>1, <1>2, ReleaseCases

LEMMA LifeStep == LifeInv /\ [Next]_vars => LifeInv'
<1> SUFFICES ASSUME LifeInv, [Next]_vars
             PROVE  LifeInv'
  OBVIOUS
<1>0. /\ TypeOK /\ IsFiniteSet(Made)
      /\ QueueInv /\ InstanceInv /\ RecallInv /\ PeakInv
  BY DEF LifeInv
<1>1. ASSUME NEW r \in Specs, Register(r.type, r.maxInstances)
      PROVE  LifeInv'
  <2>1. r.type \in Role /\ r.maxInstances \in Nat
    OBVIOUS
  <2>2. TypeOK' /\ PeakInv'
    BY <1>0, <1>1, <2>1 DEF Register, TypeOK, PeakInv
  <2> QED
    BY <1>0, <1>1, <2>2
       DEF Register, LifeInv, Made, QueueInv, InstanceInv, RecallInv
<1>s. UNCHANGED specVars => PeakInv'
  BY <1>0 DEF specVars, PeakInv
<1>2. ASSUME NEW d \in Delegation, Acquire(d)
      PROVE  LifeInv'
  <2>1. Made' \subseteq Made \cup {d}
    BY <1>0, <1>2 DEF Acquire, Made, TypeOK
  <2>2. IsFiniteSet(Made)'
    BY <1>0, <2>1, FS_AddElement, FS_Subset
  <2>3. TypeOK'
    BY <1>0, <1>2 DEF Acquire, specVars, TypeOK, DelegationState, Pc
  <2>4. QueueInv'
    BY <1>0, <1>2 DEF Acquire, QueueInv, TypeOK
  <2>5. InstanceInv' /\ RecallInv'
    BY <1>0, <1>2 DEF Acquire, InstanceInv, RecallInv, TypeOK, InFlight
  <2> QED
    BY <1>2, <1>s, <2>2, <2>3, <2>4, <2>5 DEF Acquire, LifeInv
<1>3. ASSUME NEW d \in Delegation, Enqueue(d)
      PROVE  LifeInv'
  <2>1. Made' \subseteq Made \cup {d}
    BY <1>0, <1>3 DEF Enqueue, Made, TypeOK
  <2>2. IsFiniteSet(Made)'
    BY <1>0, <2>1, FS_AddElement, FS_Subset
  <2>3. TypeOK'
    BY <1>0, <1>3 DEF Enqueue, specVars, TypeOK, DelegationState, Pc
  <2>4. QueueInv'
    <3>1. d \notin ToSet(queue)
      BY <1>0, <1>3 DEF Enqueue, QueueInv
    <3>2. ToSet(queue') = ToSet(queue) \cup {d} /\ IsInjective(queue')
      BY <1>0, <1>3, <3>1, AppendElements DEF Enqueue, QueueInv, TypeOK
    <3> QED
      BY <1>0, <1>3, <3>2 DEF Enqueue, QueueInv, TypeOK
  <2>5. InstanceInv' /\ RecallInv'
    BY <1>0, <1>3 DEF Enqueue, InstanceInv, RecallInv, TypeOK, InFlight
  <2> QED
    BY <1>3, <1>s, <2>2, <2>3, <2>4, <2>5 DEF Enqueue, LifeInv
<1>4. ASSUME NEW d \in Delegation, UnknownRole(d)
      PROVE  LifeInv'
  <2>1. Made' \subseteq Made \cup {d}
    BY <1>0, <1>4 DEF UnknownRole, Made, TypeOK
  <2>2. IsFiniteSet(Made)'
    BY <1>0, <2>1, FS_AddElement, FS_Subset
  <2>3. TypeOK'
    BY <1>0, <1>4 DEF UnknownRole, specVars, TypeOK, DelegationState, Pc
  <2>4. QueueInv'
    BY <1>0, <1>4 DEF UnknownRole, QueueInv, TypeOK
  <2>5. InstanceInv' /\ RecallInv'
    BY <1>0, <1>4 DEF UnknownRole, InstanceInv, RecallInv, TypeOK, InFlight
  <2> QED
    BY <1>4, <1>s, <2>2, <2>3, <2>4, <2>5 DEF UnknownRole, LifeInv
<1>5. ASSUME NEW d \in Delegation, Timeout(d)
      PROVE  LifeInv'
  <2> DEFINE i == CHOOSE k \in DOMAIN queue : queue[k] = d
  <2>1. i \in DOMAIN queue /\ queue[i] = d
    BY <1>0, <1>5 DEF Timeout, QueueInv, ToSet
  <2>2. queue' = RemoveAt(queue, i)
    BY <1>5 DEF Timeout
  <2> HIDE DEF i
  <2>3. queue \in Seq(Delegation) /\ i \in 1 .. Len(queue)
    BY <1>0, <2>1 DEF TypeOK
  <2>4. /\ queue' \in Seq(Delegation) /\ IsInjective(queue')
        /\ ToSet(queue') = ToSet(queue) \ {d}
    BY <1>0, <2>1, <2>2, <2>3, RemoveAtIndexes, RemoveAtElements DEF QueueInv
  <2>5. TypeOK'
    BY <1>0, <1>5, <2>4 DEF Timeout, specVars, TypeOK, DelegationState, Pc
  <2>6. QueueInv'
    BY <1>0, <1>5, <2>4 DEF Timeout, QueueInv, TypeOK
  <2>7. InstanceInv' /\ RecallInv'
    BY <1>0, <1>5 DEF Timeout, InstanceInv, RecallInv, TypeOK, InFlight
  <2>8. Made' = Made
    BY <1>0, <1>5 DEF Timeout, Made, TypeOK
  <2> QED
    BY <1>0, <1>5, <1>s, <2>5, <2>6, <2>7, <2>8 DEF Timeout, LifeInv
<1>6. ASSUME NEW d \in Delegation,
             Start(d) \/ ToolStep(d) \/ Complete(d) \/ Fail(d)
      PROVE  LifeInv'
  <2>1. TypeOK'
    <3>1. steps' \in [Delegation -> 0 .. MaxSteps]
      <4>1. steps[d] \in 0 .. MaxSteps
        BY <1>0 DEF TypeOK
      <4>2. \/ steps' = steps
            \/ steps[d] < MaxSteps /\ steps' = [steps EXCEPT ![d] = steps[d] + 1]
        BY <1>6 DEF Start, ToolStep, Complete, Fail
      <4>3. steps[d] < MaxSteps => steps[d] + 1 \in 0 .. MaxSteps
        BY <4>1
      <4> QED
        BY <1>0, <4>2, <4>3 DEF TypeOK
    <3>2. /\ pc' \in [Delegation -> Pc]
          /\ state' \in [Delegation -> {"none"} \cup DelegationState]
      <4>1. \/ pc' = pc
            \/ \E c \in Pc : pc' = [pc EXCEPT ![d] = c]
        BY <1>6 DEF Start, ToolStep, Complete, Fail, Pc
      <4>2. \/ state' = state
            \/ \E c \in DelegationState : state' = [state EXCEPT ![d] = c]
        BY <1>6 DEF Start, ToolStep, Complete, Fail, DelegationState
      <4> QED
        BY <1>0, <4>1, <4>2 DEF TypeOK
    <3>3. UNCHANGED <<specVars, queue, inst, recalls, refused>>
      BY <1>6 DEF Start, ToolStep, Complete, Fail
    <3> QED
      BY <1>0, <3>1, <3>2, <3>3 DEF specVars, TypeOK
  <2>2. QueueInv' /\ Made' = Made
    BY <1>0, <1>6
       DEF Start, ToolStep, Complete, Fail, TypeOK, QueueInv, Made
  <2>3. InstanceInv'
    BY <1>0, <1>6
       DEF Start, ToolStep, Complete, Fail, TypeOK, InstanceInv, InFlight
  <2>4. RecallInv'
    BY <1>0, <1>6
       DEF Start, ToolStep, Complete, Fail, TypeOK, RecallInv
  <2> QED
    <3>1. UNCHANGED specVars
      BY <1>6 DEF Start, ToolStep, Complete, Fail
    <3> QED
      BY <1>0, <1>s, <2>1, <2>2, <2>3, <2>4, <3>1 DEF LifeInv
<1>7. ASSUME NEW d \in Delegation, Return(d)
      PROVE  LifeInv'
  <2>1. pc[d] \in {"completing", "failing"} /\ state[d] \in {"completed", "failed"}
    BY <1>0, <1>7 DEF Return, RecallInv
  <2>2. CASE inst[d] = "none"
    <3>1. TypeOK' /\ QueueInv' /\ Made' = Made
      BY <1>0, <1>7, <2>2 DEF Return, specVars, TypeOK, QueueInv, Made, Pc
    <3>2. InstanceInv' /\ RecallInv'
      BY <1>0, <1>7, <2>2 DEF Return, TypeOK, InstanceInv, RecallInv, InFlight
    <3> QED
      BY <1>0, <1>7, <1>s, <3>1, <3>2 DEF Return, LifeInv
  <2>3. CASE inst[d] # "none"
    <3>1. ReleaseSlot(d, state[d], "returned")
          /\ UNCHANGED <<specVars, state, steps, recalls, refused>>
      BY <1>7, <2>3 DEF Return
    <3>2. /\ inst' \in [Delegation -> {"none"} \cup DelegationState]
          /\ pc' \in [Delegation -> Pc]
          /\ queue' \in Seq(Delegation)
          /\ IsFiniteSet(Made)' /\ QueueInv'
          /\ inst'[d] = state[d] /\ pc'[d] = "returned"
          /\ \A e \in Delegation \ {d} :
               \/ inst'[e] = inst[e] /\ pc'[e] = pc[e]
               \/ /\ pc[e] = "queued" /\ pc'[e] = "acquired"
                  /\ inst'[e] = "executing"
      BY <2>1, <3>1, ReleaseKeeps DEF InFlight, DelegationState
    <3>3. TypeOK'
      BY <1>0, <3>1, <3>2 DEF specVars, TypeOK
    <3>4. InstanceInv'
      BY <1>0, <2>1, <3>1, <3>2 DEF InstanceInv, InFlight
    <3>5. RecallInv'
      BY <1>0, <2>1, <3>1, <3>2 DEF RecallInv
    <3> QED
      BY <1>s, <3>1, <3>2, <3>3, <3>4, <3>5 DEF LifeInv
  <2> QED
    BY <2>2, <2>3
<1>8. ASSUME NEW d \in Delegation, Cancel(d)
      PROVE  LifeInv'
  <2>1. pc[d] = "running" /\ d \notin recalls /\ inst[d] = "executing"
    BY <1>0, <1>8 DEF Cancel, RecallInv, InstanceInv, InFlight
  <2>2. /\ ReleaseSlot(d, "cancelled", "running")
        /\ state' = [state EXCEPT ![d] = "cancelled"]
        /\ recalls' = recalls \cup {d}
        /\ UNCHANGED <<specVars, steps, refused>>
    BY <1>8, <2>1 DEF Cancel
  <2>3. /\ inst' \in [Delegation -> {"none"} \cup DelegationState]
        /\ pc' \in [Delegation -> Pc]
        /\ queue' \in Seq(Delegation)
        /\ IsFiniteSet(Made)' /\ QueueInv'
        /\ inst'[d] = "cancelled" /\ pc'[d] = "running"
        /\ \A e \in Delegation \ {d} :
             \/ inst'[e] = inst[e] /\ pc'[e] = pc[e]
             \/ /\ pc[e] = "queued" /\ pc'[e] = "acquired"
                /\ inst'[e] = "executing"
    BY <2>1, <2>2, ReleaseKeeps DEF InFlight, DelegationState
  <2>4. TypeOK'
    BY <1>0, <2>2, <2>3 DEF specVars, TypeOK, DelegationState
  <2>5. InstanceInv'
    BY <1>0, <2>1, <2>2, <2>3 DEF InstanceInv, InFlight
  <2>6. RecallInv'
    BY <1>0, <2>1, <2>2, <2>3 DEF RecallInv, TypeOK
  <2> QED
    BY <1>s, <2>2, <2>3, <2>4, <2>5, <2>6 DEF LifeInv
<1>9. CASE UNCHANGED vars
  BY <1>0, <1>9
     DEF vars, specVars, LifeInv, TypeOK, Made, QueueInv, InstanceInv, RecallInv,
         PeakInv
<1> QED
  BY <1>1, <1>2, <1>3, <1>4, <1>5, <1>6, <1>7, <1>8, <1>9 DEF Next, Executor

(***************************************************************************)
(* What is counted.  A recalled delegation has released its slot; when its *)
(* executor ends (Ended) it releases it again, and one agent more than the *)
(* highest limit may execute.                                              *)
(***************************************************************************)
Ended(a) == {d \in recalls : RoleOf[d] = a /\ pc[d] = "returned"}

CountInv ==
  \A a \in Role :
    Cardinality(Active(a)) <= peak[a] + Cardinality(Ended(a))

\* NoIdleSlot, role by role.
Kept(a) ==
  \A e \in Delegation :
    RoleOf[e] = a /\ pc[e] = "queued" => Cardinality(Active(a)) >= refused[e]

KeptInv == \A a \in Role : Kept(a)

SlotInv == LifeInv /\ CountInv /\ KeptInv

\* The sets that are counted are finite.
FiniteInv ==
  \A a \in Role :
    /\ IsFiniteSet(Active(a)) /\ Cardinality(Active(a)) \in Nat
    /\ IsFiniteSet(Ended(a)) /\ Cardinality(Ended(a)) \in Nat
    /\ IsFiniteSet(recalls)
    /\ limit[a] \in Nat /\ peak[a] \in Nat

LEMMA Countable == LifeInv => FiniteInv
<1> SUFFICES ASSUME LifeInv, NEW a \in Role
             PROVE  /\ IsFiniteSet(Active(a)) /\ Cardinality(Active(a)) \in Nat
                    /\ IsFiniteSet(Ended(a)) /\ Cardinality(Ended(a)) \in Nat
                    /\ IsFiniteSet(recalls)
                    /\ limit[a] \in Nat /\ peak[a] \in Nat
  BY DEF FiniteInv
<1>1. Active(a) \subseteq Made /\ Ended(a) \subseteq Made /\ recalls \subseteq Made
  BY DEF LifeInv, InstanceInv, RecallInv, TypeOK, Active, Ended, Made
<1>2. IsFiniteSet(Active(a)) /\ IsFiniteSet(Ended(a)) /\ IsFiniteSet(recalls)
  BY <1>1, FS_Subset DEF LifeInv
<1> QED
  BY <1>2, FS_CardinalityType DEF LifeInv, TypeOK

\* A step that leaves the instances alone and moves no call to its end.
LEMMA CountsStay ==
  ASSUME SlotInv, LifeInv', inst' = inst,
         \A a \in Role : peak'[a] >= peak[a],
         \A d \in Delegation : d \in recalls' /\ pc'[d] = "returned"
                               <=> d \in recalls /\ pc[d] = "returned",
         \A d \in Delegation :
           pc'[d] = "queued" =>
             \/ pc[d] = "queued" /\ refused'[d] = refused[d]
             \/ Cardinality(Active(RoleOf[d])) >= refused'[d]
  PROVE  CountInv' /\ KeptInv'
<1> SUFFICES ASSUME NEW a \in Role
             PROVE  /\ (Cardinality(Active(a)) <= peak[a] + Cardinality(Ended(a)))'
                    /\ Kept(a)'
  BY DEF CountInv, KeptInv
<1>1. Active(a)' = Active(a)
  BY DEF Active
<1>2. Ended(a)' = Ended(a)
  <2>1. recalls \subseteq Delegation /\ recalls' \subseteq Delegation
    BY DEF SlotInv, LifeInv, TypeOK
  <2> QED
    BY <2>1 DEF Ended
<1>3. Kept(a)'
  BY <1>1 DEF SlotInv, KeptInv, Kept
<1>4. (Cardinality(Active(a)) <= peak[a] + Cardinality(Ended(a)))'
  <2>1. /\ Cardinality(Active(a)) \in Nat /\ Cardinality(Ended(a)) \in Nat
        /\ peak[a] \in Nat
    BY Countable DEF SlotInv, FiniteInv
  <2>2. peak'[a] \in Nat /\ peak'[a] >= peak[a]
    BY DEF LifeInv, TypeOK
  <2>3. Cardinality(Active(a)) <= peak[a] + Cardinality(Ended(a))
    BY DEF SlotInv, CountInv
  <2> QED
    BY <1>1, <1>2, <2>1, <2>2, <2>3
<1> QED
  BY <1>3, <1>4

\* The release of a slot: no agent more executes, or one more if the instance
\* of the delegation did not execute; nobody waits for a slot that is free.
LEMMA ReleaseCounts ==
  ASSUME LifeInv, NEW d \in Delegation, pc[d] \in InFlight,
         NEW s \in DelegationState \ {"executing"},
         NEW c \in InFlight \cup {"returned"},
         ReleaseSlot(d, s, c), NEW a \in Role
  PROVE  /\ a # RoleOf[d] => Active(a)' = Active(a)
         /\ a = RoleOf[d] /\ d \in Active(a) =>
              Cardinality(Active(a)') <= Cardinality(Active(a))
         /\ a = RoleOf[d] =>
              Cardinality(Active(a)') <= Cardinality(Active(a)) + 1
         /\ a = RoleOf[d] /\ Waits(a) # {} =>
              Cardinality(Active(a)') >= Cardinality(Active(a))
<1>0. /\ queue \in Seq(Delegation)
      /\ inst \in [Delegation -> {"none"} \cup DelegationState]
      /\ QueueInv /\ InstanceInv
  BY DEF LifeInv, TypeOK
<1>1. IsFiniteSet(Active(a)) /\ Cardinality(Active(a)) \in Nat
  BY Countable DEF FiniteInv
<1>2. CASE Frees(d, s, c)
  <2>1. Active(a)' = Active(a) \ {d}
    BY <1>0, <1>2 DEF Frees, Active
  <2>2. a # RoleOf[d] => d \notin Active(a)
    BY DEF Active
  <2>3. Cardinality(Active(a) \ {d}) =
          IF d \in Active(a) THEN Cardinality(Active(a)) - 1 ELSE Cardinality(Active(a))
    BY <1>1, FS_RemoveElement
  <2> QED
    BY <1>1, <1>2, <2>1, <2>2, <2>3 DEF Frees
<1>3. ASSUME NEW i \in DOMAIN queue, HandsOn(d, s, c, i)
      PROVE  /\ a # RoleOf[d] => Active(a)' = Active(a)
             /\ a = RoleOf[d] /\ d \in Active(a) =>
                  Cardinality(Active(a)') <= Cardinality(Active(a))
             /\ a = RoleOf[d] =>
                  Cardinality(Active(a)') <= Cardinality(Active(a)) + 1
             /\ a = RoleOf[d] /\ Waits(a) # {} =>
                  Cardinality(Active(a)') >= Cardinality(Active(a))
  <2> DEFINE f == queue[i]
             rest == Active(a) \ {d}
  <2>1. /\ f \in Delegation /\ pc[f] = "queued" /\ f # d
        /\ inst[f] = "none" /\ RoleOf[f] = RoleOf[d]
    BY <1>0, <1>3 DEF HandsOn, Waits, QueueInv, InstanceInv, InFlight, ToSet
  <2>2. inst' = [inst EXCEPT ![d] = s, ![f] = "executing"]
    BY <1>3 DEF HandsOn
  <2> HIDE DEF f
  <2>3. CASE a # RoleOf[d]
    <3>1. Active(a)' = Active(a)
      BY <1>0, <2>1, <2>2, <2>3 DEF Active
    <3> QED
      BY <2>3, <3>1
  <2>4. CASE a = RoleOf[d]
    <3>1. Active(a)' = rest \cup {f} /\ f \notin rest
      BY <1>0, <2>1, <2>2, <2>4 DEF Active
    <3>2. /\ IsFiniteSet(rest)
          /\ Cardinality(rest) = IF d \in Active(a)
                                 THEN Cardinality(Active(a)) - 1
                                 ELSE Cardinality(Active(a))
      BY <1>1, FS_RemoveElement
    <3> HIDE DEF rest
    <3>3. Cardinality(rest \cup {f}) = Cardinality(rest) + 1
      BY <3>1, <3>2, FS_AddElement
    <3> QED
      BY <1>1, <2>4, <3>1, <3>2, <3>3
  <2> QED
    BY <2>3, <2>4
<1> QED
  BY <1>2, <1>3, ReleaseCases

LEMMA SlotStep == SlotInv /\ [Next]_vars => SlotInv'
<1> SUFFICES ASSUME SlotInv, [Next]_vars
             PROVE  CountInv' /\ KeptInv'
  BY LifeStep DEF SlotInv
<1>0. LifeInv /\ LifeInv'
  BY LifeStep DEF SlotInv
<1>1. /\ inst \in [Delegation -> {"none"} \cup DelegationState]
      /\ pc \in [Delegation -> Pc] /\ recalls \subseteq Delegation
      /\ InstanceInv /\ RecallInv
  BY <1>0 DEF LifeInv, TypeOK
<1>2. ASSUME NEW r \in Specs, Register(r.type, r.maxInstances)
      PROVE  CountInv' /\ KeptInv'
  <2>1. r.type \in Role /\ r.maxInstances \in Nat
    OBVIOUS
  <2>2. \A a \in Role : peak'[a] >= peak[a]
    BY <1>0, <1>2, <2>1 DEF Register, LifeInv, TypeOK
  <2>3. UNCHANGED <<inst, pc, recalls, refused>>
    BY <1>2 DEF Register
  <2> QED
    BY <1>0, <2>2, <2>3, CountsStay
<1>3. ASSUME NEW d \in Delegation,
             Enqueue(d) \/ UnknownRole(d) \/ Timeout(d) \/ Start(d)
               \/ ToolStep(d) \/ Complete(d) \/ Fail(d)
      PROVE  CountInv' /\ KeptInv'
  <2>1. inst' = inst /\ recalls' = recalls
    BY <1>3 DEF Enqueue, UnknownRole, Timeout, Start, ToolStep, Complete, Fail
  <2>2. \A e \in Delegation : pc'[e] = "returned" <=> pc[e] = "returned"
    BY <1>1, <1>3 DEF Enqueue, UnknownRole, Timeout, Start, ToolStep, Complete, Fail
  <2>3. \A e \in Delegation : pc'[e] = "queued" =>
          \/ pc[e] = "queued" /\ refused'[e] = refused[e]
          \/ Cardinality(Active(RoleOf[e])) >= refused'[e]
    <3>1. CASE Enqueue(d)
      <4>1. /\ refused' = [refused EXCEPT ![d] = limit[RoleOf[d]]]
            /\ pc' = [pc EXCEPT ![d] = "queued"]
            /\ Cardinality(Active(RoleOf[d])) >= limit[RoleOf[d]]
        BY <3>1 DEF Enqueue
      <4>2. refused \in [Delegation -> Nat]
        BY <1>0 DEF LifeInv, TypeOK
      <4> QED
        BY <1>1, <4>1, <4>2
    <3>2. CASE ~ Enqueue(d)
      BY <1>1, <1>3, <3>2 DEF UnknownRole, Timeout, Start, ToolStep, Complete, Fail
    <3> QED
      BY <3>1, <3>2
  <2>4. \A a \in Role : peak'[a] >= peak[a]
    <3>1. peak' = peak
      BY <1>3 DEF Enqueue, UnknownRole, Timeout, Start, ToolStep, Complete, Fail,
                  specVars
    <3> QED
      BY <1>0, <3>1 DEF LifeInv, TypeOK
  <2> QED
    BY <1>0, <2>1, <2>2, <2>3, <2>4, CountsStay
<1>4. ASSUME NEW d \in Delegation, Acquire(d)
      PROVE  CountInv' /\ KeptInv'
  <2> SUFFICES ASSUME NEW a \in Role
               PROVE  /\ (Cardinality(Active(a)) <= peak[a] + Cardinality(Ended(a)))'
                      /\ Kept(a)'
    BY DEF CountInv, KeptInv
  <2>1. /\ Ended(a)' = Ended(a) /\ peak' = peak /\ refused' = refused
        /\ \A e \in Delegation : pc'[e] = "queued" => pc[e] = "queued"
    BY <1>1, <1>4 DEF Acquire, Ended, specVars
  <2>0. refused \in [Delegation -> Nat] /\ Kept(a) /\ limit[a] <= peak[a]
    BY <1>0 DEF SlotInv, KeptInv, LifeInv, TypeOK, PeakInv
  <2>2. /\ IsFiniteSet(Active(a)) /\ Cardinality(Active(a)) \in Nat
        /\ Cardinality(Ended(a)) \in Nat /\ limit[a] \in Nat /\ peak[a] \in Nat
    BY <1>0, Countable DEF FiniteInv
  <2>3. CASE a = RoleOf[d]
    <3>1. Active(a)' = Active(a) \cup {d} /\ d \notin Active(a)
      BY <1>1, <1>4, <2>3 DEF Acquire, Active, InstanceInv
    <3>2. Cardinality(Active(a)') = Cardinality(Active(a)) + 1
      BY <2>2, <3>1, FS_AddElement
    <3>3. Cardinality(Active(a)) < limit[a]
      BY <1>4, <2>3 DEF Acquire
    <3>4. Kept(a)'
      BY <2>0, <2>1, <2>2, <3>2 DEF Kept
    <3> QED
      BY <2>0, <2>1, <2>2, <3>2, <3>3, <3>4
  <2>4. CASE a # RoleOf[d]
    <3>1. Active(a)' = Active(a)
      BY <1>1, <1>4, <2>4 DEF Acquire, Active
    <3> QED
      BY <2>0, <2>1, <3>1 DEF SlotInv, CountInv, Kept
  <2> QED
    BY <2>3, <2>4
<1>5. ASSUME NEW d \in Delegation, Return(d), inst[d] = "none"
      PROVE  CountInv' /\ KeptInv'
  <2>1. d \notin recalls
    BY <1>1, <1>5 DEF Return, RecallInv
  <2>2. /\ inst' = inst /\ pc' = [pc EXCEPT ![d] = "returned"]
        /\ recalls' = recalls /\ refused' = refused /\ peak' = peak
    BY <1>5 DEF Return, specVars
  <2>3. \A e \in Delegation : e \in recalls' /\ pc'[e] = "returned"
                              <=> e \in recalls /\ pc[e] = "returned"
    BY <1>1, <2>1, <2>2
  <2>4. \A e \in Delegation : pc'[e] = "queued" => pc[e] = "queued"
    BY <1>1, <2>2
  <2>5. \A a \in Role : peak'[a] >= peak[a]
    BY <1>0, <2>2 DEF LifeInv, TypeOK
  <2> QED
    BY <1>0, <2>2, <2>3, <2>4, <2>5, CountsStay
<1>6. ASSUME NEW d \in Delegation, Return(d), inst[d] # "none"
      PROVE  CountInv' /\ KeptInv'
  <2>1. /\ pc[d] \in {"completing", "failing"}
        /\ state[d] \in {"completed", "failed"}
        /\ ReleaseSlot(d, state[d], "returned")
        /\ recalls' = recalls /\ refused' = refused /\ peak' = peak
    BY <1>1, <1>6 DEF Return, RecallInv, specVars
  <2>2. /\ pc' \in [Delegation -> Pc] /\ pc'[d] = "returned"
        /\ \A e \in Delegation \ {d} :
             pc'[e] = pc[e] \/ (pc[e] = "queued" /\ pc'[e] = "acquired")
    BY <1>0, <2>1, ReleaseKeeps DEF InFlight, DelegationState
  <2> SUFFICES ASSUME NEW a \in Role
               PROVE  /\ (Cardinality(Active(a)) <= peak[a] + Cardinality(Ended(a)))'
                      /\ Kept(a)'
    BY DEF CountInv, KeptInv
  <2>3. Ended(a)' = IF a = RoleOf[d] /\ d \in recalls THEN Ended(a) \cup {d}
                                                      ELSE Ended(a)
    BY <1>1, <2>1, <2>2 DEF Ended
  <2>4. \A e \in Delegation : RoleOf[e] = a /\ pc'[e] = "queued" =>
          pc[e] = "queued" /\ Waits(a) # {}
    BY <1>0, <2>2, WaitsAreQueued DEF WaitsInv
  <2>5. /\ Cardinality(Active(a)) \in Nat /\ Cardinality(Active(a)') \in Nat
        /\ IsFiniteSet(Ended(a)) /\ Cardinality(Ended(a)) \in Nat
        /\ limit[a] \in Nat /\ peak[a] \in Nat
    <3>1. FiniteInv /\ FiniteInv'
      BY <1>0, Countable, PTL
    <3> QED
      BY <3>1 DEF FiniteInv
  <2>6. /\ a # RoleOf[d] => Active(a)' = Active(a)
        /\ a = RoleOf[d] /\ d \in Active(a) =>
             Cardinality(Active(a)') <= Cardinality(Active(a))
        /\ a = RoleOf[d] =>
             Cardinality(Active(a)') <= Cardinality(Active(a)) + 1
        /\ a = RoleOf[d] /\ Waits(a) # {} =>
             Cardinality(Active(a)') >= Cardinality(Active(a))
    BY <1>0, <2>1, ReleaseCounts DEF InFlight, DelegationState
  <2>7. Cardinality(Active(a)) <= peak[a] + Cardinality(Ended(a))
    BY DEF SlotInv, CountInv
  <2>8. Kept(a)'
    <3>1. refused \in [Delegation -> Nat] /\ Kept(a)
      BY <1>0 DEF SlotInv, KeptInv, LifeInv, TypeOK
    <3>2. Waits(a) # {} => Cardinality(Active(a)') >= Cardinality(Active(a))
      BY <2>5, <2>6
    <3> QED
      BY <2>1, <2>4, <2>5, <3>1, <3>2 DEF Kept
  <2>9. CASE a # RoleOf[d]
    BY <2>1, <2>3, <2>6, <2>7, <2>8, <2>9
  <2>10. CASE a = RoleOf[d] /\ d \in Active(a)
    <3>1. d \notin recalls
      BY <1>1, <2>1, <2>10 DEF Active, RecallInv
    <3> QED
      BY <2>1, <2>3, <2>5, <2>6, <2>7, <2>8, <2>10, <3>1
  <2>11. CASE a = RoleOf[d] /\ d \notin Active(a)
    <3>1. d \in recalls /\ d \notin Ended(a)
      BY <1>1, <1>6, <2>1, <2>11 DEF Active, InstanceInv, InFlight, Ended
    <3>2. Cardinality(Ended(a) \cup {d}) = Cardinality(Ended(a)) + 1
      BY <2>5, <3>1, FS_AddElement
    <3> QED
      BY <2>1, <2>3, <2>5, <2>6, <2>7, <2>8, <2>11, <3>1, <3>2
  <2> QED
    BY <2>9, <2>10, <2>11
<1>7. ASSUME NEW d \in Delegation, Cancel(d)
      PROVE  CountInv' /\ KeptInv'
  <2>1. pc[d] = "running" /\ d \notin recalls /\ inst[d] = "executing"
    BY <1>1, <1>7 DEF Cancel, RecallInv, InstanceInv, InFlight
  <2>2. /\ ReleaseSlot(d, "cancelled", "running")
        /\ recalls' = recalls \cup {d} /\ refused' = refused /\ peak' = peak
    BY <1>7, <2>1 DEF Cancel, specVars
  <2>3. /\ pc' \in [Delegation -> Pc] /\ pc'[d] = "running"
        /\ \A e \in Delegation \ {d} :
             pc'[e] = pc[e] \/ (pc[e] = "queued" /\ pc'[e] = "acquired")
    BY <1>0, <2>1, <2>2, ReleaseKeeps DEF InFlight, DelegationState
  <2> SUFFICES ASSUME NEW a \in Role
               PROVE  /\ (Cardinality(Active(a)) <= peak[a] + Cardinality(Ended(a)))'
                      /\ Kept(a)'
    BY DEF CountInv, KeptInv
  <2>4. Ended(a)' = Ended(a)
    BY <1>1, <2>1, <2>2, <2>3 DEF Ended
  <2>5. \A e \in Delegation : RoleOf[e] = a /\ pc'[e] = "queued" =>
          pc[e] = "queued" /\ Waits(a) # {}
    BY <1>0, <2>3, WaitsAreQueued DEF WaitsInv
  <2>6. /\ Cardinality(Active(a)) \in Nat /\ Cardinality(Active(a)') \in Nat
        /\ Cardinality(Ended(a)) \in Nat /\ limit[a] \in Nat /\ peak[a] \in Nat
    <3>1. FiniteInv /\ FiniteInv'
      BY <1>0, Countable, PTL
    <3> QED
      BY <3>1 DEF FiniteInv
  <2>7. /\ a # RoleOf[d] => Active(a)' = Active(a)
        /\ a = RoleOf[d] /\ d \in Active(a) =>
             Cardinality(Active(a)') <= Cardinality(Active(a))
        /\ a = RoleOf[d] /\ Waits(a) # {} =>
             Cardinality(Active(a)') >= Cardinality(Active(a))
    BY <1>0, <2>1, <2>2, ReleaseCounts DEF InFlight, DelegationState
  <2>8. a = RoleOf[d] => d \in Active(a)
    BY <2>1 DEF Active
  <2>9. Kept(a)'
    <3>1. refused \in [Delegation -> Nat] /\ Kept(a)
      BY <1>0 DEF SlotInv, KeptInv, LifeInv, TypeOK
    <3>2. Waits(a) # {} => Cardinality(Active(a)') >= Cardinality(Active(a))
      BY <2>6, <2>7
    <3> QED
      BY <2>2, <2>5, <2>6, <3>1, <3>2 DEF Kept
  <2> QED
    BY <2>2, <2>4, <2>6, <2>7, <2>8, <2>9 DEF SlotInv, CountInv
<1>8. CASE UNCHANGED vars
  <2>1. UNCHANGED <<inst, pc, recalls, refused, peak>>
    BY <1>8 DEF vars, specVars
  <2>2. \A a \in Role : peak'[a] >= peak[a]
    BY <1>0, <2>1 DEF LifeInv, TypeOK
  <2> QED
    BY <1>0, <2>1, <2>2, CountsStay
<1> QED
  BY <1>2, <1>3, <1>4, <1>5, <1>6, <1>7, <1>8 DEF Next, Executor

LEMMA SlotInit == Init => SlotInv
<1> SUFFICES ASSUME Init
             PROVE  CountInv /\ KeptInv
  BY LifeInit DEF SlotInv
<1>1. ASSUME NEW a \in Role
      PROVE  Cardinality(Active(a)) <= peak[a] + Cardinality(Ended(a)) /\ Kept(a)
  <2>1. Active(a) = {} /\ Ended(a) = {} /\ peak[a] \in Nat
    BY <1>1 DEF Init, Active, Ended
  <2>2. Kept(a)
    BY DEF Init, Kept
  <2> QED
    BY <2>1, <2>2, FS_EmptySet
<1> QED
  BY <1>1 DEF CountInv, KeptInv

THEOREM SlotInvariant == Spec => []SlotInv
<1>1. Init => SlotInv
  BY SlotInit
<1>2. SlotInv /\ [Next]_vars => SlotInv'
  BY SlotStep
<1> QED
  BY <1>1, <1>2, PTL DEF Spec

(***************************************************************************)
(* The slots of the pool, whatever the number of delegations, their roles  *)
(* and the limits that are registered meanwhile: while a delegation waits  *)
(* in acquireSlot, its role has as many active agents as the limit for     *)
(* which it was refused, and each cancellation lets at most one agent more *)
(* run than the highest maxInstances of the role.                          *)
(***************************************************************************)
THEOREM SlotsAreTallied == Spec => []SlotsTally
<1>1. SlotInv => OverrunIsBounded
  <2> SUFFICES ASSUME SlotInv, NEW a \in Role
               PROVE  Cardinality(Agents(a)) <=
                        peak[a] + Cardinality({d \in recalls : RoleOf[d] = a})
    BY DEF OverrunIsBounded
  <2> DEFINE recalled == {d \in recalls : RoleOf[d] = a}
             late == {d \in recalls : RoleOf[d] = a /\ pc[d] # "returned"}
  <2>1. /\ IsFiniteSet(Active(a)) /\ Cardinality(Active(a)) \in Nat
        /\ IsFiniteSet(Ended(a)) /\ Cardinality(Ended(a)) \in Nat
        /\ IsFiniteSet(recalls) /\ limit[a] \in Nat /\ peak[a] \in Nat
    BY Countable DEF SlotInv, FiniteInv
  <2>2. Agents(a) \subseteq Active(a) \cup late
    BY DEF SlotInv, LifeInv, InstanceInv, Agents, Active, InFlight
  <2>3. recalled = Ended(a) \cup late /\ Ended(a) \cap late = {}
    BY DEF Ended
  <2>4. late \subseteq recalls
    OBVIOUS
  <2> HIDE DEF late, recalled
  <2>5. IsFiniteSet(late) /\ Cardinality(late) \in Nat
    BY <2>1, <2>4, FS_Subset, FS_CardinalityType
  <2>6. Cardinality(recalled) = Cardinality(Ended(a)) + Cardinality(late)
    <3>1. Cardinality(Ended(a) \cup late) =
            Cardinality(Ended(a)) + Cardinality(late)
              - Cardinality(Ended(a) \cap late)
      BY <2>1, <2>5, FS_Union
    <3>2. Cardinality(Ended(a) \cap late) = 0
      BY <2>3, FS_EmptySet
    <3> QED
      BY <2>1, <2>3, <2>5, <3>1, <3>2
  <2>7. Cardinality(Agents(a)) <= Cardinality(Active(a)) + Cardinality(late)
    <3>1. /\ IsFiniteSet(Active(a) \cup late)
          /\ Cardinality(Active(a) \cup late) =
               Cardinality(Active(a)) + Cardinality(late)
                 - Cardinality(Active(a) \cap late)
      BY <2>1, <2>5, FS_Union
    <3>2. Cardinality(Active(a) \cap late) \in Nat
      BY <2>1, FS_Intersection, FS_CardinalityType
    <3>3. Cardinality(Agents(a)) <= Cardinality(Active(a) \cup late)
          /\ Cardinality(Agents(a)) \in Nat
      BY <2>2, <3>1, FS_Subset, FS_CardinalityType
    <3> QED
      BY <2>1, <2>5, <3>1, <3>2, <3>3, FS_CardinalityType
  <2>8. Cardinality(Active(a)) <= peak[a] + Cardinality(Ended(a))
    BY DEF SlotInv, CountInv
  <2>9. Cardinality(Agents(a)) \in Nat
    BY <2>1, <2>2, <2>5, FS_Union, FS_Subset, FS_CardinalityType
  <2>10. Cardinality(Agents(a)) <= peak[a] + Cardinality(recalled)
    BY <2>1, <2>5, <2>6, <2>7, <2>8, <2>9
  <2> QED
    BY <2>10 DEF recalled
<1>2. SlotInv => NoIdleSlot
  BY DEF SlotInv, KeptInv, Kept, NoIdleSlot
<1>3. SlotInv => SlotsTally
  BY <1>1, <1>2 DEF SlotsTally
<1> QED
  BY <1>3, SlotInvariant, PTL

(***************************************************************************)
(* No delegation gets a slot past an older one of its role that waits,     *)
(* unless it is new and maxInstances is above the limit for which that one *)
(* was refused: up to that limit acquireSlot finds no free slot, and       *)
(* releaseSlot takes the first of the queue that has the role.             *)
(***************************************************************************)
THEOREM SlotsInOrder == Spec => NoOvertaking
<1> DEFINE Overtakes(d, e) ==
             /\ RoleOf[d] = RoleOf[e]
             /\ pc[d] # "acquired" /\ pc'[d] = "acquired"
             /\ \E j \in DOMAIN queue :
                  queue[j] = e /\ \A k \in 1 .. j : queue[k] # d
           Raised(d, e) == pc[d] = "new" /\ limit[RoleOf[e]] > refused[e]
<1>1. ASSUME SlotInv, Next, NEW d \in Delegation, NEW e \in Delegation,
             Overtakes(d, e)
      PROVE  Raised(d, e)
  <2>0. /\ pc \in [Delegation -> Pc] /\ queue \in Seq(Delegation)
        /\ LifeInv /\ InstanceInv /\ RecallInv /\ QueueInv
    BY <1>1 DEF SlotInv, LifeInv, TypeOK
  <2>1. PICK j \in DOMAIN queue : queue[j] = e /\ \A k \in 1 .. j : queue[k] # d
    BY <1>1
  <2>2. j \in Waits(RoleOf[d])
    BY <1>1, <2>1 DEF Waits
  <2>3. ASSUME NEW x \in Delegation, NEW s, NEW c, c # "acquired",
               ReleaseSlot(x, s, c)
        PROVE  FALSE
    <3>1. CASE Frees(x, s, c)
      BY <1>1, <2>0, <2>3, <3>1 DEF Frees
    <3>2. ASSUME NEW i \in DOMAIN queue, HandsOn(x, s, c, i)
          PROVE  FALSE
      <4>1. d = queue[i]
        BY <1>1, <2>0, <2>3, <3>2 DEF HandsOn
      <4>2. i \in Waits(RoleOf[x]) /\ \A k \in Waits(RoleOf[x]) : i <= k
        BY <3>2 DEF HandsOn
      <4>3. i <= j
        BY <2>2, <4>1, <4>2 DEF Waits
      <4>4. i \in 1 .. j
        BY <2>0, <4>3
      <4> QED
        BY <2>1, <4>1, <4>4
    <3> QED
      BY <2>0, <2>3, <3>1, <3>2, ReleaseCases
  <2>4. ASSUME NEW x \in Delegation, Acquire(x)
        PROVE  Raised(d, e)
    <3>1. x = d
      BY <1>1, <2>0, <2>4 DEF Acquire
    <3>2. Cardinality(Active(RoleOf[e])) >= refused[e]
      <4>1. pc[e] = "queued"
        BY <2>0, <2>1 DEF QueueInv, ToSet
      <4> QED
        BY <1>1, <4>1 DEF SlotInv, KeptInv, Kept
    <3>3. Cardinality(Active(RoleOf[e])) < limit[RoleOf[e]] /\ pc[d] = "new"
      BY <1>1, <2>4, <3>1 DEF Acquire
    <3>4. /\ Cardinality(Active(RoleOf[e])) \in Nat
          /\ limit[RoleOf[e]] \in Nat /\ refused[e] \in Nat
      BY <2>0, Countable DEF FiniteInv, LifeInv, TypeOK
    <3> QED
      BY <3>2, <3>3, <3>4
  <2>5. ASSUME NEW x \in Delegation,
               Enqueue(x) \/ UnknownRole(x) \/ Timeout(x) \/ Start(x)
                 \/ ToolStep(x) \/ Complete(x) \/ Fail(x)
        PROVE  FALSE
    BY <1>1, <2>0, <2>5
       DEF Enqueue, UnknownRole, Timeout, Start, ToolStep, Complete, Fail
  <2>6. ASSUME NEW x \in Delegation, Return(x)
        PROVE  FALSE
    BY <1>1, <2>0, <2>3, <2>6 DEF Return
  <2>7. ASSUME NEW x \in Delegation, Cancel(x)
        PROVE  FALSE
    <3>1. pc[x] = "running"
      BY <2>0, <2>7 DEF Cancel, RecallInv
    <3>2. ReleaseSlot(x, "cancelled", "running") \/ pc' = pc
      BY <2>7, <3>1 DEF Cancel
    <3> QED
      BY <1>1, <2>3, <3>2
  <2>8. ASSUME NEW r \in Specs, Register(r.type, r.maxInstances)
        PROVE  FALSE
    BY <1>1, <2>8 DEF Register
  <2> QED
    BY <1>1, <2>4, <2>5, <2>6, <2>7, <2>8 DEF Next, Executor
<1>2. SlotInv /\ [Next]_vars =>
        [\A d, e \in Delegation : Overtakes(d, e) => Raised(d, e)]_vars
  BY <1>1
<1> QED
  BY <1>2, SlotInvariant, PTL DEF Spec, NoOvertaking
=============================================================================
