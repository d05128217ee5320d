----------------------------- MODULE AgentPool -----------------------------
(***************************************************************************)
(* The agent orchestrator of packages/multi-agent: delegate, cancel and    *)
(* registerAgentType (supervisor/agent-orchestrator.ts), the loop of one   *)
(* delegation (supervisor/delegation-executor.ts) and the pool that limits *)
(* how many agents of a role run (pool/agent-pool.ts).                     *)
(*                                                                         *)
(* Each delegation makes at most one instance, so an instance is named by  *)
(* its delegation.  An action is a segment between two awaits; what the    *)
(* executor does between its awaits touches only its own conversation.     *)
(***************************************************************************)
EXTENDS Integers, Sequences, FiniteSets, SequencesExt

CONSTANTS Delegation,   \* the calls of delegate
          Role,         \* the agent types
          RoleOf,       \* the agentType of each delegation
          Limit,        \* maxInstances of the spec of each role at first
          Known,        \* the roles registered at construction
          Specs,        \* the type and maxInstances of each spec that
                        \* somebody may register
          Cancellable,  \* the delegations that somebody may cancel
          MaxSteps      \* maxSteps of the executor (5 in the code)

ASSUME PoolAssumption ==
  /\ RoleOf \in [Delegation -> Role]
  /\ Limit \in [Role -> Nat]
  /\ Known \subseteq Role
  /\ Specs \subseteq [type : Role, maxInstances : Nat]
  /\ Cancellable \subseteq Delegation
  /\ MaxSteps \in Nat \ {0}

VARIABLES roles,   \* specs: the roles that have one
          limit,   \* specs: their maxInstances
          queue,   \* AgentPool.queue, oldest first
          inst,    \* instance.state of the instance of each delegation
          pc,      \* what each delegate call is waiting for
          state,   \* delegation.state
          steps,   \* the model replies that its executor has had
          recalls, \* history: the delegations that were cancelled
          refused, \* history: the limit for which each had to queue
          peak     \* history: the highest maxInstances of each role

specVars == <<roles, limit, peak>>
vars == <<specVars, queue, inst, pc, state, steps, recalls, refused>>

DelegationState == {"pending", "executing", "completed", "failed", "cancelled"}

(***************************************************************************)
(* queued (in acquireSlot), acquired (the promise of acquireSlot has       *)
(* resolved), running (in the executor), completing and failing (awaiting  *)
(* the last event), returned.                                              *)
(***************************************************************************)
Pc == {"new", "queued", "acquired", "running", "completing", "failing",
       "returned"}
InFlight == {"acquired", "running", "completing", "failing"}

\* getActiveInstances
Active(a) == {d \in Delegation : RoleOf[d] = a /\ inst[d] = "executing"}

\* The positions in the queue that wait for a role.
Waits(a) == {i \in DOMAIN queue : RoleOf[queue[i]] = a}

Init ==
  /\ roles = Known
  /\ limit = Limit
  /\ peak = Limit
  /\ refused = [d \in Delegation |-> 0]
  /\ queue = <<>>
  /\ inst = [d \in Delegation |-> "none"]
  /\ pc = [d \in Delegation |-> "new"]
  /\ state = [d \in Delegation |-> "none"]
  /\ steps = [d \in Delegation |-> 0]
  /\ recalls = {}
-----------------------------------------------------------------------------
(***************************************************************************)
(* registerAgentType: the spec replaces that of its type, at any time.     *)
(* acquireSlot reads the new maxInstances; those who wait are not looked   *)
(* at, and releaseSlot goes on handing slots to them.                      *)
(***************************************************************************)
Register(a, n) ==
  /\ [type |-> a, maxInstances |-> n] \in Specs
  /\ roles' = roles \cup {a}
  /\ limit' = [limit EXCEPT ![a] = n]
  /\ peak' = [peak EXCEPT ![a] = IF n > @ THEN n ELSE @]
  /\ UNCHANGED <<queue, inst, pc, state, steps, recalls, refused>>

\* Mutant of Acquire: the limit is off by one.
AcquireOneMore(d) ==
  /\ pc[d] = "new"
  /\ RoleOf[d] \in roles
  /\ Cardinality(Active(RoleOf[d])) <= limit[RoleOf[d]]
  /\ inst' = [inst EXCEPT ![d] = "executing"]
  /\ state' = [state EXCEPT ![d] = "pending"]
  /\ pc' = [pc EXCEPT ![d] = "acquired"]
  /\ UNCHANGED <<specVars, queue, steps, recalls, refused>>

\* delegate when the pool has a slot.
Acquire(d) ==
  /\ pc[d] = "new"
  /\ RoleOf[d] \in roles
  /\ Cardinality(Active(RoleOf[d])) < limit[RoleOf[d]]
  /\ inst' = [inst EXCEPT ![d] = "executing"]
  /\ state' = [state EXCEPT ![d] = "pending"]
  /\ pc' = [pc EXCEPT ![d] = "acquired"]
  /\ UNCHANGED <<specVars, queue, steps, recalls, refused>>

\* delegate when the limit of the role is reached.
Enqueue(d) ==
  /\ pc[d] = "new"
  /\ RoleOf[d] \in roles
  /\ Cardinality(Active(RoleOf[d])) >= limit[RoleOf[d]]
  /\ queue' = Append(queue, d)
  /\ refused' = [refused EXCEPT ![d] = limit[RoleOf[d]]]
  /\ state' = [state EXCEPT ![d] = "pending"]
  /\ pc' = [pc EXCEPT ![d] = "queued"]
  /\ UNCHANGED <<specVars, inst, steps, recalls>>

\* acquireSlot throws for a role without a spec.
UnknownRole(d) ==
  /\ pc[d] = "new"
  /\ RoleOf[d] \notin roles
  /\ state' = [state EXCEPT ![d] = "failed"]
  /\ pc' = [pc EXCEPT ![d] = "failing"]
  /\ UNCHANGED <<specVars, queue, inst, steps, recalls, refused>>

\* Mutant of Timeout: it leaves the queue and nobody is told.
TimeoutSilently(d) ==
  /\ pc[d] = "queued"
  /\ \E i \in DOMAIN queue : queue[i] = d /\ queue' = RemoveAt(queue, i)
  /\ UNCHANGED <<specVars, inst, pc, state, steps, recalls, refused>>

\* The timer of a queued delegation fires: it leaves the queue and fails.
Timeout(d) ==
  /\ pc[d] = "queued"
  /\ queue' = RemoveAt(queue, CHOOSE i \in DOMAIN queue : queue[i] = d)
  /\ state' = [state EXCEPT ![d] = "failed"]
  /\ pc' = [pc EXCEPT ![d] = "failing"]
  /\ UNCHANGED <<specVars, inst, steps, recalls, refused>>

\* Mutants of ReleaseSlot: only the head of the queue is looked at, whatever
\* its role; the newest of the waiting delegations gets the slot.
ReleaseToHead(d, s, c) ==
  IF queue = <<>> \/ 1 \notin Waits(RoleOf[d])
  THEN /\ inst' = [inst EXCEPT ![d] = s]
       /\ pc' = [pc EXCEPT ![d] = c]
       /\ UNCHANGED queue
  ELSE /\ inst' = [inst EXCEPT ![d] = s, ![queue[1]] = "executing"]
       /\ pc' = [pc EXCEPT ![d] = c, ![queue[1]] = "acquired"]
       /\ queue' = Tail(queue)

ReleaseToNewest(d, s, c) ==
  IF Waits(RoleOf[d]) = {}
  THEN /\ inst' = [inst EXCEPT ![d] = s]
       /\ pc' = [pc EXCEPT ![d] = c]
       /\ UNCHANGED queue
  ELSE LET i == CHOOSE k \in Waits(RoleOf[d]) :
                  \A j \in Waits(RoleOf[d]) : k >= j
       IN /\ inst' = [inst EXCEPT ![d] = s, ![queue[i]] = "executing"]
          /\ pc' = [pc EXCEPT ![d] = c, ![queue[i]] = "acquired"]
          /\ queue' = RemoveAt(queue, i)

(***************************************************************************)
(* releaseSlot: the instance takes the state s of its delegation and the   *)
(* oldest delegation that waits for the role gets an instance, whatever    *)
(* the number of active ones.  The caller goes on at c.                    *)
(***************************************************************************)
ReleaseSlot(d, s, c) ==
  IF Waits(RoleOf[d]) = {}
  THEN /\ inst' = [inst EXCEPT ![d] = s]
       /\ pc' = [pc EXCEPT ![d] = c]
       /\ UNCHANGED queue
  ELSE LET i == CHOOSE k \in Waits(RoleOf[d]) :
                  \A j \in Waits(RoleOf[d]) : k <= j
       IN /\ inst' = [inst EXCEPT ![d] = s, ![queue[i]] = "executing"]
          /\ pc' = [pc EXCEPT ![d] = c, ![queue[i]] = "acquired"]
          /\ queue' = RemoveAt(queue, i)

\* delegate goes on after its await of acquireSlot and calls the executor.
Start(d) ==
  /\ pc[d] = "acquired"
  /\ state' = [state EXCEPT ![d] = "executing"]
  /\ pc' = [pc EXCEPT ![d] = "running"]
  /\ UNCHANGED <<specVars, queue, inst, steps, recalls, refused>>

\* The model replies with a tool call; the loop does not look at the state.
ToolStep(d) ==
  /\ pc[d] = "running"
  /\ steps[d] < MaxSteps
  /\ steps' = [steps EXCEPT ![d] = @ + 1]
  /\ UNCHANGED <<specVars, queue, inst, pc, state, recalls, refused>>

(***************************************************************************)
(* The model replies without a tool call, or the steps are used up: the    *)
(* state becomes completed, whatever it was, and the executor awaits its   *)
(* last event.  (It also writes a row, which only a later process reads.)  *)
(***************************************************************************)
Complete(d) ==
  /\ pc[d] = "running"
  /\ \/ steps[d] = MaxSteps /\ UNCHANGED steps
     \/ steps[d] < MaxSteps /\ steps' = [steps EXCEPT ![d] = @ + 1]
  /\ state' = [state EXCEPT ![d] = "completed"]
  /\ pc' = [pc EXCEPT ![d] = "completing"]
  /\ UNCHANGED <<specVars, queue, inst, recalls, refused>>

\* The memory system or the model router rejects.
Fail(d) ==
  /\ pc[d] = "running"
  /\ steps[d] < MaxSteps
  /\ state' = [state EXCEPT ![d] = "failed"]
  /\ pc' = [pc EXCEPT ![d] = "failing"]
  /\ UNCHANGED <<specVars, queue, inst, steps, recalls, refused>>

\* The last event is out; the finally block releases the slot, if any.
Return(d) ==
  /\ pc[d] \in {"completing", "failing"}
  /\ IF inst[d] = "none"
     THEN pc' = [pc EXCEPT ![d] = "returned"] /\ UNCHANGED <<queue, inst>>
     ELSE ReleaseSlot(d, state[d], "returned")
  /\ UNCHANGED <<specVars, state, steps, recalls, refused>>

\* cancel: only an executing delegation, and its executor is not told.
Cancel(d) ==
  /\ d \in Cancellable
  /\ state[d] = "executing"
  /\ state' = [state EXCEPT ![d] = "cancelled"]
  /\ IF inst[d] = "executing"
     THEN ReleaseSlot(d, "cancelled", pc[d])
     ELSE UNCHANGED <<queue, inst, pc>>
  /\ recalls' = recalls \cup {d}
  /\ UNCHANGED <<specVars, steps, refused>>

Executor(d) == ToolStep(d) \/ Complete(d) \/ Fail(d)

Next ==
  \/ \E s \in Specs : Register(s.type, s.maxInstances)
  \/ \E d \in Delegation :
       \/ Acquire(d) \/ Enqueue(d) \/ UnknownRole(d)
       \/ Timeout(d) \/ Start(d) \/ Executor(d) \/ Return(d) \/ Cancel(d)

Spec == Init /\ [][Next]_vars

(***************************************************************************)
(* Timers fire and continuations run.  Nobody has to delegate, register or *)
(* cancel.  ExecutorFairness assumes that models and tools answer.         *)
(***************************************************************************)
LoopFairness ==
  WF_vars(\E d \in Delegation : Timeout(d) \/ Start(d) \/ Return(d))
ExecutorFairness == WF_vars(\E d \in Delegation : Executor(d))

FairSpec == Spec /\ LoopFairness /\ ExecutorFairness
-----------------------------------------------------------------------------
\* The type invariant: the domain of every variable of the pool.
TypeOK ==
  /\ roles \subseteq Role
  /\ limit \in [Role -> Nat]
  /\ peak \in [Role -> Nat]
  /\ refused \in [Delegation -> Nat]
  /\ queue \in Seq(Delegation)
  /\ inst \in [Delegation -> {"none"} \cup DelegationState]
  /\ pc \in [Delegation -> Pc]
  /\ state \in [Delegation -> {"none"} \cup DelegationState]
  /\ steps \in [Delegation -> 0 .. MaxSteps]
  /\ recalls \subseteq Delegation

(***************************************************************************)
(* No slot idles while a delegation waits for it: as long as one waits,    *)
(* its role has the number of active agents for which it was refused, over *)
(* cancellations, timeouts and changes of the limit.  (A limit that is     *)
(* raised meanwhile leaves slots free, for newcomers only.)                *)
(***************************************************************************)
NoIdleSlot ==
  \A d \in Delegation :
    pc[d] = "queued" => Cardinality(Active(RoleOf[d])) >= refused[d]

(***************************************************************************)
(* Of two delegations of a role that wait the older one goes first, and a  *)
(* newcomer gets a slot past one that waits only if maxInstances of their  *)
(* role is now above the limit for which that one was refused.             *)
(***************************************************************************)
NoOvertaking ==
  [][\A d, e \in Delegation :
        /\ RoleOf[d] = RoleOf[e]
        /\ pc[d] # "acquired" /\ pc'[d] = "acquired"
        /\ \E j \in DOMAIN queue :
             queue[j] = e /\ \A k \in 1 .. j : queue[k] # d
        => pc[d] = "new" /\ limit[RoleOf[e]] > refused[e]]_vars

\* The delegate calls that hold or held a slot and are not over.
Agents(a) ==
  {d \in Delegation : RoleOf[d] = a /\ inst[d] # "none" /\ pc[d] \in InFlight}

(***************************************************************************)
(* A cancelled delegation releases its slot twice, once in cancel and once *)
(* when its executor ends: each cancellation lets one agent more than      *)
(* maxInstances run, never two, and without one no more run than the       *)
(* highest maxInstances that the role has had.                             *)
(***************************************************************************)
OverrunIsBounded ==
  \A a \in Role :
    Cardinality(Agents(a)) <=
      peak[a] + Cardinality({d \in recalls : RoleOf[d] = a})

\* The slots of a role are neither wasted nor, without a cancellation, exceeded.
SlotsTally == NoIdleSlot /\ OverrunIsBounded

\* Every delegation that was made returns a result.
DelegationReturns ==
  \A d \in Delegation : pc[d] # "new" ~> pc[d] = "returned"
-----------------------------------------------------------------------------
(***************************************************************************)
(* What the source says and the code does not do.                          *)
(***************************************************************************)

\* maxInstances is the number of "Maximum concurrent instances" of a role
\* (packages/multi-agent/src/types.ts:37); no more run than the highest
\* maxInstances that the role has had.
WithinLimit == \A a \in Role : Cardinality(Agents(a)) <= peak[a]
=============================================================================
