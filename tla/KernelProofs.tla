---------------------------- MODULE KernelProofs ----------------------------
(***************************************************************************)
(* Proofs about the agent kernel and its gateway, for every set of tasks   *)
(* and processes, with or without a memory system, with processes that run *)
(* one after the other or side by side: what the kernel queues and runs,   *)
(* what it tells of its tasks (subscribers by events, whoever opens the    *)
(* file later by rows), that it implements the durable task table, and at  *)
(* the end that all of this holds behind the servers, too, and that what   *)
(* their clients were told stays true.                                     *)
(***************************************************************************)
EXTENDS Gateway, SequenceFacts

USE KernelAssumption

-----------------------------------------------------------------------------
(***************************************************************************)
(* The priority queue, for every assignment of priorities.                 *)
(***************************************************************************)

\* A sorted queue has a position for every task: before the first element
\* of a lower priority, or at the end.
LEMMA PositionExists ==
  ASSUME NEW q \in Seq(Task), NEW t \in Task, Sorted(q)
  PROVE  \E i \in 1 .. Len(q) + 1 : IsPosition(q, t, i)
<1> DEFINE Lower == {j \in 1 .. Len(q) : Priority[q[j]] < Priority[t]}
<1>0. /\ Len(q) \in Nat
      /\ \A j \in 1 .. Len(q) : q[j] \in Task /\ Priority[q[j]] \in Int
      /\ Priority[t] \in Int
  BY PriorityAssumption
<1>1. CASE Lower = {}
  <2>1. IsPosition(q, t, Len(q) + 1)
    BY <1>0, <1>1 DEF IsPosition
  <2> QED
    BY <2>1, <1>0
<1>2. CASE Lower # {}
  <2>0. Lower \in SUBSET Nat
    OBVIOUS
  <2>1. PICK x \in Lower : \A y \in Lower : x <= y
    <3> HIDE DEF Lower
    <3> QED
      BY <2>0, <1>2, LeastNatural
  <2>2. \A j \in 1 .. x - 1 : Priority[q[j]] >= Priority[t]
    BY <2>1, <1>0
  <2>3. \A j \in x .. Len(q) : Priority[q[j]] < Priority[t]
    BY <2>1, <1>0 DEF Sorted
  <2>4. IsPosition(q, t, x)
    BY <2>2, <2>3 DEF IsPosition
  <2>5. x \in 1 .. Len(q) + 1
    BY <1>0
  <2> QED
    BY <2>4, <2>5
<1> QED
  BY <1>1, <1>2

\* Enqueueing keeps a queue sorted and adds exactly the new task.
THEOREM EnqueueKeepsOrder ==
  ASSUME NEW q \in Seq(Task), NEW t \in Task, Sorted(q)
  PROVE  /\ Enqueue(q, t) \in Seq(Task)
         /\ Sorted(Enqueue(q, t))
         /\ Queued(Enqueue(q, t)) = Queued(q) \cup {t}
         /\ Distinct(q) /\ t \notin Queued(q) => Distinct(Enqueue(q, t))
<1> DEFINE i == CHOOSE k \in 1 .. Len(q) + 1 : IsPosition(q, t, k)
           r == InsertAt(q, i, t)
<1>1. i \in 1 .. Len(q) + 1 /\ IsPosition(q, t, i)
  BY PositionExists
<1> HIDE DEF i
<1>2. /\ r \in Seq(Task)
      /\ Len(r) = Len(q) + 1
      /\ \A j \in 1 .. Len(q) + 1 :
           r[j] = IF j < i THEN q[j] ELSE IF j = i THEN t ELSE q[j - 1]
  BY <1>1, InsertAtIndexes
<1> HIDE DEF r
<1>3. Len(q) \in Nat /\ \A j \in 1 .. Len(q) : Priority[q[j]] \in Int
  BY PriorityAssumption
<1>4. Priority[t] \in Int
  BY PriorityAssumption
<1>5. Sorted(r)
  <2> SUFFICES ASSUME NEW j \in 1 .. Len(r), NEW k \in 1 .. Len(r), j < k
               PROVE  Priority[r[j]] >= Priority[r[k]]
    BY <1>2 DEF Sorted
  <2>1. CASE j < i /\ k < i
    BY <1>1, <1>2, <1>3, <2>1 DEF Sorted
  <2>2. CASE j < i /\ k = i
    <3>1. r[j] = q[j] /\ r[k] = t
      BY <1>1, <1>2, <1>3, <2>2
    <3>2. j \in 1 .. i - 1
      BY <1>1, <1>3, <2>2
    <3>3. Priority[q[j]] >= Priority[t]
      BY <1>1, <3>2 DEF IsPosition
    <3> QED
      BY <3>1, <3>3
  <2>3. CASE j < i /\ k > i
    <3>1. r[j] = q[j] /\ r[k] = q[k - 1]
      BY <1>1, <1>2, <1>3, <2>3
    <3>2. /\ j \in 1 .. Len(q) /\ k - 1 \in 1 .. Len(q)
          /\ (j = k - 1 \/ j < k - 1)
      BY <1>1, <1>2, <1>3, <2>3
    <3>3. Priority[q[j]] >= Priority[q[k - 1]]
      BY <3>2, <1>3 DEF Sorted
    <3> QED
      BY <3>1, <3>3
  <2>4. CASE j = i /\ k > i
    <3>1. r[j] = t /\ r[k] = q[k - 1]
      BY <1>1, <1>2, <1>3, <2>4
    <3>2. k - 1 \in i .. Len(q) /\ k - 1 \in 1 .. Len(q)
      BY <1>1, <1>2, <1>3, <2>4
    <3>3. Priority[q[k - 1]] < Priority[t]
      BY <1>1, <3>2 DEF IsPosition
    <3> QED
      BY <3>1, <3>2, <3>3, <1>3, <1>4
  <2>5. CASE j > i /\ k > i
    <3>1. r[j] = q[j - 1] /\ r[k] = q[k - 1]
      BY <1>1, <1>2, <1>3, <2>5
    <3>2. j - 1 \in 1 .. Len(q) /\ k - 1 \in 1 .. Len(q) /\ j - 1 < k - 1
      BY <1>1, <1>2, <1>3, <2>5
    <3>3. Priority[q[j - 1]] >= Priority[q[k - 1]]
      BY <3>2 DEF Sorted
    <3> QED
      BY <3>1, <3>3
  <2> QED
    BY <1>1, <1>2, <1>3, <2>1, <2>2, <2>3, <2>4, <2>5
<1>6. Queued(r) = Queued(q) \cup {t}
  <2>1. ASSUME NEW x \in Queued(r)
        PROVE  x \in Queued(q) \cup {t}
    <3>1. PICK j \in 1 .. Len(q) + 1 : x = r[j]
      BY <1>2 DEF Queued
    <3>2. CASE j = i
      BY <1>2, <3>1, <3>2
    <3>3. CASE j < i
      BY <1>1, <1>2, <1>3, <3>1, <3>3 DEF Queued
    <3>4. CASE j > i
      <4>1. x = q[j - 1] /\ j - 1 \in 1 .. Len(q)
        BY <1>1, <1>2, <1>3, <3>1, <3>4
      <4> QED
        BY <4>1 DEF Queued
    <3> QED
      BY <1>1, <3>2, <3>3, <3>4
  <2>2. t \in Queued(r)
    BY <1>1, <1>2, <1>3 DEF Queued
  <2>3. ASSUME NEW x \in Queued(q)
        PROVE  x \in Queued(r)
    <3>1. PICK j \in 1 .. Len(q) : x = q[j]
      BY DEF Queued
    <3>2. CASE j < i
      BY <1>1, <1>2, <1>3, <3>1, <3>2 DEF Queued
    <3>3. CASE j >= i
      <4>1. r[j + 1] = x /\ j + 1 \in 1 .. Len(r)
        BY <1>1, <1>2, <1>3, <3>1, <3>3
      <4> QED
        BY <4>1, <1>2 DEF Queued
    <3> QED
      BY <1>1, <3>2, <3>3
  <2> QED
    BY <2>1, <2>2, <2>3
<1>7. ASSUME Distinct(q), t \notin Queued(q)
      PROVE  Distinct(r)
  <2>1. \A j \in 1 .. Len(q) : q[j] # t
    BY <1>7 DEF Queued
  <2> DEFINE old(j) == IF j < i THEN j ELSE j - 1
  <2>2. \A j \in 1 .. Len(q) + 1 :
          j # i => r[j] = q[old(j)] /\ old(j) \in 1 .. Len(q)
    BY <1>1, <1>2, <1>3
  <2>3. r[i] = t
    BY <1>1, <1>2
  <2> SUFFICES ASSUME NEW j \in 1 .. Len(q) + 1, NEW k \in 1 .. Len(q) + 1,
                      r[j] = r[k]
               PROVE  j = k
    BY <1>2, <1>3 DEF Distinct
  <2>4. CASE j = i \/ k = i
    BY <2>1, <2>2, <2>3, <2>4
  <2>5. CASE j # i /\ k # i
    <3>1. old(j) = old(k)
      <4> HIDE DEF old
      <4> QED
        BY <2>2, <2>5, <1>7 DEF Distinct
    <3> QED
      BY <3>1, <2>5, <1>1, <1>3
  <2> QED
    BY <2>4, <2>5
<1> QED
  BY <1>2, <1>5, <1>6, <1>7 DEF Enqueue, r, i

\* Removing a task keeps a queue sorted and removes nothing else.
THEOREM RemoveKeepsOrder ==
  ASSUME NEW q \in Seq(Task), NEW t \in Task
  PROVE  /\ RemoveTask(q, t) \in Seq(Task)
         /\ Sorted(q) => Sorted(RemoveTask(q, t))
         /\ Distinct(q) => /\ Distinct(RemoveTask(q, t))
                           /\ Queued(RemoveTask(q, t)) = Queued(q) \ {t}
<1>1. CASE t \notin Queued(q)
  BY <1>1 DEF RemoveTask
<1>2. CASE t \in Queued(q)
  <2> DEFINE i == CHOOSE k \in DOMAIN q : q[k] = t
             r == RemoveAt(q, i)
  <2>1. i \in 1 .. Len(q) /\ q[i] = t
    BY <1>2 DEF Queued
  <2> HIDE DEF i
  <2>2. /\ r \in Seq(Task)
        /\ Len(r) = Len(q) - 1
        /\ \A j \in 1 .. Len(q) - 1 :
             r[j] = IF j < i THEN q[j] ELSE q[j + 1]
    BY <2>1, RemoveAtIndexes
  <2> HIDE DEF r
  <2>3. Len(q) \in Nat /\ \A j \in 1 .. Len(q) : Priority[q[j]] \in Int
    BY PriorityAssumption
  <2> DEFINE old(j) == IF j < i THEN j ELSE j + 1
  <2>o. \A j \in 1 .. Len(q) - 1 : r[j] = q[old(j)] /\ old(j) \in 1 .. Len(q)
    BY <2>1, <2>2, <2>3
  <2>p. \A j, k \in 1 .. Len(q) - 1 : /\ j < k => old(j) < old(k)
                                      /\ old(j) = old(k) => j = k
    BY <2>1, <2>3
  <2>4. Sorted(q) => Sorted(r)
    <3> HIDE DEF old
    <3> QED
      BY <2>o, <2>p, <2>2 DEF Sorted
  <2>5. Distinct(q) => Distinct(r)
    <3> HIDE DEF old
    <3> QED
      BY <2>o, <2>p, <2>2 DEF Distinct
  <2>6. ASSUME Distinct(q)
        PROVE  Queued(r) = Queued(q) \ {t}
    <3>1. ASSUME NEW x \in Queued(r)
          PROVE  x \in Queued(q) /\ x # t
      <4>1. PICK j \in 1 .. Len(q) - 1 : x = r[j]
        BY <2>2 DEF Queued
      <4>2. PICK k \in 1 .. Len(q) : x = q[k] /\ k # i
        <5>1. old(j) # i
          BY <2>1, <2>3
        <5>2. x = q[old(j)] /\ old(j) \in 1 .. Len(q)
          BY <2>o, <4>1
        <5> HIDE DEF old
        <5> QED
          BY <5>1, <5>2
      <4> QED
        BY <4>2, <2>1, <2>6 DEF Distinct, Queued
    <3>2. ASSUME NEW x \in Queued(q), x # t
          PROVE  x \in Queued(r)
      <4>1. PICK j \in 1 .. Len(q) : x = q[j]
        BY DEF Queued
      <4>2. CASE j < i
        BY <2>1, <2>2, <2>3, <4>1, <4>2 DEF Queued
      <4>3. CASE j > i
        <5>1. r[j - 1] = x /\ j - 1 \in 1 .. Len(r)
          BY <2>1, <2>2, <2>3, <4>1, <4>3
        <5> QED
          BY <5>1, <2>2 DEF Queued
      <4> QED
        BY <2>1, <3>2, <4>1, <4>2, <4>3
    <3> QED
      BY <3>1, <3>2
  <2> QED
    BY <1>2, <2>2, <2>4, <2>5, <2>6 DEF RemoveTask, r, i
<1> QED
  BY <1>1, <1>2
-----------------------------------------------------------------------------
(***************************************************************************)
(* Types.  A task is inserted at the position that a sorted queue has for  *)
(* it, so the types of the queues and their order are proved together.     *)
(***************************************************************************)

LEMMA QueueType ==
  ASSUME TypeOK, QueueSorted, Next
  PROVE  queue' \in [Proc -> Seq(Task)] /\ QueueSorted'
<1>1. ASSUME NEW p \in Proc, NEW t \in Task, Submit(p, t)
      PROVE  queue' \in [Proc -> Seq(Task)] /\ QueueSorted'
  <2>1. /\ Enqueue(queue[p], t) \in Seq(Task)
        /\ Sorted(Enqueue(queue[p], t))
    BY EnqueueKeepsOrder DEF TypeOK, QueueSorted
  <2> QED
    BY <1>1, <2>1 DEF Submit, TypeOK, QueueSorted
<1>2. ASSUME NEW t \in Task, Enter(t)
      PROVE  queue' \in [Proc -> Seq(Task)] /\ QueueSorted'
  <2>1. CASE owner[t] \in Proc
    <3>1. /\ RemoveTask(queue[owner[t]], t) \in Seq(Task)
          /\ Sorted(RemoveTask(queue[owner[t]], t))
      BY <2>1, RemoveKeepsOrder DEF TypeOK, QueueSorted
    <3> QED
      BY <1>2, <2>1, <3>1 DEF Enter, TypeOK, QueueSorted
  <2>2. CASE owner[t] \notin Proc
    <3>1. queue' = queue
      BY <1>2, <2>2 DEF Enter, TypeOK
    <3> QED
      BY <3>1 DEF TypeOK, QueueSorted
  <2> QED
    BY <2>1, <2>2
<1>3. ASSUME NEW p \in Proc, Exit(p)
      PROVE  queue' \in [Proc -> Seq(Task)] /\ QueueSorted'
  BY <1>3 DEF Exit, TypeOK, QueueSorted, Sorted
<1>4. ASSUME UNCHANGED queue
      PROVE  queue' \in [Proc -> Seq(Task)] /\ QueueSorted'
  BY <1>4 DEF TypeOK, QueueSorted
<1> QED
  BY <1>1, <1>2, <1>3, <1>4
     DEF Next, ProcStep, TaskStep, procVars, Boot, Recover, Shutdown,
         StopDraining, CloseDb, Start, StartWithoutEngine, RunResolves,
         RunRejects, SuccessReported, EpisodeInserted, EpisodeRejected,
         FailureReported, Finally, CancelTask

\* A task in flight has a task object: what the finally block writes to the
\* row is a state and never the absence of one.
HasObject == \A t \in Task : state[t] = "none" => pc[t] \in {"new", "dead"}

LEMMA ObjectStep ==
  ASSUME TypeOK, HasObject, [Next]_vars
  PROVE  HasObject'
<1> USE DEF TypeOK, HasObject
<1>1. CASE UNCHANGED vars
  BY <1>1 DEF vars
<1>2. ASSUME NEW p \in Proc, ProcStep(p)
      PROVE  HasObject'
  <2>1. CASE Shutdown(p)
    BY <2>1 DEF Shutdown
  <2>2. CASE Exit(p)
    BY <2>2 DEF Exit
  <2>3. CASE UNCHANGED <<pc, state>>
    BY <2>3
  <2> QED
    BY <1>2, <2>1, <2>2, <2>3
       DEF ProcStep, Boot, Recover, StopDraining, CloseDb, taskVars
<1>3. ASSUME NEW p \in Proc, NEW t \in Task, Submit(p, t)
      PROVE  HasObject'
  BY <1>3 DEF Submit
<1>4. ASSUME NEW t \in Task, TaskStep(t)
      PROVE  HasObject'
  <2>1. CASE Start(t) \/ RunResolves(t)
    BY <2>1 DEF Start, RunResolves
  <2>2. CASE Fails(t)
    BY <2>2 DEF Fails
  <2>3. CASE pc[t] \in InProcessTask /\ Finally(t)
    BY <2>3 DEF Finally, InProcessTask
  <2>4. CASE EpisodeInserted(t)
    BY <2>4 DEF EpisodeInserted
  <2> QED
    BY <1>4, <2>1, <2>2, <2>3, <2>4
       DEF TaskStep, StartWithoutEngine, RunRejects, SuccessReported,
           EpisodeRejected, FailureReported, InProcessTask
<1>5. ASSUME NEW t \in Task, CancelTask(t)
      PROVE  HasObject'
  BY <1>5 DEF CancelTask
<1> QED
  BY <1>1, <1>2, <1>3, <1>4, <1>5 DEF Next

LEMMA TypeStep ==
  ASSUME TypeOK, QueueSorted, HasObject, [Next]_vars
  PROVE  TypeOK' /\ QueueSorted'
<1>1. CASE UNCHANGED vars
  BY <1>1 DEF vars, TypeOK, QueueSorted
<1>2. CASE Next
  <2> USE DEF TypeOK, Life, KernelState, TaskState, Pc, Persisted
  <2>1. queue' \in [Proc -> Seq(Task)] /\ QueueSorted'
    BY <1>2, QueueType
  <2>2. ASSUME NEW p \in Proc, ProcStep(p)
        PROVE  TypeOK'
    <3>1. CASE Boot(p)
      BY <2>1, <3>1 DEF Boot, taskVars
    <3>2. CASE Recover(p)
      BY <2>1, <3>2 DEF Recover
    <3>3. CASE Shutdown(p)
      BY <2>1, <3>3 DEF Shutdown
    <3>4. CASE StopDraining(p)
      BY <2>1, <3>4 DEF StopDraining, taskVars
    <3>5. CASE CloseDb(p)
      BY <2>1, <3>5 DEF CloseDb, taskVars
    <3>6. CASE Exit(p)
      BY <2>1, <3>6 DEF Exit
    <3> QED
      BY <2>2, <3>1, <3>2, <3>3, <3>4, <3>5, <3>6 DEF ProcStep
  <2>3. ASSUME NEW p \in Proc, NEW t \in Task, Submit(p, t)
        PROVE  TypeOK'
    BY <2>1, <2>3 DEF Submit
  <2>4. ASSUME NEW t \in Task, TaskStep(t)
        PROVE  TypeOK'
    <3>a. ASSUME NEW r \in Seq(BOOLEAN), NEW b \in BOOLEAN
          PROVE  Append(r, b) \in Seq(BOOLEAN)
      OBVIOUS
    <3>b. ASSUME Fails(t)
          PROVE  /\ state' \in [Task -> TaskState \cup {"none"}]
                 /\ db' \in [Task -> TaskState \cup {"absent"}]
                 /\ reports' \in [Task -> Seq(BOOLEAN)]
                 /\ pc' \in [Task -> Pc]
      BY <3>a, <3>b DEF Fails
    <3>c. ASSUME Finally(t), pc[t] \in InProcessTask
          PROVE  TypeOK'
      <4>1. db' \in [Task -> TaskState \cup {"absent"}]
        BY <3>c DEF Finally, HasObject, InProcessTask
      <4> QED
        BY <2>1, <3>c, <4>1 DEF Finally
    <3>1. CASE Start(t)
      BY <2>1, <3>1 DEF Start, Enter
    <3>2. CASE StartWithoutEngine(t)
      BY <2>1, <3>2, <3>b DEF StartWithoutEngine, Enter
    <3>3. CASE RunResolves(t)
      BY <2>1, <3>3, <3>a DEF RunResolves, procVars
    <3>4. CASE RunRejects(t)
      BY <2>1, <3>4, <3>b DEF RunRejects, procVars
    <3>5. CASE SuccessReported(t)
      BY <3>5, <3>c DEF SuccessReported, InProcessTask
    <3>6. CASE EpisodeInserted(t)
      BY <2>1, <3>6 DEF EpisodeInserted, procVars
    <3>7. CASE EpisodeRejected(t)
      BY <2>1, <3>7, <3>b DEF EpisodeRejected, procVars
    <3>8. CASE FailureReported(t)
      BY <3>8, <3>c DEF FailureReported, InProcessTask
    <3> QED
      BY <2>4, <3>1, <3>2, <3>3, <3>4, <3>5, <3>6, <3>7, <3>8
         DEF TaskStep
  <2>5. ASSUME NEW t \in Task, CancelTask(t)
        PROVE  TypeOK'
    BY <2>1, <2>5 DEF CancelTask, procVars
  <2> QED
    BY <1>2, <2>1, <2>2, <2>3, <2>4, <2>5 DEF Next
<1> QED
  BY <1>1, <1>2

TypeInv == TypeOK /\ QueueSorted /\ HasObject

LEMMA TypeInvInit == Init => TypeInv
  BY DEF Init, TypeInv, TypeOK, QueueSorted, HasObject, Sorted, Life,
         KernelState, TaskState, Pc

LEMMA TypeInvStep == TypeInv /\ [Next]_vars => TypeInv'
  BY TypeStep, ObjectStep DEF TypeInv

\* Every variable keeps its type.
THEOREM TypeCorrect == Spec => []TypeOK
<1>1. TypeInv => TypeOK
  BY DEF TypeInv
<1> QED
  BY <1>1, TypeInvInit, TypeInvStep, PTL DEF Spec

\* Every queue is ordered by priority after any interleaving of submissions
\* and of tasks that begin to run (priority-task-queue.ts).
THEOREM QueuesStaySorted == Spec => []QueueSorted
<1>1. TypeInv => QueueSorted
  BY DEF TypeInv
<1> QED
  BY <1>1, TypeInvInit, TypeInvStep, PTL DEF Spec

-----------------------------------------------------------------------------
(***************************************************************************)
(* Where a task is.  The queue, activeTasks and completedTasks of a        *)
(* process are a partition of its tasks by what each submitTask awaits.    *)
(***************************************************************************)

OwnerInv ==
  \A t \in Task :
    /\ owner[t] = NoProc <=> pc[t] = "new"
    /\ pc[t] \notin {"new", "dead"} => Running(owner[t])
    /\ pc[t] = "dead" => life[owner[t]] = "gone"
    /\ owner[t] \in Proc => life[owner[t]] \notin {"off", "booting"}

PlaceInv ==
  \A p \in Proc :
    /\ Distinct(queue[p])
    /\ Queued(queue[p]) = {t \in Task : owner[t] = p /\ pc[t] = "announcing"}
    /\ active[p] = {t \in Task : owner[t] = p /\ pc[t] \in InProcessTask}
    /\ settled[p] = {t \in Task : owner[t] = p /\ pc[t] = "returned"}

\* What the steps of a task after the first share: they leave its place or
\* move it from activeTasks to completedTasks.
InPlace(t) ==
  /\ pc[t] \in InProcessTask
  /\ \E c \in InProcessTask : pc' = [pc EXCEPT ![t] = c]
  /\ UNCHANGED <<life, kstate, queue, active, settled, owner>>

LEMMA TaskStepCases ==
  ASSUME NEW t \in Task, TaskStep(t), TypeOK
  PROVE  \/ Enter(t) /\ \E c \in InProcessTask : pc' = [pc EXCEPT ![t] = c]
         \/ InPlace(t)
         \/ pc[t] \in InProcessTask /\ Finally(t)
<1> USE DEF InProcessTask
<1>1. CASE Start(t)
  BY <1>1 DEF Start
<1>2. CASE StartWithoutEngine(t)
  BY <1>2 DEF StartWithoutEngine, Fails
<1>3. CASE RunResolves(t)
  BY <1>3 DEF RunResolves, InPlace, procVars
<1>4. CASE RunRejects(t)
  BY <1>4 DEF RunRejects, Fails, InPlace, procVars
<1>5. CASE EpisodeInserted(t)
  BY <1>5 DEF EpisodeInserted, InPlace, procVars
<1>6. CASE EpisodeRejected(t)
  BY <1>6 DEF EpisodeRejected, Fails, InPlace, procVars
<1>7. CASE SuccessReported(t) \/ FailureReported(t)
  BY <1>7 DEF SuccessReported, FailureReported
<1> QED
  BY <1>1, <1>2, <1>3, <1>4, <1>5, <1>6, <1>7 DEF TaskStep

LEMMA StepIsOwned ==
  ASSUME TypeOK, OwnerInv, NEW t \in Task, TaskStep(t)
  PROVE  owner[t] \in Proc
<1>1. pc[t] \in InProcessTask \/ pc[t] = "announcing"
  <2>1. CASE Enter(t)
    BY <2>1 DEF Enter
  <2>2. CASE InPlace(t)
    BY <2>2 DEF InPlace
  <2> QED
    BY <2>1, <2>2, TaskStepCases
<1> QED
  BY <1>1 DEF TypeOK, OwnerInv, InProcessTask

LEMMA OwnerStep ==
  ASSUME TypeOK, OwnerInv, [Next]_vars
  PROVE  OwnerInv'
<1> USE DEF TypeOK, OwnerInv, Running
<1>1. CASE UNCHANGED vars
  BY <1>1 DEF vars
<1>2. ASSUME NEW p \in Proc, ProcStep(p)
      PROVE  OwnerInv'
  <2>1. CASE Boot(p)
    BY <2>1 DEF Boot, taskVars
  <2>2. CASE Recover(p)
    BY <2>2 DEF Recover
  <2>3. CASE Shutdown(p)
    BY <2>3 DEF Shutdown
  <2>4. CASE StopDraining(p)
    BY <2>4 DEF StopDraining, taskVars
  <2>5. CASE CloseDb(p)
    BY <2>5 DEF CloseDb, taskVars
  <2>6. CASE Exit(p)
    BY <2>6 DEF Exit
  <2> QED
    BY <1>2, <2>1, <2>2, <2>3, <2>4, <2>5, <2>6 DEF ProcStep
<1>3. ASSUME NEW p \in Proc, NEW t \in Task, Submit(p, t)
      PROVE  OwnerInv'
  BY <1>3 DEF Submit
<1>4. ASSUME NEW t \in Task, TaskStep(t)
      PROVE  OwnerInv'
  <2>1. CASE Enter(t) /\ \E c \in InProcessTask : pc' = [pc EXCEPT ![t] = c]
    BY <2>1 DEF Enter, InProcessTask
  <2>2. CASE InPlace(t)
    BY <2>2 DEF InPlace, InProcessTask
  <2>3. CASE pc[t] \in InProcessTask /\ Finally(t)
    BY <2>3 DEF Finally, InProcessTask
  <2> QED
    BY <1>4, <2>1, <2>2, <2>3, TaskStepCases
<1>5. ASSUME NEW t \in Task, CancelTask(t)
      PROVE  OwnerInv'
  BY <1>5 DEF CancelTask, procVars
<1> QED
  BY <1>1, <1>2, <1>3, <1>4, <1>5 DEF Next

LEMMA PlaceStep ==
  ASSUME TypeOK, QueueSorted, OwnerInv, PlaceInv, [Next]_vars
  PROVE  PlaceInv'
<1> USE DEF TypeOK, PlaceInv
<1>1. CASE UNCHANGED <<queue, active, settled, owner, pc>>
  BY <1>1
<1>2. ASSUME NEW p \in Proc, Exit(p)
      PROVE  PlaceInv'
  <2>1. Distinct(<<>>) /\ Queued(<<>>) = {}
    BY DEF Distinct, Queued
  <2> QED
    BY <1>2, <2>1 DEF Exit, InProcessTask
<1>3. ASSUME NEW p \in Proc, NEW t \in Task, Submit(p, t)
      PROVE  PlaceInv'
  <2>1. owner[t] = NoProc /\ t \notin Queued(queue[p])
    BY <1>3 DEF Submit, OwnerInv
  <2>2. /\ Queued(Enqueue(queue[p], t)) = Queued(queue[p]) \cup {t}
        /\ Distinct(Enqueue(queue[p], t))
    BY <2>1, EnqueueKeepsOrder DEF QueueSorted
  <2> QED
    BY <1>3, <2>1, <2>2 DEF Submit, InProcessTask
<1>4. ASSUME NEW t \in Task, TaskStep(t)
      PROVE  PlaceInv'
  <2>0. owner[t] \in Proc
    BY <1>4, StepIsOwned
  <2>1. CASE Enter(t) /\ \E c \in InProcessTask : pc' = [pc EXCEPT ![t] = c]
    <3>1. /\ Queued(RemoveTask(queue[owner[t]], t))
             = Queued(queue[owner[t]]) \ {t}
          /\ Distinct(RemoveTask(queue[owner[t]], t))
      BY <2>0, RemoveKeepsOrder
    <3> QED
      BY <2>0, <2>1, <3>1 DEF Enter, InProcessTask
  <2>2. CASE InPlace(t)
    BY <2>0, <2>2 DEF InPlace, InProcessTask
  <2>3. CASE pc[t] \in InProcessTask /\ Finally(t)
    BY <2>0, <2>3 DEF Finally, InProcessTask
  <2> QED
    BY <1>4, <2>1, <2>2, <2>3, TaskStepCases
<1> QED
  BY <1>1, <1>2, <1>3, <1>4
     DEF Next, ProcStep, Boot, Recover, Shutdown, StopDraining, CloseDb,
         CancelTask, vars, taskVars, procVars

LEMMA WorkStep ==
  ASSUME TypeOK, OwnerInv, PlaceInv, StateMatchesWork, [Next]_vars
  PROVE  StateMatchesWork'
<1> USE DEF TypeOK, StateMatchesWork
<1>1. CASE UNCHANGED <<kstate, active>>
  BY <1>1
<1>2. ASSUME NEW p \in Proc, ProcStep(p)
      PROVE  StateMatchesWork'
  <2>1. CASE Recover(p)
    <3>1. active[p] = {}
      BY <2>1 DEF Recover, OwnerInv, PlaceInv
    <3> QED
      BY <2>1, <3>1 DEF Recover
  <2>2. CASE Exit(p)
    BY <2>2 DEF Exit
  <2> QED
    BY <1>2, <2>1, <2>2 DEF ProcStep, Boot, Shutdown, StopDraining, CloseDb
<1>3. ASSUME NEW t \in Task, TaskStep(t)
      PROVE  StateMatchesWork'
  <2>0. owner[t] \in Proc
    BY <1>3, StepIsOwned
  <2>1. CASE Enter(t)
    BY <2>0, <2>1 DEF Enter
  <2>2. CASE InPlace(t)
    BY <2>2 DEF InPlace
  <2>3. CASE pc[t] \in InProcessTask /\ Finally(t)
    <3>1. active[owner[t]] # {}
      BY <2>0, <2>3 DEF PlaceInv
    <3> QED
      BY <2>0, <2>3, <3>1 DEF Finally
  <2> QED
    BY <1>3, <2>1, <2>2, <2>3, TaskStepCases
<1> QED
  BY <1>1, <1>2, <1>3 DEF Next, Submit, CancelTask, vars, procVars

LocatedInv == TypeInv /\ OwnerInv /\ PlaceInv /\ StateMatchesWork

LEMMA LocatedInit == Init => LocatedInv
<1>1. Distinct(<<>>) /\ Queued(<<>>) = {}
  BY DEF Distinct, Queued
<1> QED
  BY <1>1, TypeInvInit DEF Init, LocatedInv, OwnerInv, PlaceInv,
     StateMatchesWork, InProcessTask

LEMMA LocatedStep == LocatedInv /\ [Next]_vars => LocatedInv'
  BY TypeInvStep, OwnerStep, PlaceStep, WorkStep DEF LocatedInv, TypeInv

\* The kernel is PROCESSING exactly as long as it works, unless it shuts down.
THEOREM StateTellsWork == Spec => []StateMatchesWork
<1>1. LocatedInv => StateMatchesWork
  BY DEF LocatedInv
<1> QED
  BY <1>1, LocatedInit, LocatedStep, PTL DEF Spec

\* listTasks of a live process returns each of its tasks exactly once.
THEOREM TasksListedOnce == Spec => []ListedOnce
<1>1. LocatedInv => ListedOnce
  <2>1. ASSUME LocatedInv, NEW p \in Proc, Running(p), NEW t \in Task,
               owner[t] = p
        PROVE  pc[t] \in InProcessTask \cup {"announcing", "returned"}
    BY <2>1 DEF LocatedInv, TypeInv, TypeOK, OwnerInv, Pc, InProcessTask,
                Running
  <2> QED
    BY <2>1 DEF LocatedInv, PlaceInv, ListedOnce, InProcessTask
<1> QED
  BY <1>1, LocatedInit, LocatedStep, PTL DEF Spec
-----------------------------------------------------------------------------
(***************************************************************************)
(* Rows.  Whatever other processes do to the shared table, a row that is   *)
(* still to be executed was never settled, and processTask writes its      *)
(* verdict again before submitTask returns.                                *)
(***************************************************************************)

RowInv ==
  \A t \in Task :
    /\ pc[t] = "new" => db[t] = "absent"
    /\ pc[t] = "announcing" => db[t] \in {"absent", "pending"}
    /\ pc[t] \in {"reporting", "recording", "failing", "returned"} =>
         state[t] \in Terminal

LEMMA RowStep ==
  ASSUME LocatedInv, RowInv, [Next]_vars
  PROVE  RowInv' /\ \A t \in Task : db[t] \in Terminal => db'[t] \in Terminal
<1> USE DEF LocatedInv, TypeInv, TypeOK, RowInv, Terminal, Persisted
<1>1. CASE UNCHANGED <<pc, state, db>>
  BY <1>1
<1>2. ASSUME NEW p \in Proc, ProcStep(p)
      PROVE  /\ RowInv'
             /\ \A t \in Task : db[t] \in Terminal => db'[t] \in Terminal
  <2>1. CASE Recover(p)
    BY <2>1 DEF Recover, Interrupted
  <2>2. CASE Shutdown(p)
    <3>1. \A t \in active[p] : pc[t] \in InProcessTask
      BY DEF PlaceInv
    <3> QED
      BY <2>2, <3>1 DEF Shutdown, InProcessTask
  <2>3. CASE Exit(p)
    <3>1. \A t \in Task : owner[t] = p => pc[t] # "new"
      BY DEF OwnerInv
    <3> QED
      BY <2>3, <3>1 DEF Exit
  <2> QED
    BY <1>1, <1>2, <2>1, <2>2, <2>3
       DEF ProcStep, Boot, StopDraining, CloseDb, taskVars
<1>3. ASSUME NEW p \in Proc, NEW t \in Task, Submit(p, t)
      PROVE  /\ RowInv'
             /\ \A u \in Task : db[u] \in Terminal => db'[u] \in Terminal
  BY <1>3 DEF Submit
<1>4. ASSUME NEW t \in Task, TaskStep(t)
      PROVE  /\ RowInv'
             /\ \A u \in Task : db[u] \in Terminal => db'[u] \in Terminal
  <2>1. CASE Start(t)
    BY <2>1 DEF Start, Enter
  <2>2. CASE Fails(t) /\ pc[t] \in InProcessTask \cup {"announcing"}
    BY <2>2 DEF Fails, InProcessTask
  <2>3. CASE RunResolves(t)
    BY <2>3 DEF RunResolves
  <2>4. CASE EpisodeInserted(t)
    BY <2>4 DEF EpisodeInserted
  <2>5. CASE /\ pc[t] \in {"reporting", "recording", "failing"}
             /\ Finally(t)
    BY <2>5 DEF Finally
  <2> QED
    BY <1>4, <2>1, <2>2, <2>3, <2>4, <2>5
       DEF TaskStep, StartWithoutEngine, Enter, RunRejects, SuccessReported,
           EpisodeRejected, FailureReported, InProcessTask
<1>5. ASSUME NEW t \in Task, CancelTask(t)
      PROVE  /\ RowInv'
             /\ \A u \in Task : db[u] \in Terminal => db'[u] \in Terminal
  <2>1. owner[t] \in Proc /\ pc[t] \in InProcessTask
    <3>1. owner[t] \in Proc
      BY <1>5 DEF CancelTask, OwnerInv
    <3> QED
      BY <1>5, <3>1 DEF CancelTask, PlaceInv
  <2> QED
    BY <1>5, <2>1 DEF CancelTask, InProcessTask
<1> QED
  BY <1>1, <1>2, <1>3, <1>4, <1>5 DEF Next, vars

RowsInv == LocatedInv /\ RowInv

LEMMA RowsInit == Init => RowsInv
  BY LocatedInit DEF Init, RowsInv, RowInv

LEMMA RowsStep == RowsInv /\ [Next]_vars => RowsInv'
  BY LocatedStep, RowStep DEF RowsInv

\* No cancel, shutdown, crash or recovery takes a settled row back, however
\* many processes share the table.
THEOREM SettledRowsStay == Spec => TerminalRowsStay
<1>1. RowsInv /\ [Next]_vars =>
        [\A t \in Task : db[t] \in Terminal => db'[t] \in Terminal]_vars
  BY RowStep DEF RowsInv
<1> QED
  BY <1>1, RowsInit, RowsStep, PTL DEF Spec, TerminalRowsStay

LEMMA DurableStep ==
  ASSUME RowsInv, ReturnedIsDurable, [Next]_vars
  PROVE  ReturnedIsDurable'
<1> USE DEF RowsInv, LocatedInv, TypeInv, TypeOK, ReturnedIsDurable
<1>1. CASE UNCHANGED <<life, owner, pc, state, db>>
  BY <1>1 DEF DbOpen, Running
<1>2. ASSUME NEW p \in Proc, ProcStep(p)
      PROVE  ReturnedIsDurable'
  <2>0. ASSUME NEW t \in Task, pc[t] = "returned"
        PROVE  owner[t] \in Proc /\ Running(owner[t]) /\ t \notin active[p]
    <3>1. owner[t] \in Proc /\ Running(owner[t])
      BY <2>0 DEF OwnerInv
    <3>2. t \in active[p] => pc[t] \in InProcessTask
      BY DEF PlaceInv
    <3> QED
      BY <2>0, <3>1, <3>2 DEF InProcessTask
  <2>1. CASE Boot(p)
    BY <2>0, <2>1 DEF Boot, taskVars, DbOpen, Running
  <2>2. CASE Recover(p)
    <3>1. \A t \in Task : pc[t] = "returned" => state[t] \in Terminal
      BY DEF RowInv
    <3> QED
      BY <2>0, <2>2, <3>1
         DEF Recover, DbOpen, Running, Terminal, Interrupted
  <2>3. CASE Shutdown(p)
    BY <2>0, <2>3 DEF Shutdown, DbOpen, Running, Persisted
  <2>4. CASE StopDraining(p)
    BY <2>0, <2>4 DEF StopDraining, taskVars, DbOpen, Running
  <2>5. CASE CloseDb(p)
    BY <2>0, <2>5 DEF CloseDb, taskVars, DbOpen, Running
  <2>6. CASE Exit(p)
    BY <2>0, <2>6 DEF Exit, DbOpen, Running
  <2> QED
    BY <1>2, <2>1, <2>2, <2>3, <2>4, <2>5, <2>6 DEF ProcStep
<1>3. ASSUME NEW p \in Proc, NEW t \in Task, Submit(p, t)
      PROVE  ReturnedIsDurable'
  BY <1>3 DEF Submit, Persisted, DbOpen, Running, OwnerInv
<1>4. ASSUME NEW t \in Task, TaskStep(t)
      PROVE  ReturnedIsDurable'
  <2>0. owner[t] \in Proc
    BY <1>4, StepIsOwned
  <2>1. CASE Start(t)
    BY <2>1 DEF Start, Enter, Persisted, DbOpen, Running
  <2>2. CASE StartWithoutEngine(t)
    BY <2>2 DEF StartWithoutEngine, Enter, Fails, Persisted, DbOpen, Running
  <2>3. CASE RunResolves(t)
    BY <2>3 DEF RunResolves, procVars, Persisted, DbOpen, Running
  <2>4. CASE (RunRejects(t) \/ EpisodeRejected(t)) /\ Fails(t)
    BY <2>4 DEF RunRejects, EpisodeRejected, Fails, procVars, Persisted,
                DbOpen, Running
  <2>5. CASE EpisodeInserted(t)
    BY <2>5 DEF EpisodeInserted, procVars, DbOpen, Running
  <2>6. CASE Finally(t)
    BY <2>6 DEF Finally, Persisted, DbOpen, Running
  <2> QED
    BY <1>4, <2>1, <2>2, <2>3, <2>4, <2>5, <2>6
       DEF TaskStep, RunRejects, SuccessReported, EpisodeRejected,
           FailureReported
<1>5. ASSUME NEW t \in Task, CancelTask(t)
      PROVE  ReturnedIsDurable'
  <2>1. owner[t] \in Proc
    BY <1>5 DEF CancelTask, OwnerInv
  <2>2. pc[t] \in InProcessTask
    BY <1>5, <2>1 DEF CancelTask, PlaceInv
  <2> QED
    BY <1>5, <2>1, <2>2 DEF CancelTask, procVars, Persisted, DbOpen, Running,
       InProcessTask
<1> QED
  BY <1>1, <1>2, <1>3, <1>4, <1>5 DEF Next, vars

\* What submitTask returned is what the row says, whatever came in between.
THEOREM VerdictIsDurable == Spec => []ReturnedIsDurable
<1>1. Init => ReturnedIsDurable
  BY DEF Init, ReturnedIsDurable
<1>2. RowsInv /\ ReturnedIsDurable /\ [Next]_vars => ReturnedIsDurable'
  BY DurableStep
<1> QED
  BY <1>1, <1>2, RowsInit, RowsStep, PTL DEF Spec

-----------------------------------------------------------------------------
(***************************************************************************)
(* What was reported of a task, by what its submitTask call waits for.     *)
(* The outcome of a task is only certain while nobody cancelled it.        *)
(***************************************************************************)

Undisturbed(t, s) == t \notin aborted => state[t] = s

ReportInv ==
  \A t \in Task :
    /\ pc[t] \in {"new", "announcing", "running"} => reports[t] = <<>>
    /\ pc[t] \in {"reporting", "recording"} =>
         reports[t] = <<TRUE>> /\ Undisturbed(t, "completed")
    /\ pc[t] = "failing" =>
         /\ reports[t] \in {<<FALSE>>, <<TRUE, FALSE>>}
         /\ Undisturbed(t, "failed")

OutcomeInv == ReportInv /\ ReportedOutcome

\* The reports a task can have, and that no two of them are the same.
LEMMA Flags ==
  /\ Append(<<>>, TRUE) = <<TRUE>> /\ Append(<<>>, FALSE) = <<FALSE>>
  /\ Append(<<TRUE>>, FALSE) = <<TRUE, FALSE>>
  /\ <<FALSE>> # <<TRUE>> /\ <<TRUE, FALSE>> # <<TRUE>>
<1>1. Append(<<>>, TRUE) = <<TRUE>> /\ Append(<<>>, FALSE) = <<FALSE>>
  <2>1. ASSUME NEW S, NEW a \in S
        PROVE  Append(<<>>, a) = <<a>>
    OBVIOUS
  <2>2. TRUE \in BOOLEAN /\ FALSE \in BOOLEAN
    OBVIOUS
  <2> QED
    BY <2>1, <2>2, Zenon
<1>2. Append(<<TRUE>>, FALSE) = <<TRUE, FALSE>>
  <2>1. \A a, b \in BOOLEAN : Append(<<a>>, b) = <<a, b>>
    BY AppendToOne
  <2> QED
    BY <2>1, Zenon
<1>3. <<FALSE>> # <<TRUE>>
  OBVIOUS
<1>4. <<TRUE, FALSE>> # <<TRUE>>
  OBVIOUS
<1> QED
  BY <1>1, <1>2, <1>3, <1>4

LEMMA OutcomeInit == Init => OutcomeInv
  BY DEF Init, OutcomeInv, ReportInv, ReportedOutcome

LEMMA FailsOutcome ==
  ASSUME TypeOK, OutcomeInv, NEW t \in Task, Fails(t), UNCHANGED aborted,
         pc[t] \in {"announcing", "running", "reporting"}
  PROVE  OutcomeInv'
<1>1. reports'[t] \in {<<FALSE>>, <<TRUE, FALSE>>} /\ state'[t] = "failed"
  BY Flags DEF TypeOK, OutcomeInv, ReportInv, Fails
<1>2. \A u \in Task \ {t} : /\ reports'[u] = reports[u] /\ pc'[u] = pc[u]
                            /\ state'[u] = state[u]
  BY DEF TypeOK, Fails
<1>3. pc'[t] = "failing"
  BY DEF TypeOK, Fails
<1> QED
  BY <1>1, <1>2, <1>3
     DEF OutcomeInv, ReportInv, ReportedOutcome, Undisturbed

LEMMA FinallyOutcome ==
  ASSUME TypeOK, OutcomeInv, NEW t \in Task, Finally(t),
         pc[t] \in {"reporting", "recording", "failing"}
  PROVE  OutcomeInv'
<1>1. /\ reports' = reports /\ state' = state /\ aborted' = aborted
      /\ pc' = [pc EXCEPT ![t] = "returned"]
  BY DEF Finally
<1> QED
  BY <1>1, Flags
     DEF TypeOK, OutcomeInv, ReportInv, ReportedOutcome, Undisturbed

LEMMA OutcomeStep ==
  ASSUME LocatedInv, OutcomeInv, [Next]_vars
  PROVE  OutcomeInv'
<1> USE DEF LocatedInv, TypeInv
<1>1. CASE UNCHANGED <<pc, state, aborted, reports>>
  BY <1>1 DEF OutcomeInv, ReportInv, ReportedOutcome, Undisturbed
<1>2. ASSUME NEW p \in Proc, ProcStep(p)
      PROVE  OutcomeInv'
  <2>1. CASE Shutdown(p)
    BY <2>1
       DEF Shutdown, TypeOK, OutcomeInv, ReportInv, ReportedOutcome,
           Undisturbed
  <2>2. CASE Exit(p)
    BY <2>2
       DEF Exit, TypeOK, OutcomeInv, ReportInv, ReportedOutcome, Undisturbed
  <2> QED
    BY <1>1, <1>2, <2>1, <2>2
       DEF ProcStep, Boot, Recover, StopDraining, CloseDb, taskVars
<1>3. ASSUME NEW p \in Proc, NEW t \in Task, Submit(p, t)
      PROVE  OutcomeInv'
  BY <1>3
     DEF Submit, TypeOK, OutcomeInv, ReportInv, ReportedOutcome, Undisturbed
<1>4. ASSUME NEW t \in Task, TaskStep(t)
      PROVE  OutcomeInv'
  <2>1. CASE Start(t)
    BY <2>1
       DEF Start, Enter, TypeOK, OutcomeInv, ReportInv, ReportedOutcome,
           Undisturbed
  <2>2. CASE StartWithoutEngine(t)
    BY <2>2, FailsOutcome DEF StartWithoutEngine, Enter
  <2>3. CASE RunResolves(t)
    BY <2>3, Flags
       DEF RunResolves, TypeOK, OutcomeInv, ReportInv, ReportedOutcome,
           Undisturbed
  <2>4. CASE RunRejects(t)
    BY <2>4, FailsOutcome DEF RunRejects
  <2>5. CASE SuccessReported(t)
    BY <2>5, FinallyOutcome DEF SuccessReported
  <2>6. CASE EpisodeInserted(t)
    BY <2>6
       DEF EpisodeInserted, TypeOK, OutcomeInv, ReportInv, ReportedOutcome,
           Undisturbed
  <2>7. CASE EpisodeRejected(t)
    BY <2>7, FailsOutcome DEF EpisodeRejected
  <2>8. CASE FailureReported(t)
    BY <2>8, FinallyOutcome DEF FailureReported
  <2> QED
    BY <1>4, <2>1, <2>2, <2>3, <2>4, <2>5, <2>6, <2>7, <2>8 DEF TaskStep
<1>5. ASSUME NEW t \in Task, CancelTask(t)
      PROVE  OutcomeInv'
  BY <1>5
     DEF CancelTask, TypeOK, OutcomeInv, ReportInv, ReportedOutcome,
         Undisturbed
<1> QED
  BY <1>1, <1>2, <1>3, <1>4, <1>5 DEF Next, vars

-----------------------------------------------------------------------------
(***************************************************************************)
(* Processes that run one at a time.                                       *)
(***************************************************************************)

OneAtATime ==
  Exclusive => \A p, q \in Proc : Running(p) /\ Running(q) => p = q

LEMMA OneStep ==
  ASSUME TypeOK, OneAtATime, [Next]_vars
  PROVE  OneAtATime'
<1>1. ASSUME NEW p \in Proc, ProcStep(p)
      PROVE  OneAtATime'
  <2>1. CASE Boot(p)
    BY <2>1 DEF Boot, TypeOK, OneAtATime, Running
  <2>2. ASSUME ~Boot(p)
        PROVE  \A q \in Proc : Running(q)' => Running(q)
    BY <1>1, <2>2
       DEF ProcStep, Recover, Shutdown, StopDraining, CloseDb, Exit, TypeOK,
           Running
  <2> QED
    BY <2>1, <2>2 DEF OneAtATime
<1>2. CASE UNCHANGED life
  BY <1>2 DEF OneAtATime, Running
<1> QED
  BY <1>1, <1>2
     DEF Next, vars, Submit, TaskStep, Start, StartWithoutEngine, Enter,
         RunResolves, RunRejects, SuccessReported, EpisodeInserted,
         EpisodeRejected, FailureReported, Finally, CancelTask, procVars

LEMMA PhantomStep ==
  ASSUME RowsInv, OneAtATime, NoPhantomExecution, [Next]_vars
  PROVE  NoPhantomExecution'
<1> USE DEF RowsInv, LocatedInv, TypeInv, TypeOK
<1> SUFFICES ASSUME Exclusive
             PROVE  NoPhantomExecution'
  BY DEF NoPhantomExecution
<1> USE DEF OneAtATime, NoPhantomExecution
<1>1. CASE UNCHANGED <<life, active, db>>
  BY <1>1
<1>2. ASSUME NEW p \in Proc, ProcStep(p)
      PROVE  NoPhantomExecution'
  <2>1. CASE Boot(p)
    BY <2>1 DEF Boot, taskVars
  <2>2. CASE Recover(p)
    BY <2>2 DEF Recover, Interrupted
  <2>3. CASE Shutdown(p)
    BY <2>3 DEF Shutdown, Persisted
  <2>4. CASE StopDraining(p) \/ CloseDb(p)
    BY <2>4 DEF StopDraining, CloseDb, taskVars
  <2>5. CASE Exit(p)
    BY <2>5 DEF Exit, Running
  <2> QED
    BY <1>2, <2>1, <2>2, <2>3, <2>4, <2>5 DEF ProcStep
<1>3. ASSUME NEW p \in Proc, NEW t \in Task, Submit(p, t)
      PROVE  NoPhantomExecution'
  BY <1>3 DEF Submit, Persisted
<1>4. ASSUME NEW t \in Task, TaskStep(t)
      PROVE  NoPhantomExecution'
  <2>0. owner[t] \in Proc
    BY <1>4, StepIsOwned
  <2>1. CASE Start(t)
    BY <2>0, <2>1 DEF Start, Enter, Persisted, DbOpen, Running
  <2>2. CASE Fails(t) /\ (UNCHANGED <<life, active>> \/ Enter(t))
    <3>1. \A u \in Task : db'[u] = "executing" => db[u] = "executing"
      BY <2>2 DEF Fails, Persisted
    <3>2. life' = life
      BY <2>2 DEF Enter
    <3>3. \A p \in Proc : active[p] \subseteq active'[p]
      <4>1. CASE Enter(t)
        BY <2>0, <4>1 DEF Enter
      <4> QED
        BY <2>2, <4>1
    <3> QED
      BY <3>1, <3>2, <3>3
  <2>3. CASE RunResolves(t)
    BY <2>3 DEF RunResolves, Persisted, procVars
  <2>4. CASE EpisodeInserted(t)
    BY <2>4 DEF EpisodeInserted, procVars
  <2>5. CASE Finally(t) /\ state[t] \in Terminal
    BY <2>0, <2>5 DEF Finally, Persisted, Terminal, DbOpen, Running
  <2>6. SuccessReported(t) \/ FailureReported(t) =>
          Finally(t) /\ state[t] \in Terminal
    BY DEF SuccessReported, FailureReported, RowInv
  <2> QED
    BY <1>4, <2>1, <2>2, <2>3, <2>4, <2>5, <2>6
       DEF TaskStep, StartWithoutEngine, RunRejects, EpisodeRejected, procVars
<1>5. ASSUME NEW t \in Task, CancelTask(t)
      PROVE  NoPhantomExecution'
  BY <1>5 DEF CancelTask, Persisted, procVars
<1> QED
  BY <1>1, <1>2, <1>3, <1>4, <1>5 DEF Next, vars

LEMMA ToldInit == Init => OutcomeInv /\ OneAtATime /\ NoPhantomExecution
  BY OutcomeInit DEF Init, OneAtATime, NoPhantomExecution, Running

\* What subscribers were told last of a task that returned is what became of
\* it, and with one process at a time no row claims that a task runs that
\* does not.
THEOREM TasksToldTruly == Spec => []TasksAreToldTruly
<1> DEFINE Told == OutcomeInv /\ OneAtATime /\ NoPhantomExecution
<1>1. Init => RowsInv /\ Told
  BY RowsInit, ToldInit
<1>2. RowsInv /\ Told /\ [Next]_vars => RowsInv' /\ Told'
  BY RowsStep, OutcomeStep, OneStep, PhantomStep
     DEF RowsInv, LocatedInv, TypeInv
<1>3. Told => TasksAreToldTruly
  BY DEF TasksAreToldTruly, OutcomeInv
<1> HIDE DEF Told
<1> QED
  BY <1>1, <1>2, <1>3, PTL DEF Spec
-----------------------------------------------------------------------------
(***************************************************************************)
(* The durable task table.  A task that a process with an open database    *)
(* owns has a row, and the holder of a row only changes when a process     *)
(* accepts a task, closes its database or ends.                            *)
(***************************************************************************)

HeldInv ==
  \A t \in Task : owner[t] \in Proc /\ DbOpen(owner[t]) => db[t] # "absent"

LEMMA PersistKeeps ==
  ASSUME NEW p, NEW S, NEW s, s # "absent", db' = Persisted(p, S, s),
         NEW t \in Task, db[t] # "absent"
  PROVE  db'[t] # "absent"
  BY DEF Persisted

LEMMA HeldStep ==
  ASSUME RowsInv, HeldInv, [Next]_vars
  PROVE  HeldInv'
<1> USE DEF RowsInv, LocatedInv, TypeInv, TypeOK, HeldInv
<1>1. CASE UNCHANGED <<life, owner, db>>
  BY <1>1 DEF DbOpen, Running
<1>2. ASSUME NEW p \in Proc, ProcStep(p)
      PROVE  HeldInv'
  <2>1. CASE Boot(p)
    <3>1. \A t \in Task : owner[t] # p
      BY <2>1 DEF Boot, OwnerInv
    <3>2. \A t \in Task : owner[t] \in Proc => life'[owner[t]] = life[owner[t]]
      BY <2>1, <3>1 DEF Boot
    <3> QED
      BY <2>1, <3>2 DEF Boot, taskVars, DbOpen, Running
  <2>2. CASE Recover(p)
    BY <2>2 DEF Recover, DbOpen, Running
  <2>3. CASE Shutdown(p)
    BY <2>3 DEF Shutdown, Persisted, DbOpen, Running
  <2>4. CASE StopDraining(p)
    BY <2>4 DEF StopDraining, taskVars, DbOpen, Running
  <2>5. CASE CloseDb(p)
    BY <2>5 DEF CloseDb, taskVars, DbOpen, Running
  <2>6. CASE Exit(p)
    BY <2>6 DEF Exit, DbOpen, Running
  <2> QED
    BY <1>2, <2>1, <2>2, <2>3, <2>4, <2>5, <2>6 DEF ProcStep
<1>3. ASSUME NEW p \in Proc, NEW t \in Task, Submit(p, t)
      PROVE  HeldInv'
  BY <1>3 DEF Submit, Persisted, DbOpen, Running
<1>4. ASSUME NEW t \in Task, TaskStep(t) \/ CancelTask(t)
      PROVE  HeldInv'
  <2>1. UNCHANGED <<life, owner>>
    BY <1>4
       DEF TaskStep, Start, StartWithoutEngine, Enter, RunResolves,
           RunRejects, SuccessReported, EpisodeInserted, EpisodeRejected,
           FailureReported, Finally, CancelTask, procVars
  <2>2. \A u \in Task : db[u] # "absent" => db'[u] # "absent"
    <3>1. CASE \E s \in TaskState : db' = Persisted(owner[t], {t}, s)
      BY <3>1, PersistKeeps DEF TaskState
    <3>2. CASE SuccessReported(t) \/ FailureReported(t)
      <4>1. Finally(t) /\ state[t] # "none"
        BY <3>2 DEF SuccessReported, FailureReported, HasObject
      <4> QED
        BY <3>1, <4>1 DEF Finally
    <3>3. CASE EpisodeInserted(t)
      BY <3>3 DEF EpisodeInserted
    <3> QED
      BY <1>4, <3>1, <3>2, <3>3
         DEF TaskStep, Start, StartWithoutEngine, RunResolves, RunRejects,
             EpisodeRejected, Fails, CancelTask, TaskState
  <2> QED
    BY <2>1, <2>2 DEF DbOpen, Running
<1> QED
  BY <1>1, <1>2, <1>3, <1>4 DEF Next, vars

DurableInv == RowsInv /\ OneAtATime /\ HeldInv

LEMMA DurableInvInit == Init => DurableInv
  BY RowsInit DEF Init, DurableInv, OneAtATime, HeldInv, Running

LEMMA DurableInvStep == DurableInv /\ [Next]_vars => DurableInv'
  BY RowsStep, OneStep, HeldStep
     DEF DurableInv, RowsInv, LocatedInv, TypeInv

\* What a step that writes the row of a task with a holder, or of a task
\* whose database is closed, is for the table.
LEMMA PersistIsSettle ==
  ASSUME DurableInv, NEW p \in Proc, NEW S \in SUBSET Task,
         \A t \in S : owner[t] = p, NEW s \in Terminal,
         db' = Persisted(p, S, s), UNCHANGED <<owner, Holder>>
  PROVE  [Durable!Next]_(Durable!vars)
<1> USE DEF DurableInv, RowsInv, LocatedInv, TypeInv, TypeOK
<1>1. CASE DbOpen(p)
  <2>1. \A t \in S : Holder[t] # NoProc /\ Row[t] # "absent"
    BY <1>1 DEF Holder, Row, HeldInv, DbOpen, Running
  <2>2. Row' = [t \in Task |-> IF t \in S THEN "settled" ELSE Row[t]]
    BY <1>1 DEF Row, Persisted
  <2>3. Durable!Settle(S)
    BY <2>1, <2>2 DEF Durable!Settle
  <2> QED
    BY <2>3 DEF Durable!Next
<1>2. CASE ~DbOpen(p)
  <2>1. Row' = Row
    BY <1>2 DEF Row, Persisted
  <2> QED
    BY <2>1 DEF Durable!vars
<1> QED
  BY <1>1, <1>2

LEMMA ProcStepImplements ==
  ASSUME DurableInv, Exclusive, NEW p \in Proc, ProcStep(p)
  PROVE  [Durable!Next]_(Durable!vars)
<1> USE DEF DurableInv, RowsInv, LocatedInv, TypeInv, TypeOK
<1>1. CASE Boot(p)
  <2>1. \A t \in Task : owner[t] # p
    BY <1>1 DEF Boot, OwnerInv
  <2>2. Holder' = Holder
    BY <1>1, <2>1 DEF Boot, taskVars, Holder, DbOpen, Running
  <2>3. Row' = Row
    BY <1>1 DEF Boot, taskVars, Row
  <2> QED
    BY <2>2, <2>3 DEF Durable!vars
<1>2. CASE Recover(p)
  <2>1. \A t \in Task : owner[t] \in Proc => ~DbOpen(owner[t])
    <3> SUFFICES ASSUME NEW t \in Task, owner[t] \in Proc, DbOpen(owner[t])
                 PROVE  FALSE
      OBVIOUS
    <3>1. owner[t] = p
      BY <1>2 DEF Recover, OneAtATime, DbOpen, Running
    <3> QED
      BY <1>2, <3>1 DEF Recover, OwnerInv
  <2>2. Holder = [t \in Task |-> NoProc] /\ Holder' = Holder
    BY <1>2, <2>1 DEF Recover, Holder, DbOpen, Running, OwnerInv
  <2>3. Row' = [t \in Task |-> IF Row[t] = "executing" THEN "pending"
                               ELSE Row[t]]
    BY <1>2 DEF Recover, Interrupted, Row, Terminal, TaskState
  <2>4. Durable!Recover
    BY <2>2, <2>3 DEF Durable!Recover
  <2> QED
    BY <2>4 DEF Durable!Next
<1>3. CASE Shutdown(p)
  <2>1. \A t \in active[p] : owner[t] = p
    BY DEF PlaceInv
  <2>2. Holder' = Holder
    BY <1>3 DEF Shutdown, Holder, DbOpen, Running
  <2> QED
    BY <1>3, <2>1, <2>2, PersistIsSettle DEF Shutdown, Terminal
<1>4. CASE StopDraining(p)
  <2>1. Holder' = Holder
    BY <1>4 DEF StopDraining, taskVars, Holder, DbOpen, Running
  <2> QED
    BY <1>4, <2>1 DEF StopDraining, taskVars, Row, Durable!vars
<1>5. CASE CloseDb(p) \/ Exit(p)
  <2>1. Holder' = [t \in Task |-> IF Holder[t] = p THEN NoProc ELSE Holder[t]]
    BY <1>5 DEF CloseDb, Exit, taskVars, Holder, DbOpen, Running
  <2>2. Row' = Row
    BY <1>5 DEF CloseDb, Exit, taskVars, Row
  <2>3. Durable!Release(p)
    BY <2>1, <2>2 DEF Durable!Release
  <2> QED
    BY <2>3 DEF Durable!Next
<1> QED
  BY <1>1, <1>2, <1>3, <1>4, <1>5 DEF ProcStep

LEMMA SubmitImplements ==
  ASSUME DurableInv, NEW p \in Proc, NEW t \in Task, Submit(p, t)
  PROVE  [Durable!Next]_(Durable!vars)
<1> USE DEF DurableInv, RowsInv, LocatedInv, TypeInv, TypeOK
<1>0. owner[t] = NoProc /\ db[t] = "absent"
  BY DEF Submit, OwnerInv, RowInv
<1>1. CASE DbOpen(p)
  <2>1. Holder' = [Holder EXCEPT ![t] = p]
    BY <1>1 DEF Submit, Holder, DbOpen, Running
  <2>2. Row[t] = "absent" /\ Row' = [Row EXCEPT ![t] = "pending"]
    BY <1>0, <1>1 DEF Submit, Persisted, Row, Terminal, DbOpen, Running
  <2>3. Durable!Accept(p, t)
    BY <2>1, <2>2 DEF Durable!Accept
  <2> QED
    BY <2>3 DEF Durable!Next
<1>2. CASE ~DbOpen(p)
  <2>1. Holder' = Holder
    BY <1>0, <1>2 DEF Submit, Holder, DbOpen, Running
  <2>2. Row' = Row
    BY <1>2 DEF Submit, Persisted, Row
  <2> QED
    BY <2>1, <2>2 DEF Durable!vars
<1> QED
  BY <1>1, <1>2

LEMMA TaskStepImplements ==
  ASSUME DurableInv, NEW t \in Task, TaskStep(t) \/ CancelTask(t)
  PROVE  [Durable!Next]_(Durable!vars)
<1> USE DEF DurableInv, RowsInv, LocatedInv, TypeInv, TypeOK
<1>0. owner[t] \in Proc
  BY StepIsOwned DEF CancelTask, OwnerInv
<1>1. UNCHANGED <<life, owner>>
  BY DEF TaskStep, Start, StartWithoutEngine, Enter, RunResolves, RunRejects,
         SuccessReported, EpisodeInserted, EpisodeRejected, FailureReported,
         Finally, CancelTask, procVars
<1>2. Holder' = Holder
  BY <1>1 DEF Holder, DbOpen, Running
<1>3. CASE Start(t)
  <2>1. CASE DbOpen(owner[t])
    <3>1. db[t] = "pending"
      BY <1>0, <1>3, <2>1 DEF Start, Enter, RowInv, HeldInv
    <3>2. Holder[t] # NoProc /\ Row[t] = "pending"
      BY <1>0, <2>1, <3>1 DEF Holder, Row, Terminal, DbOpen, Running
    <3>3. Row' = [Row EXCEPT ![t] = "executing"]
      BY <1>3, <2>1 DEF Start, Row, Persisted, Terminal
    <3>4. Durable!Begin(t)
      BY <1>2, <3>2, <3>3 DEF Durable!Begin
    <3> QED
      BY <3>4 DEF Durable!Next
  <2>2. CASE ~DbOpen(owner[t])
    <3>1. Row' = Row
      BY <1>3, <2>2 DEF Start, Persisted, Row
    <3> QED
      BY <1>2, <3>1 DEF Durable!vars
  <2> QED
    BY <2>1, <2>2
<1>4. CASE \E s \in Terminal : db' = Persisted(owner[t], {t}, s)
  BY <1>0, <1>1, <1>2, <1>4, PersistIsSettle
<1>5. CASE EpisodeInserted(t)
  <2>1. Row' = Row
    BY <1>5 DEF EpisodeInserted, Row
  <2> QED
    BY <1>2, <2>1 DEF Durable!vars
<1>6. CASE SuccessReported(t) \/ FailureReported(t)
  <2>1. Finally(t) /\ state[t] \in Terminal
    BY <1>6 DEF SuccessReported, FailureReported, RowInv
  <2> QED
    BY <1>4, <2>1 DEF Finally
<1> QED
  BY <1>3, <1>4, <1>5, <1>6
     DEF TaskStep, StartWithoutEngine, RunResolves, RunRejects, Fails,
         EpisodeRejected, CancelTask, Terminal

\* With one process at a time the kernel implements the durable task table:
\* only the process that accepted a task moves its row, and only forward.
THEOREM KernelIsDurable == Exclusive => (Spec => ImplementsDurableTasks)
<1> SUFFICES ASSUME Exclusive
             PROVE  Spec => ImplementsDurableTasks
  OBVIOUS
<1>1. Init => Durable!Init
  BY DEF Init, Durable!Init, Row, Holder, Terminal
<1>2. DurableInv /\ [Next]_vars => [Durable!Next]_(Durable!vars)
  <2> SUFFICES ASSUME DurableInv, [Next]_vars
               PROVE  [Durable!Next]_(Durable!vars)
    OBVIOUS
  <2>1. CASE UNCHANGED vars
    BY <2>1 DEF vars, Durable!vars, Row, Holder, DbOpen, Running
  <2>2. CASE Next
    BY <2>2, ProcStepImplements, SubmitImplements, TaskStepImplements
       DEF Next
  <2> QED
    BY <2>1, <2>2
<1> QED
  BY <1>1, <1>2, DurableInvInit, DurableInvStep, PTL
     DEF Spec, ImplementsDurableTasks, Durable!Spec

-----------------------------------------------------------------------------
(***************************************************************************)
(* The servers call the kernel and touch nothing of it: every step of the  *)
(* composition is a step of the kernel or leaves it as it is.              *)
(***************************************************************************)

LEMMA GatewayStepIsKernelStep == [GatewayNext]_allVars => [Next]_vars
<1>1. CASE UNCHANGED allVars
  BY <1>1 DEF allVars
<1>2. CASE KernelStep
  BY <1>2 DEF KernelStep, Next, ProcStep
<1>3. ASSUME NEW p \in Proc, ShutdownAfter(p) \/ ExitHangsUp(p)
      PROVE  [Next]_vars
  BY <1>3 DEF ShutdownAfter, ExitHangsUp, Next, ProcStep
<1>4. ASSUME NEW p \in Proc, NEW t \in Task, PostTask(p, t) \/ SendTask(p, t)
      PROVE  [Next]_vars
  BY <1>4 DEF PostTask, SendTask, Next
<1>5. CASE UNCHANGED vars
  BY <1>5
<1> QED
  BY <1>1, <1>2, <1>3, <1>4, <1>5
     DEF GatewayNext, StartServers, Interrupt, StopServers, SocketsGone,
         RequestsGone, Answer, HangUp

\* With or without the servers in front of it, the kernel is the one that the
\* theorems of AgentKernelProofs are about.
THEOREM GatewayKeepsKernel == GatewaySpec => Spec
<1>1. GatewayInit => Init
  BY DEF GatewayInit
<1> QED
  BY <1>1, GatewayStepIsKernelStep, PTL DEF GatewaySpec, Spec
-----------------------------------------------------------------------------
(***************************************************************************)
(* A task that was returned is left alone: its row and its object keep     *)
(* what they say for as long as there is a process to ask.                 *)
(***************************************************************************)

Over == {"returned", "dead"}

LEMMA SettledIsLeftAlone ==
  ASSUME RowsInv, [Next]_vars, NEW t \in Task, pc[t] \in Over,
         db[t] \in Terminal
  PROVE  /\ pc'[t] \in Over
         /\ db'[t] = db[t]
         /\ pc'[t] = "returned" => pc[t] = "returned" /\ state'[t] = state[t]
         /\ owner'[t] = owner[t]
<1> USE DEF RowsInv, LocatedInv, TypeInv, TypeOK, Over, Terminal, Persisted,
            InProcessTask
<1>1. CASE UNCHANGED <<pc, state, db, owner>>
  BY <1>1
<1>a. ASSUME NEW p \in Proc
      PROVE  t \notin active[p]
  BY DEF PlaceInv
<1>2. ASSUME NEW p \in Proc, ProcStep(p), ~ UNCHANGED <<pc, state, db, owner>>
      PROVE  /\ pc'[t] \in Over
             /\ db'[t] = db[t]
             /\ pc'[t] = "returned" => pc[t] = "returned" /\ state'[t] = state[t]
             /\ owner'[t] = owner[t]
  <2>1. CASE Recover(p)
    BY <2>1 DEF Recover, Interrupted
  <2>2. CASE Shutdown(p)
    BY <2>2, <1>a DEF Shutdown
  <2>3. CASE Exit(p)
    BY <2>3 DEF Exit
  <2> QED
    BY <1>2, <2>1, <2>2, <2>3
       DEF ProcStep, Boot, StopDraining, CloseDb, taskVars
<1>3. ASSUME NEW p \in Proc, NEW u \in Task, Submit(p, u)
      PROVE  /\ pc'[t] = pc[t] /\ db'[t] = db[t]
             /\ state'[t] = state[t] /\ owner'[t] = owner[t]
  BY <1>3 DEF Submit
<1>4. ASSUME NEW u \in Task, TaskStep(u)
      PROVE  /\ pc'[t] = pc[t] /\ db'[t] = db[t]
             /\ state'[t] = state[t] /\ owner'[t] = owner[t]
  <2>1. CASE Start(u)
    BY <2>1 DEF Start, Enter
  <2>2. CASE Fails(u) /\ owner' = owner /\ pc[u] \notin Over
    BY <2>2 DEF Fails
  <2>3. CASE RunResolves(u)
    BY <2>3 DEF RunResolves
  <2>4. CASE EpisodeInserted(u)
    BY <2>4 DEF EpisodeInserted
  <2>5. CASE Finally(u) /\ pc[u] \notin Over
    BY <2>5 DEF Finally
  <2> QED
    BY <1>4, <2>1, <2>2, <2>3, <2>4, <2>5
       DEF TaskStep, StartWithoutEngine, Enter, RunRejects, SuccessReported,
           EpisodeRejected, FailureReported
<1>5. ASSUME NEW u \in Task, CancelTask(u)
      PROVE  /\ pc'[t] = pc[t] /\ db'[t] = db[t]
             /\ state'[t] = state[t] /\ owner'[t] = owner[t]
  <2>1. owner[u] \in Proc
    BY <1>5 DEF CancelTask, OwnerInv
  <2>2. u # t
    BY <1>5, <1>a, <2>1 DEF CancelTask
  <2> QED
    BY <1>5, <2>2 DEF CancelTask
<1> QED
  BY <1>1, <1>2, <1>3, <1>4, <1>5 DEF Next, vars
-----------------------------------------------------------------------------
(***************************************************************************)
(* While a client waits its process has its servers up, and while it has   *)
(* them up nothing of the kernel is shut down: so the answer is sent while *)
(* the row can be written.                                                 *)
(***************************************************************************)

Up == {"serving", "interrupted", "leaving", "closing"}

GateInv ==
  /\ \A p \in Proc : gate[p] \in Up => life[p] = "up"
  /\ \A t \in Task :
       /\ pc[t] = "new" => client[t] = "nobody"
       /\ client[t] = "request" => gate[owner[t]] \in Up
       /\ client[t] = "message" => gate[owner[t]] \in {"serving", "interrupted"}

ToldInv ==
  \A t \in Task : client[t] \in Terminal =>
    /\ pc[t] \in Over
    /\ db[t] = client[t]
    /\ pc[t] = "returned" => state[t] = client[t]

AnswerInv ==
  RowsInv /\ ReturnedIsDurable /\ GatewayTypeOK /\ GateInv /\ ToldInv

LEMMA AnswerInit == GatewayInit => AnswerInv
<1> SUFFICES ASSUME GatewayInit PROVE AnswerInv
  OBVIOUS
<1>1. RowsInv /\ ReturnedIsDurable
  BY RowsInit DEF GatewayInit, Init, ReturnedIsDurable
<1> QED
  BY <1>1 DEF GatewayInit, Init, AnswerInv, GatewayTypeOK, Gate, Client, GateInv,
              Up, ToldInv, Terminal

LEMMA GateTypeStep ==
  ASSUME AnswerInv, [GatewayNext]_allVars
  PROVE  GatewayTypeOK'
<1> USE DEF AnswerInv, GatewayTypeOK
<1>1. ASSUME NEW t \in Task, Answer(t)
      PROVE  GatewayTypeOK'
  <2>1. state[t] \in Terminal
    BY <1>1 DEF Answer, RowsInv, RowInv
  <2> QED
    BY <1>1, <2>1 DEF Answer, Client
<1>2. ASSUME NEW p \in Proc, StopServers(p) \/ ExitHangsUp(p)
      PROVE  GatewayTypeOK'
  BY <1>2 DEF StopServers, ExitHangsUp, Client, Gate
<1>3. ASSUME NEW p \in Proc, NEW t \in Task, PostTask(p, t) \/ SendTask(p, t)
      PROVE  GatewayTypeOK'
  BY <1>3 DEF PostTask, SendTask, Client, Waits
<1>4. ASSUME NEW p \in Proc,
             StartServers(p) \/ Interrupt(p) \/ SocketsGone(p) \/ RequestsGone(p)
      PROVE  GatewayTypeOK'
  BY <1>4 DEF StartServers, Interrupt, SocketsGone, RequestsGone, Gate
<1>5. CASE UNCHANGED gateVars
  BY <1>5 DEF gateVars
<1>6. ASSUME NEW t \in Task, HangUp(t)
      PROVE  GatewayTypeOK'
  BY <1>6 DEF HangUp, Client
<1> QED
  BY <1>1, <1>2, <1>3, <1>4, <1>5, <1>6
     DEF GatewayNext, KernelStep, ShutdownAfter, allVars

\* A step of the kernel that is neither a shutdown nor an end leaves a process
\* that is up as it is, and the submissions that there are.
LEMMA KernelStepKeeps ==
  ASSUME AnswerInv, KernelStep
  PROVE  /\ \A p \in Proc : life[p] = "up" => life'[p] = "up"
         /\ \A t \in Task : /\ pc'[t] = "new" => pc[t] = "new"
                            /\ client[t] # "nobody" => owner'[t] = owner[t]
<1> USE DEF AnswerInv, RowsInv, LocatedInv, TypeInv, TypeOK, GateInv
<1>1. ASSUME NEW p \in Proc,
             Boot(p) \/ Recover(p) \/ StopDraining(p) \/ CloseDb(p)
      PROVE  /\ \A q \in Proc : life[q] = "up" => life'[q] = "up"
             /\ UNCHANGED <<pc, owner>>
  BY <1>1 DEF Boot, Recover, StopDraining, CloseDb, taskVars
<1>2. ASSUME NEW p \in Proc, NEW u \in Task, Submit(p, u)
      PROVE  /\ UNCHANGED life
             /\ \A t \in Task : /\ pc'[t] = "new" => pc[t] = "new"
                                /\ client[t] # "nobody" => owner'[t] = owner[t]
  BY <1>2 DEF Submit
<1>3. ASSUME NEW u \in Task, TaskStep(u) \/ CancelTask(u)
      PROVE  /\ UNCHANGED <<life, owner>>
             /\ \A t \in Task : pc'[t] = "new" => pc[t] = "new"
  <2>1. CASE TaskStep(u)
    <3>1. CASE Enter(u) /\ \E c \in InProcessTask : pc' = [pc EXCEPT ![u] = c]
      BY <3>1 DEF Enter, InProcessTask
    <3>2. CASE InPlace(u)
      BY <3>2 DEF InPlace, InProcessTask
    <3>3. CASE Finally(u)
      BY <3>3 DEF Finally
    <3> QED
      BY <2>1, <3>1, <3>2, <3>3, TaskStepCases
  <2>2. CASE CancelTask(u)
    BY <2>2 DEF CancelTask, procVars
  <2> QED
    BY <1>3, <2>1, <2>2
<1> QED
  BY <1>1, <1>2, <1>3 DEF KernelStep

LEMMA GateStep ==
  ASSUME AnswerInv, [GatewayNext]_allVars
  PROVE  GateInv'
<1> USE DEF AnswerInv, RowsInv, LocatedInv, TypeInv, TypeOK, GatewayTypeOK,
            GateInv, Up
<1>0. \A t \in Task : client[t] \in Waits => owner[t] \in Proc
  <2> SUFFICES ASSUME NEW t \in Task, client[t] \in Waits
               PROVE  owner[t] \in Proc
    OBVIOUS
  <2>1. pc[t] # "new"
    BY DEF Waits
  <2> QED
    BY <2>1 DEF OwnerInv
<1>1. CASE UNCHANGED allVars
  BY <1>1 DEF allVars, vars, gateVars
<1>2. CASE KernelStep
  BY <1>2, KernelStepKeeps DEF KernelStep, gateVars
<1>3. ASSUME NEW p \in Proc,
             StartServers(p) \/ Interrupt(p) \/ StopServers(p)
               \/ SocketsGone(p) \/ RequestsGone(p)
      PROVE  GateInv'
  <2>1. UNCHANGED vars
    BY <1>3 DEF StartServers, Interrupt, StopServers, SocketsGone, RequestsGone
  <2>2. CASE StartServers(p)
    BY <2>1, <2>2 DEF StartServers, vars
  <2>3. CASE Interrupt(p)
    BY <2>1, <2>3 DEF Interrupt, vars
  <2>4. CASE StopServers(p)
    BY <2>1, <2>4 DEF StopServers, vars
  <2>5. CASE SocketsGone(p)
    BY <2>1, <2>5 DEF SocketsGone, vars
  <2>6. CASE RequestsGone(p)
    BY <2>1, <2>6, <1>0 DEF RequestsGone, Waits, vars
  <2> QED
    BY <1>3, <2>2, <2>3, <2>4, <2>5, <2>6
<1>4. ASSUME NEW p \in Proc, ShutdownAfter(p)
      PROVE  GateInv'
  BY <1>4, <1>0 DEF ShutdownAfter, Shutdown, gateVars, Waits
<1>5. ASSUME NEW p \in Proc, ExitHangsUp(p)
      PROVE  GateInv'
  <2>1. \A t \in Task : pc'[t] = "new" => client'[t] = "nobody"
    BY <1>5 DEF ExitHangsUp, Exit
  <2>2. \A t \in Task : client'[t] \in Waits =>
          owner[t] # p /\ client'[t] = client[t]
    BY <1>5 DEF ExitHangsUp, Waits
  <2>3. \A t \in Task : client'[t] \in Waits => gate'[owner'[t]] = gate[owner[t]]
    BY <1>5, <1>0, <2>2 DEF ExitHangsUp, Exit
  <2>4. \A q \in Proc : gate'[q] \in Up => life'[q] = "up"
    BY <1>5 DEF ExitHangsUp, Exit
  <2>5. \A t \in Task : client'[t] = "request" => gate'[owner'[t]] \in Up
    <3> SUFFICES ASSUME NEW t \in Task, client'[t] = "request"
                 PROVE  gate'[owner'[t]] \in Up
      OBVIOUS
    <3>1. client[t] = "request" /\ gate'[owner'[t]] = gate[owner[t]]
      BY <2>2, <2>3 DEF Waits
    <3> QED
      BY <3>1
  <2>6. \A t \in Task : client'[t] = "message" =>
          gate'[owner'[t]] \in {"serving", "interrupted"}
    <3> SUFFICES ASSUME NEW t \in Task, client'[t] = "message"
                 PROVE  gate'[owner'[t]] \in {"serving", "interrupted"}
      OBVIOUS
    <3>1. client[t] = "message" /\ gate'[owner'[t]] = gate[owner[t]]
      BY <2>2, <2>3 DEF Waits
    <3> QED
      BY <3>1
  <2> QED
    BY <2>1, <2>4, <2>5, <2>6
<1>6. ASSUME NEW p \in Proc, NEW t \in Task, PostTask(p, t) \/ SendTask(p, t)
      PROVE  GateInv'
  <2>1. /\ UNCHANGED <<life, gate>>
        /\ owner' = [owner EXCEPT ![t] = p]
        /\ pc' = [pc EXCEPT ![t] = "announcing"]
        /\ gate[p] \in Listening \cup {"closing"}
    BY <1>6 DEF PostTask, SendTask, Submit
  <2>2. \/ client' = [client EXCEPT ![t] = "request"]
        \/ client' = [client EXCEPT ![t] = "nobody"]
        \/ /\ client' = [client EXCEPT ![t] = "message"]
           /\ gate[p] \in {"serving", "interrupted"}
    BY <1>6 DEF PostTask, SendTask, Listening
  <2> QED
    BY <2>1, <2>2 DEF Listening
<1>7. ASSUME NEW t \in Task, Answer(t)
      PROVE  GateInv'
  <2>1. state[t] \in Terminal
    BY <1>7 DEF Answer, RowInv
  <2> QED
    BY <1>7, <2>1 DEF Answer, vars, Terminal
<1>8. ASSUME NEW t \in Task, HangUp(t)
      PROVE  GateInv'
  BY <1>8 DEF HangUp, vars
<1> QED
  BY <1>1, <1>2, <1>3, <1>4, <1>5, <1>6, <1>7, <1>8 DEF GatewayNext

LEMMA ToldStep ==
  ASSUME AnswerInv, [GatewayNext]_allVars
  PROVE  ToldInv'
<1> USE DEF AnswerInv, ToldInv, GatewayTypeOK
<1>1. ASSUME NEW t \in Task, client'[t] \in Terminal, client[t] \in Terminal,
             client'[t] = client[t]
      PROVE  /\ pc'[t] \in Over
             /\ db'[t] = client'[t]
             /\ pc'[t] = "returned" => state'[t] = client'[t]
  BY <1>1, GatewayStepIsKernelStep, SettledIsLeftAlone
<1>2. ASSUME NEW t \in Task, Answer(t)
      PROVE  /\ pc'[t] \in Over
             /\ db'[t] = client'[t]
             /\ pc'[t] = "returned" => state'[t] = client'[t]
  <2>1. owner[t] \in Proc /\ gate[owner[t]] \in Up
    <3>1. pc[t] = "returned"
      BY <1>2 DEF Answer
    <3>2. owner[t] \in Proc
      BY <3>1 DEF RowsInv, LocatedInv, TypeInv, TypeOK, OwnerInv
    <3> QED
      BY <1>2, <3>2 DEF Answer, Waits, GateInv, Up
  <2>2. DbOpen(owner[t])
    BY <2>1 DEF GateInv, DbOpen, Running
  <2>3. db[t] = state[t]
    BY <1>2, <2>2 DEF Answer, ReturnedIsDurable
  <2> QED
    BY <1>2, <2>3 DEF Answer, vars, Over
<1>3. ASSUME NEW t \in Task, client'[t] \in Terminal
      PROVE  client'[t] = client[t] \/ Answer(t)
  <2>1. CASE UNCHANGED gateVars
    BY <2>1 DEF gateVars
  <2>2. ASSUME NEW p \in Proc, StopServers(p) \/ ExitHangsUp(p)
        PROVE  client'[t] = client[t]
    BY <1>3, <2>2 DEF StopServers, ExitHangsUp, Terminal
  <2>3. ASSUME NEW p \in Proc, NEW u \in Task, PostTask(p, u) \/ SendTask(p, u)
        PROVE  client'[t] = client[t]
    BY <1>3, <2>3 DEF PostTask, SendTask, Terminal
  <2>4. ASSUME NEW u \in Task, Answer(u), u # t
        PROVE  client'[t] = client[t]
    BY <2>4 DEF Answer
  <2>5. CASE UNCHANGED client
    BY <2>5
  <2>6. ASSUME NEW u \in Task, HangUp(u)
        PROVE  client'[t] = client[t]
    BY <1>3, <2>6 DEF HangUp, Terminal
  <2> QED
    BY <2>1, <2>2, <2>3, <2>4, <2>5, <2>6
       DEF GatewayNext, KernelStep, ShutdownAfter, StartServers, Interrupt,
           SocketsGone, RequestsGone, allVars
<1> QED
  BY <1>1, <1>2, <1>3

LEMMA AnswerStep == AnswerInv /\ [GatewayNext]_allVars => AnswerInv'
  BY GatewayStepIsKernelStep, RowsStep, DurableStep, GateTypeStep, GateStep,
     ToldStep DEF AnswerInv

\* What a client was told of its task is what every process answers ever after,
\* whoever stops, dies or starts.
THEOREM AnswersStay == GatewaySpec => []AnswersAreDurable
<1>1. AnswerInv => AnswersAreDurable
  <2> SUFFICES ASSUME AnswerInv, NEW t \in Task, client[t] \in Terminal,
                      NEW p \in Proc
               PROVE  GetTask(p, t) = client[t]
    BY DEF AnswersAreDurable
  <2>1. t \notin active[p]
    BY DEF AnswerInv, ToldInv, Over, RowsInv, LocatedInv, PlaceInv, InProcessTask
  <2>2. t \in settled[p] => pc[t] = "returned"
    BY DEF AnswerInv, RowsInv, LocatedInv, PlaceInv
  <2> QED
    BY <2>1, <2>2 DEF AnswerInv, ToldInv, GetTask
<1> QED
  BY <1>1, AnswerInit, AnswerStep, PTL DEF GatewaySpec
=============================================================================
