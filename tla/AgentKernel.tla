---------------------------- MODULE AgentKernel ----------------------------
(***************************************************************************)
(* The agent kernel (packages/kernel/src/agent-kernel.ts) as the runtime   *)
(* of packages/cli/src/index.ts uses it: one kernel object per operating   *)
(* system process, and one SQLite file that the processes started one      *)
(* after the other, or side by side, share.                                *)
(*                                                                         *)
(* A process runs JavaScript: the code between two awaits is one atomic    *)
(* step, and whatever is not awaited yet can run between two of them.  An  *)
(* action is therefore one such segment of boot, shutdown, submitTask or   *)
(* processTask, named for what made the awaited promise settle.            *)
(***************************************************************************)
EXTENDS TaskQueue

CONSTANTS Proc,       \* the operating system processes, each run once
          NoProc,     \* the owner of a task nobody has submitted
          Engine,     \* the processes whose kernel has a reasoning engine
          Memory,     \* the processes whose kernel has a memory system
          Exclusive   \* does a process start only when no other one runs?

ASSUME KernelAssumption ==
  /\ NoProc \notin Proc
  /\ Engine \subseteq Proc
  /\ Memory \subseteq Proc
  /\ Exclusive \in BOOLEAN

VARIABLES life,     \* where each process is in boot and shutdown
          kstate,   \* KernelStateMachine.state
          queue,    \* taskQueue
          active,   \* the keys of activeTasks
          settled,  \* the keys of completedTasks
          owner,    \* the process that each task was submitted to
          pc,       \* what each task's submitTask call is waiting for
          state,    \* task.state of the task object in memory
          aborted,  \* the tasks whose AbortController was aborted
          db,       \* the state column of the tasks table
          reports   \* the success flags of the kernel.task.completed events

procVars == <<life, kstate, queue, active, settled>>
taskVars == <<owner, pc, state, aborted, db, reports>>
vars == <<life, kstate, queue, active, settled,
          owner, pc, state, aborted, db, reports>>
-----------------------------------------------------------------------------
(***************************************************************************)
(* KernelState has nine members; RECOVERING is left again before boot's    *)
(* next await, and no code enters CONSOLIDATING or ERROR.                  *)
(***************************************************************************)
KernelState == {"booting", "initializing", "idle", "processing",
                "draining", "shutting_down"}

\* The members of TaskState that the kernel assigns.
TaskState == {"pending", "executing", "completed", "failed", "cancelled"}
Terminal == {"completed", "failed", "cancelled"}

\* Mutant of Interrupted: a failed task is given another chance.
InterruptedOrFailed == {"executing", "ready", "pending", "failed"}

\* The rows boot takes for those of an earlier process that did not finish.
Interrupted == {"executing", "ready", "pending"}

(***************************************************************************)
(* off, booting (boot awaits workspace.init), up, draining (shutdown polls *)
(* activeTasks), stopping (it awaits its event), closed (the runtime       *)
(* closed the database), gone (the process ended).                         *)
(***************************************************************************)
Life == {"off", "booting", "up", "draining", "stopping", "closed", "gone"}
Running(p) == life[p] \notin {"off", "gone"}
DbOpen(p) == Running(p) /\ life[p] # "closed"

(***************************************************************************)
(* A task's submitTask call: announcing (awaits kernel.task.created),      *)
(* running (awaits buildContext or runTask), reporting and failing (await  *)
(* kernel.task.completed), recording (awaits recordEpisode), returned;     *)
(* dead when its process ended first.                                      *)
(***************************************************************************)
Pc == {"new", "announcing", "running", "reporting", "recording", "failing",
       "returned", "dead"}
InProcessTask == {"running", "reporting", "recording", "failing"}

\* Mutant of Persisted: the first terminal state of a row is kept.
PersistedOnce(p, S, s) ==
  IF DbOpen(p)
  THEN [t \in Task |-> IF t \in S /\ db[t] \notin Terminal THEN s ELSE db[t]]
  ELSE db

\* persistTask swallows every error: on a closed database the row stays.
Persisted(p, S, s) ==
  IF DbOpen(p) THEN [t \in Task |-> IF t \in S THEN s ELSE db[t]] ELSE db

Init ==
  /\ life = [p \in Proc |-> "off"]
  /\ kstate = [p \in Proc |-> "booting"]
  /\ queue = [p \in Proc |-> <<>>]
  /\ active = [p \in Proc |-> {}]
  /\ settled = [p \in Proc |-> {}]
  /\ owner = [t \in Task |-> NoProc]
  /\ pc = [t \in Task |-> "new"]
  /\ state = [t \in Task |-> "none"]
  /\ aborted = {}
  /\ db = [t \in Task |-> "absent"]
  /\ reports = [t \in Task |-> <<>>]
-----------------------------------------------------------------------------
\* boot, to its await of workspace.init.
Boot(p) ==
  /\ life[p] = "off"
  /\ Exclusive => \A q \in Proc : ~Running(q)
  /\ life' = [life EXCEPT ![p] = "booting"]
  /\ kstate' = [kstate EXCEPT ![p] = "initializing"]
  /\ UNCHANGED <<queue, active, settled>>
  /\ UNCHANGED taskVars

\* Mutant of Recover: every row is taken back.
RecoverAll(p) ==
  /\ life[p] = "booting"
  /\ life' = [life EXCEPT ![p] = "up"]
  /\ kstate' = [kstate EXCEPT ![p] = "idle"]
  /\ db' = [t \in Task |-> IF db[t] # "absent" THEN "pending" ELSE db[t]]
  /\ UNCHANGED <<queue, active, settled, owner, pc, state, aborted, reports>>

(***************************************************************************)
(* boot, after workspace.init: the rows of unfinished tasks become pending *)
(* and the kernel is IDLE.  The runtime hands the kernel out from here on. *)
(***************************************************************************)
Recover(p) ==
  /\ life[p] = "booting"
  /\ life' = [life EXCEPT ![p] = "up"]
  /\ kstate' = [kstate EXCEPT ![p] = "idle"]
  /\ db' = [t \in Task |-> IF db[t] \in Interrupted THEN "pending" ELSE db[t]]
  /\ UNCHANGED <<queue, active, settled, owner, pc, state, aborted, reports>>

\* submitTask, to its await of kernel.task.created.
Submit(p, t) ==
  /\ life[p] \in {"up", "draining", "stopping", "closed"}
  /\ kstate[p] \notin {"draining", "shutting_down"}
  /\ pc[t] = "new"
  /\ owner' = [owner EXCEPT ![t] = p]
  /\ state' = [state EXCEPT ![t] = "pending"]
  /\ db' = Persisted(p, {t}, "pending")
  /\ queue' = [queue EXCEPT ![p] = Enqueue(@, t)]
  /\ pc' = [pc EXCEPT ![t] = "announcing"]
  /\ UNCHANGED <<life, kstate, active, settled, aborted, reports>>

\* Mutant of Enter: the task stays in the queue.
EnterStaysQueued(t) ==
  LET p == owner[t] IN
  /\ pc[t] = "announcing"
  /\ active' = [active EXCEPT ![p] = @ \cup {t}]
  /\ kstate' = [kstate EXCEPT ![p] = "processing"]
  /\ UNCHANGED <<life, queue, settled, owner, aborted>>

(***************************************************************************)
(* processTask to its first await.  It does not look at the kernel's state *)
(* again: submitTask did, before it awaited the event.                     *)
(***************************************************************************)
Enter(t) ==
  LET p == owner[t] IN
  /\ pc[t] = "announcing"
  /\ queue' = [queue EXCEPT ![p] = RemoveTask(@, t)]
  /\ active' = [active EXCEPT ![p] = @ \cup {t}]
  /\ kstate' = [kstate EXCEPT ![p] = "processing"]
  /\ UNCHANGED <<life, settled, owner, aborted>>

Start(t) ==
  /\ Enter(t)
  /\ owner[t] \in Engine
  /\ state' = [state EXCEPT ![t] = "executing"]
  /\ db' = Persisted(owner[t], {t}, "executing")
  /\ pc' = [pc EXCEPT ![t] = "running"]
  /\ UNCHANGED reports

\* Mutant of Fails: the state of the task is not updated.
FailsQuietly(t) ==
  /\ UNCHANGED state
  /\ db' = Persisted(owner[t], {t}, "failed")
  /\ reports' = [reports EXCEPT ![t] = Append(@, FALSE)]
  /\ pc' = [pc EXCEPT ![t] = "failing"]

\* The catch block, to its await of kernel.task.completed.
Fails(t) ==
  /\ state' = [state EXCEPT ![t] = "failed"]
  /\ db' = Persisted(owner[t], {t}, "failed")
  /\ reports' = [reports EXCEPT ![t] = Append(@, FALSE)]
  /\ pc' = [pc EXCEPT ![t] = "failing"]

\* Without a reasoning engine processTask throws before it awaits anything.
StartWithoutEngine(t) ==
  /\ Enter(t)
  /\ owner[t] \notin Engine
  /\ Fails(t)

\* runTask resolved, whether or not the task was aborted meanwhile.
RunResolves(t) ==
  /\ pc[t] = "running"
  /\ state' = [state EXCEPT ![t] = "completed"]
  /\ db' = Persisted(owner[t], {t}, "completed")
  /\ reports' = [reports EXCEPT ![t] = Append(@, TRUE)]
  /\ pc' = [pc EXCEPT ![t] = "reporting"]
  /\ UNCHANGED procVars
  /\ UNCHANGED <<owner, aborted>>

\* buildContext or runTask rejected (cancellation is one such rejection).
RunRejects(t) ==
  /\ pc[t] = "running"
  /\ Fails(t)
  /\ UNCHANGED procVars
  /\ UNCHANGED <<owner, aborted>>

\* Mutant of Finally: the kernel is idle although other tasks are active.
FinallyIdles(t) ==
  LET p == owner[t] IN
  /\ active' = [active EXCEPT ![p] = @ \ {t}]
  /\ settled' = [settled EXCEPT ![p] = @ \cup {t}]
  /\ db' = Persisted(p, {t}, state[t])
  /\ kstate' = [kstate EXCEPT ![p] = IF @ = "processing" THEN "idle" ELSE @]
  /\ pc' = [pc EXCEPT ![t] = "returned"]
  /\ UNCHANGED <<life, queue, owner, state, aborted, reports>>

\* The finally block, and submitTask returns.
Finally(t) ==
  LET p == owner[t] IN
  /\ active' = [active EXCEPT ![p] = @ \ {t}]
  /\ settled' = [settled EXCEPT ![p] = @ \cup {t}]
  /\ db' = Persisted(p, {t}, state[t])
  /\ kstate' = [kstate EXCEPT ![p] =
                  IF active'[p] = {} /\ @ = "processing" THEN "idle" ELSE @]
  /\ pc' = [pc EXCEPT ![t] = "returned"]
  /\ UNCHANGED <<life, queue, owner, state, aborted, reports>>

\* The last await of a success is over: recordEpisode, or, without a memory
\* system, the emission.
SuccessReported(t) ==
  /\ pc[t] = IF owner[t] \in Memory THEN "recording" ELSE "reporting"
  /\ Finally(t)

\* recordEpisode inserted its row and awaits its own event.
EpisodeInserted(t) ==
  /\ pc[t] = "reporting"
  /\ owner[t] \in Memory
  /\ DbOpen(owner[t])
  /\ pc' = [pc EXCEPT ![t] = "recording"]
  /\ UNCHANGED procVars
  /\ UNCHANGED <<owner, state, aborted, db, reports>>

\* Mutant of EpisodeRejected: on a closed database the error is lost.
EpisodeRejectedIfOpen(t) ==
  /\ pc[t] = "reporting"
  /\ owner[t] \in Memory
  /\ DbOpen(owner[t])
  /\ Fails(t)
  /\ UNCHANGED procVars
  /\ UNCHANGED <<owner, aborted>>

(***************************************************************************)
(* recordEpisode threw (always on a closed database): the task that was    *)
(* reported a success is in the same try block and becomes a failure.      *)
(***************************************************************************)
EpisodeRejected(t) ==
  /\ pc[t] = "reporting"
  /\ owner[t] \in Memory
  /\ Fails(t)
  /\ UNCHANGED procVars
  /\ UNCHANGED <<owner, aborted>>

FailureReported(t) ==
  /\ pc[t] = "failing"
  /\ Finally(t)

\* cancelTask of a task in activeTasks; of any other it returns false.
CancelTask(t) ==
  /\ pc[t] # "new"
  /\ t \in active[owner[t]]
  /\ aborted' = aborted \cup {t}
  /\ state' = [state EXCEPT ![t] = "cancelled"]
  /\ db' = Persisted(owner[t], {t}, "cancelled")
  /\ UNCHANGED procVars
  /\ UNCHANGED <<owner, pc, reports>>
-----------------------------------------------------------------------------
\* shutdown, to its first poll of activeTasks.
Shutdown(p) ==
  /\ life[p] = "up"
  /\ life' = [life EXCEPT ![p] = "draining"]
  /\ kstate' = [kstate EXCEPT ![p] = "draining"]
  /\ aborted' = aborted \cup active[p]
  /\ state' = [t \in Task |-> IF t \in active[p] THEN "cancelled" ELSE state[t]]
  /\ db' = Persisted(p, active[p], "cancelled")
  /\ UNCHANGED <<queue, active, settled, owner, pc, reports>>

\* Mutant of StopDraining: shutdown has no deadline.
StopDrainingWhenEmpty(p) ==
  /\ life[p] = "draining"
  /\ active[p] = {}
  /\ life' = [life EXCEPT ![p] = "stopping"]
  /\ kstate' = [kstate EXCEPT ![p] = "shutting_down"]
  /\ UNCHANGED <<queue, active, settled>>
  /\ UNCHANGED taskVars

\* activeTasks is empty or the deadline has passed.
StopDraining(p) ==
  /\ life[p] = "draining"
  /\ life' = [life EXCEPT ![p] = "stopping"]
  /\ kstate' = [kstate EXCEPT ![p] = "shutting_down"]
  /\ UNCHANGED <<queue, active, settled>>
  /\ UNCHANGED taskVars

\* shutdown has returned and the runtime closes its database connection.
CloseDb(p) ==
  /\ life[p] = "stopping"
  /\ life' = [life EXCEPT ![p] = "closed"]
  /\ UNCHANGED <<kstate, queue, active, settled>>
  /\ UNCHANGED taskVars

\* The process ends, after a shutdown or in a crash: only the file is left.
Exit(p) ==
  /\ Running(p)
  /\ life' = [life EXCEPT ![p] = "gone"]
  /\ kstate' = [kstate EXCEPT ![p] = "booting"]
  /\ queue' = [queue EXCEPT ![p] = <<>>]
  /\ active' = [active EXCEPT ![p] = {}]
  /\ settled' = [settled EXCEPT ![p] = {}]
  /\ pc' = [t \in Task |-> IF owner[t] = p THEN "dead" ELSE pc[t]]
  /\ state' = [t \in Task |-> IF owner[t] = p THEN "none" ELSE state[t]]
  /\ UNCHANGED <<owner, aborted, db, reports>>

TaskStep(t) ==
  \/ Start(t)
  \/ StartWithoutEngine(t)
  \/ RunResolves(t)
  \/ RunRejects(t)
  \/ SuccessReported(t)
  \/ EpisodeInserted(t)
  \/ EpisodeRejected(t)
  \/ FailureReported(t)

ProcStep(p) ==
  \/ Boot(p)
  \/ Recover(p)
  \/ Shutdown(p)
  \/ StopDraining(p)
  \/ CloseDb(p)
  \/ Exit(p)

Next ==
  \/ \E p \in Proc : ProcStep(p) \/ \E t \in Task : Submit(p, t)
  \/ \E t \in Task : TaskStep(t) \/ CancelTask(t)

Spec == Init /\ [][Next]_vars

(***************************************************************************)
(* The event loop runs every continuation whose promise has settled, and   *)
(* timers fire: boot and shutdown go on, emit settles (it waits for        *)
(* subscribers that end).  Nobody has to submit, cancel, shut down, start  *)
(* or kill a process.  Only TaskFairness also assumes that runTask settles *)
(* (the reasoning loop is bounded and its calls have deadlines).           *)
(***************************************************************************)
LoopFairness ==
  /\ \A p \in Proc : WF_vars(Recover(p)) /\ WF_vars(StopDraining(p))
                        /\ WF_vars(CloseDb(p))
  /\ \A t \in Task : WF_vars(TaskStep(t) /\ pc[t] # "running")

TaskFairness == \A t \in Task : WF_vars(RunResolves(t) \/ RunRejects(t))

FairSpec == Spec /\ LoopFairness /\ TaskFairness
HungSpec == Spec /\ LoopFairness
-----------------------------------------------------------------------------
\* The type invariant: the domain of every variable of the kernel model.
TypeOK ==
  /\ life \in [Proc -> Life]
  /\ kstate \in [Proc -> KernelState]
  /\ queue \in [Proc -> Seq(Task)]
  /\ active \in [Proc -> SUBSET Task]
  /\ settled \in [Proc -> SUBSET Task]
  /\ owner \in [Task -> Proc \cup {NoProc}]
  /\ pc \in [Task -> Pc]
  /\ state \in [Task -> TaskState \cup {"none"}]
  /\ aborted \subseteq Task
  /\ db \in [Task -> TaskState \cup {"absent"}]
  /\ reports \in [Task -> Seq(BOOLEAN)]

(***************************************************************************)
(* The kernel's state tells whether it works: PROCESSING only while some   *)
(* task is in activeTasks, IDLE only while none is.  The two are written   *)
(* in different segments, by tasks that overlap and by shutdown.           *)
(***************************************************************************)
StateMatchesWork ==
  \A p \in Proc : /\ kstate[p] = "idle" => active[p] = {}
                  /\ kstate[p] = "processing" => active[p] # {}

(***************************************************************************)
(* listTasks, which concatenates the queue, activeTasks and                *)
(* completedTasks, returns every task of a live process exactly once.      *)
(***************************************************************************)
ListedOnce ==
  \A p \in Proc :
    /\ Distinct(queue[p])
    /\ Queued(queue[p]) \cap active[p] = {}
    /\ (Queued(queue[p]) \cup active[p]) \cap settled[p] = {}
    /\ Running(p) => Queued(queue[p]) \cup active[p] \cup settled[p]
                       = {t \in Task : owner[t] = p}

\* The queue is ordered by priority after every interleaving of submissions.
QueueSorted == \A p \in Proc : Sorted(queue[p])

(***************************************************************************)
(* What subscribers were last told of a returned task that nobody          *)
(* cancelled is what the task object says, and a success is taken back at  *)
(* most once: a failed recordEpisode reports the same task again.          *)
(***************************************************************************)
ReportedOutcome ==
  \A t \in Task :
    pc[t] = "returned" =>
      /\ reports[t] \in {<<TRUE>>, <<FALSE>>, <<TRUE, FALSE>>}
      /\ t \notin aborted =>
           state[t] = IF reports[t] = <<TRUE>> THEN "completed" ELSE "failed"

(***************************************************************************)
(* The row of a returned task agrees with the task object as long as the   *)
(* process can write: persistTask in the finally block, whatever cancels,  *)
(* shutdowns and the boots of other processes came before it.              *)
(***************************************************************************)
ReturnedIsDurable ==
  \A t \in Task :
    pc[t] = "returned" /\ DbOpen(owner[t]) => db[t] = state[t]

(***************************************************************************)
(* With one process at a time, an executing row is a task that this        *)
(* process is executing: a crash leaves no row behind that claims to run   *)
(* after the next boot.                                                    *)
(***************************************************************************)
NoPhantomExecution ==
  Exclusive =>
    \A p \in Proc : life[p] \in {"up", "draining", "stopping"} =>
      \A t \in Task : db[t] = "executing" => t \in active[p]

\* What subscribers and the database say of a task is what became of it.
TasksAreToldTruly == ReportedOutcome /\ NoPhantomExecution

(***************************************************************************)
(* A row that reached a terminal state never becomes unfinished again,     *)
(* over cancels, shutdowns, crashes and the recovery of any process.       *)
(***************************************************************************)
TerminalRowsStay ==
  [][\A t \in Task : db[t] \in Terminal => db'[t] \in Terminal]_vars

(***************************************************************************)
(* shutdown ends although a task never settles: its deadline is a timer    *)
(* and does not wait for the reasoning engine.                             *)
(***************************************************************************)
ShutdownEnds ==
  \A p \in Proc : life[p] = "draining" ~> life[p] \in {"closed", "gone"}

\* Every submitted task returns, unless its process ends.
SubmittedReturns ==
  \A t \in Task : pc[t] = "announcing" ~> pc[t] \in {"returned", "dead"}

-----------------------------------------------------------------------------
(***************************************************************************)
(* The kernel implements the durable task table: the row is the state      *)
(* column with the terminal states identified, and its holder the owning   *)
(* process as long as it can write.                                        *)
(***************************************************************************)
Row == [t \in Task |-> IF db[t] \in Terminal THEN "settled" ELSE db[t]]
Holder ==
  [t \in Task |-> IF owner[t] \in Proc /\ DbOpen(owner[t])
                  THEN owner[t] ELSE NoProc]

Durable == INSTANCE DurableTasks WITH row <- Row, holder <- Holder

\* With one process at a time every step of the kernel is a step that the
\* durable task table allows: only the holder moves a row, and only forward.
ImplementsDurableTasks == Durable!Spec
-----------------------------------------------------------------------------
(***************************************************************************)
(* What the documentation says and the code does not do.                   *)
(***************************************************************************)

\* Interrupted tasks are resumed (docs/architecture/04-agent-kernel.md:684;
\* agent-kernel.ts:84): a kernel that stays up picks an unfinished one up.
InterruptedResumes ==
  \A t \in Task, p \in Proc :
    (pc[t] = "dead" /\ db[t] = "pending" /\ life[p] = "up")
      ~> (db[t] # "pending" \/ life[p] # "up")
=============================================================================
