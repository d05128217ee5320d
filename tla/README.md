# Verifying FuckClaw

FuckClaw is a local agent framework: a TypeScript monorepo (`packages/*`) that
runs in one operating system process, on one JavaScript event loop, over one
SQLite file.  This directory holds TLA+ modules for its core components, TLC
configurations that check them on small instances, and TLAPS proofs of what
matters most for every instance.

The concurrency is that of the event loop: code between two `await`s runs to
its end, and anything may happen at an `await`.  So **an action of a module is
the code from one `await` to the next**, named for what made the awaited
promise settle, and the interleavings are those of asynchronous functions that
wait for the event bus, for the model, for tools, timers and the memory
system.  Several processes (every CLI command boots one) and their crashes
meet in the database only.

## 1. Inventory

The system is a set of packages around a kernel:

```
 cli, network (HTTP/WS), planner, scheduler, multi-agent
                    | submitTask, cancelTask
                    v
                  kernel ----> memory (buildContext, recordEpisode) -> graph
                    | runTask
                    v
                 reasoning --> llm-router --> providers (HTTP)
                    |  \-----> tool-runtime --> native tools, mcp, skills
 event-bus: everybody emits and awaits; journal and dead letters
 persistence: one SQLite file;   workspace, config: files;   plugins: hooks
 self-improvement: listens to ended tasks, evolves prompts
```

`emit` is awaited nearly everywhere and never rejects: `persist` catches a
refused row (`event-bus/src/persistence/event-journal.ts:11`) and the
dispatcher waits for all handlers whatever they do.  In the modules of its
callers an `emit` is therefore an await that resolves.

| component | state | operations | what is hard | what makes it correct |
|---|---|---|---|---|
| **kernel** | `KernelState`, queue by priority, `activeTasks`, `completedTasks`, task objects, table `tasks` | `boot`, `submitTask`/`processTask`, `cancelTask`, `listTasks`, `shutdown` | tasks overlap; cancellation and shutdown during every await; crash and recovery; two processes on one table; a memory system that fails after the task completed | the state tells whether there is work; a task is in one place; what was returned is what is stored; settled rows stay settled; no row claims to be executing after recovery; submit and shutdown return |
| **network** | the servers, requests and sockets that wait for tasks | POST and WebSocket submissions, hang-ups, start, stop | stop waits for requests that wait for tasks, before the kernel stops; a process dies while a client waits | what a client was told stays true; everybody who waits is answered or cut off; stop ends |
| **multi-agent** | instances and queue of the pool, delegations | `delegate`, `cancel`, slots | slot hand-over, time-out against release, cancellation while the executor goes on, a role registered anew while delegations wait | no slot lost, first come first served, the limit of instances, every delegation returns |
| **event-bus** | subscriptions by pattern, journal, dead letters | `subscribe`, `emit`, `replay` | emit within a handler, handlers that throw now or reject later, changes during dispatch, a refused row | each matching handler is called once, each failure is a dead letter, causes are recorded before effects |
| **planner** | the plan: steps, dependencies, version | `decompose`, `executePlan`, `replan` | the graph is rebuilt while a batch of it runs | order is kept, no deadlock, the end |
| **scheduler** | triggers, timers, watchers, subscriptions, tables `schedules` and `schedule_history` | `registerTrigger`, `unregisterTrigger`, `start`, `stop`, `fireTrigger` | firings overlap over three awaits; the kernel refuses; restart; a duplicate that is not yet submitted | every firing is recorded, every trigger listens once, only unsubmitted work is missed |
| **skills** | registry, statistics, the stack of executions | `register`, `refine`, `execute` | the registry changes under a running execution; retry, fallback, abort | composition has no cycle, every execution is counted, the end |
| **llm-router** | providers, cache, cost; the body of a response | `registerProvider`, `generate` | several calls in flight, failover, an entry that expires, a key with presets; broken bodies | answers belong to their requests, the provider asked for goes first, an error is not read as an answer |
| **reasoning** | budget consumed, steps, branches | `runTask` by ReAct, direct, tree search | cancellation and budgets read at some awaits only; any answer of the model | budgets hold, cancellation is noticed, the end |
| **memory** | array of turns, episodes, facts, procedures | append, snapshot, restore, flush, record, assert, retract, consolidate, dream, search | flush, consolidation and dreams overlap with themselves and with writers; the array is replaced under a loop | no turn is lost; a fact is extracted once; the newest fact is believed; a context fits its budget |
| **knowledge-graph** | entities, relationships, history | upsert, update, delete, merge; neighbours, path, entity at a time | merges and upserts read, await and write | what was learned stays until another value replaces it; a merge keeps relationships; queries agree with a plain search |
| **mcp** | connections, pending requests, tools of servers | connect, call, disconnect, serve | an answer races its time-out; reconnect during disconnect; a connect that breaks off half-way | one answer per request, tools follow connections |
| **tool-runtime** | registry of tools | execute | the tool is replaced while its execution awaits the bus | what is returned and reported is what was run |
| **plugins** | registry, instances | load, initialize, unload | unload during `onInit`, load during unload | an active plugin is registered |
| **self-improvement** | anti-patterns, prompt versions | learn, propose, roll back | a version chosen before an await, a lesson looked for after it | a lesson is kept once, versions tell their order |
| **workspace** | files, archives and manifests | snapshot, verify, roll back | a crash or another process between archive and manifest | only finished snapshots are restored |
| **config** | layers in memory, global file, keystore | update, reload, secrets | several processes write whole files from old copies; crash in a save | what was written is not lost by those who are up to date |
| **cli** | the runtime's order of start and stop | `main`, `serve` | interrupts | an interrupt ends the process |
| persistence, observability, core | tables, logs, types | synchronous reads and writes | (nothing concurrent) | |

Section 7 says what of this is left out.

## 2. Modules

| module | models | notes |
|---|---|---|
| `TaskQueue` | `kernel/src/queue/priority-task-queue.ts` | operators: `Enqueue` (push and stable sort), `RemoveTask` |
| `AgentKernel` | `kernel/src/agent-kernel.ts`, the two state machines, the runtime's order of start and shutdown (`cli/src/index.ts`) | EXTENDS `TaskQueue`; several processes over one table |
| `DurableTasks` | what the kernel promises of the table `tasks` | abstract specification; `AgentKernel!Durable` is the refinement mapping |
| `Gateway` | `network/src/http/server.ts`, `ws/ws-server.ts`, `network-manager.ts`, the `serve` command | EXTENDS `AgentKernel`: its next-state relation adds the servers and their clients to each step of the kernel |
| `AgentPool` | `multi-agent/src/pool`, `supervisor` | pool, orchestrator and executor in one module, since they call each other in one turn of the loop |
| `EventPatterns` | `event-bus/src/matchers` | operators |
| `EventBus` | `emit`, `subscribe`, dispatcher, dead letters, `persist` | the call stack is explicit: a synchronous handler may emit before the dispatch that called it has gone on |
| `EventJournal` | the identifiers of the journal and `replay` | |
| `PlanDag` | `planner/src/decomposition` | operators; a loop is a recursive function of the number of its rounds |
| `PlanExecutor` | `executePlan` and `replan` | |
| `CronRunner` | `matchesCronField` and the timer of `cron-runner.ts` | |
| `Scheduler` | `scheduler.ts`, runners, watchers, webhooks | every call of `fireTrigger` has its own program counter |
| `SkillRegistry` | `skill-registry.ts`, `refine` | |
| `SkillExecutor` | `skill-executor.ts` | EXTENDS `SkillRegistry`: an execution is a stack of frames over a registry that changes |
| `LLMRouter` | `generate`, cache, route, cost | |
| `CompletionBodies` | how `openai.provider.ts` reads a body: a JSON object within text, an event stream | operators |
| `Reasoning` | `runTask`, the three strategies, selector, parser, evaluator | |
| `WorkingMemory` | `working-memory.ts`, `flushWorkingToEpisodic` | arrays have an identity: clear and restore allocate a new one |
| `MemoryStore` | episodic and semantic stores, `consolidate`, `dream` | tables survive crashes, cycles do not |
| `Retrieval` | `hybrid-retriever.ts` | operators |
| `KnowledgeGraph` | `knowledge-graph.ts`, entity and relationship managers | foreign keys included |
| `GraphTraversal` | `queries/graph-traversal.ts` | operators; paths are sequences of entities |
| `ToolRuntime` | registry and execution of tools | |
| `McpManager` | `mcp-client-manager.ts`, `mcp-server.ts` | EXTENDS `ToolRuntime`: connections register tools while executions are under way |
| `McpClient` | `mcp-client.ts`: one connection, its requests and timers | the server is external and answers as it likes |
| `PluginRegistry` | `plugin-registry.ts`, `plugin-manager.ts` | |
| `SelfImprovement` | `anti-patterns/`, `prompt-evolution/`, `rollback/` | |
| `Snapshots` | `zstd-archiver.ts`, `workspace-manager.ts` | several processes, one step per file |
| `Settings` | `config-manager.ts`, `keystore.ts` | several processes, each with its copies |
| `Execution` | `PlanExecutor`, `SkillExecutor`, `Reasoning` and `LLMRouter`: what a task goes through | see below |
| `Tools` | `McpClient`, `McpManager`, `PluginRegistry`: where tools come from | see below |
| `Stores` | `WorkingMemory`, `MemoryStore`, `KnowledgeGraph`, `SelfImprovement`, `Snapshots`, `Settings`: what outlives a task | see below |
| `MC*` | instances for TLC | `MCHelpers`: see below |
| `SequenceFacts`, `*Proofs` | lemmas and theorems | section 6 |

`Execution`, `Tools`, `Stores` and `MCHelpers` each gather several components
that share no state.  They are parameterised like the modules that they
gather, since theorems are about them; what TLC takes for the constants of the
first three, and of `Scheduler`, stands at their end.  A behaviour of theirs is
about one of the components, its `focus`; the others rest in an initial state.
No state of a component is lost that way, and their product, which would tell
nothing, is not explored.  Components that do share state are composed:
`Gateway` over `AgentKernel`, `McpManager` over `ToolRuntime`, `SkillExecutor`
over `SkillRegistry`, pool and executor, bus and handlers.

### How state and actions correspond to the code

*AgentKernel.* `life` is where a process stands in `boot` and `shutdown`;
`kstate`, `queue`, `active`, `settled` are `KernelStateMachine.state`,
`taskQueue`, `activeTasks`, `completedTasks`; `state` and `aborted` belong to
the task objects, `db` is the state column, `reports` the success flags of the
events `kernel.task.completed`. `Submit` is `submitTask` to the emission of
`kernel.task.created`, `Start` the rest of it and `processTask` to its first
await, `RunResolves`/`RunRejects` the settling of `buildContext` and `runTask`
(two awaits that write nothing between them are one), `EpisodeInserted`,
`SuccessReported`, `EpisodeRejected` and `FailureReported` the rest; the
constant `Memory` has the processes with a memory system. `Fails` is the catch
block and `Finally` the finally block; both are operators, taken by every
action that reaches them. `Exit` ends a process at any moment. With `Exclusive`
a process starts only when no other runs.

*Gateway.*  `gate` is where the servers of a process are between start and
stop, `client` who waits for a task (the response of a request or a message on
a socket) and afterwards what that client was told.  `PostTask` and `SendTask`
are `Submit` with a client, `Answer` the response once `submitTask` returned,
`HangUp` a connection that is lost.  `StopServers` begins
`networkManager.stop`, `SocketsGone` and `RequestsGone` are its two awaits, and
only then may the kernel's own `Shutdown` begin (`ShutdownAfter`).  `Interrupt`
is the SIGINT of the serve command.

*AgentPool.*  `pc` is where each `delegate` call is, `inst` its
`AgentInstance.state`, `state` its `delegation.state`; `roles` and `limit` are
the map of specs, which `Register` writes at any moment.  `ReleaseSlot` is the
operator that both `cancel` and the end of an executor go through.

*EventBus.*  `stack` holds the emissions whose handlers are being called in
this turn of the loop (`handler(event)` runs to its first await), `call` what
each handler's promise does.  `Emit` is `persist` and the snapshot of the
matching handlers; `CallReturns`, `CallThrows`, `CallEmits` are one iteration
of `dispatch`; `Settle` a promise that settles later.  `journal` is the set of
rows, since nobody reads the order of their insertion; `born` and `stamp` are
the two readings of the clock in a row, in its ULID and in its timestamp, by
which readers sort.  `dlq` is the array in memory.

*PlanExecutor.*  `batch` is the array of ready steps that the loop of
`executePlan` walks, `deps` and `optional` the plan, `done` is
`completedStepIds`.  `asked` and `repairs` only remember what the
decomposition and the replans put before a step, for the properties.  The model
that answers `replan` is any number of recovery steps (at least one; the
heuristic answer is one).

*Scheduler.*  `fire` is the program counter of each call of `fireTrigger`:
guard, announcing, submitted; `stats` the object, `row` and `history` the
tables.  `PassOn` is the code from the deduplication to the announcement.
`beside` are the firings that were being announced, and so not yet submitted,
when this one looked for a duplicate; `twice` the triggers that were
registered anew while an old subscription was left.

*SkillExecutor.*  A frame is one activation of `execute`: its own copy of the
manifest, the step it is at, its attempts.  `visits` bounds the steps that one
frame visits (a fallback may go backwards).

*LLMRouter.*  `route` is the list of providers that is left, `result` the
response object; a cached entry is the object that was returned.  A request has
its messages and the fields `Given`, each of which may be left out; `GenerateKey`
puts the `Preset` of the code there, as the hash does.

*Retrieval.*  The records of a store come in the order of its query, and `Page`
is what of them is read: 500 in the code, 2 of 3 in the instance.

*CompletionBodies.*  A chunk of the kind `error` is one whose error has a
message; an error without one is `unnamed`, a chunk like any other.

*Reasoning.*  `pc` is the await that the run is in, `late` whether the task's
time is over; `calls` and `afterAbort` are counters of the properties.

*WorkingMemory.*  `arrays` holds every array that was ever `turnBuffer`; a
flush has the number of the array that it iterates and its index, as the
iterator of `for ... of` has.  `BeginFlush` runs to the first await,
`FlushNext` from one to the next, `EndFlush` clears, whatever array is current
by then; `FlushFails` is a database that refuses the episode.

*MemoryStore.*  `cycles` and `dreams` are what each call has yet to do, from
what it read at its start; `CycleStep` and `DreamStep` are one statement with
the await after it.  Pages and work lists are sets: a page is the rows with
fewer than `LIMIT` rows before them in the order of the query (`Older`,
`Surer`), and the next statement is the one that none precedes (`Precedes`,
`RetractedFirst`), in the order in which the loops come to them.  `Crash` ends
all cycles and dreams and keeps the tables.

*KnowledgeGraph.*  `upserts`, `merges`, `relates` hold where each call is and
the row it has read.  A statement of SQL is one step; `Cascade` is what the
foreign keys do when an entity is deleted.  Facts are pairs of a key and a
value: the properties of an entity, and its memory ids, each a key of its own.
`Spread` is the spread of objects by which a later value replaces an earlier
one, in an upsert and in a merge.

*ToolRuntime, McpManager.*  `registry` is the map by name; a tool is native
or the wrapper of a connection.  `clients` are the connection objects, one per
call of `connect`, `connections` the map of those in use, `listed` the names
that a server registered, `leaving` the calls of `disconnect` that await a
`close`.  `execs` are the executions, with the tool they looked up.
`ConnectBreaks` is a list of tools that throws in the middle of `connect`.

*McpClient.*  `pending` is `pendingRequests`, each with its timer; `answers`
what is in the pipe.  `Timeout`, `HandleData`, `ProcessExits` and `Disconnect`
are the four ways out of a request.

*PluginRegistry.*  `instances` are the objects, `plugins` the map; `init` and
the `pc` of an unload are the awaits of the hooks and of the event after them.

*SelfImprovement.*  `analyses` and `proposals` are the calls that await the
model, a proposal with the version it has chosen.

*Snapshots.*  A stamp stands for the contents of one archive and its hash.
Reading and writing each file is a step of its own, because another process
may come between; `Torn` is what a crash leaves of a file under way.

*Settings.*  `file` and `vault` are the two files, `config` and `cache` the
copies of each process.  An update is one step (memory, then file, without an
await); `UpdateFails` is a write that throws after memory has changed.
`ResolveLayeredConfig` merges the layers and sets `logging.level` to
`system.logLevel`.

### Variables for the properties

Some variables record history that the code does not keep, so that a property
can name its exceptions instead of leaving them out.  No guard reads them.

| module | variables | what they record |
|---|---|---|
| `WorkingMemory` | `exposed`, `discarded` | turns that came while a flush worked on an array that was replaced; turns that a restore replaced |
| `MemoryStore` | `again`, `denied` | episodes that a second cycle may meet; facts retracted by a caller |
| `KnowledgeGraph` | `known`, `exposed`, `fresh`, `orphaned` | facts of upserts that returned; facts of calls that overlapped, and values that another one replaced; relationships written since a merge repointed; those its end deleted |
| `SelfImprovement` | `overtaken` of a proposal | another proposal for its target ended while it waited |
| `Snapshots` | `complete`, `restored`, `replaced` | stamps of finished snapshots; stamps that a rollback restored and reported; names written under a rollback |
| `Settings` | `meant`, `kept`, `current`, `due`, `seen`, `failed` | latest updates and which are to stay (not `logging.level` once a manager has loaded it with another `system.logLevel`); who knows the file; secrets set and not deleted; whose copy is current; whose first load threw |
| `McpManager` | `crossed`, `contested` | servers whose connect met another or broke off; names that two tools claimed |
| `PluginRegistry` | `early`, `shadowed` | instances unloaded before `onInit` ended; registered during an unload of their predecessor |
| `Scheduler` | `twice`, `beside` | see above |
| `AgentPool` | `recalls`, `refused`, `peak` | the delegations that were cancelled; the limit for which each was put into the queue; the highest limit of each role |
| `EventBus` | `delivered` | the events each handler was called with |

Definitions that begin with the comment "Mutant of ..." are no part of the
system.  Each is a plausible bug of the definition below it (a dropped guard,
a missing reset, a swapped order), kept beside it: with it in place of the
original, TLC finds the property that the file `PROJECT.json` names violated.
They show that the properties can fail.  A property that joins several parts
has a mutant for each of its parts in the modules; `PROJECT.json` names one.

## 3. Runs

`tlc -config <cfg> <module>`; each takes a few minutes at most.

| configuration | instance | shows |
|---|---|---|
| `Gateway_restart` | 2 tasks of different priority, 2 processes one after the other, the first with servers and memory, clients over HTTP and sockets | `StateMatchesWork`, `TasksAreToldTruly`, `AnswersAreDurable`, `ImplementsDurableTasks`, `WaitsEnd` |
| `Gateway_interrupt` | the same | **violation** of `InterruptTerminates` (section 5) |
| `AgentKernel_shared` | 2 tasks, 2 processes at once, one without reasoning engine, one with memory whose engine may hang | `ReturnedIsDurable`, `ListedOnce`, `TerminalRowsStay`, `ShutdownEnds` |
| `AgentKernel_resume` | 2 tasks, 2 processes one after the other | **violation** of `InterruptedResumes` (section 5) |
| `AgentPool_cancel` | 3 delegations of one role and 1 of another in one queue, one slot each at first, one cancellable; specs of both registered at any moment, with 1 or 2 slots of the one and 0 or 1 of the other | `SlotsTally`, `NoOvertaking`, `DelegationReturns` |
| `AgentPool_overlimit` | the same | **violation** of `WithinLimit` (section 5) |
| `EventBus_nested` | 2 emissions, nested or beside each other, 2 handlers, 2 overlapping patterns, 2 milliseconds | `ReturnedIsHandled`, `RecordsAreTrue`, `EmitReturns` |
| `Scheduler_sources` | one trigger per source, 3 registrations, 2 firings, 2 subscriptions, one crash | `EveryFiringIsRecorded`, `ListensOnce`, `OnlyAnnouncedWorkIsMissed`, `FiringEnds` |
| `Execution_runs` | every acyclic plan of 3 steps, every set of optional ones, 2 replans with 1 or 2 and then 1 recovery steps; 2 skills with 3 and 2 bodies that may call each other, every policy, 4 registrations, 1 refine; the three strategies, 4 steps, depth 2, model budgets of 3 and of 5 calls, 3 tool calls, 6 tokens; 3 calls of `generate`, 3 requests with the same messages (nothing else given, a provider, the preset temperature), 2 providers, expiry | `CompositionIsAcyclic`, `PlansAreSound`, `AccountsHold`, `AnswersAreRight`, `EveryRunEnds` |
| `Stores_shared` | 3 turns, 2 flushes, 3 arrays; 2 cycles, 2 dreams, 3 rows, batches and audits of 2; 2 lessons, 2 analyses, 1 prompt, 2 proposals, 3 of each row; 2 upserts, 2 merges, 2 relates, 5 calls in all, 2 created entities, 1 deletion; 2 processes, 2 files, 1 snapshot name, 2 archives; 2 managers, 3 settings (the two log levels, and one that a layer overrides), 2 secrets, 4 writes | `TurnsNeverLost`, `FactsAreSound`, `LearningIsOrdered`, `GraphKeepsKnowledge`, `RestoresFinishedSnapshots`, `WritesSurvive` |
| `Tools_connected` | 2 calls, 2 answers to each request; a server without and one with a prefix, 2 connects, each of which may break off after any of its tools, 1 execution; 1 plugin, 3 instances, 2 unloads at once | `AnswersBelong`, `ToolsAreTrue`, `ActiveIsRegistered`, `EveryCallSettles` |
| `Helpers_all` | plans of 2 to 4 steps, patterns of 1 to 3 segments, cron fields of 1 or 2 items over 0..3, 10 minutes of a timer in quarters, 4 events in 3 ms, graphs of 8 edges over 4 entities to depth 3, 3 changes of an entity, contexts of up to 3 facts and 3 episodes on pages of 2, at 4 budgets, event streams of up to 4 lines | `SortsAgree`, `TriggersMatchAsWritten`, `ReplayIsComplete`, `GraphAnswersAgree`, `ContextFits`, `BodiesAreRead` |

Every property is stated in words above its definition.  Several are
conjunctions of named parts: `TasksAreToldTruly` of `ReportedOutcome` and
`NoPhantomExecution`; `WaitsEnd` of `SubmittedReturns`, `ClientsAreAnswered`,
`StopEnds`; `SlotsTally` of `NoIdleSlot` and `OverrunIsBounded`;
`RecordsAreTrue` of `DeadLettersAreFailures` and `CausesComeFirst`;
`PlansAreSound` of `PrerequisitesFirst`, `NeverDeadlocks`,
`FailsOnlyOnBudget`; `AccountsHold` of `BudgetHolds`, `AbortIsNoticed`,
`EveryExecutionIsCounted`; `AnswersAreRight` of `AnswersMatchRequests` and
`AskedComesFirst`; `FactsAreSound` of `ExtractedOnce` and `NewestIsBelieved`;
`LearningIsOrdered` of `LearnedOnce` and `VersionsTellOrder`;
`GraphKeepsKnowledge` of `NothingForgotten` and `MergeKeepsRelationships`;
`WritesSurvive` of `SecretsSurvive` and `UpdatesAreKept`; `ToolsAreTrue` of
`ToolsFollowConnections` and `ResultsTellRuns`; `TriggersMatchAsWritten` of
`EdgeWildcards`, `PlainFieldsAreStandard`, `NoMinuteTwice`;
`GraphAnswersAgree` of `QueriesAgree` and `AtTimeIsExact`.

**Why the bounds are enough.**  What the kernel does wrong or right needs at
most two tasks (one in flight while another enters, ends or is cancelled) and
two processes (one that leaves rows and one that finds them); a client waits
for one task, so that two tasks are also two clients.  A pool needs a
holder, two waiters (so that there is an order between them) and a waiter of
another role in the same queue, which a limit of 0 keeps there; a second slot
is the least by which a limit can be raised and lowered.  Two emissions are one
within the other, or one during the other; two milliseconds are one that the
two share, or one for each.  Three steps are the smallest plan with a
prerequisite of a prerequisite, or two prerequisites, and two replans let a
recovery step fail.  Two firings are the least that overlap; three
registrations are register, unregister, and register again beside another
trigger.  Two skills make a cycle that neither makes alone.  A budget of 3
calls ends a run of 4 steps early, one of 5 does not.  Two flushes, cycles,
dreams, upserts, merges, unloads or proposals are the least that overlap, and a
third turn, episode, row or instance comes in between; limits of 2 for a table
of 3 rows hide one row from a page.  Two processes over two files are enough
for each kind of torn or mixed snapshot and for a stale copy.  Two calls of a
connection can get each other's answers, and two answers to a request make
the second one a duplicate.  A page of two hides the third record of a store.
Requests that differ in a field that the other leaves out, with its preset and
with another value, are the two cases of a key.

The cap of a counter is in the guard of the action that increases it and is
named `Max...` (`Removals` for deletions); `MaxSteps`, `MaxDepth`,
`BeamWidth`, `MaxToolCalls`, `MaxTokens` of `Reasoning`, `MaxReplans` of
`PlanExecutor`, `MaxDepth` and `Attempts` of `SkillExecutor`, `DepthCap` of
`GraphTraversal`, and `BatchSize`, `AuditSize`, `Recent`, `PageSize` (page limits, smaller
here than the code's) are limits of the code itself.  Symmetry is used in
`Stores_shared` only, for the names of upserts and of merges; that run has no
liveness property.

`CHECK_DEADLOCK FALSE` is in every configuration because these systems stop:
all tasks returned and no process left to start, a plan that has ended, calls
that are used up.

A type invariant, `TypeOK`, is part of every module with variables.  It holds
in each of the instances; the kernel's is a theorem, and the other proofs contain
what they need of theirs.

## 4. Fairness

Only what the event loop and the environment owe: a continuation that can run
does run, a timer fires, an awaited answer arrives.  Nobody has to submit,
delegate, cancel, shut down, fire, connect, crash or restart.

- kernel: weak fairness of `Recover`, `StopDraining`, `CloseDb` per process
  and of the steps per task.  Whether `runTask` settles is separate
  (`TaskFairness`): `WaitsEnd` assumes it, since the loop of the
  engine is bounded and its calls have deadlines, and `ShutdownEnds` is
  checked without it (`HungSpec`).
- gateway: also weak fairness of `SocketsGone` and `RequestsGone` per process
  (sockets are terminated, and a request that has been answered is gone) and
  of `Answer` per task.  A client need not hang up and a process need not end.
- pool, bus, scheduler: weak fairness of the union of the steps of
  the calls.  There are finitely many calls and each has finitely many steps,
  so that fairness to the union is fairness to each.  For the bus it assumes
  that handlers settle: the dispatcher waits for them without a limit.
- `Execution` (plan, skills, reasoning, router): weak fairness of the next
  step of the one component that runs; for the router it is the union of its
  calls' steps, as above.  That a provider answers or fails rests on the limit
  of a minute that the clients of Anthropic and Google set; the client of
  OpenAI (`openai.provider.ts:85`) sets none, and only the defaults of `fetch`
  end its requests.
- `Tools`: weak fairness of the timer of each request and of nothing else;
  neither a server nor its process owes anything.
- `Stores`: no liveness is claimed.

No strong fairness is needed.

## 5. Where the code does not do what is written

Three runs refute a sentence of the repository.

- `AgentKernel_resume`: boot marks the unfinished rows of a crashed process
  pending "to resume" (`agent-kernel.ts:85`), and
  `docs/architecture/04-agent-kernel.md:684` says that they are resumed.
  Nothing puts them into the queue: they stay pending for ever.
- `AgentPool_overlimit`: `maxInstances` are the "Maximum concurrent instances"
  of a role (`multi-agent/src/types.ts:37`).  `cancel` releases the slot of an
  executor that goes on running; the slot is handed to the next delegation,
  and again when the cancelled one ends.  `OverrunIsBounded` says how far this
  goes: one agent more per cancellation.
- `Gateway_interrupt`: the serve command says "Press Ctrl+C to terminate
  server." (`cli/src/commands/serve.command.ts:22`), and
  `docs/architecture/03-high-level-architecture.md:219` draws SIGINT leading
  to an exit.  The handler only resolves a promise (`cli/src/bin.ts:178`) and
  `main` shuts the runtime down after every command but `serve`: the process
  goes on serving, and later interrupts find the handler still installed.

Other differences met while modelling.  The modules follow the code; no run is
about them.

- `cancelTask` has no lasting effect on the outcome: `processTask` writes
  completed or failed over cancelled (`agent-kernel.ts:200`, `234`).  The
  same holds for a cancelled delegation (`delegation-executor.ts:216`).
- A failure of `recordEpisode` turns a completed task into a failed one and
  reports it a second time (`ReportedOutcome` says so).
- The key of the cache of responses has a preset for every field that a request
  leaves out (`response-cache.ts:19`), while `openai.provider.ts:91` sends only
  what is given: a request without a temperature may get the answer to one with
  0.7, and one without a provider that of the former default.
  `docs/architecture/07-workspace.md:73` says "Any variation results in a cache
  miss."; `AnswersMatchRequests` says that no other variation is lost.
- An agent type that is registered anew with a higher `maxInstances` leaves
  those in the queue where they are: the new slots go to newcomers, who pass
  them, and the queue gets only what is released (`agent-pool.ts:27`, `103`).
  `NoIdleSlot` and `NoOvertaking` say so; with a lower one the agents beyond it
  hand their slots on to the queue (`peak` in `OverrunIsBounded`).
- The rows of an event and of one that its handler emitted may have one
  timestamp, and their ULIDs one time with random ends: within a millisecond
  `query` and `replay` may show the effect before its cause
  (`event-journal.ts:71`, `107`).  `CausesComeFirst` is about the times.
- The context of a task is chosen from the 500 newest episodes and the 500
  surest facts (`hybrid-retriever.ts:138`, `214`); a better record beyond them
  is not seen.  `ContextFits` is about those pages.
- The OpenAI client takes an error without a message, or one that is a string,
  for a part of an answer (`openai.provider.ts:165`, `217`): a stream with
  nothing else is an empty answer.  `BodiesAreRead` is about errors with a
  message.
- An upsert replaces the value of a property that the entity has already, and
  a merge drops the source's value of a property that both have
  (`knowledge-graph.ts:174`, `entity-manager.ts:260`); the weight of a
  relationship is that of the last upsert (line 214).  `NothingForgotten` is
  about the values that nothing replaced.
- `update` writes `logging.level` into the file, and the next load replaces it
  in memory by `system.logLevel`, which always has a value by default
  (`config-manager.ts:130`); the update of any key then writes that.
- A list of tools with a malformed entry throws in the middle of `connect`: the
  connection is kept and connected, its status says error, and the tools before
  the entry stay registered when it is disconnected
  (`mcp-client-manager.ts:28`, `53`).  `ToolsFollowConnections` leaves such a
  server out.
- Two steps of a plan that the model gives one id are refused as a cycle
  (`goal-decomposer.ts:57`, `dag-builder.ts:8`).
- A second process that boots while a first one executes sets the rows of
  that one back to pending (`agent-kernel.ts:75`); `NoPhantomExecution` and
  `ImplementsDurableTasks` therefore speak of one process at a time.
- The event bus delivers neither in the order of priorities nor one event
  after another, has no time limit for handlers and no retry of dead letters
  (`docs/architecture/14-event-bus.md:22`, `230`, `240`).
- A wildcard in the middle of a pattern matches nothing
  (`docs/architecture/15-multi-agent.md:262` uses one); `EdgeWildcards` is
  about those at the start and the end.
- Steps in cron fields that count from one (day of the month, month), steps
  within ranges and steps within lists do not mean what cron means;
  `PlainFieldsAreStandard` leaves them out.
- `unregisterTrigger` leaves the event subscription; schedules are not loaded
  after a restart (`docs/architecture/13-scheduler.md:203`); a task that
  failed is recorded as a success, since `submitTask` does not reject;
  deduplication misses a firing that is between its check and its submission.
- The router records costs and enforces no budget (`README.md:83`), and
  identical requests in flight are each sent and billed.
- Tree search and the direct strategy look neither at the budget nor at a
  cancellation; `BudgetHolds` and `AbortIsNoticed` are about the ReAct loop.
- A skill whose fallback step is an earlier step may run for ever; in the
  instance fallback steps are later steps, or missing ones.
- `DELETE /api/tasks/:id` (`network/src/http/server.ts:120`) and `cancel_task`
  (`ws/ws-server.ts:66`) answer "cancelled" for every task, also for one that
  is still queued, which `cancelTask` leaves alone, and for one that has
  finished.
- The WebSocket server maps events whose type begins with `task.`
  (`ws-server.ts:100`); the kernel emits `kernel.task.*`, which are therefore
  not broadcast as events of tasks.
- `networkManager.stop` awaits the requests in flight, and so their tasks,
  before the kernel's shutdown begins; the kernel's deadline does not limit
  this wait.  `StopEnds` holds because tasks end.
- A webhook answers 200 "submitted" when a guard, the deduplication or the
  kernel's refusal has left no task.
- A flush that fails half-way is repeated from the start by the next one, with
  second episodes for the turns that already have one; a flush whose array was
  replaced clears the new one (`exposed` in `TurnsNeverLost`).
- Procedures are appended to the context after its budget was applied
  (`memory/src/memory-system.ts:109`); `ContextFits` is about the retriever.
- Two cycles of consolidation at once extract the same episode twice; nothing
  keeps a second one out (`again` in `ExtractedOnce`).
- The history of a merged or deleted entity goes with it by a foreign key;
  `docs/architecture/08-knowledge-graph.md:451` says that it is "retained in
  history for audit".
- `getEntityAtTime` orders changes by milliseconds only
  (`graph-traversal.ts:295`): of several within one millisecond it may pick
  the wrong one.  `AtTimeIsExact` is about distinct times.
- A rollback of the workspace writes the files of the snapshot and removes none
  that came later; a workspace may so be a mixture.
- Secrets are saved as a whole from a copy that is loaded once, and a keystore
  whose first load threw saves an empty one (`keystore.ts:45`); the update of
  a setting writes every layer, the environment's too, into the global file.
- A plugin that is unloaded during its `onInit` becomes active unregistered
  (`early` in `ActiveIsRegistered`); a reconnect during a disconnect loses the
  new connection (`crossed` in `ToolsFollowConnections`).

## 6. Proofs

`tlapm <module>.tla`.  Each theorem is about a specification and every value of
its constants; the invariant runs of section 3 check the same formulas on small
instances.

**What is assumed.**  Only the named assumptions of the modules, which TLC
evaluates in the runs: priorities are integers (`PriorityAssumption`); bounds
are numbers and the names that stand for "none" are not names of anything
(`KernelAssumption`, `PoolAssumption`, `BusAssumption`, `SchedulerAssumption`,
`RegistryAssumption`, `RouterAssumption`, `EngineAssumption`, `ArrayAssumption`,
`ArchiveAssumption`, `BoundsAssumption`); a plan has a step and a replan adds
at least one (`PlanAssumption`); names that a server lists get its prefix
(`ManagerAssumption`); a setting has a value and the two log levels
are settings (`ConfigAssumption`); a minute of
the timer has a part, and clocks, random parts of identifiers, the depths of
queries, the budgets of contexts and the pages are numbers
(`HelpersAssumption`).  One theorem, `KernelIsDurable`, has a hypothesis: `Exclusive`, that one process runs at a
time.  The run `AgentKernel_shared` is about the other case, where a process
that boots sets the rows of the others' tasks back and the abstract table is
not implemented (`TasksAreToldTruly` says of it what still holds).

**SequenceFacts.**  Where the elements of a sequence are after an insertion, a
removal, an append or a concatenation, how often each occurs, and how many
there are.  `InductionUpTo` and `RecursionUpTo` replace the induction theorems
of the library, whose parameters are operators: a set of numbers up to n that
has 0 and with each number the next one has all of them (`InductionUpTo`, by a
least counterexample), and a function that begins at a value and goes on by a
step exists (`RecursionUpTo`, `EachRecursionUpTo` when every round has a step of
its own), so that a loop written as a recursive function computes what its
definition says.  `OrderExists`: a set of positions can be listed in any order
that is total on it, so that a sort which is defined by its result has one.

**KernelProofs**, for every set of tasks and processes, with memory or not:

- `EnqueueKeepsOrder`, `RemoveKeepsOrder`: on a sorted queue the operations
  give a sorted queue with the right tasks, each once.  `PositionExists`: the
  stable sort has a place for the new task.
- `TypeCorrect`, `QueuesStaySorted`: proved together (a queue has a position
  for a new task because it is sorted), with `HasObject`: a task in flight has
  a task object.
- `StateTellsWork`, `TasksListedOnce` (`StateMatchesWork`, `ListedOnce`).
  Neither is inductive.  `LocatedInv` adds that `pc` decides where a task is:
  announcing in the queue of its owner and nowhere else, in `processTask` in
  its `activeTasks`, returned in its `completedTasks`; so a step of one task
  cannot empty the map of another.
- `SettledRowsStay` (the action property `TerminalRowsStay`), `VerdictIsDurable`
  (`ReturnedIsDurable`).  `RowsInv` adds that a row is absent or pending until
  its task enters `processTask`: writes that are not terminal only meet rows
  that are not, whatever other processes recover.
- `TasksToldTruly` (`TasksAreToldTruly`).  `OutcomeInv` relates what was
  reported and what will be returned to `pc` for a task that no other process
  has recovered; the part about phantom executions needs `OneAtATime`: at most
  one process is up, and the others' tasks are at rest.
- `KernelIsDurable` (the refinement `ImplementsDurableTasks`): under
  `DurableInv` every step of the kernel is a step of the abstract table under
  the refinement mapping or leaves it alone, crashes and recoveries included.
  `HeldInv` says which rows the abstract table takes to be held.
- `GatewayKeepsKernel`: every behaviour behind the servers is one of the
  kernel, so that all of this holds there.  `AnswersStay`
  (`AnswersAreDurable`): `ToldInv` says that a task whose client was told is
  settled everywhere, and `SettledIsLeftAlone` that no step of the kernel
  touches a task of which this is true; `GateInv`, that a process whose servers
  run is up, so that its database is open while clients wait.

**AgentPoolProofs.**  `SlotsAreTallied` (`SlotsTally`), for any limits,
delegations and cancellations, and specs registered anew at any moment.
`LifeInv` says where a delegation, an instance and a recall stand, and that no
limit is above the peak of its role; `WaitsInv` that only what is queued waits;
`KeptInv` that a role on which somebody waits keeps the agents that refused
him; `CountInv` counts, over finite sets, the slots that are taken against the
instances that are busy and the releases that came too early.  `SlotsInOrder`:
the action property `NoOvertaking`.

**HelperProofs**, about the event bus and the helpers that it and other
components call.

- `EmitsAreHandled` (`ReturnedIsHandled`) and `BusRecordsAreTrue`
  (`RecordsAreTrue`).  `BusInv` ties the stack of nested dispatches to the calls
  of handlers: what was called, once each, what failed, which dead letter it
  left (`CalledInv`, `OnceInv`, `DeadInv`), that an emission came from a call
  that was made (`CauseInv`), and that the clock was read for the cause before
  it was read for the effect (`RowInv`).
- `PlansSort` (`SortsAgree`), for plans of any length.  `KahnInv` is the
  invariant of the loop of `validateDAG` and `topologicalSort`: a step is queued
  or sorted exactly when what it depends on is sorted, and its degree counts
  what is not.  From it `KahnEnds` (the loop ends within n rounds, with cycles
  too) and `ValidMeansAcyclic`: what is left unsorted is a set in which each
  step depends on another one of the set, and no such set meets a list in
  order.  `WaveInv` is the invariant of `topologicalLevelSort`, from which
  `WavesEnd` and `WavesAreReady`.
- `TriggersFireAsWritten` (`TriggersMatchAsWritten`), for patterns, types and
  cron fields of any length.  `TimerInv`: the interval that is running began in
  the minute that was looked at last, so it ends in a later one.
- `ReplayShowsAll` (`ReplayIsComplete`), for any number of events and any clock.
  `ShownInv`: what was replayed and what is still planned are together what the
  query selected from the rows that there were, in its order.
- `GraphAnswersRightly` (`GraphAnswersAgree`) by `NeighborsAgree` and
  `PathsAgree`, which are about any entities and relationships.
  `RowsAreTrails`: a row of the recursive query after k edges is a path of k
  edges whose end breadth finds within k.  `RowsFindAll`, the converse: what
  breadth finds after k edges and not before, a row ends at after k edges; the
  induction carries along that the row stays within what breadth has found, so
  that its rule against meeting an entity twice never stops it, and that the
  target is not nearer, where rows end.  `RowsHaveLightest`: with a row there
  is one of the same path over the lightest edges, which is what the query that
  looks the edges up again finds, so the weight of the best row is theirs.
- `ContextsStayInBudget` (`ContextFits`) by `StoreSectionFits`, which is about any
  candidates of a store.  `FoundIsBest`: each beginning of what a search
  returns is as good as any other candidate; `SectionFits`: what is shown is
  such a beginning, and the next record would not fit.
- `BodiesAreReadRightly` (`BodiesAreRead`) by `ObjectIsFound`, about an object of
  any length and depth between any texts, and `StreamIsRead`, about streams of any
  number of lines.  `Runs`: the scan goes over a text from one state to another
  and meets no end in it; this is closed under concatenation (`RunsJoin`), so that
  strings and objects are `Balanced`, whatever they are made of, and the first end
  that the scan meets is that of the object (`EndIsFound`).  `Has` is the
  invariant of the loop over lines: until an error with a message is said, what
  was read is the text and the last count of what was said so far, and the
  stream is over when a `[DONE]` was among it.

**SchedulerProofs.**  `SourcesAreHeard` (`ListensOnce`) by `SourceInv`: how often
a trigger listens follows from whether the scheduler runs and the trigger is
registered.  `FiringsLeaveRows` (`EveryFiringIsRecorded`) and
`DuplicatesAreFound` (`OnlyAnnouncedWorkIsMissed`) by `FiringInv`: the
statistics of a trigger count its firings by outcome, each ended firing has its
row, and what the deduplication looks for is in the rows except for work that
is announced and not yet submitted.  Steps of the firings are classified by
what they change (`Moves`, `Steps`), so that each class is proved once.

**ExecutionProofs.**

- `CompositionStaysAcyclic`: a closed set that the check of `register` finds is
  turned into one that shows the registry to be acyclic after the
  registration, also for the late `register` of `refine`.
  `NestingStaysBounded`.
- `PlansStaySound` (`PlansAreSound`).  `PlanInv`: a step that is done or at work
  had its prerequisites (`OrderInv`), what is pending forms a graph without
  cycles in the order of the indexes (`RebuildsDag`, for every replan), so that
  something is due (`DueInv`), and a plan fails only when the replans are used
  up (`BudgetInv`).
- `AnswersStayRight` (`AnswersAreRight`): an answer is stored under the key of
  the request that it answers, requests with one key are alike whatever their
  messages and fields (`SameKeyIsAlike`), and a route begins with the
  provider asked for (`RouteIsOrdered`).
- `AccountsStay` (`AccountsHold`): `SpentInv` counts the call that is under way
  and not yet consumed, `NoticeInv` that a step begins before the
  cancellation; for skills, `StackInv` and `CountInv` count the frames of a
  skill on the stack, which a retry, a fallback or an abort never changes.
- `ExecutionStaysSound`: `AllSpec`, which the run explores, implements the
  specification of each component, so that all of these hold in it.

**ToolProofs.**

- `AnswersReachTheirCall` (`AnswersBelong`): requests have identifiers of their
  own (`IdInv`) and what is pending has not been settled (`PendingInv`).
- `ActivePluginsAreRegistered` (`ActiveIsRegistered`): `UnloadInv` and
  `InstanceInv` follow an instance through unloads that overlap with its
  `onInit`.
- `ToolsStayTrue` (`ToolsAreTrue`): `OwnedInv` (a tool in the registry belongs to
  a connection that lists it, or is native), `AloneInv` (connections that do
  not cross), `StepInv` (what a connection still owes), `ExecInv` (an execution
  returns what its tool did).
- `ToolsStaySound`: the same for the specification that the run explores.

**StoreProofs.**

- `TurnsStay` (`TurnsNeverLost`): `FlushedInv` and `StaleInv` say where the turns
  of an array are while flushes of it wait, and which arrays nobody writes.
- `WrittenSettingsSurvive` (`WritesSurvive`): `CurrentInv` and `KeystoreInv`,
  what a manager or a keystore that is up to date has in memory is what is
  meant, for any layers above the file, with the two log levels among the keys.
- `RollbacksRestoreFinished` (`RestoresFinishedSnapshots`): `FinishedInv`, a
  manifest that can be read is that of a finished snapshot; `RereadInv`, what
  the second read may find.
- `LearningStaysOrdered` (`LearningIsOrdered`): `PatternInv`, one row for each
  lesson with the number of times it was drawn; `VersionInv`, a proposal that
  waits is above every version of its target or was overtaken.
- `FactsStaySound` (`FactsAreSound`): `WorkInv`, what a cycle is to mark has its
  facts, drawn or due before the mark; `ConsolidatedInv`, what is marked has
  them; `OnceInv`, an episode that no two cycles meet is worked on by one and
  has a fact only once its cycle is past drawing it; `DreamInv`, a dream is to
  retract only what is beaten by another fact of its key, which it stays.
- `KnowledgeIsKept` (`GraphKeepsKnowledge`).  `StakeInv`: calls that are under way
  together are exposed, so that one whose facts are not is alone.  `ReadInv`:
  leaving aside what is exposed, the row that a call has read is still the row
  of that entity, and once a merge has written its target every fact of its
  source is held elsewhere too; this survives a step that leaves the rows as
  they were, the exposed aside (`EntitiesStand`), and the one who writes while
  others are under way writes only what is exposed.  `RepointInv`: after a
  merge has repointed, only relationships written since are of its source.
  `IdInv` and `RowInv` are the shapes: identifiers are given once, a merge has
  two entities, a relationship two ends.
- `StoresStaySound`: the six of them for the specification that the run
  explores.

**Only model-checked**, and why:

- The liveness properties (`InterruptedResumes` and `InterruptTerminates` are
  refuted; `WaitsEnd`, `ShutdownEnds`, `DelegationReturns`, `EmitReturns`,
  `FiringEnds`, `EveryRunEnds`, `EveryCallSettles`): fairness and `ENABLED` are
  beyond the prover.
- The type invariants of the modules other than the kernel, as far as the
  proofs do not need them: each proof states the shapes it uses in its own
  invariant.

## 7. Not modelled, and the plan

Left out, by component:

- kernel: checkpoints (written, never read), the resource lock, aging and the
  token trimmer.
- network: routes that only read, subscriptions and broadcasts, authorization,
  CORS, the dashboard.
- cli: the wizard, the terminal UI and the commands, which are input and
  output around calls that are modelled.
- planner: the row of a plan and the reflection (written, never read).
- skills: executions from outside that overlap (`skills-engine.ts:42`), which
  share only the registry, whose changes between any two steps are modelled,
  and statistics that no await splits; matching, extraction and the manifest
  parser; reasoning: prompts and
  the reflection; llm-router: the bodies of the other providers, and
  `fallback-chain.ts`, which nothing uses.
- memory: embeddings, the text that is extracted or compressed, and
  `recordOutcome` of procedures, which nothing calls.
- knowledge-graph: text search and the similarity of names (the model has only
  that two names may mean one entity); descriptions, confidences, embeddings,
  and the properties and weights of relationships, of all of which the last
  write counts.
- mcp: resources and prompts, and the error of a pipe to a server that has just
  gone, which nobody listens to (`mcp-client.ts:133`) and which ends the whole
  process; plugins: discovery of manifests and the context
  object; tool-runtime: the native tools (I/O) and `LockManager`, which
  nothing uses.
- self-improvement: the texts of prompts and lessons; workspace: directories
  and single files; config: schemas and parsing.
- persistence (a synchronous driver, migrations, backup), observability
  (logs, metrics, traces) and core (types): nothing in them interleaves, and a
  statement of SQL is one step of the module that issues it.  Refusals of
  single statements are modelled in the journal, the flush and the
  consolidation only.

What is worth doing next:

1. Proofs: the type invariants of the modules other than the kernel.
2. Composition of `Scheduler` and `PlanExecutor` with the kernel through an
   abstract specification of `submitTask` (accepted, settled, returned).
3. The other providers' bodies, and the broadcasts of the WebSocket server.
