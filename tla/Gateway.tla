------------------------------ MODULE Gateway ------------------------------
(***************************************************************************)
(* The gateway of packages/network over the kernel: HTTP requests and      *)
(* WebSocket messages submit tasks and wait for them, while the runtime    *)
(* (packages/cli/src/index.ts) or the serve command stops the servers, the *)
(* kernel and the database, in this order.                                 *)
(*                                                                         *)
(* DELETE /api/tasks/:id and cancel_task call cancelTask, which is         *)
(* CancelTask of the kernel; an asynchronous POST answers before its task  *)
(* is processed, as does every other caller of submitTask: to the clients  *)
(* that wait these are Submit of the kernel.                               *)
(***************************************************************************)
EXTENDS AgentKernel

CONSTANT Server     \* the processes whose command starts the servers

VARIABLES gate,    \* where the servers of each process are in start and stop
          client   \* who waits for the answer to a task, then what it said

gateVars == <<gate, client>>
allVars == <<vars, gateVars>>
-----------------------------------------------------------------------------
(***************************************************************************)
(* absent (most commands start no server), serving, interrupted (serving   *)
(* after a SIGINT), leaving (stop awaits that the sockets are closed),     *)
(* closing (it awaits the requests in flight), stopped.                    *)
(***************************************************************************)
Gate == {"absent", "serving", "interrupted", "leaving", "closing", "stopped"}
Listening == {"serving", "interrupted", "leaving"}

\* nobody, a request, a message over a socket; or the state that was answered.
Waits == {"request", "message"}
Client == {"nobody"} \cup Waits \cup Terminal

GatewayInit ==
  /\ Init
  /\ gate = [p \in Proc |-> "absent"]
  /\ client = [t \in Task |-> "nobody"]

\* NetworkManager.start: both servers, on one port.
StartServers(p) ==
  /\ p \in Server
  /\ life[p] = "up"
  /\ gate[p] = "absent"
  /\ gate' = [gate EXCEPT ![p] = "serving"]
  /\ UNCHANGED <<vars, client>>

\* POST /api/tasks and the webhooks' route: the request awaits submitTask, also when
\* its body arrived after HttpServer.stop began to wait for it.
PostTask(p, t) ==
  /\ gate[p] \in Listening \cup {"closing"}
  /\ Submit(p, t)
  /\ client' = [client EXCEPT ![t] = "request"]
  /\ UNCHANGED gate

(***************************************************************************)
(* submit_task over a socket.  A socket that is being closed still hands   *)
(* its messages over, and nothing is sent to it any more.                  *)
(***************************************************************************)
SendTask(p, t) ==
  /\ gate[p] \in Listening
  /\ Submit(p, t)
  /\ client' = [client EXCEPT ![t] =
                  IF gate[p] = "leaving" THEN "nobody" ELSE "message"]
  /\ UNCHANGED gate

\* submitTask returned to the handler, which sends the task's state.
Answer(t) ==
  /\ client[t] \in Waits
  /\ pc[t] = "returned"
  /\ client' = [client EXCEPT ![t] = state[t]]
  /\ UNCHANGED <<vars, gate>>

\* A client goes away; the handler still awaits the task, and sends nothing.
HangUp(t) ==
  /\ client[t] \in Waits
  /\ client' = [client EXCEPT ![t] = "nobody"]
  /\ UNCHANGED <<vars, gate>>

(***************************************************************************)
(* The SIGINT of the serve command: its promise resolves and main goes on, *)
(* which calls runtime.shutdown after every command but this one.          *)
(***************************************************************************)
Interrupt(p) ==
  /\ gate[p] = "serving"
  /\ gate' = [gate EXCEPT ![p] = "interrupted"]
  /\ UNCHANGED <<vars, client>>

\* NetworkManager.stop, the first call of runtime.shutdown, to its await of
\* the sockets: each is being closed, and sends to it are dropped.
StopServers(p) ==
  /\ gate[p] = "serving"
  /\ life[p] = "up"
  /\ gate' = [gate EXCEPT ![p] = "leaving"]
  /\ client' = [t \in Task |-> IF owner[t] = p /\ client[t] = "message"
                               THEN "nobody" ELSE client[t]]
  /\ UNCHANGED vars

\* The sockets are closed; HttpServer.stop takes no connection any more.
SocketsGone(p) ==
  /\ gate[p] = "leaving"
  /\ gate' = [gate EXCEPT ![p] = "closing"]
  /\ UNCHANGED <<vars, client>>

\* Mutant of RequestsGone: stop does not wait for the requests in flight.
RequestsLeft(p) ==
  /\ gate[p] = "closing"
  /\ gate' = [gate EXCEPT ![p] = "stopped"]
  /\ UNCHANGED <<vars, client>>

\* server.close has waited for the last request in flight, without a limit.
RequestsGone(p) ==
  /\ gate[p] = "closing"
  /\ \A t \in Task : owner[t] = p => client[t] # "request"
  /\ gate' = [gate EXCEPT ![p] = "stopped"]
  /\ UNCHANGED <<vars, client>>

\* The rest of runtime.shutdown, after the servers.
ShutdownAfter(p) ==
  /\ gate[p] \in {"absent", "stopped"}
  /\ Shutdown(p)
  /\ UNCHANGED gateVars

\* The connections of a process end with it.
ExitHangsUp(p) ==
  /\ Exit(p)
  /\ gate' = [gate EXCEPT ![p] = "absent"]
  /\ client' = [t \in Task |-> IF owner[t] = p /\ client[t] \in Waits
                               THEN "nobody" ELSE client[t]]

\* What goes on beside the servers.
KernelStep ==
  /\ \/ \E p \in Proc : Boot(p) \/ Recover(p) \/ StopDraining(p) \/ CloseDb(p)
     \/ \E p \in Proc, t \in Task : Submit(p, t)
     \/ \E t \in Task : TaskStep(t) \/ CancelTask(t)
  /\ UNCHANGED gateVars

GatewayNext ==
  \/ KernelStep
  \/ \E p \in Proc : \/ StartServers(p)
                     \/ Interrupt(p)
                     \/ StopServers(p)
                     \/ SocketsGone(p)
                     \/ RequestsGone(p)
                     \/ ShutdownAfter(p)
                     \/ ExitHangsUp(p)
  \/ \E p \in Proc, t \in Task : PostTask(p, t) \/ SendTask(p, t)
  \/ \E t \in Task : Answer(t) \/ HangUp(t)

GatewaySpec == GatewayInit /\ [][GatewayNext]_allVars

(***************************************************************************)
(* As for the kernel: what was awaited goes on, closing sockets are closed *)
(* (their clients answer, or a timer of the library ends them).            *)
(***************************************************************************)
GatewayFairSpec ==
  /\ GatewaySpec
  /\ LoopFairness /\ TaskFairness
  /\ \A p \in Proc : WF_allVars(SocketsGone(p)) /\ WF_allVars(RequestsGone(p))
  /\ \A t \in Task : WF_allVars(Answer(t))
-----------------------------------------------------------------------------
\* The type invariant: the domains of the gateway's own variables.
GatewayTypeOK ==
  /\ gate \in [Proc -> Gate]
  /\ client \in [Task -> Client]

\* getTask: the task object of a process that has one, or else the row.
GetTask(p, t) ==
  IF t \in active[p] \cup settled[p] THEN state[t] ELSE db[t]

(***************************************************************************)
(* What a client was told of its task is what GET /api/tasks/:id answers   *)
(* ever after, in every process, over shutdowns, crashes and restarts:     *)
(* stop lets requests in flight end before the database is closed          *)
(* (network-manager.ts:74, cli/src/index.ts:320), and the row is written   *)
(* before the answer is sent (agent-kernel.ts:253).                        *)
(***************************************************************************)
AnswersAreDurable ==
  \A t \in Task : client[t] \in Terminal =>
    \A p \in Proc : DbOpen(p) => GetTask(p, t) = client[t]

\* Every client that waits is answered, or loses its connection.
ClientsAreAnswered ==
  \A t \in Task : client[t] \in Waits ~> client[t] \notin Waits

\* The runtime's shutdown gets past the servers as long as every task ends:
\* nothing that they wait for waits for the shutdown.
StopEnds ==
  \A p \in Proc : gate[p] = "leaving" ~> gate[p] \in {"stopped", "absent"}

\* Whoever waits for a task or for its end is not left waiting
\* (agent-kernel.ts:173, server.ts:76, network-manager.ts:74).
WaitsEnd == SubmittedReturns /\ ClientsAreAnswered /\ StopEnds
-----------------------------------------------------------------------------
(***************************************************************************)
(* What the program says and does not do: "Press Ctrl+C to terminate       *)
(* server." (cli/src/commands/serve.command.ts:22).  The interrupted       *)
(* process stops serving, or ends.                                         *)
(***************************************************************************)
InterruptTerminates ==
  \A p \in Proc : gate[p] = "interrupted" ~> gate[p] # "interrupted"
=============================================================================
