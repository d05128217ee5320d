----------------------------- MODULE McpClient -----------------------------
(***************************************************************************)
(* One connection to an MCP server over the pipes of its process           *)
(* (mcp/src/client/mcp-client.ts).  sendRequest keeps a request under its  *)
(* id with a timer until an answer with that id comes; callTool turns what *)
(* it returns or throws into a result.  The server answers in any order,   *)
(* late, twice, or with something that is no answer; its process may end,  *)
(* and the connection may be closed, at any moment.                        *)
(***************************************************************************)
EXTENDS Naturals, FiniteSets

CONSTANTS Call,      \* the calls of callTool
          MaxAnswers \* bounds how often the server answers a request

ASSUME ClientAssumption == MaxAnswers \in Nat

VARIABLES requestId, \* the ids that were given away
          calls,     \* what each call waits for, and its result
          pending,   \* pendingRequests: the ids that wait, each with a timer
          sent,      \* the requests that the server has read or will read
          answers,   \* the answers on their way back, by request and contents
          answered,  \* how often the server answered each id
          process,   \* childProcess: alive, gone, or forgotten by disconnect
          isConnected

vars == <<requestId, calls, pending, sent, answers, answered, process, isConnected>>

Init ==
  /\ requestId = 0
  /\ calls = [c \in Call |-> [pc |-> "idle", id |-> 0, result |-> "none", of |-> 0]]
  /\ pending = {}
  /\ sent = {} /\ answers = {}
  /\ answered = [id \in 1 .. Cardinality(Call) |-> 0]
  /\ process = "alive"
  /\ isConnected = TRUE

\* The result of a call: of the answer to a request, or of an exception.
Settle(S, result, of) ==
  calls' = [c \in Call |->
    IF c \in S THEN [calls[c] EXCEPT !.pc = "settled", !.result = result, !.of = of]
    ELSE calls[c]]
Waiting(ids) == {c \in Call : calls[c].pc = "waiting" /\ calls[c].id \in ids}

Kinds == {"result", "error", "isError"}

\* callTool and sendRequest: the id is given away before the write is tried.
\* A write to a process that is gone throws, once the pipe is known to be closed.
\* (Before that it is taken to wait for its timer.  The pipe may also emit an error,
\* which nobody listens to and which ends the whole process of the agent; then
\* there is no connection left to say anything about, and it is not modelled.)
SendRequest(c) ==
  /\ calls[c].pc = "idle"
  /\ requestId' = requestId + 1
  /\ \/ /\ process # "alive"
        /\ calls' = [calls EXCEPT ![c] =
             [pc |-> "settled", id |-> requestId + 1, result |-> "exception", of |-> 0]]
        /\ UNCHANGED <<pending, sent>>
     \/ /\ process # "forgotten"
        /\ calls' = [calls EXCEPT ![c].pc = "waiting", ![c].id = requestId + 1]
        /\ pending' = pending \cup {requestId + 1}
        /\ sent' = IF process = "alive" THEN sent \cup {requestId + 1} ELSE sent
  /\ UNCHANGED <<answers, answered, process, isConnected>>

\* The server answers a request, whatever became of it meanwhile.
ServerAnswers(id, kind) ==
  /\ process = "alive"
  /\ id \in sent /\ answered[id] < MaxAnswers
  /\ answered' = [answered EXCEPT ![id] = @ + 1]
  /\ answers' = answers \cup {[id |-> id, kind |-> kind]}
  /\ UNCHANGED <<requestId, calls, pending, sent, process, isConnected>>

\* Mutant of HandleData: the answer goes to the request that waits the longest.
HandleDataInOrder(a) ==
  LET id == CHOOSE i \in pending \cup {0} : \A j \in pending : i <= j /\ i # 0 IN
  /\ a \in answers
  /\ answers' = answers \ {a}
  /\ IF pending # {}
     THEN pending' = pending \ {id} /\ Settle(Waiting({id}), a.kind, a.id)
     ELSE UNCHANGED <<pending, calls>>
  /\ UNCHANGED <<requestId, sent, answered, process, isConnected>>

\* handleData: an answer to a request that no longer waits is dropped.
HandleData(a) ==
  /\ a \in answers
  /\ answers' = answers \ {a}
  /\ IF a.id \in pending
     THEN pending' = pending \ {a.id} /\ Settle(Waiting({a.id}), a.kind, a.id)
     ELSE UNCHANGED <<pending, calls>>
  /\ UNCHANGED <<requestId, sent, answered, process, isConnected>>

\* The timer of a request.
Timeout(id) ==
  /\ id \in pending
  /\ pending' = pending \ {id}
  /\ Settle(Waiting({id}), "exception", 0)
  /\ UNCHANGED <<requestId, sent, answers, answered, process, isConnected>>

\* The process ends or cannot be started; what it wrote may still arrive.
ProcessExits ==
  /\ process = "alive"
  /\ process' = "gone"
  /\ isConnected' = FALSE
  /\ UNCHANGED <<requestId, calls, pending, sent, answers, answered>>

\* Mutant of Disconnect: the requests are dropped and nobody is told.
DisconnectSilently ==
  /\ process # "forgotten"
  /\ isConnected' = FALSE
  /\ pending' = {}
  /\ process' = "forgotten"
  /\ UNCHANGED <<requestId, calls, sent, answers, answered>>

\* disconnect: every request that waits is rejected, the process is killed.
Disconnect ==
  /\ process # "forgotten"
  /\ isConnected' = FALSE
  /\ pending' = {}
  /\ Settle(Waiting(pending), "exception", 0)
  /\ process' = "forgotten"
  /\ UNCHANGED <<requestId, sent, answers, answered>>

Next ==
  \/ \E c \in Call : SendRequest(c)
  \/ \E id \in sent, k \in Kinds : ServerAnswers(id, k)
  \/ \E a \in answers : HandleData(a)
  \/ \E id \in pending : Timeout(id)
  \/ ProcessExits \/ Disconnect

Spec == Init /\ [][Next]_vars

\* Only the timers are sure to come; a server may never answer.
Fairness == \A id \in 1 .. Cardinality(Call) : WF_vars(Timeout(id))
FairSpec == Spec /\ Fairness
-----------------------------------------------------------------------------
\* The type invariant: the domain of every variable of the connection.
TypeOK ==
  /\ requestId \in 0 .. Cardinality(Call)
  /\ calls \in [Call -> [pc : {"idle", "waiting", "settled"}, id : Nat,
                         result : Kinds \cup {"none", "exception"}, of : Nat]]
  /\ pending \subseteq 1 .. requestId /\ sent \subseteq 1 .. requestId
  /\ answers \subseteq [id : sent, kind : Kinds]
  /\ \A id \in DOMAIN answered : answered[id] \in 0 .. MaxAnswers
  /\ process \in {"alive", "gone", "forgotten"} /\ isConnected \in BOOLEAN

(***************************************************************************)
(* A call gets the answer to its own request or an exception, however late *)
(* and in whatever order answers come (mcp-client.ts:86-106), and the      *)
(* requests with a timer are exactly those of the calls that still wait:   *)
(* no entry is left behind and none waits without a timer.                 *)
(***************************************************************************)
AnswersBelong ==
  /\ \A c \in Call : calls[c].result \in Kinds => calls[c].of = calls[c].id
  /\ \A id \in 1 .. requestId : id \in pending <=> Waiting({id}) # {}
  /\ \A id \in pending : Cardinality(Waiting({id})) = 1

\* Every call of a tool settles, if only by its timer, also when the server
\* never answers, its process ends or the connection is closed.
EveryCallSettles ==
  \A c \in Call : calls[c].pc = "waiting" ~> calls[c].pc = "settled"
=============================================================================
