----------------------------- MODULE McpManager -----------------------------
(***************************************************************************)
(* The connections to MCP servers (mcp/src/client/mcp-client-manager.ts)   *)
(* over the registry of tools that they share with the native tools.       *)
(* connect waits for the server between making a connection and            *)
(* registering its tools; disconnect waits between closing it and removing *)
(* them; each call of connect has a connection and a status of its own.    *)
(* The MCP server (server/mcp-server.ts) hands the same tools out.         *)
(***************************************************************************)
EXTENDS ToolRuntime, FiniteSets

CONSTANTS Server,
          Prefix,       \* the toolPrefix of a server, or <<>>
          Offers,       \* the sets of names that a server may list
          MaxClients    \* bounds the calls of connect

VARIABLES clients,     \* the connection and the status of each call of connect
          connections, \* the connection of a server, or 0
          listed,      \* registeredToolNamesByServer
          leaving,     \* calls of disconnect that wait for a connection
          crossed,     \* servers whose connect began while one was connected,
                       \*   connecting or disconnecting, or broke off
          contested    \* names that were registered over somebody's tool

mcpVars == <<clients, connections, listed, leaving, crossed, contested>>
vars == <<toolVars, mcpVars>>

Init ==
  /\ ToolInit
  /\ clients = <<>>
  /\ connections = [s \in Server |-> 0]
  /\ listed = [s \in Server |-> {}]
  /\ leaving = {}
  /\ crossed = {} /\ contested = {}

McpTool(i) == [type |-> "mcp", client |-> i]

\* MCPToolAdapter.toToolDefinition: the names that get registered.
Adapted(s, offer) == {Prefix[s] \o n : n \in offer}

\* connect up to its await.
BeginConnect(s) ==
  /\ Len(clients) < MaxClients
  /\ clients' = Append(clients, [server |-> s, link |-> "connecting",
                                 process |-> TRUE, tools |-> {},
                                 status |-> "connecting"])
  /\ crossed' =
       IF \/ connections[s] # 0
          \/ \E i \in DOMAIN clients :
               clients[i].server = s /\ clients[i].link = "connecting"
          \/ \E op \in leaving : op.server = s
       THEN crossed \cup {s} ELSE crossed
  /\ UNCHANGED <<toolVars, connections, listed, leaving, contested>>

\* The handshake is done and the tools are listed (none if that failed).
Connected(i, offer) ==
  LET s == clients[i].server
      names == Adapted(s, offer) IN
  /\ clients[i].link = "connecting"
  /\ clients' = [clients EXCEPT ![i].link = "open", ![i].tools = names,
                                ![i].status = "connected"]
  /\ connections' = [connections EXCEPT ![s] = i]
  /\ contested' = contested \cup {n \in names : registry[n] # NoTool}
  /\ registry' = WithTools(names, McpTool(i))
  /\ listed' = [listed EXCEPT ![s] = names]
  /\ UNCHANGED <<execs, leaving, crossed>>

\* The list of tools is malformed, which throws when the connection is kept and
\* some of them are registered: no disconnect will remove these.
ConnectBreaks(i, names) ==
  LET s == clients[i].server IN
  /\ clients[i].link = "connecting"
  /\ clients' = [clients EXCEPT ![i].link = "open", ![i].status = "error"]
  /\ connections' = [connections EXCEPT ![s] = i]
  /\ contested' = contested \cup {n \in names : registry[n] # NoTool}
  /\ registry' = WithTools(names, McpTool(i))
  /\ crossed' = crossed \cup {s}
  /\ UNCHANGED <<execs, listed, leaving>>

\* The handshake fails: nobody keeps the connection, or ends its process.
ConnectFails(i) ==
  /\ clients[i].link = "connecting"
  /\ clients' = [clients EXCEPT ![i].link = "failed", ![i].status = "error"]
  /\ UNCHANGED <<toolVars, connections, listed, leaving, crossed, contested>>

\* The status object of a server is the one of its latest connect.
Latest(s) ==
  LET calls == {i \in DOMAIN clients : clients[i].server = s} IN
  IF calls = {} THEN 0 ELSE CHOOSE i \in calls : \A j \in calls : j <= i
MarkDisconnected(cs, s) ==
  IF Latest(s) = 0 THEN cs ELSE [cs EXCEPT ![Latest(s)].status = "disconnected"]

\* disconnect closes the connection and ends its process, and then waits.
BeginDisconnect(s) ==
  LET i == connections[s] IN
  /\ i # 0
  /\ [server |-> s, client |-> i] \notin leaving
  /\ clients' = [clients EXCEPT ![i].link = "closed", ![i].process = FALSE]
  /\ leaving' = leaving \cup {[server |-> s, client |-> i]}
  /\ UNCHANGED <<toolVars, connections, listed, crossed, contested>>

\* Mutant of EndDisconnect: only the connection is forgotten.
EndDisconnectOnly(op) ==
  /\ op \in leaving
  /\ leaving' = leaving \ {op}
  /\ connections' = [connections EXCEPT ![op.server] = 0]
  /\ clients' = MarkDisconnected(clients, op.server)
  /\ UNCHANGED <<toolVars, listed, crossed, contested>>

\* Whatever connection and tools the server has by now are forgotten.
EndDisconnect(op) ==
  /\ op \in leaving
  /\ leaving' = leaving \ {op}
  /\ connections' = [connections EXCEPT ![op.server] = 0]
  /\ registry' = WithoutTools(listed[op.server])
  /\ listed' = [listed EXCEPT ![op.server] = {}]
  /\ clients' = MarkDisconnected(clients, op.server)
  /\ UNCHANGED <<execs, crossed, contested>>

\* disconnect of a server that has no connection does not wait.
DisconnectNothing(s) ==
  /\ connections[s] = 0
  /\ registry' = WithoutTools(listed[s])
  /\ listed' = [listed EXCEPT ![s] = {}]
  /\ clients' = MarkDisconnected(clients, s)
  /\ UNCHANGED <<execs, connections, leaving, crossed, contested>>

\* The process of a server ends by itself; the manager is not told.
ProcessExits(i) ==
  /\ clients[i].process
  /\ clients' = [clients EXCEPT ![i].process = FALSE]
  /\ UNCHANGED <<toolVars, connections, listed, leaving, crossed, contested>>

\* A tool says that it succeeded or that it failed, an MCP tool also when its
\* connection is closed: a server that is no process of ours still answers.
ToolAnswers(e) ==
  /\ \E success \in BOOLEAN : ToolReturns(e, success)
  /\ UNCHANGED mcpVars
-----------------------------------------------------------------------------
\* tools/list of the MCP server: the native tools under another name.
Fc == "fc"
Listed == {<<Fc>> \o n : n \in {m \in Name : registry[m] = NativeTool}}

\* tools/call takes the prefix off, if there is one, and executes the tool.
Target(asked) == IF Head(asked) = Fc THEN Tail(asked) ELSE asked
ServerCall(e, asked) ==
  /\ Target(asked) \in Name
  /\ Execute(e, Target(asked))
  /\ UNCHANGED mcpVars

Next ==
  \/ \E s \in Server : BeginConnect(s) \/ BeginDisconnect(s) \/ DisconnectNothing(s)
  \/ \E i \in DOMAIN clients :
       \/ \E offer \in Offers[clients[i].server] :
            \/ Connected(i, offer)
            \/ \E names \in SUBSET Adapted(clients[i].server, offer) :
                 ConnectBreaks(i, names)
       \/ ConnectFails(i) \/ ProcessExits(i)
  \/ \E op \in leaving : EndDisconnect(op)
  \/ \E e \in Exec : \/ ExecStep(e) /\ UNCHANGED mcpVars
                     \/ execs[e].pc = "running" /\ ToolAnswers(e)
                     \/ \E asked \in Listed : ServerCall(e, asked)

Spec == Init /\ [][Next]_vars
-----------------------------------------------------------------------------
\* The type invariant: the domain of every variable of the manager.
TypeOK ==
  /\ ToolTypeOK
  /\ \A i \in DOMAIN clients :
       /\ clients[i].server \in Server /\ clients[i].tools \subseteq Name
       /\ clients[i].link \in {"connecting", "open", "closed", "failed"}
       /\ clients[i].status \in {"connecting", "connected", "error", "disconnected"}
  /\ connections \in [Server -> 0 .. Len(clients)]
  /\ listed \in [Server -> SUBSET Name]
  /\ leaving \subseteq [server : Server, client : DOMAIN clients]
  /\ crossed \subseteq Server /\ contested \subseteq Name

(***************************************************************************)
(* The registry is in step with the connections (mcp-client-manager.ts:    *)
(* 17-78), as long as nobody connects a server that is connected, is being *)
(* connected or disconnected, and no list of tools breaks a connect off:   *)
(* the tools of a server are exactly those that its connection listed,     *)
(* none is left of a former connection, and the process of every former    *)
(* connection is ended, except after a failed handshake.  Names that two   *)
(* tools claim are left out.  The native tools stay.                       *)
(***************************************************************************)
ToolsFollowConnections ==
  /\ \A s \in Server \ crossed :
       LET mine == {i \in DOMAIN clients : clients[i].server = s} IN
       /\ connections[s] # 0 =>
            /\ listed[s] = clients[connections[s]].tools
            /\ \A n \in listed[s] \ contested : registry[n] = McpTool(connections[s])
       /\ connections[s] = 0 => listed[s] = {}
       /\ \A i \in mine, n \in Name \ contested :
            registry[n] = McpTool(i) => i = connections[s]
       /\ \A i \in mine :
            clients[i].process =>
              i = connections[s] \/ clients[i].link \in {"connecting", "failed"}
  /\ \A n \in Native \ contested : registry[n] = NativeTool
=============================================================================
