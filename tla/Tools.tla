------------------------------- MODULE Tools --------------------------------
(***************************************************************************)
(* Where tools come from: one connection to an MCP server, the manager of  *)
(* several over the registry of tools, and the registry of plugins.  They  *)
(* share no state (the manager sees of a connection only that a call fails *)
(* or not), so each behaviour is about one of them, its focus.  What TLC   *)
(* takes for the constants that are not plain sets and numbers stands at   *)
(* the end.                                                                *)
(***************************************************************************)
EXTENDS McpClient, Sequences, TLC

CONSTANTS Name, Native, Exec, NoTool,           \* ToolRuntime
          Server, Prefix, Offers, MaxClients,   \* McpManager
          Plugin, Unload, MaxInstances          \* PluginRegistry

VARIABLE focus
VARIABLES registry, execs, clients, connections, listed, leaving, crossed, contested
VARIABLES plugins, instances, unloads, early, shadowed

managerVars == <<registry, execs, clients, connections, listed, leaving, crossed,
                 contested>>
pluginVars == <<plugins, instances, unloads, early, shadowed>>
-----------------------------------------------------------------------------
Manager == INSTANCE McpManager

Registry == INSTANCE PluginRegistry

ASSUME ToolsAssumption == MaxClients \in Nat /\ MaxInstances \in Nat

\* Names are sequences of words; whatever a server lists has a name of its own
\* with its prefix.
ASSUME ManagerAssumption ==
  /\ Native \subseteq Name
  /\ \A s \in Server : \A offer \in Offers[s] : Manager!Adapted(s, offer) \subseteq Name
  /\ NoTool \notin [type : {"native", "mcp"}, client : Nat]
-----------------------------------------------------------------------------
\* What is not in focus is in its initial state for ever.
AllInit ==
  /\ focus \in {"client", "manager", "plugins"}
  /\ Init /\ Manager!Init /\ Registry!Init

AllNext ==
  /\ UNCHANGED focus
  /\ \/ focus = "client" /\ Next /\ UNCHANGED <<managerVars, pluginVars>>
     \/ focus = "manager" /\ Manager!Next /\ UNCHANGED <<vars, pluginVars>>
     \/ focus = "plugins" /\ Registry!Next /\ UNCHANGED <<vars, managerVars>>

allVars == <<focus, vars, managerVars, pluginVars>>
Expires(id) ==
  focus = "client" /\ Timeout(id) /\ UNCHANGED <<focus, managerVars, pluginVars>>
FairAllSpec ==
  /\ AllInit /\ [][AllNext]_allVars
  /\ \A id \in 1 .. Cardinality(Call) : WF_allVars(Expires(id))
-----------------------------------------------------------------------------
(***************************************************************************)
(* The registry of tools is in step with the connections, except as        *)
(* written at McpManager (mcp-client-manager.ts:17-78), and what the       *)
(* execution of a tool returns is what it did (execution-pipeline.ts:17).  *)
(***************************************************************************)
ToolsAreTrue == Manager!ToolsFollowConnections /\ Manager!ResultsTellRuns

\* An active plugin is registered (plugin-registry.ts:37-77), except as written
\* at PluginRegistry.
ActiveIsRegistered == Registry!ActiveIsRegistered
-----------------------------------------------------------------------------
(***************************************************************************)
(* An instance for TLC.  A server without a prefix, that may list the name *)
(* of a native tool, and one whose prefixed names are those of nobody else.*)
(***************************************************************************)
NativeName == <<"read">>
Ask == <<"ask">>
PrefixOf == ("s1" :> <<>>) @@ ("s2" :> <<"px">>)
Lists == ("s1" :> {{}, {NativeName}, {Ask}})
           @@ ("s2" :> {{Ask}, {Ask, NativeName}})
Servers == DOMAIN PrefixOf
Natives == {NativeName}
Names == {NativeName, Ask} \cup {<<"px">> \o n : n \in {NativeName, Ask}}
=============================================================================
