---------------------------- MODULE ToolRuntime ----------------------------
(***************************************************************************)
(* The tool runtime: its registry (tool-runtime/src/registry/              *)
(* tool-registry.ts), which overwrites a tool by the same name, and the    *)
(* execution of a tool (tool-runtime.ts, pipeline/execution-pipeline.ts).  *)
(* An execution looks its tool up once and then waits for the event bus,   *)
(* the tool and the event bus again (emit never rejects).                  *)
(***************************************************************************)
EXTENDS Naturals, Sequences

CONSTANTS Name,   \* the names of tools
          Native, \* those that the runtime registers when it starts
          Exec,   \* executions
          NoTool

VARIABLES registry, \* the tool under each name
          execs     \* the executions

toolVars == <<registry, execs>>

\* A tool by where it is from, and for an MCP tool the connection it calls.
NativeTool == [type |-> "native", client |-> 0]

\* What an execution is waiting for, what its tool did, the events that it
\* emitted, and what execute returns.
NewExec == [pc |-> "idle", tool |-> NoTool, ran |-> "not", events |-> <<>>,
            success |-> FALSE]

ToolInit ==
  /\ registry = [n \in Name |-> IF n \in Native THEN NativeTool ELSE NoTool]
  /\ execs = [e \in Exec |-> NewExec]

\* register and unregister.
WithTools(names, tool) == [n \in Name |-> IF n \in names THEN tool ELSE registry[n]]
WithoutTools(names) == WithTools(names, NoTool)
-----------------------------------------------------------------------------
\* execute: the tool is looked up and the first event is on its way.
Execute(e, n) ==
  /\ execs[e].pc = "idle"
  /\ execs' = [execs EXCEPT
       ![e].pc = IF registry[n] = NoTool THEN "failing" ELSE "starting",
       ![e].tool = registry[n]]
  /\ UNCHANGED registry

\* After tool.execution.started: the parameters are valid and the tool runs,
\* or they are not, which throws into the catch clause.
Starts(e, valid) ==
  /\ execs[e].pc = "starting"
  /\ execs' = [execs EXCEPT ![e].pc = IF valid THEN "running" ELSE "failing",
                            ![e].events = Append(@, "started")]
  /\ UNCHANGED registry

\* The tool returns a result.
ToolReturns(e, success) ==
  /\ execs[e].pc = "running"
  /\ execs' = [execs EXCEPT ![e].pc = IF success THEN "completing" ELSE "erring",
                            ![e].ran = IF success THEN "well" ELSE "badly"]
  /\ UNCHANGED registry

\* Mutant of ToolThrows: nothing catches it.
ToolThrowsThrough(e) ==
  /\ execs[e].pc = "running"
  /\ execs' = [execs EXCEPT ![e].pc = "rejected", ![e].ran = "badly"]
  /\ UNCHANGED registry

\* It throws, and the catch clause classifies the error.
ToolThrows(e) ==
  /\ execs[e].pc = "running"
  /\ execs' = [execs EXCEPT ![e].pc = "failing", ![e].ran = "badly"]
  /\ UNCHANGED registry

\* After tool.execution.completed or tool.execution.error.
Returns(e) ==
  /\ execs[e].pc \in {"completing", "erring", "failing"}
  /\ LET success == execs[e].pc = "completing" IN
       execs' = [execs EXCEPT
         ![e].pc = "returned",
         ![e].success = success,
         ![e].events = Append(@, IF success THEN "completed" ELSE "error")]
  /\ UNCHANGED registry

ExecStep(e) ==
  \/ \E n \in Name : Execute(e, n)
  \/ \E valid \in BOOLEAN : Starts(e, valid)
  \/ ToolThrows(e) \/ Returns(e)
-----------------------------------------------------------------------------
\* The type invariant: the domain of the registry and of the executions.
ToolTypeOK ==
  /\ \A n \in Name : registry[n] = NoTool \/
       registry[n] \in [type : {"native", "mcp"}, client : Nat]
  /\ \A e \in Exec :
       /\ execs[e].pc \in {"idle", "starting", "running", "completing", "erring",
                           "failing", "returned", "rejected"}
       /\ execs[e].ran \in {"not", "well", "badly"}
       /\ execs[e].success \in BOOLEAN

(***************************************************************************)
(* What execute returns is what the last event said and what the tool did  *)
(* (execution-pipeline.ts:17-61): no invalid parameter, failure or         *)
(* exception of a tool gets past it, and it never rejects.                 *)
(***************************************************************************)
ResultsTellRuns ==
  \A e \in Exec :
    LET x == execs[e] IN
    /\ x.pc # "rejected"
    /\ x.pc = "returned" =>
         /\ x.success <=> x.events[Len(x.events)] = "completed"
         /\ x.success <=> x.ran = "well"
         /\ x.ran # "not" => x.events[1] = "started"
=============================================================================
