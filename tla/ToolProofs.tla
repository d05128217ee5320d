----------------------------- MODULE ToolProofs -----------------------------
(***************************************************************************)
(* Proofs about where tools come from: the connection to an MCP server,    *)
(* the registry of plugins and the manager of connections over the         *)
(* registry of tools, for every set of calls, plugins, servers and names.  *)
(***************************************************************************)
EXTENDS Tools, FiniteSetTheorems, SequenceFacts, TLAPS

-----------------------------------------------------------------------------
(***************************************************************************)
(* The connection.  A call that was sent has an id of its own, and is in   *)
(* pendingRequests under that id exactly as long as it waits.              *)
(***************************************************************************)

ClientType ==
  /\ requestId \in Nat
  /\ sent \subseteq Nat
  /\ answers \subseteq [id : Nat, kind : Kinds]
  /\ calls \in [Call -> [pc : {"idle", "waiting", "settled"}, id : Nat,
                         result : Kinds \cup {"none", "exception"}, of : Nat]]

IdInv ==
  /\ pending \subseteq 1 .. requestId
  /\ \A c \in Call : calls[c].pc # "idle" => calls[c].id \in 1 .. requestId
  /\ \A c, d \in Call :
       calls[c].pc # "idle" /\ calls[d].pc # "idle" /\ c # d =>
         calls[c].id # calls[d].id

PendingInv ==
  /\ \A c \in Call : calls[c].pc = "waiting" => calls[c].id \in pending
  /\ \A id \in pending :
       \E c \in Call : calls[c].pc = "waiting" /\ calls[c].id = id

\* The answer that a call has is the one to its request.
OwnAnswer ==
  \A c \in Call :
    /\ calls[c].result \in Kinds => calls[c].of = calls[c].id
    /\ calls[c].pc # "settled" => calls[c].result = "none"

ClientInv == ClientType /\ IdInv /\ PendingInv /\ OwnAnswer

LEMMA ClientInit == Init => ClientInv
  BY DEF Init, ClientInv, ClientType, IdInv, PendingInv, OwnAnswer, Kinds

\* What it means for calls and for pendingRequests that the calls with an id
\* in ids are settled with an exception, or all with the answer to that id.
LEMMA SettleKeeps ==
  ASSUME ClientInv, NEW ids \in SUBSET pending,
         NEW result \in Kinds \cup {"exception"}, NEW of \in Nat,
         result \in Kinds => ids \subseteq {of},
         Settle(Waiting(ids), result, of),
         pending' = pending \ ids, UNCHANGED <<requestId, sent>>,
         answers' \subseteq answers
  PROVE  ClientInv'
<1> USE DEF ClientInv, ClientType
<1>1. ASSUME NEW c \in Call
      PROVE  /\ calls'[c].id = calls[c].id
             /\ calls'[c].pc \in {calls[c].pc, "settled"}
             /\ calls'[c].pc = "idle" <=> calls[c].pc = "idle"
  BY DEF Settle, Waiting
<1>2. ClientType'
  BY DEF Settle
<1>3. IdInv'
  BY <1>1, <1>2 DEF IdInv
<1>4. PendingInv'
  <2>1. \A c \in Call : calls'[c].pc = "waiting"
          <=> calls[c].pc = "waiting" /\ calls[c].id \notin ids
    BY DEF Settle, Waiting
  <2> QED
    BY <1>1, <2>1 DEF PendingInv
<1>5. OwnAnswer'
  BY DEF OwnAnswer, Settle, Waiting
<1> QED
  BY <1>2, <1>3, <1>4, <1>5

LEMMA ClientStep ==
  ASSUME ClientInv, [Next]_vars
  PROVE  ClientInv'
<1>1. CASE UNCHANGED <<requestId, calls, pending>> /\ ClientType'
  BY <1>1 DEF ClientInv, ClientType, IdInv, PendingInv, OwnAnswer
<1>2. ASSUME NEW c \in Call, SendRequest(c)
      PROVE  ClientInv'
  <2> USE DEF ClientInv, ClientType
  <2>1. CASE UNCHANGED pending /\ calls' = [calls EXCEPT ![c] =
          [pc |-> "settled", id |-> requestId + 1, result |-> "exception",
           of |-> 0]]
    BY <1>2, <2>1
       DEF SendRequest, IdInv, PendingInv, OwnAnswer, Kinds
  <2>2. CASE /\ calls' = [calls EXCEPT ![c].pc = "waiting",
                                       ![c].id = requestId + 1]
             /\ pending' = pending \cup {requestId + 1}
    <3>1. ClientType'
      BY <1>2, <2>2 DEF SendRequest
    <3>2. IdInv'
      BY <1>2, <2>2 DEF SendRequest, IdInv
    <3>3. PendingInv'
      BY <1>2, <2>2 DEF SendRequest, PendingInv
    <3>4. OwnAnswer'
      BY <1>2, <2>2 DEF SendRequest, OwnAnswer, Kinds
    <3> QED
      BY <3>1, <3>2, <3>3, <3>4
  <2> QED
    BY <1>2, <2>1, <2>2 DEF SendRequest
<1>3. ASSUME NEW a \in answers, HandleData(a), a.id \in pending
      PROVE  ClientInv'
  <2>1. /\ {a.id} \in SUBSET pending /\ a.id \in Nat /\ a.kind \in Kinds
        /\ Settle(Waiting({a.id}), a.kind, a.id)
    BY <1>3 DEF HandleData, ClientInv, ClientType
  <2>2. /\ pending' = pending \ {a.id}
        /\ UNCHANGED <<requestId, sent>> /\ answers' \subseteq answers
    BY <1>3 DEF HandleData
  <2> QED
    BY <2>1, <2>2, SettleKeeps
<1>4. ASSUME NEW id \in pending, Timeout(id)
      PROVE  ClientInv'
  <2>1. {id} \in SUBSET pending
    OBVIOUS
  <2> QED
    BY <1>4, <2>1, SettleKeeps DEF Timeout, Kinds
<1>5. ASSUME Disconnect
      PROVE  ClientInv'
  <2>1. pending' = pending \ pending
    BY <1>5 DEF Disconnect
  <2> QED
    BY <1>5, <2>1, SettleKeeps DEF Disconnect, Kinds
<1>6. ASSUME NEW id \in sent, NEW k \in Kinds, ServerAnswers(id, k)
      PROVE  ClientInv'
  BY <1>1, <1>6 DEF ServerAnswers, ClientInv, ClientType
<1>7. CASE \/ UNCHANGED vars \/ ProcessExits
           \/ \E a \in answers : HandleData(a) /\ a.id \notin pending
  BY <1>1, <1>7 DEF vars, ProcessExits, HandleData, ClientInv, ClientType
<1> QED
  BY <1>2, <1>3, <1>4, <1>5, <1>6, <1>7 DEF Next

LEMMA ClientInvImplies == ClientInv => AnswersBelong
<1> SUFFICES ASSUME ClientInv
             PROVE  AnswersBelong
  OBVIOUS
<1> USE DEF ClientInv, ClientType
<1>1. \A c \in Call : calls[c].result \in Kinds => calls[c].of = calls[c].id
  BY DEF OwnAnswer
<1>2. \A id \in 1 .. requestId : id \in pending <=> Waiting({id}) # {}
  BY DEF PendingInv, Waiting
<1>3. ASSUME NEW id \in pending
      PROVE  Cardinality(Waiting({id})) = 1
  <2>1. PICK c \in Call : calls[c].pc = "waiting" /\ calls[c].id = id
    BY DEF PendingInv
  <2>2. Waiting({id}) = {c}
    BY <2>1 DEF Waiting, IdInv
  <2> QED
    BY <2>2, FS_Singleton
<1> QED
  BY <1>1, <1>2, <1>3 DEF AnswersBelong

\* A call never gets the answer to the request of another, however late
\* answers come, and only calls that wait have a timer.
THEOREM AnswersReachTheirCall == Spec => []AnswersBelong
  BY ClientInit, ClientStep, ClientInvImplies, PTL DEF Spec

-----------------------------------------------------------------------------
(***************************************************************************)
(* The registry.  As long as nobody has called its onShutdown an instance  *)
(* is the one registered under its id, unless it was loaded in the shadow  *)
(* of an unload: only an unload of the same id could remove it, and each   *)
(* unload works on an instance whose onShutdown was called.                *)
(***************************************************************************)

InstanceType == [id : Plugin, shut : BOOLEAN,
                 state : {"initializing", "active", "error", "stopping",
                          "stopped"},
                 init : {"waiting", "emitting", "done", "failed"}]

PluginType ==
  /\ instances \in Seq(InstanceType)
  /\ plugins \in [Plugin -> 0 .. Len(instances)]
  /\ unloads \in [Unload -> [of : 0 .. Len(instances),
                              pc : {"idle", "shutting", "emitting"}]]
  /\ early \subseteq DOMAIN instances /\ shadowed \subseteq DOMAIN instances

UnloadInv ==
  \A u \in Unload :
    /\ unloads[u].pc # "idle" =>
         unloads[u].of # 0 /\ instances[unloads[u].of].shut
    /\ unloads[u].pc = "shutting" =>
         \A i \in DOMAIN instances \ shadowed :
           instances[i].id = instances[unloads[u].of].id => instances[i].shut

InstanceInv ==
  /\ \A p \in Plugin : plugins[p] # 0 => instances[plugins[p]].id = p
  /\ \A i \in DOMAIN instances \ shadowed :
       ~instances[i].shut => plugins[instances[i].id] = i
  /\ \A i \in DOMAIN instances \ (early \cup shadowed) :
       instances[i].init = "waiting" \/ instances[i].state = "active" =>
         ~instances[i].shut

PluginInv == PluginType /\ UnloadInv /\ InstanceInv

LEMMA PluginInit == Registry!Init => PluginInv
  BY DEF Registry!Init, Registry!NoUnload, PluginInv, PluginType, UnloadInv,
         InstanceInv

LEMMA LoadStep ==
  ASSUME PluginInv, NEW p \in Plugin, Registry!Load(p)
  PROVE  PluginInv'
<1> USE DEF PluginInv, PluginType
<1> DEFINE new == [id |-> p, state |-> "initializing", init |-> "waiting",
                   shut |-> FALSE]
<1>1. /\ instances' = Append(instances, new) /\ new \in InstanceType
      /\ Len(instances') = Len(instances) + 1
      /\ DOMAIN instances' = DOMAIN instances \cup {Len(instances) + 1}
      /\ instances'[Len(instances) + 1] = new
      /\ \A i \in DOMAIN instances : instances'[i] = instances[i]
  BY DEF Registry!Load, InstanceType
<1>2. /\ plugins[p] = 0 /\ unloads' = unloads /\ early' = early
      /\ plugins' = [plugins EXCEPT ![p] = Len(instances) + 1]
      /\ shadowed' = shadowed \/ shadowed' = shadowed \cup {Len(instances) + 1}
      /\ \A u \in Unload : unloads[u].of # 0 /\ instances[unloads[u].of].id = p
           => Len(instances) + 1 \in shadowed'
  BY DEF Registry!Load
<1> HIDE DEF new
<1>3. PluginType'
  BY <1>1, <1>2
<1>4. UnloadInv'
  BY <1>1, <1>2 DEF UnloadInv, new
<1>5. InstanceInv'
  BY <1>1, <1>2 DEF InstanceInv, new
<1> QED
  BY <1>3, <1>4, <1>5

\* A step of one instance changes that entry of the registry's memory only.
LEMMA EntryChanges ==
  ASSUME PluginType, NEW i \in DOMAIN instances, NEW r \in InstanceType,
         instances' = [instances EXCEPT ![i] = r]
  PROVE  /\ instances' \in Seq(InstanceType)
         /\ Len(instances') = Len(instances)
         /\ DOMAIN instances' = DOMAIN instances
         /\ instances'[i] = r
         /\ \A j \in DOMAIN instances : j # i => instances'[j] = instances[j]
  BY DEF PluginType

LEMMA InitStep ==
  ASSUME PluginInv, NEW i \in DOMAIN instances,
         Registry!InitResolves(i) \/ Registry!InitFails(i)
           \/ Registry!InitEnds(i)
  PROVE  PluginInv'
<1> USE DEF PluginInv
<1>0. instances[i] \in InstanceType
  BY DEF PluginType
<1>1. PICK r \in InstanceType :
        /\ instances' = [instances EXCEPT ![i] = r]
        /\ r.id = instances[i].id /\ r.shut = instances[i].shut
        /\ r.init # "waiting"
        /\ r.state = "active" =>
             instances[i].init = "waiting" \/ instances[i].state = "active"
  <2>1. CASE Registry!InitResolves(i)
    <3>1. instances' =
            [instances EXCEPT ![i] = [@ EXCEPT !.init = "emitting", !.state = "active"]]
      BY <2>1 DEF Registry!InitResolves, PluginType
    <3>2. [instances[i] EXCEPT !.init = "emitting", !.state = "active"]
            \in InstanceType
      BY <1>0 DEF InstanceType
    <3> QED
      BY <1>0, <2>1, <3>1, <3>2 DEF Registry!InitResolves, InstanceType
  <2>2. CASE Registry!InitFails(i)
    <3>1. instances' =
            [instances EXCEPT ![i] = [@ EXCEPT !.init = "failed", !.state = "error"]]
      BY <2>2 DEF Registry!InitFails, PluginType
    <3>2. [instances[i] EXCEPT !.init = "failed", !.state = "error"]
            \in InstanceType
      BY <1>0 DEF InstanceType
    <3> QED
      BY <1>0, <2>2, <3>1, <3>2 DEF Registry!InitFails, InstanceType
  <2>3. CASE Registry!InitEnds(i)
    <3>1. instances' = [instances EXCEPT ![i] = [@ EXCEPT !.init = "done"]]
      BY <2>3 DEF Registry!InitEnds, PluginType
    <3>2. [instances[i] EXCEPT !.init = "done"] \in InstanceType
      BY <1>0 DEF InstanceType
    <3> QED
      BY <1>0, <2>3, <3>1, <3>2 DEF Registry!InitEnds, InstanceType
  <2> QED
    BY <2>1, <2>2, <2>3
<1>2. UNCHANGED <<plugins, unloads, early, shadowed>>
  BY DEF Registry!InitResolves, Registry!InitFails, Registry!InitEnds
<1>3. /\ instances' \in Seq(InstanceType)
      /\ Len(instances') = Len(instances)
      /\ DOMAIN instances' = DOMAIN instances
      /\ instances'[i] = r
      /\ \A j \in DOMAIN instances : j # i => instances'[j] = instances[j]
  BY <1>1, EntryChanges
<1>4. \A j \in DOMAIN instances : /\ instances'[j].id = instances[j].id
                                   /\ instances'[j].shut = instances[j].shut
  BY <1>1, <1>3
<1>5. PluginType'
  BY <1>2, <1>3 DEF PluginType
<1>6. UnloadInv'
  <2>1. \A u \in Unload : unloads[u].pc # "idle" =>
          unloads[u].of \in DOMAIN instances
    BY DEF UnloadInv, PluginType
  <2> QED
    BY <1>2, <1>3, <1>4, <2>1 DEF UnloadInv
<1>7. InstanceInv'
  BY <1>1, <1>2, <1>3, <1>4 DEF InstanceInv, PluginType
<1> QED
  BY <1>5, <1>6, <1>7

LEMMA BeginUnloadStep ==
  ASSUME PluginInv, NEW u \in Unload, NEW p \in Plugin,
         Registry!BeginUnload(u, p)
  PROVE  PluginInv'
<1> USE DEF PluginInv
<1> DEFINE i == plugins[p]
           r == [instances[i] EXCEPT !.state = "stopping", !.shut = TRUE]
<1>0. i \in DOMAIN instances /\ instances[i].id = p
  BY DEF Registry!BeginUnload, PluginType, InstanceInv
<1>1. /\ r \in InstanceType /\ r.id = p /\ r.shut /\ r.state = "stopping"
      /\ r.init = instances[i].init
  <2>1. instances[i] \in InstanceType
    BY <1>0 DEF PluginType
  <2> QED
    BY <1>0, <2>1 DEF InstanceType
<1>2. instances' = [instances EXCEPT ![i] = r]
  BY <1>0 DEF Registry!BeginUnload, PluginType
<1>3. /\ unloads' = [unloads EXCEPT ![u] = [of |-> i, pc |-> "shutting"]]
      /\ UNCHANGED <<plugins, shadowed>>
      /\ early \subseteq early' /\ early' \subseteq early \cup {i}
      /\ instances[i].init = "waiting" => i \in early'
  BY DEF Registry!BeginUnload
<1> HIDE DEF r, i
<1>4. /\ instances' \in Seq(InstanceType)
      /\ Len(instances') = Len(instances)
      /\ DOMAIN instances' = DOMAIN instances
      /\ instances'[i] = r
      /\ \A j \in DOMAIN instances : j # i => instances'[j] = instances[j]
  BY <1>0, <1>1, <1>2, EntryChanges
<1>5. \A j \in DOMAIN instances :
        /\ instances'[j].id = instances[j].id
        /\ instances[j].shut => instances'[j].shut
        /\ instances'[j].id = p /\ j \notin shadowed => instances'[j].shut
  <2>1. \A j \in DOMAIN instances \ shadowed :
          ~instances[j].shut /\ instances[j].id = p => j = i
    BY DEF InstanceInv, i
  <2> QED
    BY <1>0, <1>1, <1>4, <2>1
<1>6. PluginType'
  BY <1>0, <1>3, <1>4 DEF PluginType
<1>7. UnloadInv'
  <2>1. \A v \in Unload : unloads[v].pc # "idle" =>
          unloads[v].of \in DOMAIN instances
    BY DEF UnloadInv, PluginType
  <2>2. i # 0
    BY <1>0 DEF PluginType
  <2>3. unloads'[u] = [of |-> i, pc |-> "shutting"]
    BY <1>3 DEF PluginType
  <2>4. \A v \in Unload \ {u} : unloads'[v] = unloads[v]
    BY <1>3 DEF PluginType
  <2> QED
    BY <1>0, <1>1, <1>3, <1>4, <1>5, <2>1, <2>2, <2>3, <2>4 DEF UnloadInv
<1>8. InstanceInv'
  <2>1. \A q \in Plugin : plugins[q] # 0 => plugins[q] \in DOMAIN instances
    BY DEF PluginType
  <2> QED
    BY <1>0, <1>1, <1>3, <1>4, <1>5, <2>1 DEF InstanceInv
<1> QED
  BY <1>6, <1>7, <1>8

LEMMA ShutdownEndsStep ==
  ASSUME PluginInv, NEW u \in Unload, NEW ok \in BOOLEAN,
         Registry!ShutdownEnds(u, ok)
  PROVE  PluginInv'
<1> USE DEF PluginInv
<1> DEFINE i == unloads[u].of
           s == IF ok THEN "stopped" ELSE "error"
           r == [instances[i] EXCEPT !.state = s]
<1>0. i \in DOMAIN instances /\ instances[i].shut
  BY DEF Registry!ShutdownEnds, PluginType, UnloadInv
<1>1. /\ r \in InstanceType /\ r.id = instances[i].id /\ r.shut
      /\ r.state # "active" /\ r.init = instances[i].init
  <2>1. instances[i] \in InstanceType
    BY <1>0 DEF PluginType
  <2> QED
    BY <1>0, <2>1 DEF InstanceType
<1>2. instances' = [instances EXCEPT ![i] = r]
  BY <1>0 DEF Registry!ShutdownEnds, Registry!State, PluginType
<1>3. /\ plugins' = [plugins EXCEPT ![instances[i].id] = 0]
      /\ unloads[u].pc = "shutting"
      /\ UNCHANGED <<early, shadowed>>
      /\ unloads' = [unloads EXCEPT ![u] = IF ok
                       THEN [of |-> i, pc |-> "emitting"]
                       ELSE [of |-> 0, pc |-> "idle"]]
  BY DEF Registry!ShutdownEnds, Registry!NoUnload
<1>4. \A j \in DOMAIN instances \ shadowed :
        instances[j].id = instances[i].id => instances[j].shut
  BY <1>3 DEF UnloadInv
<1>a. i # 0 /\ i \in 0 .. Len(instances) /\ instances[i].id \in Plugin
  <2>1. instances[i] \in InstanceType
    BY <1>0 DEF PluginType
  <2> QED
    BY <1>0, <2>1 DEF PluginType, InstanceType
<1> HIDE DEF r, s, i
<1>5. /\ instances' \in Seq(InstanceType)
      /\ Len(instances') = Len(instances)
      /\ DOMAIN instances' = DOMAIN instances
      /\ instances'[i] = r
      /\ \A j \in DOMAIN instances : j # i => instances'[j] = instances[j]
  BY <1>0, <1>1, <1>2, EntryChanges
<1>6. \A j \in DOMAIN instances : /\ instances'[j].id = instances[j].id
                                   /\ instances'[j].shut <=> instances[j].shut
  BY <1>0, <1>1, <1>5
<1>7. PluginType'
  BY <1>3, <1>5, <1>a DEF PluginType
<1>8. UnloadInv'
  <2>1. \A v \in Unload : unloads[v].pc # "idle" =>
          unloads[v].of \in DOMAIN instances
    BY DEF UnloadInv, PluginType
  <2>2. unloads'[u].pc # "shutting"
    BY <1>3 DEF PluginType
  <2>3. unloads'[u].pc # "idle" => unloads'[u].of = i
    BY <1>3 DEF PluginType
  <2>4. \A v \in Unload \ {u} : unloads'[v] = unloads[v]
    BY <1>3 DEF PluginType
  <2> QED
    BY <1>0, <1>a, <1>3, <1>5, <1>6, <2>1, <2>2, <2>3, <2>4 DEF UnloadInv
<1>9. InstanceInv'
  <2>1. /\ plugins'[instances[i].id] = 0
        /\ \A q \in Plugin : q # instances[i].id => plugins'[q] = plugins[q]
    BY <1>3, <1>a DEF PluginType
  <2>2. \A q \in Plugin : plugins[q] # 0 => plugins[q] \in DOMAIN instances
    BY DEF PluginType
  <2>3. \A j \in DOMAIN instances : instances[j].id \in Plugin
    <3>1. \A j \in DOMAIN instances : instances[j] \in InstanceType
      BY DEF PluginType
    <3> QED
      BY <3>1 DEF InstanceType
  <2> QED
    BY <1>0, <1>1, <1>3, <1>4, <1>5, <1>6, <2>1, <2>2, <2>3 DEF InstanceInv
<1> QED
  BY <1>7, <1>8, <1>9

LEMMA PluginStep ==
  ASSUME PluginInv, [Registry!Next]_(Registry!vars)
  PROVE  PluginInv'
<1>1. CASE UNCHANGED Registry!vars
  BY <1>1 DEF Registry!vars, PluginInv, PluginType, UnloadInv, InstanceInv
<1>2. ASSUME NEW u \in Unload, Registry!UnloadEnds(u)
      PROVE  PluginInv'
  BY <1>2
     DEF Registry!UnloadEnds, Registry!NoUnload, PluginInv, PluginType,
         UnloadInv, InstanceInv
<1> QED
  BY <1>1, <1>2, LoadStep, InitStep, BeginUnloadStep, ShutdownEndsStep
     DEF Registry!Next

\* An active plugin is registered and nothing has shut it down, however loads,
\* unloads and failing hooks interleave.
THEOREM ActivePluginsAreRegistered ==
  Registry!Spec => []ActiveIsRegistered
<1>1. PluginInv => ActiveIsRegistered
  BY DEF PluginInv, InstanceInv, ActiveIsRegistered, Registry!ActiveIsRegistered
<1> QED
  BY <1>1, PluginInit, PluginStep, PTL DEF Registry!Spec

-----------------------------------------------------------------------------
(***************************************************************************)
(* The manager of connections.  First the executions of tools: what each   *)
(* has emitted and what its tool did, at every point that it waits at.     *)
(***************************************************************************)
Tool == {NoTool} \cup [type : {"native", "mcp"}, client : Nat]

ExecType ==
  [pc : {"idle", "starting", "running", "completing", "erring", "failing",
         "returned"},
   tool : Tool, ran : {"not", "well", "badly"},
   events : Seq({"started", "completed", "error"}), success : BOOLEAN]

Words == {"started", "completed", "error"}

RanAsTold(x) ==
  /\ x.pc \in {"idle", "starting"} => x.ran = "not" /\ x.events = <<>>
  /\ x.pc = "running" => x.ran = "not" /\ x.events = <<"started">>
  /\ x.pc = "completing" => x.ran = "well" /\ x.events = <<"started">>
  /\ x.pc = "erring" => x.ran = "badly" /\ x.events = <<"started">>
  /\ x.pc = "failing" => \/ x.ran = "not" /\ x.events \in {<<>>, <<"started">>}
                         \/ x.ran = "badly" /\ x.events = <<"started">>
  /\ x.pc = "returned" =>
       /\ x.success <=> x.events[Len(x.events)] = "completed"
       /\ x.success <=> x.ran = "well"
       /\ x.ran # "not" => x.events[1] = "started"

ExecInv ==
  /\ registry \in [Name -> Tool]
  /\ execs \in [Exec -> ExecType]
  /\ \A e \in Exec : RanAsTold(execs[e])

LEMMA FirstWord == Append(<<>>, "started") = <<"started">>
<1> DEFINE q == Append(<<>>, "started")
           r == <<"started">>
<1>1. q \in Seq(Words) /\ Len(q) = 1 /\ q[1] = "started"
  <2>1. <<>> \in Seq(Words) /\ Len(<<>>) = 0 /\ "started" \in Words
    BY DEF Words
  <2> QED
    BY <2>1, AppendIndexes
<1>2. r \in Seq(Words) /\ Len(r) = 1 /\ r[1] = "started"
  BY DEF Words
<1> HIDE DEF q, r
<1>3. q = r
  BY <1>1, <1>2, SeqEqual
<1> QED
  BY <1>3 DEF q, r

LEMMA NextWord ==
  ASSUME NEW q \in Seq(Words), NEW w \in Words
  PROVE  /\ Append(q, w) \in Seq(Words)
         /\ Append(q, w)[Len(Append(q, w))] = w
         /\ q = <<"started">> => Append(q, w)[1] = "started"
<1>1. /\ Append(q, w) \in Seq(Words)
      /\ Len(Append(q, w)) = Len(q) + 1
      /\ Append(q, w)[Len(q) + 1] = w
      /\ \A j \in 1 .. Len(q) : Append(q, w)[j] = q[j]
  BY AppendIndexes
<1>2. q = <<"started">> => Len(q) = 1 /\ q[1] = "started"
  OBVIOUS
<1> QED
  BY <1>1, <1>2

\* One execution moves to another record that is as told.
LEMMA ExecChanges ==
  ASSUME ExecInv, NEW e \in Exec, NEW x \in ExecType, RanAsTold(x),
         execs' = [execs EXCEPT ![e] = x], UNCHANGED registry
  PROVE  ExecInv'
<1>1. execs' \in [Exec -> ExecType]
  BY DEF ExecInv
<1>2. \A f \in Exec : execs'[f] = IF f = e THEN x ELSE execs[f]
  BY DEF ExecInv
<1>3. \A f \in Exec : RanAsTold(execs'[f])
  BY <1>2 DEF ExecInv
<1> QED
  BY <1>1, <1>3 DEF ExecInv

LEMMA LookupKeeps ==
  ASSUME ExecInv, NEW e \in Exec, NEW n \in Name, Manager!Execute(e, n)
  PROVE  ExecInv'
<1> DEFINE x == [execs[e] EXCEPT !.pc = IF registry[n] = NoTool
                                         THEN "failing" ELSE "starting",
                                 !.tool = registry[n]]
<1>1. execs[e] \in ExecType /\ execs[e].pc = "idle" /\ RanAsTold(execs[e])
  BY DEF ExecInv, Manager!Execute
<1>2. registry[n] \in Tool
  BY DEF ExecInv
<1>3. x \in ExecType
  BY <1>1, <1>2 DEF ExecType
<1>4. /\ x.pc \in {"failing", "starting"} /\ x.ran = execs[e].ran
      /\ x.events = execs[e].events
  BY <1>1 DEF ExecType
<1>5. RanAsTold(x)
  BY <1>1, <1>4 DEF RanAsTold
<1>6. execs' = [execs EXCEPT ![e] = x] /\ UNCHANGED registry
  BY DEF Manager!Execute, ExecInv
<1> HIDE DEF x
<1> QED
  BY <1>3, <1>5, <1>6, ExecChanges

LEMMA StartKeeps ==
  ASSUME ExecInv, NEW e \in Exec, NEW valid \in BOOLEAN, Manager!Starts(e, valid)
  PROVE  ExecInv'
<1> DEFINE x == [execs[e] EXCEPT !.pc = IF valid THEN "running" ELSE "failing",
                                 !.events = Append(@, "started")]
<1>1. execs[e] \in ExecType /\ execs[e].pc = "starting" /\ RanAsTold(execs[e])
  BY DEF ExecInv, Manager!Starts
<1>2. Append(execs[e].events, "started") = <<"started">>
  BY <1>1, FirstWord DEF RanAsTold
<1>3. x \in ExecType
  <2>1. Append(execs[e].events, "started") \in Seq(Words)
    <3>1. <<"started">> \in Seq(Words)
      BY DEF Words
    <3> QED
      BY <1>2, <3>1
  <2> QED
    BY <1>1, <2>1 DEF ExecType, Words
<1>4. /\ x.pc \in {"failing", "running"} /\ x.ran = execs[e].ran
      /\ x.events = <<"started">>
  BY <1>1, <1>2 DEF ExecType
<1>5. RanAsTold(x)
  BY <1>1, <1>4 DEF RanAsTold
<1>6. execs' = [execs EXCEPT ![e] = x] /\ UNCHANGED registry
  BY DEF Manager!Starts, ExecInv
<1> HIDE DEF x
<1> QED
  BY <1>3, <1>5, <1>6, ExecChanges

LEMMA RunKeeps ==
  ASSUME ExecInv, NEW e \in Exec,
         \/ \E success \in BOOLEAN : Manager!ToolReturns(e, success)
         \/ Manager!ToolThrows(e)
  PROVE  ExecInv'
<1>1. execs[e] \in ExecType /\ execs[e].pc = "running" /\ RanAsTold(execs[e])
  BY DEF ExecInv, Manager!ToolReturns, Manager!ToolThrows
<1>2. PICK q, r : /\ execs' = [execs EXCEPT ![e] =
                                 [execs[e] EXCEPT !.pc = q, !.ran = r]]
                  /\ UNCHANGED registry
                  /\ \/ q = "completing" /\ r = "well"
                     \/ q \in {"erring", "failing"} /\ r = "badly"
  <2>1. CASE Manager!ToolThrows(e)
    BY <2>1 DEF Manager!ToolThrows, ExecInv
  <2>2. ASSUME NEW success \in BOOLEAN, Manager!ToolReturns(e, success)
        PROVE  \E q, r : /\ execs' = [execs EXCEPT ![e] =
                                        [execs[e] EXCEPT !.pc = q, !.ran = r]]
                         /\ UNCHANGED registry
                         /\ \/ q = "completing" /\ r = "well"
                            \/ q \in {"erring", "failing"} /\ r = "badly"
    BY <2>2 DEF Manager!ToolReturns, ExecInv
  <2> QED
    BY <2>1, <2>2
<1> DEFINE x == [execs[e] EXCEPT !.pc = q, !.ran = r]
<1>3. x \in ExecType /\ x.pc = q /\ x.ran = r /\ x.events = execs[e].events
  BY <1>1, <1>2 DEF ExecType
<1>4. RanAsTold(x)
  BY <1>1, <1>2, <1>3 DEF RanAsTold
<1>5. execs' = [execs EXCEPT ![e] = x]
  BY <1>2
<1> HIDE DEF x
<1> QED
  BY <1>2, <1>3, <1>4, <1>5, ExecChanges

LEMMA ReturnKeeps ==
  ASSUME ExecInv, NEW e \in Exec, Manager!Returns(e)
  PROVE  ExecInv'
<1> DEFINE ok == execs[e].pc = "completing"
           word == IF ok THEN "completed" ELSE "error"
           x == [execs[e] EXCEPT !.pc = "returned", !.success = ok,
                                 !.events = Append(@, word)]
<1>1. /\ execs[e] \in ExecType /\ RanAsTold(execs[e])
      /\ execs[e].pc \in {"completing", "erring", "failing"}
  BY DEF ExecInv, Manager!Returns
<1>2. /\ ok \in BOOLEAN /\ word \in {"completed", "error"}
      /\ ok <=> word = "completed"
      /\ ok <=> execs[e].ran = "well"
  BY <1>1 DEF RanAsTold
<1>3. \/ execs[e].events = <<>> /\ execs[e].ran = "not"
      \/ execs[e].events = <<"started">>
  BY <1>1 DEF RanAsTold
<1>4. execs' = [execs EXCEPT ![e] = x] /\ UNCHANGED registry
  BY DEF Manager!Returns, ExecInv
<1> HIDE DEF ok, word
<1>a. execs[e].events \in Seq(Words) /\ word \in Words
  BY <1>1, <1>2 DEF ExecType, Words
<1>5. x \in ExecType
  <2>1. Append(execs[e].events, word) \in Seq(Words)
    BY <1>a
  <2> QED
    BY <1>1, <1>2, <2>1 DEF ExecType, Words
<1>6. /\ x.pc = "returned" /\ x.success = ok /\ x.ran = execs[e].ran
      /\ x.events = Append(execs[e].events, word)
  BY <1>1 DEF ExecType
<1>7. /\ x.events[Len(x.events)] = word
      /\ x.ran # "not" => x.events[1] = "started"
  <2> DEFINE q == execs[e].events
  <2>1. x.events = Append(q, word) /\ q \in Seq(Words)
    BY <1>6, <1>a
  <2>2. \/ x.ran = "not"
        \/ q = <<"started">>
    BY <1>3, <1>6
  <2> HIDE DEF q
  <2> QED
    BY <1>a, <2>1, <2>2, NextWord
<1>8. RanAsTold(x)
  BY <1>2, <1>6, <1>7 DEF RanAsTold
<1> HIDE DEF x
<1> QED
  BY <1>4, <1>5, <1>8, ExecChanges

LEMMA ToldWhenReturned == ExecInv => Manager!ResultsTellRuns
<1> SUFFICES ASSUME ExecInv, NEW e \in Exec
             PROVE  /\ execs[e].pc # "rejected"
                    /\ RanAsTold(execs[e])
  BY DEF Manager!ResultsTellRuns, RanAsTold
<1> QED
  BY DEF ExecInv, ExecType

-----------------------------------------------------------------------------
(***************************************************************************)
(* Now the connections.  The tools that a server has listed are its own in *)
(* the registry, and no native tool is lost, whoever connects when.  A     *)
(* server that nobody has connected out of turn is connecting, connected   *)
(* or about to be disconnected, and only one of them.                      *)
(***************************************************************************)
ClientRec ==
  [server : Server, link : {"connecting", "open", "closed", "failed"},
   process : BOOLEAN, tools : SUBSET Name,
   status : {"connecting", "connected", "error", "disconnected"}]

ManagerTypes ==
  /\ clients \in Seq(ClientRec)
  /\ connections \in [Server -> 0 .. Len(clients)]
  /\ listed \in [Server -> SUBSET Name]
  /\ leaving \in SUBSET [server : Server, client : DOMAIN clients]
  /\ crossed \in SUBSET Server /\ contested \in SUBSET Name
  /\ registry \in [Name -> Tool]

\* The tool under a name is one of a call of connect for the server.
IsOf(n, s) ==
  \E i \in DOMAIN clients :
    registry[n] = Manager!McpTool(i) /\ clients[i].server = s

OwnedInv ==
  /\ \A n \in Name :
       \/ registry[n] \in {NoTool, Manager!NativeTool}
       \/ \E i \in DOMAIN clients : registry[n] = Manager!McpTool(i)
  /\ \A s \in Server :
       connections[s] # 0 => clients[connections[s]].server = s
  /\ \A s \in Server : \A n \in listed[s] \ contested : IsOf(n, s)
  /\ \A n \in Native \ contested : registry[n] = Manager!NativeTool

\* Whatever goes on about a server is one thing at a time.
AloneInv ==
  /\ \A op \in leaving :
       op.server \notin crossed =>
         op.client = connections[op.server] /\ ~clients[op.client].process
  /\ \A i \in DOMAIN clients :
       clients[i].link = "connecting" /\ clients[i].server \notin crossed =>
         /\ connections[clients[i].server] = 0
         /\ \A op \in leaving : op.server # clients[i].server
         /\ \A j \in DOMAIN clients :
              /\ clients[j].link = "connecting"
              /\ clients[j].server = clients[i].server
              => j = i

StepInv ==
  \A s \in Server \ crossed :
    /\ connections[s] # 0 =>
         /\ listed[s] = clients[connections[s]].tools
         /\ \A n \in listed[s] \ contested :
              registry[n] = Manager!McpTool(connections[s])
    /\ connections[s] = 0 => listed[s] = {}
    /\ \A i \in DOMAIN clients : clients[i].server = s =>
         /\ \A n \in Name \ contested :
              registry[n] = Manager!McpTool(i) => i = connections[s] /\ n \in listed[s]
         /\ clients[i].process =>
              i = connections[s] \/ clients[i].link \in {"connecting", "failed"}

ManagerInv == ManagerTypes /\ OwnedInv /\ AloneInv /\ StepInv

LEMMA ToolsDiffer ==
  /\ Manager!NativeTool \in Tool /\ Manager!NativeTool # NoTool
  /\ \A i \in Nat : /\ Manager!McpTool(i) \in Tool
                    /\ Manager!McpTool(i) # NoTool
                    /\ Manager!McpTool(i) # Manager!NativeTool
                    /\ \A j \in Nat : Manager!McpTool(i) = Manager!McpTool(j) => i = j
<1>1. Manager!NativeTool \in [type : {"native", "mcp"}, client : Nat]
  BY DEF Manager!NativeTool
<1>2. ASSUME NEW i \in Nat
      PROVE  /\ Manager!McpTool(i) \in [type : {"native", "mcp"}, client : Nat]
             /\ Manager!McpTool(i).type = "mcp"
             /\ Manager!McpTool(i).client = i
  BY DEF Manager!McpTool
<1>3. Manager!NativeTool.type = "native"
  BY DEF Manager!NativeTool
<1> QED
  BY <1>1, <1>2, <1>3, ManagerAssumption DEF Tool

LEMMA ManagerInit == Manager!Init => ExecInv /\ ManagerInv
<1> SUFFICES ASSUME Manager!Init PROVE ExecInv /\ ManagerInv
  OBVIOUS
<1>0. /\ registry = [n \in Name |-> IF n \in Native THEN Manager!NativeTool ELSE NoTool]
      /\ execs = [e \in Exec |-> Manager!NewExec]
      /\ clients = <<>> /\ connections = [s \in Server |-> 0]
      /\ listed = [s \in Server |-> {}]
      /\ leaving = {} /\ crossed = {} /\ contested = {}
  BY DEF Manager!Init, Manager!ToolInit
<1>1. NoTool \in Tool
  BY DEF Tool
<1>2. registry \in [Name -> Tool]
  BY <1>0, <1>1, ToolsDiffer
<1>3. Manager!NewExec \in ExecType /\ RanAsTold(Manager!NewExec)
  BY <1>1 DEF Manager!NewExec, ExecType, RanAsTold
<1>4. ExecInv
  BY <1>0, <1>2, <1>3 DEF ExecInv
<1>5. clients \in Seq(ClientRec) /\ Len(clients) = 0 /\ DOMAIN clients = {}
  BY <1>0
<1>6. ManagerTypes
  BY <1>0, <1>2, <1>5 DEF ManagerTypes
<1>7. OwnedInv
  BY <1>0, <1>5, ManagerAssumption DEF OwnedInv
<1>8. AloneInv /\ StepInv
  BY <1>0, <1>5 DEF AloneInv, StepInv
<1> QED
  BY <1>4, <1>6, <1>7, <1>8 DEF ManagerInv

\* A new call of connect: the server is crossed, or nothing goes on about it.
LEMMA BeginConnectKeeps ==
  ASSUME ManagerInv, NEW s \in Server, Manager!BeginConnect(s)
  PROVE  ManagerInv'
<1> DEFINE c == [server |-> s, link |-> "connecting", process |-> TRUE,
                 tools |-> {}, status |-> "connecting"]
           k == Len(clients) + 1
<1>0. ManagerTypes /\ OwnedInv /\ AloneInv /\ StepInv
  BY DEF ManagerInv
<1>1. /\ c \in ClientRec /\ c.server = s /\ c.link = "connecting"
  BY DEF ClientRec
<1>2. /\ clients' = Append(clients, c)
      /\ UNCHANGED <<registry, connections, listed, leaving, contested>>
      /\ crossed' = crossed \/ crossed' = crossed \cup {s}
      /\ s \notin crossed' =>
           /\ connections[s] = 0
           /\ \A i \in DOMAIN clients :
                ~(clients[i].server = s /\ clients[i].link = "connecting")
           /\ \A op \in leaving : op.server # s
  BY DEF Manager!BeginConnect, Manager!toolVars
<1> HIDE DEF c
<1>3. /\ clients' \in Seq(ClientRec) /\ Len(clients') = k
      /\ clients'[k] = c
      /\ \A i \in 1 .. Len(clients) : clients'[i] = clients[i]
      /\ k \in Nat /\ k \notin DOMAIN clients /\ DOMAIN clients = 1 .. Len(clients)
      /\ Len(clients) \in Nat
  BY <1>0, <1>1, <1>2, AppendIndexes DEF ManagerTypes
<1>4. /\ DOMAIN clients' = 1 .. k
      /\ \A i \in DOMAIN clients' : i \in DOMAIN clients \/ i = k
      /\ \A i \in DOMAIN clients : i \in DOMAIN clients' /\ i \in Nat
  BY <1>3
<1> HIDE DEF k
<1>5. ManagerTypes'
  <2>1. connections' \in [Server -> 0 .. Len(clients')]
    BY <1>0, <1>2, <1>3 DEF ManagerTypes, k
  <2>2. leaving' \in SUBSET [server : Server, client : DOMAIN clients']
    BY <1>0, <1>2, <1>4 DEF ManagerTypes
  <2> QED
    BY <1>0, <1>2, <1>3, <2>1, <2>2 DEF ManagerTypes
<1>6. \A t \in Server : connections[t] # 0 => connections[t] \in DOMAIN clients
  BY <1>0, <1>3 DEF ManagerTypes
<1>7. OwnedInv'
  BY <1>0, <1>2, <1>3, <1>4, <1>6 DEF OwnedInv, IsOf
<1>8. AloneInv'
  <2>1. \A op \in leaving : op.client \in DOMAIN clients
    BY <1>0 DEF ManagerTypes
  <2>2. ASSUME NEW op \in leaving', op.server \notin crossed'
        PROVE  op.client = connections'[op.server] /\ ~clients'[op.client].process
    BY <1>0, <1>2, <1>3, <2>1, <2>2 DEF AloneInv
  <2>3. ASSUME NEW i \in DOMAIN clients', clients'[i].link = "connecting",
               clients'[i].server \notin crossed'
        PROVE  /\ connections'[clients'[i].server] = 0
               /\ \A op \in leaving' : op.server # clients'[i].server
               /\ \A j \in DOMAIN clients' :
                    /\ clients'[j].link = "connecting"
                    /\ clients'[j].server = clients'[i].server
                    => j = i
    <3>1. CASE i = k
      BY <1>1, <1>2, <1>3, <1>4, <2>3, <3>1
    <3>2. CASE i \in DOMAIN clients
      BY <1>0, <1>1, <1>2, <1>3, <1>4, <2>3, <3>2 DEF AloneInv
    <3> QED
      BY <1>4, <3>1, <3>2
  <2> QED
    BY <2>2, <2>3 DEF AloneInv
<1>9. StepInv'
  <2> SUFFICES ASSUME NEW t \in Server \ crossed'
      PROVE  /\ connections'[t] # 0 =>
                  /\ listed'[t] = clients'[connections'[t]].tools
                  /\ \A n \in listed'[t] \ contested' :
                       registry'[n] = Manager!McpTool(connections'[t])
             /\ connections'[t] = 0 => listed'[t] = {}
             /\ \A i \in DOMAIN clients' : clients'[i].server = t =>
                  /\ \A n \in Name \ contested' :
                       registry'[n] = Manager!McpTool(i) =>
                         i = connections'[t] /\ n \in listed'[t]
                  /\ clients'[i].process =>
                       \/ i = connections'[t]
                       \/ clients'[i].link \in {"connecting", "failed"}
    BY DEF StepInv, Manager!McpTool
  <2>1. t \in Server \ crossed
    BY <1>2
  <2>2. /\ connections[t] # 0 =>
             /\ listed[t] = clients[connections[t]].tools
             /\ \A n \in listed[t] \ contested :
                  registry[n] = Manager!McpTool(connections[t])
        /\ connections[t] = 0 => listed[t] = {}
    BY <1>0, <2>1 DEF StepInv
  <2>3. \A n \in Name : registry[n] # Manager!McpTool(k)
    BY <1>0, <1>3, <1>4, ToolsDiffer DEF OwnedInv
  <2>4. ASSUME NEW i \in DOMAIN clients', clients'[i].server = t
        PROVE  /\ \A n \in Name \ contested' :
                    registry'[n] = Manager!McpTool(i) =>
                      i = connections'[t] /\ n \in listed'[t]
               /\ clients'[i].process =>
                    \/ i = connections'[t]
                    \/ clients'[i].link \in {"connecting", "failed"}
    <3>1. CASE i = k
      BY <1>1, <1>2, <1>3, <2>3, <3>1
    <3>2. CASE i \in DOMAIN clients
      BY <1>0, <1>2, <1>3, <2>1, <2>4, <3>2 DEF StepInv
    <3> QED
      BY <1>4, <3>1, <3>2
  <2> QED
    BY <1>2, <1>3, <1>6, <2>2, <2>4
<1> QED
  BY <1>5, <1>7, <1>8, <1>9 DEF ManagerInv

\* What never makes a call of connect go on, or its process start, and leaves
\* the registry alone.
LEMMA QuietKeeps ==
  ASSUME ManagerInv,
         clients' \in Seq(ClientRec), Len(clients') = Len(clients),
         \A i \in DOMAIN clients :
           /\ clients'[i].server = clients[i].server
           /\ clients'[i].tools = clients[i].tools
           /\ clients'[i].process => clients[i].process
           /\ clients'[i].link = "connecting" => clients[i].link = "connecting"
           /\ clients[i].link \in {"connecting", "failed"} =>
                clients'[i].link \in {"connecting", "failed"},
         UNCHANGED <<registry, connections, listed, leaving, crossed, contested>>
  PROVE  ManagerInv'
<1>0. ManagerTypes /\ OwnedInv /\ AloneInv /\ StepInv
  BY DEF ManagerInv
<1>1. DOMAIN clients' = DOMAIN clients
  BY <1>0 DEF ManagerTypes
<1>2. \A s \in Server : connections[s] # 0 => connections[s] \in DOMAIN clients
  BY <1>0 DEF ManagerTypes
<1>3. ManagerTypes'
  BY <1>0, <1>1 DEF ManagerTypes
<1>4. OwnedInv'
  BY <1>0, <1>1, <1>2 DEF OwnedInv, IsOf
<1>5. AloneInv'
  <2>1. \A op \in leaving : op.client \in DOMAIN clients
    BY <1>0 DEF ManagerTypes
  <2> QED
    BY <1>0, <1>1, <2>1 DEF AloneInv
<1>6. StepInv'
  BY <1>0, <1>1, <1>2 DEF StepInv
<1> QED
  BY <1>3, <1>4, <1>5, <1>6 DEF ManagerInv

LEMMA ClientChanges ==
  ASSUME NEW q \in Seq(ClientRec), NEW i \in DOMAIN q, NEW c \in ClientRec
  PROVE  /\ [q EXCEPT ![i] = c] \in Seq(ClientRec)
         /\ Len([q EXCEPT ![i] = c]) = Len(q)
         /\ \A j \in DOMAIN q : [q EXCEPT ![i] = c][j] = IF j = i THEN c ELSE q[j]
  OBVIOUS

LEMMA FailKeeps ==
  ASSUME ManagerInv, NEW i \in DOMAIN clients,
         Manager!ConnectFails(i) \/ Manager!ProcessExits(i)
  PROVE  ManagerInv'
<1>1. clients \in Seq(ClientRec) /\ clients[i] \in ClientRec
  BY DEF ManagerInv, ManagerTypes
<1>2. PICK c \in ClientRec :
        /\ clients' = [clients EXCEPT ![i] = c]
        /\ c.server = clients[i].server /\ c.tools = clients[i].tools
        /\ c.process => clients[i].process
        /\ c.link = "connecting" => clients[i].link = "connecting"
        /\ clients[i].link \in {"connecting", "failed"} =>
             c.link \in {"connecting", "failed"}
  <2>1. CASE Manager!ConnectFails(i)
    <3> DEFINE c == [clients[i] EXCEPT !.link = "failed", !.status = "error"]
    <3>1. clients' = [clients EXCEPT ![i] = c] /\ clients[i].link = "connecting"
      BY <1>1, <2>1 DEF Manager!ConnectFails
    <3>2. /\ c \in ClientRec /\ c.server = clients[i].server
          /\ c.tools = clients[i].tools /\ c.process = clients[i].process
          /\ c.link = "failed"
      BY <1>1 DEF ClientRec
    <3> HIDE DEF c
    <3> QED
      BY <3>1, <3>2
  <2>2. CASE Manager!ProcessExits(i)
    <3> DEFINE c == [clients[i] EXCEPT !.process = FALSE]
    <3>1. clients' = [clients EXCEPT ![i] = c]
      BY <1>1, <2>2 DEF Manager!ProcessExits
    <3>2. /\ c \in ClientRec /\ c.server = clients[i].server
          /\ c.tools = clients[i].tools /\ ~c.process
          /\ c.link = clients[i].link
      BY <1>1 DEF ClientRec
    <3> HIDE DEF c
    <3> QED
      BY <3>1, <3>2
  <2> QED
    BY <2>1, <2>2
<1>3. UNCHANGED <<registry, connections, listed, leaving, crossed, contested>>
  BY DEF Manager!ConnectFails, Manager!ProcessExits, Manager!toolVars
<1>4. /\ clients' \in Seq(ClientRec) /\ Len(clients') = Len(clients)
      /\ \A j \in DOMAIN clients : clients'[j] = IF j = i THEN c ELSE clients[j]
  BY <1>1, <1>2, ClientChanges
<1> QED
  BY <1>2, <1>3, <1>4, QuietKeeps

\* The tools of a call of connect are registered; those of other servers are
\* left alone or contested.
LEMMA ConnectedKeeps ==
  ASSUME ManagerInv, NEW i \in DOMAIN clients,
         NEW offer \in Offers[clients[i].server], Manager!Connected(i, offer)
  PROVE  ManagerInv'
<1> DEFINE s == clients[i].server
           names == Manager!Adapted(s, offer)
           c == [clients[i] EXCEPT !.link = "open", !.tools = names,
                                   !.status = "connected"]
           mine == Manager!McpTool(i)
<1>0. /\ ManagerTypes /\ OwnedInv /\ AloneInv /\ StepInv
      /\ clients \in Seq(ClientRec) /\ clients[i] \in ClientRec
      /\ s \in Server /\ i \in Nat /\ i # 0
  <2>1. ManagerTypes /\ OwnedInv /\ AloneInv /\ StepInv
    BY DEF ManagerInv
  <2>2. clients \in Seq(ClientRec) /\ clients[i] \in ClientRec
    BY <2>1 DEF ManagerTypes
  <2>3. clients[i].server \in Server
    BY <2>2 DEF ClientRec
  <2>4. i \in Nat /\ i # 0
    BY <2>2
  <2> QED
    BY <2>1, <2>2, <2>3, <2>4
<1>1. names \in SUBSET Name
  BY <1>0, ManagerAssumption
<1>2. /\ c \in ClientRec /\ c.server = s /\ c.tools = names
      /\ c.link = "open" /\ c.process = clients[i].process
  <2> HIDE DEF names
  <2> QED
    BY <1>0, <1>1 DEF ClientRec
<1>3. /\ clients[i].link = "connecting"
      /\ clients' = [clients EXCEPT ![i] = c]
      /\ connections' = [connections EXCEPT ![s] = i]
      /\ contested' = contested \cup {n \in names : registry[n] # NoTool}
      /\ registry' = [n \in Name |-> IF n \in names THEN mine ELSE registry[n]]
      /\ listed' = [listed EXCEPT ![s] = names]
      /\ UNCHANGED <<leaving, crossed>>
  BY <1>0 DEF Manager!Connected, Manager!WithTools
<1>4. mine \in Tool /\ mine # NoTool /\ mine # Manager!NativeTool
  BY <1>0, ToolsDiffer
<1>a. \A j \in DOMAIN clients : j # i => Manager!McpTool(j) # mine
  BY <1>0, ToolsDiffer
<1> HIDE DEF c, names, mine
<1>5. /\ clients' \in Seq(ClientRec) /\ Len(clients') = Len(clients)
      /\ \A j \in DOMAIN clients : clients'[j] = IF j = i THEN c ELSE clients[j]
      /\ DOMAIN clients' = DOMAIN clients
  BY <1>0, <1>2, <1>3, ClientChanges
<1>6. \A j \in DOMAIN clients : clients'[j].server = clients[j].server
  BY <1>2, <1>5
<1>7. /\ \A t \in Server : connections'[t] = IF t = s THEN i ELSE connections[t]
      /\ \A t \in Server : listed'[t] = IF t = s THEN names ELSE listed[t]
      /\ \A n \in Name : registry'[n] = IF n \in names THEN mine ELSE registry[n]
      /\ \A n \in Name \ contested' :
           n \in Name \ contested /\ (n \in names => registry[n] = NoTool)
  BY <1>0, <1>1, <1>3 DEF ManagerTypes
<1>b. \A t \in Server : connections[t] # 0 => connections[t] \in DOMAIN clients
  BY <1>0 DEF ManagerTypes
<1>8. ManagerTypes'
  <2>1. connections' \in [Server -> 0 .. Len(clients')]
    BY <1>0, <1>3, <1>5 DEF ManagerTypes
  <2>2. listed' \in [Server -> SUBSET Name] /\ contested' \in SUBSET Name
    BY <1>0, <1>1, <1>3 DEF ManagerTypes
  <2>3. registry' \in [Name -> Tool]
    BY <1>0, <1>3, <1>4 DEF ManagerTypes
  <2> QED
    BY <1>0, <1>3, <1>5, <2>1, <2>2, <2>3 DEF ManagerTypes
<1>9. OwnedInv'
  <2>1. ASSUME NEW n \in Name
        PROVE  \/ registry'[n] \in {NoTool, Manager!NativeTool}
               \/ \E j \in DOMAIN clients' : registry'[n] = Manager!McpTool(j)
    BY <1>0, <1>5, <1>7 DEF OwnedInv, mine
  <2>2. ASSUME NEW t \in Server, connections'[t] # 0
        PROVE  clients'[connections'[t]].server = t
    BY <1>0, <1>6, <1>7, <1>b, <2>2 DEF OwnedInv
  <2>3. ASSUME NEW t \in Server, NEW n \in listed'[t] \ contested'
        PROVE  \E j \in DOMAIN clients' :
                 registry'[n] = Manager!McpTool(j) /\ clients'[j].server = t
    <3>1. n \in Name
      BY <1>8, <2>3 DEF ManagerTypes
    <3>2. CASE t = s
      BY <1>5, <1>6, <1>7, <2>3, <3>1, <3>2 DEF mine
    <3>3. CASE t # s
      <4>1. n \in listed[t] \ contested /\ (n \in names => registry[n] = NoTool)
        BY <1>7, <2>3, <3>1, <3>3
      <4>2. PICK j \in DOMAIN clients :
              registry[n] = Manager!McpTool(j) /\ clients[j].server = t
        BY <1>0, <4>1 DEF OwnedInv, IsOf
      <4>3. registry[n] # NoTool
        BY <1>0, <4>2, ToolsDiffer
      <4>4. registry'[n] = registry[n]
        BY <1>7, <3>1, <4>1, <4>3
      <4> QED
        BY <1>5, <1>6, <4>2, <4>4
    <3> QED
      BY <3>2, <3>3
  <2>4. ASSUME NEW n \in Native \ contested'
        PROVE  registry'[n] = Manager!NativeTool
    BY <1>0, <1>7, <2>4, ManagerAssumption, ToolsDiffer DEF OwnedInv
  <2> QED
    BY <2>1, <2>2, <2>3, <2>4 DEF OwnedInv, IsOf, Manager!McpTool, Manager!NativeTool
<1>10. AloneInv'
  <2>0. \A op \in leaving : op.client \in DOMAIN clients /\ op.server \in Server
    BY <1>0 DEF ManagerTypes
  <2>1. ASSUME NEW op \in leaving', op.server \notin crossed'
        PROVE  op.client = connections'[op.server] /\ ~clients'[op.client].process
    <3>1. op \in leaving /\ op.server \notin crossed
      BY <1>3, <2>1
    <3>2. op.server # s
      BY <1>0, <1>3, <3>1 DEF AloneInv
    <3>3. op.client = connections[op.server] /\ ~clients[op.client].process
      BY <1>0, <3>1 DEF AloneInv
    <3> QED
      BY <1>2, <1>5, <1>7, <2>0, <3>1, <3>2, <3>3
  <2>2. ASSUME NEW j \in DOMAIN clients', clients'[j].link = "connecting",
               clients'[j].server \notin crossed'
        PROVE  /\ connections'[clients'[j].server] = 0
               /\ \A op \in leaving' : op.server # clients'[j].server
               /\ \A k \in DOMAIN clients' :
                    /\ clients'[k].link = "connecting"
                    /\ clients'[k].server = clients'[j].server
                    => k = j
    <3>1. j \in DOMAIN clients /\ j # i /\ clients'[j] = clients[j]
      BY <1>2, <1>5, <2>2
    <3>2. clients[j].link = "connecting" /\ clients[j].server \notin crossed
      BY <1>3, <2>2, <3>1
    <3>3. clients[j].server # s /\ clients[j].server \in Server
      <4>1. clients[j] \in ClientRec
        BY <1>0, <3>1
      <4> QED
        BY <1>0, <1>3, <3>1, <3>2, <4>1 DEF AloneInv, ClientRec
    <3> QED
      BY <1>0, <1>2, <1>3, <1>5, <1>7, <3>1, <3>2, <3>3 DEF AloneInv
  <2> QED
    BY <2>1, <2>2 DEF AloneInv
<1>11. StepInv'
  <2> SUFFICES ASSUME NEW t \in Server \ crossed'
      PROVE  /\ connections'[t] # 0 =>
                  /\ listed'[t] = clients'[connections'[t]].tools
                  /\ \A n \in listed'[t] \ contested' :
                       registry'[n] = Manager!McpTool(connections'[t])
             /\ connections'[t] = 0 => listed'[t] = {}
             /\ \A j \in DOMAIN clients' : clients'[j].server = t =>
                  /\ \A n \in Name \ contested' :
                       registry'[n] = Manager!McpTool(j) =>
                         j = connections'[t] /\ n \in listed'[t]
                  /\ clients'[j].process =>
                       \/ j = connections'[t]
                       \/ clients'[j].link \in {"connecting", "failed"}
    BY DEF StepInv, Manager!McpTool
  <2>0. t \in Server \ crossed /\ listed[t] \in SUBSET Name
    BY <1>0, <1>3 DEF ManagerTypes
  <2>1. CASE t = s
    <3>1. connections[s] = 0 /\ listed[s] = {}
      BY <1>0, <1>3, <2>0, <2>1 DEF AloneInv, StepInv
    <3>2. connections'[t] = i /\ listed'[t] = names /\ clients'[i].tools = names
      BY <1>2, <1>5, <1>7, <2>1
    <3>3. \A n \in names : registry'[n] = mine
      BY <1>1, <1>7
    <3>4. ASSUME NEW j \in DOMAIN clients', clients'[j].server = t,
                 NEW n \in Name \ contested', registry'[n] = Manager!McpTool(j)
          PROVE  j = i /\ n \in names
      <4>1. j \in DOMAIN clients /\ clients[j].server = t
        BY <1>5, <1>6, <3>4
      <4>2. CASE n \in names
        BY <1>7, <1>a, <3>4, <4>1, <4>2
      <4>3. CASE n \notin names
        <5>1. registry[n] = Manager!McpTool(j) /\ n \in Name \ contested
          BY <1>7, <3>4, <4>3
        <5>2. n \in listed[t]
          BY <1>0, <2>0, <4>1, <5>1 DEF StepInv
        <5> QED
          BY <2>1, <3>1, <5>2
      <4> QED
        BY <4>2, <4>3
    <3>5. ASSUME NEW j \in DOMAIN clients', clients'[j].server = t,
                 clients'[j].process
          PROVE  j = i \/ clients'[j].link \in {"connecting", "failed"}
      <4>1. j \in DOMAIN clients /\ clients[j].server = t
        BY <1>5, <1>6, <3>5
      <4>2. CASE j # i
        <5>1. clients'[j] = clients[j]
          BY <1>5, <4>1, <4>2
        <5>2. j # connections[t]
          BY <1>0, <2>1, <3>1, <4>1 DEF ManagerTypes
        <5> QED
          BY <1>0, <2>0, <3>5, <4>1, <5>1, <5>2 DEF StepInv
      <4> QED
        BY <4>2
    <3> QED
      BY <1>0, <3>2, <3>3, <3>4, <3>5 DEF mine
  <2>2. CASE t # s
    <3>1. connections'[t] = connections[t] /\ listed'[t] = listed[t]
      BY <1>7, <2>2
    <3>2. \A j \in DOMAIN clients : clients[j].server = t => clients'[j] = clients[j]
      BY <1>5, <2>2
    <3>3. connections[t] # 0 =>
            /\ connections[t] \in DOMAIN clients
            /\ clients[connections[t]].server = t
      BY <1>0, <1>b DEF OwnedInv
    <3>4. ASSUME NEW n \in listed[t] \ contested'
          PROVE  registry'[n] = registry[n]
      <4>1. /\ n \in Name /\ n \in listed[t] \ contested
            /\ n \in names => registry[n] = NoTool
        BY <1>7, <2>0, <3>4
      <4>2. registry[n] # NoTool
        BY <1>0, <4>1, ToolsDiffer DEF OwnedInv, IsOf
      <4> QED
        BY <1>7, <4>1, <4>2
    <3>5. ASSUME NEW j \in DOMAIN clients, clients[j].server = t,
                 NEW n \in Name \ contested', registry'[n] = Manager!McpTool(j)
          PROVE  j = connections[t] /\ n \in listed[t]
      <4>1. j # i
        BY <2>2, <3>5
      <4>2. registry[n] = Manager!McpTool(j) /\ n \in Name \ contested
        BY <1>7, <1>a, <3>5, <4>1
      <4> QED
        BY <1>0, <2>0, <3>5, <4>2 DEF StepInv
    <3>6. ASSUME NEW j \in DOMAIN clients, clients[j].server = t,
                 clients[j].process
          PROVE  j = connections[t] \/ clients[j].link \in {"connecting", "failed"}
      BY <1>0, <2>0, <3>6 DEF StepInv
    <3>7. /\ connections[t] # 0 =>
               /\ listed[t] = clients[connections[t]].tools
               /\ \A n \in listed[t] \ contested :
                    registry[n] = Manager!McpTool(connections[t])
          /\ connections[t] = 0 => listed[t] = {}
      BY <1>0, <2>0 DEF StepInv
    <3>8. \A n \in listed[t] \ contested' : n \in listed[t] \ contested
      BY <1>3
    <3>9. connections'[t] # 0 =>
             /\ listed'[t] = clients'[connections'[t]].tools
             /\ \A n \in listed'[t] \ contested' :
                  registry'[n] = Manager!McpTool(connections'[t])
      BY <3>1, <3>2, <3>3, <3>4, <3>7, <3>8
    <3> QED
      BY <1>5, <1>6, <3>1, <3>2, <3>5, <3>6, <3>7, <3>9
  <2> QED
    BY <2>1, <2>2
<1> QED
  BY <1>8, <1>9, <1>10, <1>11 DEF ManagerInv

\* Some tools are registered and the call of connect breaks off: nothing is said
\* of its server any more, and tools of other servers are contested or left alone.
LEMMA BreakKeeps ==
  ASSUME ManagerInv, NEW i \in DOMAIN clients, NEW names \in SUBSET Name,
         Manager!ConnectBreaks(i, names)
  PROVE  ManagerInv'
<1> DEFINE s == clients[i].server
           c == [clients[i] EXCEPT !.link = "open", !.status = "error"]
           mine == Manager!McpTool(i)
<1>0. /\ ManagerTypes /\ OwnedInv /\ AloneInv /\ StepInv
      /\ clients \in Seq(ClientRec) /\ clients[i] \in ClientRec
      /\ s \in Server /\ i \in Nat /\ i # 0
  <2>1. ManagerTypes /\ OwnedInv /\ AloneInv /\ StepInv
    BY DEF ManagerInv
  <2>2. clients \in Seq(ClientRec) /\ clients[i] \in ClientRec
    BY <2>1 DEF ManagerTypes
  <2>3. clients[i].server \in Server
    BY <2>2 DEF ClientRec
  <2>4. i \in Nat /\ i # 0
    BY <2>2
  <2> QED
    BY <2>1, <2>2, <2>3, <2>4
<1>2. /\ c \in ClientRec /\ c.server = s /\ c.tools = clients[i].tools
      /\ c.link = "open"
  BY <1>0 DEF ClientRec
<1>3. /\ clients' = [clients EXCEPT ![i] = c]
      /\ connections' = [connections EXCEPT ![s] = i]
      /\ contested' = contested \cup {n \in names : registry[n] # NoTool}
      /\ registry' = [n \in Name |-> IF n \in names THEN mine ELSE registry[n]]
      /\ crossed' = crossed \cup {s}
      /\ UNCHANGED <<leaving, listed>>
  BY <1>0 DEF Manager!ConnectBreaks, Manager!WithTools
<1>4. mine \in Tool /\ mine # NoTool /\ mine # Manager!NativeTool
  BY <1>0, ToolsDiffer
<1>a. \A j \in DOMAIN clients : j # i => Manager!McpTool(j) # mine
  BY <1>0, ToolsDiffer
<1> HIDE DEF c, mine
<1>5. /\ clients' \in Seq(ClientRec) /\ Len(clients') = Len(clients)
      /\ \A j \in DOMAIN clients : clients'[j] = IF j = i THEN c ELSE clients[j]
      /\ DOMAIN clients' = DOMAIN clients
  BY <1>0, <1>2, <1>3, ClientChanges
<1>6. \A j \in DOMAIN clients : clients'[j].server = clients[j].server
  BY <1>2, <1>5
<1>7. /\ \A t \in Server : connections'[t] = IF t = s THEN i ELSE connections[t]
      /\ \A n \in Name : registry'[n] = IF n \in names THEN mine ELSE registry[n]
      /\ \A n \in Name \ contested' :
           n \in Name \ contested /\ (n \in names => registry[n] = NoTool)
  BY <1>0, <1>3 DEF ManagerTypes
<1>b. \A t \in Server : connections[t] # 0 => connections[t] \in DOMAIN clients
  BY <1>0 DEF ManagerTypes
<1>8. ManagerTypes'
  <2>1. connections' \in [Server -> 0 .. Len(clients')]
    BY <1>0, <1>3, <1>5 DEF ManagerTypes
  <2>2. contested' \in SUBSET Name /\ crossed' \in SUBSET Server
    BY <1>0, <1>3 DEF ManagerTypes
  <2>3. registry' \in [Name -> Tool]
    BY <1>0, <1>3, <1>4 DEF ManagerTypes
  <2> QED
    BY <1>0, <1>3, <1>5, <2>1, <2>2, <2>3 DEF ManagerTypes
<1>9. OwnedInv'
  <2>1. ASSUME NEW n \in Name
        PROVE  \/ registry'[n] \in {NoTool, Manager!NativeTool}
               \/ \E j \in DOMAIN clients' : registry'[n] = Manager!McpTool(j)
    BY <1>0, <1>5, <1>7 DEF OwnedInv, mine
  <2>2. ASSUME NEW t \in Server, connections'[t] # 0
        PROVE  clients'[connections'[t]].server = t
    BY <1>0, <1>6, <1>7, <1>b, <2>2 DEF OwnedInv
  <2>3. ASSUME NEW t \in Server, NEW n \in listed'[t] \ contested'
        PROVE  \E j \in DOMAIN clients' :
                 registry'[n] = Manager!McpTool(j) /\ clients'[j].server = t
    <3>1. n \in Name /\ n \in listed[t]
      BY <1>3, <1>8, <2>3 DEF ManagerTypes
    <3>2. n \in listed[t] \ contested /\ (n \in names => registry[n] = NoTool)
      BY <1>7, <2>3, <3>1
    <3>3. PICK j \in DOMAIN clients :
            registry[n] = Manager!McpTool(j) /\ clients[j].server = t
      BY <1>0, <3>2 DEF OwnedInv, IsOf
    <3>4. registry[n] # NoTool
      BY <1>0, <3>3, ToolsDiffer
    <3>5. registry'[n] = registry[n]
      BY <1>7, <3>1, <3>2, <3>4
    <3> QED
      BY <1>5, <1>6, <3>3, <3>5
  <2>4. ASSUME NEW n \in Native \ contested'
        PROVE  registry'[n] = Manager!NativeTool
    BY <1>0, <1>7, <2>4, ManagerAssumption, ToolsDiffer DEF OwnedInv
  <2> QED
    BY <2>1, <2>2, <2>3, <2>4 DEF OwnedInv, IsOf, Manager!McpTool, Manager!NativeTool
<1>10. AloneInv'
  <2>0. \A op \in leaving : op.client \in DOMAIN clients /\ op.server \in Server
    BY <1>0 DEF ManagerTypes
  <2>1. ASSUME NEW op \in leaving', op.server \notin crossed'
        PROVE  op.client = connections'[op.server] /\ ~clients'[op.client].process
    <3>1. op \in leaving /\ op.server \notin crossed /\ op.server # s
      BY <1>3, <2>1
    <3>2. op.client = connections[op.server] /\ ~clients[op.client].process
      BY <1>0, <3>1 DEF AloneInv
    <3>3. op.client # 0 /\ clients[op.client].server = op.server
      BY <1>0, <2>0, <3>1, <3>2 DEF OwnedInv
    <3> QED
      BY <1>5, <1>7, <2>0, <3>1, <3>2, <3>3
  <2>2. ASSUME NEW j \in DOMAIN clients', clients'[j].link = "connecting",
               clients'[j].server \notin crossed'
        PROVE  /\ connections'[clients'[j].server] = 0
               /\ \A op \in leaving' : op.server # clients'[j].server
               /\ \A k \in DOMAIN clients' :
                    /\ clients'[k].link = "connecting"
                    /\ clients'[k].server = clients'[j].server
                    => k = j
    <3>1. j \in DOMAIN clients /\ j # i /\ clients'[j] = clients[j]
      BY <1>2, <1>5, <2>2
    <3>2. /\ clients[j].link = "connecting" /\ clients[j].server \notin crossed
          /\ clients[j].server # s
      BY <1>3, <2>2, <3>1
    <3>3. clients[j].server \in Server
      <4>1. clients[j] \in ClientRec
        BY <1>0, <3>1
      <4> QED
        BY <4>1 DEF ClientRec
    <3> QED
      BY <1>0, <1>2, <1>3, <1>5, <1>7, <3>1, <3>2, <3>3 DEF AloneInv
  <2> QED
    BY <2>1, <2>2 DEF AloneInv
<1>11. StepInv'
  <2> SUFFICES ASSUME NEW t \in Server \ crossed'
      PROVE  /\ connections'[t] # 0 =>
                  /\ listed'[t] = clients'[connections'[t]].tools
                  /\ \A n \in listed'[t] \ contested' :
                       registry'[n] = Manager!McpTool(connections'[t])
             /\ connections'[t] = 0 => listed'[t] = {}
             /\ \A j \in DOMAIN clients' : clients'[j].server = t =>
                  /\ \A n \in Name \ contested' :
                       registry'[n] = Manager!McpTool(j) =>
                         j = connections'[t] /\ n \in listed'[t]
                  /\ clients'[j].process =>
                       \/ j = connections'[t]
                       \/ clients'[j].link \in {"connecting", "failed"}
    BY DEF StepInv, Manager!McpTool
  <2>0. t \in Server \ crossed /\ t # s /\ listed[t] \in SUBSET Name
    BY <1>0, <1>3 DEF ManagerTypes
  <2>1. connections'[t] = connections[t] /\ listed'[t] = listed[t]
    BY <1>3, <1>7, <2>0
  <2>2. \A j \in DOMAIN clients : clients[j].server = t => clients'[j] = clients[j]
    BY <1>5, <2>0
  <2>3. connections[t] # 0 =>
          /\ connections[t] \in DOMAIN clients
          /\ clients[connections[t]].server = t
    BY <1>0, <1>b, <2>0 DEF OwnedInv
  <2>4. ASSUME NEW n \in listed[t] \ contested'
        PROVE  registry'[n] = registry[n]
    <3>1. /\ n \in Name /\ n \in listed[t] \ contested
          /\ n \in names => registry[n] = NoTool
      BY <1>7, <2>0, <2>4
    <3>2. registry[n] # NoTool
      BY <1>0, <2>0, <3>1, ToolsDiffer DEF OwnedInv, IsOf
    <3> QED
      BY <1>7, <3>1, <3>2
  <2>5. ASSUME NEW j \in DOMAIN clients, clients[j].server = t,
               NEW n \in Name \ contested', registry'[n] = Manager!McpTool(j)
        PROVE  j = connections[t] /\ n \in listed[t]
    <3>1. j # i
      BY <2>0, <2>5
    <3>2. registry[n] = Manager!McpTool(j) /\ n \in Name \ contested
      BY <1>7, <1>a, <2>5, <3>1
    <3> QED
      BY <1>0, <2>0, <2>5, <3>2 DEF StepInv
  <2>6. ASSUME NEW j \in DOMAIN clients, clients[j].server = t,
               clients[j].process
        PROVE  j = connections[t] \/ clients[j].link \in {"connecting", "failed"}
    BY <1>0, <2>0, <2>6 DEF StepInv
  <2>7. /\ connections[t] # 0 =>
             /\ listed[t] = clients[connections[t]].tools
             /\ \A n \in listed[t] \ contested :
                  registry[n] = Manager!McpTool(connections[t])
        /\ connections[t] = 0 => listed[t] = {}
    BY <1>0, <2>0 DEF StepInv
  <2>8. \A n \in listed[t] \ contested' : n \in listed[t] \ contested
    BY <1>3
  <2>9. connections'[t] # 0 =>
           /\ listed'[t] = clients'[connections'[t]].tools
           /\ \A n \in listed'[t] \ contested' :
                registry'[n] = Manager!McpTool(connections'[t])
    BY <2>1, <2>2, <2>3, <2>4, <2>7, <2>8
  <2> QED
    BY <1>5, <1>6, <2>1, <2>2, <2>5, <2>6, <2>7, <2>9
<1> QED
  BY <1>8, <1>9, <1>10, <1>11 DEF ManagerInv

\* The connection of a server is closed before disconnect waits.
LEMMA BeginDisconnectKeeps ==
  ASSUME ManagerInv, NEW s \in Server, Manager!BeginDisconnect(s)
  PROVE  ManagerInv'
<1> DEFINE i == connections[s]
           c == [clients[i] EXCEPT !.link = "closed", !.process = FALSE]
           op == [server |-> s, client |-> i]
<1>0. ManagerTypes /\ OwnedInv /\ AloneInv /\ StepInv
  BY DEF ManagerInv
<1>1. /\ clients \in Seq(ClientRec) /\ i \in DOMAIN clients
      /\ clients[i].server = s /\ clients[i] \in ClientRec
      /\ i # 0
  <2>1. i # 0
    BY DEF Manager!BeginDisconnect
  <2>2. i \in DOMAIN clients
    BY <1>0, <2>1 DEF ManagerTypes
  <2> QED
    BY <1>0, <2>1, <2>2 DEF ManagerTypes, OwnedInv
<1>2. /\ c \in ClientRec /\ c.server = s /\ c.tools = clients[i].tools
      /\ ~c.process /\ c.link = "closed"
  BY <1>1 DEF ClientRec
<1>3. /\ clients' = [clients EXCEPT ![i] = c]
      /\ leaving' = leaving \cup {op}
      /\ UNCHANGED <<registry, connections, listed, crossed, contested>>
  BY <1>1 DEF Manager!BeginDisconnect, Manager!toolVars
<1>4. op.server = s /\ op.client = i /\ op \in [server : Server, client : DOMAIN clients]
  BY <1>1
<1> HIDE DEF c, op
<1>5. /\ clients' \in Seq(ClientRec) /\ Len(clients') = Len(clients)
      /\ \A j \in DOMAIN clients : clients'[j] = IF j = i THEN c ELSE clients[j]
      /\ DOMAIN clients' = DOMAIN clients
  BY <1>1, <1>2, <1>3, ClientChanges
<1>6. \A j \in DOMAIN clients :
        /\ clients'[j].server = clients[j].server
        /\ clients'[j].tools = clients[j].tools
        /\ clients'[j].process => clients[j].process /\ j # i
  BY <1>1, <1>2, <1>5
<1>b. \A t \in Server : connections[t] # 0 => connections[t] \in DOMAIN clients
  BY <1>0 DEF ManagerTypes
<1>7. ManagerTypes'
  BY <1>0, <1>3, <1>4, <1>5 DEF ManagerTypes
<1>8. OwnedInv'
  BY <1>0, <1>3, <1>5, <1>6, <1>b DEF OwnedInv, IsOf
<1>9. AloneInv'
  <2>0. \A o \in leaving : o.client \in DOMAIN clients
    BY <1>0 DEF ManagerTypes
  <2>1. ASSUME NEW o \in leaving', o.server \notin crossed'
        PROVE  o.client = connections'[o.server] /\ ~clients'[o.client].process
    <3>1. CASE o = op
      BY <1>1, <1>3, <1>4, <1>6, <3>1
    <3>2. CASE o \in leaving
      BY <1>0, <1>3, <1>6, <2>0, <2>1, <3>2 DEF AloneInv
    <3> QED
      BY <1>3, <3>1, <3>2
  <2>2. ASSUME NEW j \in DOMAIN clients', clients'[j].link = "connecting",
               clients'[j].server \notin crossed'
        PROVE  /\ connections'[clients'[j].server] = 0
               /\ \A o \in leaving' : o.server # clients'[j].server
               /\ \A k \in DOMAIN clients' :
                    /\ clients'[k].link = "connecting"
                    /\ clients'[k].server = clients'[j].server
                    => k = j
    <3>1. j \in DOMAIN clients /\ j # i /\ clients'[j] = clients[j]
      BY <1>2, <1>5, <2>2
    <3>2. /\ connections[clients[j].server] = 0
          /\ \A o \in leaving : o.server # clients[j].server
          /\ \A k \in DOMAIN clients :
               /\ clients[k].link = "connecting"
               /\ clients[k].server = clients[j].server
               => k = j
      BY <1>0, <1>3, <2>2, <3>1 DEF AloneInv
    <3>3. clients[j].server # s
      BY <1>1, <3>2
    <3> QED
      BY <1>2, <1>3, <1>4, <1>5, <3>1, <3>2, <3>3
  <2> QED
    BY <2>1, <2>2 DEF AloneInv
<1>10. StepInv'
  <2> SUFFICES ASSUME NEW t \in Server \ crossed'
      PROVE  /\ connections'[t] # 0 =>
                  /\ listed'[t] = clients'[connections'[t]].tools
                  /\ \A n \in listed'[t] \ contested' :
                       registry'[n] = Manager!McpTool(connections'[t])
             /\ connections'[t] = 0 => listed'[t] = {}
             /\ \A j \in DOMAIN clients' : clients'[j].server = t =>
                  /\ \A n \in Name \ contested' :
                       registry'[n] = Manager!McpTool(j) =>
                         j = connections'[t] /\ n \in listed'[t]
                  /\ clients'[j].process =>
                       \/ j = connections'[t]
                       \/ clients'[j].link \in {"connecting", "failed"}
    BY DEF StepInv, Manager!McpTool
  <2>1. t \in Server \ crossed
    BY <1>3
  <2>2. ASSUME NEW j \in DOMAIN clients', clients'[j].server = t, clients'[j].process
        PROVE  \/ j = connections'[t]
               \/ clients'[j].link \in {"connecting", "failed"}
    <3>1. j \in DOMAIN clients /\ j # i /\ clients'[j] = clients[j]
      BY <1>5, <1>6, <2>2
    <3> QED
      BY <1>0, <1>3, <2>1, <2>2, <3>1 DEF StepInv
  <2> QED
    BY <1>0, <1>3, <1>5, <1>6, <1>b, <2>1, <2>2 DEF StepInv
<1> QED
  BY <1>7, <1>8, <1>9, <1>10 DEF ManagerInv

LEMMA Marked ==
  ASSUME ManagerTypes, NEW s \in Server
  PROVE  LET cs == Manager!MarkDisconnected(clients, s) IN
         /\ cs \in Seq(ClientRec) /\ Len(cs) = Len(clients)
         /\ DOMAIN cs = DOMAIN clients
         /\ \A i \in DOMAIN clients :
              /\ cs[i].server = clients[i].server
              /\ cs[i].tools = clients[i].tools
              /\ cs[i].process = clients[i].process
              /\ cs[i].link = clients[i].link
<1> DEFINE k == Manager!Latest(s)
           cs == Manager!MarkDisconnected(clients, s)
           c == [clients[k] EXCEPT !.status = "disconnected"]
<1>1. clients \in Seq(ClientRec)
  BY DEF ManagerTypes
<1>2. CASE k = 0
  BY <1>1, <1>2 DEF Manager!MarkDisconnected
<1>3. CASE k # 0 /\ k \in DOMAIN clients
  <2>1. clients[k] \in ClientRec
    <3> HIDE DEF k
    <3> QED
      BY <1>1, <1>3
  <2>2. cs = [clients EXCEPT ![k] = c]
    BY <1>3 DEF Manager!MarkDisconnected
  <2>3. /\ c \in ClientRec /\ c.server = clients[k].server
        /\ c.tools = clients[k].tools /\ c.process = clients[k].process
        /\ c.link = clients[k].link
    <3> HIDE DEF k
    <3> QED
      BY <2>1 DEF ClientRec
  <2> HIDE DEF k, c, cs
  <2>4. /\ cs \in Seq(ClientRec) /\ Len(cs) = Len(clients)
        /\ \A j \in DOMAIN clients : cs[j] = IF j = k THEN c ELSE clients[j]
    BY <1>1, <1>3, <2>2, <2>3, ClientChanges
  <2>5. DOMAIN cs = DOMAIN clients
    BY <1>1, <2>4
  <2> QED
    BY <2>3, <2>4, <2>5 DEF cs
<1>4. CASE k # 0 /\ k \notin DOMAIN clients
  <2>2. cs = [clients EXCEPT ![k] = c]
    BY <1>4 DEF Manager!MarkDisconnected
  <2> HIDE DEF k, c, cs
  <2>3. cs = clients
    BY <1>1, <1>4, <2>2
  <2> QED
    BY <1>1, <2>3 DEF cs
<1> QED
  BY <1>2, <1>3, <1>4

\* A server is forgotten: its connection, if it has one, and its tools.
LEMMA ForgetKeeps ==
  ASSUME ManagerInv, NEW s \in Server,
         connections' = [connections EXCEPT ![s] = 0],
         registry' = Manager!WithoutTools(listed[s]),
         listed' = [listed EXCEPT ![s] = {}],
         clients' = Manager!MarkDisconnected(clients, s),
         leaving' \in SUBSET leaving, UNCHANGED <<crossed, contested>>,
         s \notin crossed =>
           /\ connections[s] # 0 => ~clients[connections[s]].process
           /\ \A op \in leaving' : op.server # s
  PROVE  ManagerInv'
<1>0. ManagerTypes /\ OwnedInv /\ AloneInv /\ StepInv
  BY DEF ManagerInv
<1>1. /\ clients' \in Seq(ClientRec) /\ Len(clients') = Len(clients)
      /\ DOMAIN clients' = DOMAIN clients
      /\ \A i \in DOMAIN clients :
           /\ clients'[i].server = clients[i].server
           /\ clients'[i].tools = clients[i].tools
           /\ clients'[i].process = clients[i].process
           /\ clients'[i].link = clients[i].link
  BY <1>0, Marked
<1>2. /\ registry' = [n \in Name |-> IF n \in listed[s] THEN NoTool ELSE registry[n]]
      /\ \A t \in Server : connections'[t] = IF t = s THEN 0 ELSE connections[t]
      /\ \A t \in Server : listed'[t] = IF t = s THEN {} ELSE listed[t]
  BY <1>0 DEF Manager!WithoutTools, Manager!WithTools, ManagerTypes
<1>b. \A t \in Server : connections[t] # 0 => connections[t] \in DOMAIN clients
  BY <1>0 DEF ManagerTypes
<1>3. ManagerTypes'
  <2>1. connections' \in [Server -> 0 .. Len(clients')]
    BY <1>0, <1>1 DEF ManagerTypes
  <2>2. registry' \in [Name -> Tool]
    BY <1>0, <1>2 DEF ManagerTypes, Tool
  <2>3. listed' \in [Server -> SUBSET Name]
    BY <1>0 DEF ManagerTypes
  <2> QED
    BY <1>0, <1>1, <2>1, <2>2, <2>3 DEF ManagerTypes
<1>4. ASSUME NEW t \in Server, t # s, NEW n \in listed[t] \ contested
      PROVE  n \in Name /\ registry'[n] = registry[n]
  <2>1. n \in Name
    BY <1>0 DEF ManagerTypes
  <2>2. n \notin listed[s]
    <3>1. IsOf(n, t)
      BY <1>0, <1>4 DEF OwnedInv
    <3>2. ASSUME NEW i \in DOMAIN clients, NEW j \in DOMAIN clients,
                 registry[n] = Manager!McpTool(i), registry[n] = Manager!McpTool(j)
          PROVE  i = j
      <4>1. i \in Nat /\ j \in Nat
        BY <1>0 DEF ManagerTypes
      <4> QED
        BY <3>2, <4>1, ToolsDiffer
    <3>3. ~IsOf(n, s)
      BY <1>4, <3>1, <3>2 DEF IsOf
    <3> QED
      BY <1>0, <1>4, <3>3 DEF OwnedInv
  <2> QED
    BY <1>2, <2>1, <2>2
<1>5. OwnedInv'
  <2>1. ASSUME NEW n \in Name
        PROVE  \/ registry'[n] \in {NoTool, Manager!NativeTool}
               \/ \E j \in DOMAIN clients' : registry'[n] = Manager!McpTool(j)
    BY <1>0, <1>1, <1>2 DEF OwnedInv
  <2>2. ASSUME NEW t \in Server, connections'[t] # 0
        PROVE  clients'[connections'[t]].server = t
    BY <1>0, <1>1, <1>2, <1>b, <2>2 DEF OwnedInv
  <2>3. ASSUME NEW t \in Server, NEW n \in listed'[t] \ contested'
        PROVE  \E j \in DOMAIN clients' :
                 registry'[n] = Manager!McpTool(j) /\ clients'[j].server = t
    <3>1. t # s /\ n \in listed[t] \ contested
      BY <1>2, <2>3
    <3>2. IsOf(n, t)
      BY <1>0, <3>1 DEF OwnedInv
    <3>3. registry'[n] = registry[n]
      BY <1>4, <3>1
    <3> QED
      BY <1>1, <3>2, <3>3 DEF IsOf
  <2>4. ASSUME NEW n \in Native \ contested'
        PROVE  registry'[n] = Manager!NativeTool
    <3>1. n \in Name /\ registry[n] = Manager!NativeTool
      BY <1>0, <2>4, ManagerAssumption DEF OwnedInv
    <3>2. \A i \in DOMAIN clients : registry[n] # Manager!McpTool(i)
      BY <1>0, <3>1, ToolsDiffer DEF ManagerTypes
    <3>3. n \notin listed[s]
      BY <1>0, <2>4, <3>2 DEF OwnedInv, IsOf
    <3> QED
      BY <1>2, <3>1, <3>3
  <2> QED
    BY <2>1, <2>2, <2>3, <2>4 DEF OwnedInv, IsOf, Manager!McpTool, Manager!NativeTool
<1>6. AloneInv'
  <2>0. \A op \in leaving : op.client \in DOMAIN clients /\ op.server \in Server
    BY <1>0 DEF ManagerTypes
  <2>1. ASSUME NEW op \in leaving', op.server \notin crossed'
        PROVE  op.client = connections'[op.server] /\ ~clients'[op.client].process
    <3>1. op \in leaving /\ op.server # s /\ op.server \notin crossed
      BY <2>1
    <3>2. op.client = connections[op.server] /\ ~clients[op.client].process
      BY <1>0, <3>1 DEF AloneInv
    <3> QED
      BY <1>1, <1>2, <2>0, <3>1, <3>2
  <2>2. ASSUME NEW j \in DOMAIN clients', clients'[j].link = "connecting",
               clients'[j].server \notin crossed'
        PROVE  /\ connections'[clients'[j].server] = 0
               /\ \A op \in leaving' : op.server # clients'[j].server
               /\ \A k \in DOMAIN clients' :
                    /\ clients'[k].link = "connecting"
                    /\ clients'[k].server = clients'[j].server
                    => k = j
    <3>1. /\ j \in DOMAIN clients /\ clients[j].link = "connecting"
          /\ clients[j].server \notin crossed /\ clients'[j].server = clients[j].server
      BY <1>1, <2>2
    <3>2. clients[j].server \in Server
      <4>1. clients[j] \in ClientRec
        BY <1>0, <3>1 DEF ManagerTypes
      <4> QED
        BY <4>1 DEF ClientRec
    <3> QED
      BY <1>0, <1>1, <1>2, <3>1, <3>2 DEF AloneInv
  <2> QED
    BY <2>1, <2>2 DEF AloneInv
<1>7. StepInv'
  <2> SUFFICES ASSUME NEW t \in Server \ crossed'
      PROVE  /\ connections'[t] # 0 =>
                  /\ listed'[t] = clients'[connections'[t]].tools
                  /\ \A n \in listed'[t] \ contested' :
                       registry'[n] = Manager!McpTool(connections'[t])
             /\ connections'[t] = 0 => listed'[t] = {}
             /\ \A j \in DOMAIN clients' : clients'[j].server = t =>
                  /\ \A n \in Name \ contested' :
                       registry'[n] = Manager!McpTool(j) =>
                         j = connections'[t] /\ n \in listed'[t]
                  /\ clients'[j].process =>
                       \/ j = connections'[t]
                       \/ clients'[j].link \in {"connecting", "failed"}
    BY DEF StepInv, Manager!McpTool
  <2>0. t \in Server \ crossed
    OBVIOUS
  <2>1. ASSUME NEW j \in DOMAIN clients', clients'[j].server = t,
               NEW n \in Name \ contested', registry'[n] = Manager!McpTool(j)
        PROVE  t # s /\ j = connections[t] /\ n \in listed[t]
    <3>1. n \notin listed[s] /\ registry[n] = Manager!McpTool(j)
      BY <1>0, <1>1, <1>2, <2>1, ToolsDiffer DEF ManagerTypes
    <3>2. j = connections[t] /\ n \in listed[t]
      BY <1>0, <1>1, <2>0, <2>1, <3>1 DEF StepInv
    <3> QED
      BY <3>1, <3>2
  <2>2. ASSUME NEW j \in DOMAIN clients', clients'[j].server = t, clients'[j].process
        PROVE  \/ t # s /\ j = connections[t]
               \/ clients'[j].link \in {"connecting", "failed"}
    <3>1. j = connections[t] \/ clients[j].link \in {"connecting", "failed"}
      BY <1>0, <1>1, <2>0, <2>2 DEF StepInv
    <3>2. j # 0 /\ j \in DOMAIN clients
      BY <1>0, <1>1 DEF ManagerTypes
    <3> QED
      BY <1>1, <2>0, <2>2, <3>1, <3>2
  <2>3. CASE t = s
    BY <1>2, <2>1, <2>2, <2>3
  <2>4. CASE t # s
    <3>1. connections'[t] = connections[t] /\ listed'[t] = listed[t]
      BY <1>2, <2>4
    <3>2. /\ connections[t] # 0 =>
               /\ listed[t] = clients[connections[t]].tools
               /\ \A n \in listed[t] \ contested :
                    registry[n] = Manager!McpTool(connections[t])
          /\ connections[t] = 0 => listed[t] = {}
      BY <1>0, <2>0 DEF StepInv
    <3> QED
      BY <1>1, <1>4, <1>b, <2>1, <2>2, <2>4, <3>1, <3>2
  <2> QED
    BY <2>3, <2>4
<1> QED
  BY <1>3, <1>5, <1>6, <1>7 DEF ManagerInv

LEMMA DisconnectKeeps ==
  ASSUME ManagerInv,
         \/ \E s \in Server : Manager!DisconnectNothing(s)
         \/ \E op \in leaving : Manager!EndDisconnect(op)
  PROVE  ManagerInv'
<1>0. ManagerTypes /\ AloneInv
  BY DEF ManagerInv
<1>1. ASSUME NEW s \in Server, Manager!DisconnectNothing(s)
      PROVE  ManagerInv'
  <2>1. /\ connections[s] = 0
        /\ connections' = [connections EXCEPT ![s] = 0]
        /\ UNCHANGED <<leaving, crossed, contested>>
    BY <1>0, <1>1 DEF Manager!DisconnectNothing, ManagerTypes
  <2>2. s \notin crossed => \A op \in leaving' : op.server # s
    <3>1. \A op \in leaving : op.client \in DOMAIN clients /\ op.client # 0
      BY <1>0 DEF ManagerTypes
    <3> QED
      BY <1>0, <2>1, <3>1 DEF AloneInv
  <2> QED
    BY <1>1, <2>1, <2>2, ForgetKeeps DEF Manager!DisconnectNothing
<1>2. ASSUME NEW op \in leaving, Manager!EndDisconnect(op)
      PROVE  ManagerInv'
  <2>1. op.server \in Server
    BY <1>0 DEF ManagerTypes
  <2> DEFINE s == op.server
  <2>2. s \notin crossed =>
           /\ connections[s] # 0 => ~clients[connections[s]].process
           /\ \A o \in leaving' : o.server # s
    <3>1. s \notin crossed => op.client = connections[s] /\ ~clients[op.client].process
      BY <1>0 DEF AloneInv
    <3>2. ASSUME NEW o \in leaving', o.server = s, s \notin crossed
          PROVE  FALSE
      <4>1. o \in leaving /\ o # op
        BY <1>2 DEF Manager!EndDisconnect
      <4>2. o.client = connections[s]
        BY <1>0, <3>2, <4>1 DEF AloneInv
      <4>3. /\ o \in [server : Server, client : DOMAIN clients]
            /\ op \in [server : Server, client : DOMAIN clients]
        BY <1>0, <4>1 DEF ManagerTypes
      <4> QED
        BY <3>1, <3>2, <4>1, <4>2, <4>3
    <3> QED
      BY <3>1, <3>2
  <2>3. leaving' \in SUBSET leaving
    BY <1>2 DEF Manager!EndDisconnect
  <2> QED
    BY <1>2, <2>1, <2>2, <2>3, ForgetKeeps DEF Manager!EndDisconnect
<1> QED
  BY <1>1, <1>2

LEMMA ManagerStep ==
  ExecInv /\ ManagerInv /\ [Manager!Next]_(Manager!vars) => ExecInv' /\ ManagerInv'
<1> SUFFICES ASSUME ExecInv, ManagerInv, [Manager!Next]_(Manager!vars)
             PROVE  ExecInv' /\ ManagerInv'
  OBVIOUS
<1>1. ASSUME UNCHANGED execs, ManagerInv'
      PROVE  ExecInv' /\ ManagerInv'
  BY <1>1 DEF ExecInv, ManagerInv, ManagerTypes
<1>2. ASSUME UNCHANGED <<registry, Manager!mcpVars>>
      PROVE  ManagerInv'
  BY <1>2
     DEF ManagerInv, ManagerTypes, OwnedInv, IsOf, AloneInv, StepInv, Manager!mcpVars
<1>3. ASSUME NEW s \in Server,
             \/ Manager!BeginConnect(s) \/ Manager!BeginDisconnect(s)
             \/ Manager!DisconnectNothing(s)
      PROVE  ExecInv' /\ ManagerInv'
  <2>1. UNCHANGED execs
    BY <1>3 DEF Manager!BeginConnect, Manager!BeginDisconnect,
                Manager!DisconnectNothing, Manager!toolVars
  <2> QED
    BY <1>1, <1>3, <2>1, BeginConnectKeeps, BeginDisconnectKeeps, DisconnectKeeps
<1>4. ASSUME NEW i \in DOMAIN clients,
             \/ \E offer \in Offers[clients[i].server] : Manager!Connected(i, offer)
             \/ Manager!ConnectFails(i) \/ Manager!ProcessExits(i)
      PROVE  ExecInv' /\ ManagerInv'
  <2>1. UNCHANGED execs
    BY <1>4 DEF Manager!Connected, Manager!ConnectFails, Manager!ProcessExits,
                Manager!toolVars
  <2> QED
    BY <1>1, <1>4, <2>1, ConnectedKeeps, FailKeeps
<1>4a. ASSUME NEW i \in DOMAIN clients, NEW offer \in Offers[clients[i].server],
              NEW names \in SUBSET Manager!Adapted(clients[i].server, offer),
              Manager!ConnectBreaks(i, names)
       PROVE  ExecInv' /\ ManagerInv'
  <2>1. UNCHANGED execs
    BY <1>4a DEF Manager!ConnectBreaks
  <2>2. clients[i].server \in Server
    <3>1. clients[i] \in ClientRec
      BY DEF ManagerInv, ManagerTypes
    <3> QED
      BY <3>1 DEF ClientRec
  <2>3. names \in SUBSET Name
    BY <2>2, ManagerAssumption
  <2> QED
    BY <1>1, <1>4a, <2>1, <2>3, BreakKeeps
<1>5. ASSUME NEW op \in leaving, Manager!EndDisconnect(op)
      PROVE  ExecInv' /\ ManagerInv'
  <2>1. UNCHANGED execs
    BY <1>5 DEF Manager!EndDisconnect
  <2> QED
    BY <1>1, <1>5, <2>1, DisconnectKeeps
<1>6. ASSUME NEW e \in Exec,
             \/ Manager!ExecStep(e) /\ UNCHANGED Manager!mcpVars
             \/ Manager!ToolAnswers(e)
             \/ \E asked \in Manager!Listed : Manager!ServerCall(e, asked)
      PROVE  ExecInv' /\ ManagerInv'
  <2>1. \/ \E n \in Name : Manager!Execute(e, n)
        \/ \E valid \in BOOLEAN : Manager!Starts(e, valid)
        \/ \/ \E success \in BOOLEAN : Manager!ToolReturns(e, success)
           \/ Manager!ToolThrows(e)
        \/ Manager!Returns(e)
    BY <1>6 DEF Manager!ExecStep, Manager!ToolAnswers, Manager!ServerCall
  <2>2. UNCHANGED Manager!mcpVars
    BY <1>6 DEF Manager!ToolAnswers, Manager!ServerCall
  <2>3. UNCHANGED registry
    BY <2>1 DEF Manager!Execute, Manager!Starts, Manager!ToolReturns,
                Manager!ToolThrows, Manager!Returns
  <2>4. ExecInv'
    BY <2>1, LookupKeeps, StartKeeps, RunKeeps, ReturnKeeps
  <2> QED
    BY <1>2, <2>2, <2>3, <2>4
<1>7. CASE UNCHANGED Manager!vars
  <2>1. UNCHANGED <<registry, execs, Manager!mcpVars>>
    BY <1>7 DEF Manager!vars, Manager!toolVars
  <2> QED
    BY <1>1, <1>2, <2>1
<1> QED
  BY <1>3, <1>4, <1>4a, <1>5, <1>6, <1>7 DEF Manager!Next

\* The tools in the registry are those of the connections that servers have,
\* whoever connects, disconnects and dies in between, except for servers that
\* are connected out of turn or list something malformed, and for contested names;
\* and an execution tells what its tool did (mcp-client-manager.ts, execution-pipeline.ts).
THEOREM ToolsStayTrue == Manager!Spec => []ToolsAreTrue
<1>1. ExecInv /\ ManagerInv => ToolsAreTrue
  <2> SUFFICES ASSUME ExecInv, ManagerInv PROVE Manager!ToolsFollowConnections
    BY ToldWhenReturned DEF ToolsAreTrue
  <2>1. ASSUME NEW s \in Server \ crossed
        PROVE  LET mine == {i \in DOMAIN clients : clients[i].server = s} IN
               /\ connections[s] # 0 =>
                    /\ listed[s] = clients[connections[s]].tools
                    /\ \A n \in listed[s] \ contested :
                         registry[n] = Manager!McpTool(connections[s])
               /\ connections[s] = 0 => listed[s] = {}
               /\ \A i \in mine : \A n \in Name \ contested :
                    registry[n] = Manager!McpTool(i) => i = connections[s]
               /\ \A i \in mine :
                    clients[i].process =>
                      \/ i = connections[s]
                      \/ clients[i].link \in {"connecting", "failed"}
    BY DEF ManagerInv, StepInv
  <2>2. \A n \in Native \ contested : registry[n] = Manager!NativeTool
    BY DEF ManagerInv, OwnedInv
  <2> QED
    BY <2>1, <2>2 DEF Manager!ToolsFollowConnections
<1> QED
  BY <1>1, ManagerInit, ManagerStep, PTL DEF Manager!Spec

-----------------------------------------------------------------------------
(***************************************************************************)
(* The behaviours that the run explores are behaviours of each component,  *)
(* so that all of the above holds in every state of them.                  *)
(***************************************************************************)
LEMMA ComponentsOfTools ==
  AllInit /\ [][AllNext]_allVars => Spec /\ Manager!Spec /\ Registry!Spec
<1>1. AllInit => Init /\ Manager!Init /\ Registry!Init
  BY DEF AllInit
<1>2. [AllNext]_allVars => /\ [Next]_vars /\ [Manager!Next]_(Manager!vars)
                           /\ [Registry!Next]_(Registry!vars)
  BY DEF AllNext, allVars, managerVars, pluginVars, Manager!vars, Manager!toolVars,
         Manager!mcpVars, Registry!vars
<1> QED
  BY <1>1, <1>2, PTL DEF Spec, Manager!Spec, Registry!Spec

\* Every invariant of the run, for all values of the constants.
THEOREM ToolsStaySound ==
  FairAllSpec => [](AnswersBelong /\ ToolsAreTrue /\ ActiveIsRegistered)
<1>1. FairAllSpec => AllInit /\ [][AllNext]_allVars
  BY PTL DEF FairAllSpec
<1> QED
  BY <1>1, ComponentsOfTools, AnswersReachTheirCall, ToolsStayTrue,
     ActivePluginsAreRegistered, PTL
=============================================================================
