--------------------------- MODULE PluginRegistry ---------------------------
(***************************************************************************)
(* The life of plugins (plugins/src/registry/plugin-registry.ts and        *)
(* plugin-manager.ts).  load registers an instance and waits for its       *)
(* onInit; unload waits for its onShutdown before it removes whatever      *)
(* instance has that id by then; both then wait for the event bus.  Either *)
(* hook may throw.  A manifest that is invalid and a module that cannot be *)
(* imported throw before anything changes.                                 *)
(***************************************************************************)
EXTENDS Naturals, Sequences

CONSTANTS Plugin,      \* the ids of plugins
          Unload,      \* the calls of unload that may be under way at once
          MaxInstances \* bounds the calls of load

VARIABLES plugins,   \* the registered instance of each id, or 0
          instances, \* every instance that was ever registered
          unloads,   \* the instance that each call of unload works on, and how far
          early,     \* instances whose unload began before onInit had ended
          shadowed   \* instances that were registered while an unload of another
                     \*   instance with their id was under way

vars == <<plugins, instances, unloads, early, shadowed>>

NoUnload == [of |-> 0, pc |-> "idle"]

Init ==
  /\ plugins = [p \in Plugin |-> 0]
  /\ instances = <<>>
  /\ unloads = [u \in Unload |-> NoUnload]
  /\ early = {} /\ shadowed = {}

State(i, state) == instances' = [instances EXCEPT ![i].state = state]

\* Mutant of Load: an instance with the same id is replaced.
LoadOver(p) ==
  /\ Len(instances) < MaxInstances
  /\ instances' = Append(instances, [id |-> p, state |-> "initializing",
                                     init |-> "waiting", shut |-> FALSE])
  /\ plugins' = [plugins EXCEPT ![p] = Len(instances) + 1]
  /\ UNCHANGED <<unloads, early, shadowed>>

\* load: register and initializePlugin up to the first await.
Load(p) ==
  /\ plugins[p] = 0
  /\ Len(instances) < MaxInstances
  /\ instances' = Append(instances, [id |-> p, state |-> "initializing",
                                     init |-> "waiting", shut |-> FALSE])
  /\ plugins' = [plugins EXCEPT ![p] = Len(instances) + 1]
  /\ shadowed' = IF \E u \in Unload : unloads[u].of # 0 /\ instances[unloads[u].of].id = p
                 THEN shadowed \cup {Len(instances) + 1} ELSE shadowed
  /\ UNCHANGED <<unloads, early>>

\* onInit resolves: the instance becomes active, whatever it was by then.
InitResolves(i) ==
  /\ instances[i].init = "waiting"
  /\ instances' = [instances EXCEPT ![i].init = "emitting", ![i].state = "active"]
  /\ UNCHANGED <<plugins, unloads, early, shadowed>>

\* onInit throws.  The instance stays registered.
InitFails(i) ==
  /\ instances[i].init = "waiting"
  /\ instances' = [instances EXCEPT ![i].init = "failed", ![i].state = "error"]
  /\ UNCHANGED <<plugins, unloads, early, shadowed>>

InitEnds(i) ==
  /\ instances[i].init = "emitting"
  /\ instances' = [instances EXCEPT ![i].init = "done"]
  /\ UNCHANGED <<plugins, unloads, early, shadowed>>

\* unload: onShutdown is called, however far the instance is.
BeginUnload(u, p) ==
  LET i == plugins[p] IN
  /\ unloads[u].pc = "idle" /\ i # 0
  /\ unloads' = [unloads EXCEPT ![u] = [of |-> i, pc |-> "shutting"]]
  /\ instances' = [instances EXCEPT ![i].state = "stopping", ![i].shut = TRUE]
  /\ early' = IF instances[i].init = "waiting"
              THEN early \cup {i} ELSE early
  /\ UNCHANGED <<plugins, shadowed>>

\* onShutdown resolves or throws: whatever has the id is removed.
ShutdownEnds(u, ok) ==
  LET i == unloads[u].of IN
  /\ unloads[u].pc = "shutting"
  /\ State(i, IF ok THEN "stopped" ELSE "error")
  /\ plugins' = [plugins EXCEPT ![instances[i].id] = 0]
  /\ unloads' = [unloads EXCEPT ![u] = IF ok THEN [of |-> i, pc |-> "emitting"]
                                       ELSE NoUnload]
  /\ UNCHANGED <<early, shadowed>>

\* After plugin.unloaded.
UnloadEnds(u) ==
  /\ unloads[u].pc = "emitting"
  /\ unloads' = [unloads EXCEPT ![u] = NoUnload]
  /\ UNCHANGED <<plugins, instances, early, shadowed>>

Next ==
  \/ \E p \in Plugin : Load(p)
  \/ \E i \in DOMAIN instances : InitResolves(i) \/ InitFails(i) \/ InitEnds(i)
  \/ \E u \in Unload, p \in Plugin : BeginUnload(u, p)
  \/ \E u \in Unload, ok \in BOOLEAN : ShutdownEnds(u, ok)
  \/ \E u \in Unload : UnloadEnds(u)

Spec == Init /\ [][Next]_vars
-----------------------------------------------------------------------------
\* The type invariant: the domain of every variable of the plugin registry.
TypeOK ==
  /\ plugins \in [Plugin -> 0 .. Len(instances)]
  /\ \A i \in DOMAIN instances :
       /\ instances[i].id \in Plugin
       /\ instances[i].state \in {"initializing", "active", "error", "stopping", "stopped"}
       /\ instances[i].init \in {"waiting", "emitting", "done", "failed"}
  /\ \A u \in Unload : /\ unloads[u].of \in 0 .. Len(instances)
                       /\ unloads[u].pc \in {"idle", "shutting", "emitting"}
  /\ early \subseteq DOMAIN instances /\ shadowed \subseteq DOMAIN instances

(***************************************************************************)
(* An active plugin is registered, so that its hooks are called and        *)
(* shutdown reaches it, and nothing has called its onShutdown              *)
(* (plugin-registry.ts:37-77): however loads, unloads and failures         *)
(* interleave, except for an instance that was unloaded before its onInit  *)
(* had ended and one that was loaded before an unload of its predecessor   *)
(* had.                                                                    *)
(***************************************************************************)
ActiveIsRegistered ==
  \A i \in DOMAIN instances \ (early \cup shadowed) :
    instances[i].state = "active" =>
      plugins[instances[i].id] = i /\ ~instances[i].shut
=============================================================================
