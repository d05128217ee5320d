------------------------------ MODULE Settings ------------------------------
(***************************************************************************)
(* The configuration (config/src/loader/config-manager.ts) and the         *)
(* keystore (config/src/secrets/keystore.ts).  Every process has a manager *)
(* that merged the layers once and an own copy of the secrets, and writes  *)
(* the whole of either back: to fuckclaw.toml and to env.json.enc.  A save *)
(* truncates its file first, so a crash within it leaves a file that       *)
(* cannot be read.                                                         *)
(***************************************************************************)
EXTENDS Naturals

CONSTANTS Manager,    \* the processes and their managers
          Key, Value, \* of the configuration
          SystemLevel, LoggingLevel, \* the keys system.logLevel, logging.level
          Unset,      \* a layer says nothing about a key
          Upper,      \* what profile, project, environment and overrides say
          Secret,     \* the names of secrets
          Garbled,    \* the keystore file when it cannot be read
          MaxWrites   \* bounds the updates, and the changes to secrets

VARIABLES file,       \* the global file, by key
          config,     \* what each manager has in memory, by key
          vault,      \* the keystore file: the secrets in it, or Garbled
          loaded,     \* whether a keystore's first load was tried
          failed,     \* ghost: whether it failed
          cache,      \* the secrets in its memory
          writes,
          meant,      \* ghost: the value of the latest update of each key
          kept,       \* ghost: the keys whose latest update is to stay
          current,    \* ghost: the managers that know what the file says
          due,        \* ghost: the secrets that were set and not deleted
          seen        \* ghost: the managers whose copy of the secrets is current

settings == <<file, config, meant, kept, current>>
secrets == <<vault, loaded, failed, cache, due, seen>>
vars == <<settings, secrets, writes>>

Default == CHOOSE v \in Value : TRUE

\* deepMerge: a layer wins where it says something.  The layers above the
\* global file are Upper; below it are the defaults of the schema, which give
\* system.logLevel a value in any case, so that logging.level follows it.
DeepMerge(target, source) ==
  [k \in Key |-> IF source[k] # Unset THEN source[k] ELSE target[k]]
Merged(global) == DeepMerge(DeepMerge([k \in Key |-> Default], global), Upper)
ResolveLayeredConfig(global) ==
  [Merged(global) EXCEPT ![LoggingLevel] = Merged(global)[SystemLevel]]

Nothing == [k \in Key |-> Unset]

Init ==
  /\ file = Nothing
  /\ config = [m \in Manager |-> ResolveLayeredConfig(Nothing)]
  /\ meant = Nothing /\ kept = {} /\ current = Manager
  /\ vault = {}
  /\ loaded = [m \in Manager |-> FALSE] /\ failed = [m \in Manager |-> FALSE]
  /\ cache = [m \in Manager |-> {}]
  /\ due = {} /\ seen = Manager
  /\ writes = 0
-----------------------------------------------------------------------------
\* update of a key that is no API key: the whole of the merged configuration
\* goes to the global file, what came from the layers above included.
Update(m, k, v) ==
  /\ writes < MaxWrites
  /\ writes' = writes + 1
  /\ config' = [config EXCEPT ![m][k] = v]
  /\ file' = config'[m]
  /\ meant' = [meant EXCEPT ![k] = v]
  /\ kept' = {j \in (IF m \in current THEN kept \cup {k} ELSE {k}) : Upper[j] = Unset}
  /\ current' = {m}
  /\ UNCHANGED secrets

\* The directory or the file cannot be written: the memory has changed anyway.
UpdateFails(m, k, v) ==
  /\ writes < MaxWrites
  /\ writes' = writes + 1
  /\ config' = [config EXCEPT ![m][k] = v]
  /\ current' = current \ {m}
  /\ UNCHANGED <<file, meant, kept, secrets>>

\* Who loads another logging.level than the file says writes it there with its
\* next update.
StillKept == {k \in kept : k = LoggingLevel => file[k] = Merged(file)[SystemLevel]}

\* reload, also through setProfile, and a new process.
Reload(m) ==
  /\ config' = [config EXCEPT ![m] = ResolveLayeredConfig(file)]
  /\ current' = current \cup {m}
  /\ kept' = StillKept
  /\ UNCHANGED <<file, meant, secrets, writes>>
-----------------------------------------------------------------------------
(***************************************************************************)
(* loadSecrets: what the cache is after it.  `loaded` is set before the    *)
(* file is read, so the call that failed threw and the next one goes on    *)
(* with an empty cache.                                                    *)
(***************************************************************************)
LoadFails(m) == ~loaded[m] /\ vault = Garbled

\* Mutant of Cache: setSecret does not load first.
CacheAlone(m) == cache[m]

Cache(m) == IF loaded[m] THEN cache[m] ELSE vault

\* getSecret and listKeys, and the first half of the others.
LoadSecrets(m) ==
  /\ ~loaded[m]
  /\ loaded' = [loaded EXCEPT ![m] = TRUE]
  /\ failed' = [failed EXCEPT ![m] = LoadFails(m)]
  /\ cache' = [cache EXCEPT ![m] = IF LoadFails(m) THEN {} ELSE vault]
  /\ seen' = seen \cup {m}
  /\ UNCHANGED <<settings, vault, due, writes>>

\* saveSecrets writes the whole of the cache.
SaveSecrets(m, content) ==
  /\ ~LoadFails(m)
  /\ writes < MaxWrites
  /\ writes' = writes + 1
  /\ cache' = [cache EXCEPT ![m] = content]
  /\ loaded' = [loaded EXCEPT ![m] = TRUE]
  /\ vault' = content
  /\ seen' = {n \in Manager : n = m \/ ~loaded[n]}
  /\ UNCHANGED <<settings, failed>>

\* A copy that missed a write of another keystore, or that could not be read,
\* takes with it what it does not know.
Blind(m) == loaded[m] /\ (m \notin seen \/ failed[m])
Owed(m, s) == IF Blind(m) THEN s \cap vault' ELSE s

SetSecret(m, k) ==
  /\ SaveSecrets(m, Cache(m) \cup {k})
  /\ due' = Owed(m, due \cup {k})

DeleteSecret(m, k) ==
  /\ ~LoadFails(m)
  /\ k \in Cache(m)
  /\ SaveSecrets(m, Cache(m) \ {k})
  /\ due' = Owed(m, due \ {k})

\* The process dies within writeFileSync and starts again.
CrashInSave(m) ==
  /\ writes < MaxWrites
  /\ writes' = writes + 1
  /\ vault' = Garbled
  /\ due' = {}
  /\ loaded' = [loaded EXCEPT ![m] = FALSE]
  /\ failed' = [failed EXCEPT ![m] = FALSE]
  /\ cache' = [cache EXCEPT ![m] = {}]
  /\ seen' = {n \in Manager : ~loaded'[n]}
  /\ config' = [config EXCEPT ![m] = ResolveLayeredConfig(file)]
  /\ current' = current \cup {m}
  /\ kept' = StillKept
  /\ UNCHANGED <<file, meant>>
-----------------------------------------------------------------------------
Next ==
  \E m \in Manager :
    \/ \E k \in Key, v \in Value : Update(m, k, v) \/ UpdateFails(m, k, v)
    \/ Reload(m)
    \/ LoadSecrets(m)
    \/ \E k \in Secret : SetSecret(m, k) \/ DeleteSecret(m, k)
    \/ CrashInSave(m)

Spec == Init /\ [][Next]_vars
-----------------------------------------------------------------------------
\* The type invariant: the domain of every variable of the settings.
TypeOK ==
  /\ file \in [Key -> Value \cup {Unset}]
  /\ config \in [Manager -> [Key -> Value]]
  /\ vault = Garbled \/ vault \subseteq Secret
  /\ loaded \in [Manager -> BOOLEAN] /\ failed \in [Manager -> BOOLEAN]
  /\ cache \in [Manager -> SUBSET Secret]
  /\ kept \subseteq Key /\ current \subseteq Manager
  /\ seen \subseteq Manager /\ due \subseteq Secret /\ writes \in 0 .. MaxWrites

(***************************************************************************)
(* What was written stays, through the writes of every process that has    *)
(* read the file since the last write of another.  A secret that was set   *)
(* and not deleted is lost only by a keystore whose copy is old or whose   *)
(* first load threw (keystore.ts:44-86), or by a crash within a save.  The *)
(* update of a key (config-manager.ts:159-206) is lost only                *)
(*   - to a manager that is behind or remembers an update that failed;     *)
(*   - to a layer above the file, which the next update of any key writes  *)
(*     into it;                                                            *)
(*   - that of logging.level also to system.logLevel, once a manager has   *)
(*     loaded a file in which they differ (config-manager.ts:130-137).     *)
(***************************************************************************)
SecretsSurvive == vault # Garbled => due \subseteq vault
UpdatesAreKept == \A k \in kept : file[k] = meant[k]
WritesSurvive == SecretsSurvive /\ UpdatesAreKept
=============================================================================
