---------------------------- MODULE StoreProofs ----------------------------
(***************************************************************************)
(* Proofs about what outlives a task: the turns of the conversation, the   *)
(* snapshots of the workspace, the settings and secrets, what was learned  *)
(* from failures, the facts, and the knowledge graph.  The components      *)
(* share no state.                                                         *)
(***************************************************************************)
EXTENDS Stores, SequenceFacts

USE ArrayAssumption

-----------------------------------------------------------------------------
(***************************************************************************)
(* The turns.  What a flush has gone through has an episode, and while a   *)
(* flush works on an array that was replaced, everything in the turn       *)
(* buffer is accounted for without it: the end of that flush clears it.    *)
(***************************************************************************)
FlushedInv ==
  \A f \in Flush : Runs(f) =>
    \A i \in 1 .. flushes[f].at : arrays[flushes[f].array][i] \in episodes

StaleInv ==
  (\E f \in Flush : Stale(f)) =>
    Elements(TurnBuffer) \subseteq episodes \cup discarded \cup exposed

TurnInv == TypeOK /\ FlushedInv /\ StaleInv /\ TurnsNeverLost

\* Arrays are only extended, and new ones come after them.
Grows ==
  /\ arrays' \in Seq(Seq(Turn)) /\ Len(arrays') >= Len(arrays)
  /\ \A a \in 1 .. Len(arrays) :
       /\ Len(arrays'[a]) >= Len(arrays[a])
       /\ \A i \in 1 .. Len(arrays[a]) : arrays'[a][i] = arrays[a][i]

LEMMA AppendGrows ==
  ASSUME TypeOK, NEW s \in Seq(Turn), arrays' = Append(arrays, s)
  PROVE  /\ Grows
         /\ Len(arrays') = Len(arrays) + 1 /\ TurnBuffer' = s
<1>1. arrays \in Seq(Seq(Turn))
  BY DEF TypeOK
<1>2. /\ arrays' \in Seq(Seq(Turn))
      /\ Len(arrays') = Len(arrays) + 1
      /\ arrays'[Len(arrays) + 1] = s
      /\ \A j \in 1 .. Len(arrays) : arrays'[j] = arrays[j]
  <2> DEFINE r == Append(arrays, s)
  <2>1. /\ r \in Seq(Seq(Turn)) /\ Len(r) = Len(arrays) + 1
        /\ r[Len(arrays) + 1] = s
        /\ \A j \in 1 .. Len(arrays) : r[j] = arrays[j]
    BY <1>1, AppendIndexes
  <2> QED
    BY <2>1
<1>3. \A j \in 1 .. Len(arrays) : arrays[j] \in Seq(Turn)
  BY <1>1
<1>4. \A j \in 1 .. Len(arrays) : Len(arrays[j]) \in Nat
  BY <1>3
<1> QED
  BY <1>1, <1>2, <1>4 DEF Grows, TurnBuffer

\* A step that extends the arrays keeps what the flushes have gone through.
LEMMA FlushesKeep ==
  ASSUME TypeOK, FlushedInv, Grows, episodes \subseteq episodes',
         NEW f \in Flush, Runs(f), flushes'[f] = flushes[f]
  PROVE  /\ flushes'[f].array \in 1 .. Len(arrays')
         /\ flushes'[f].at \in 1 .. Len(arrays'[flushes'[f].array])
         /\ \A i \in 1 .. flushes'[f].at :
              arrays'[flushes'[f].array][i] \in episodes'
<1> DEFINE a == flushes[f].array
           n == flushes[f].at
<1>1. a \in 1 .. Len(arrays) /\ n \in 1 .. Len(arrays[a])
  BY DEF TypeOK
<1>2. arrays \in Seq(Seq(Turn)) /\ arrays[a] \in Seq(Turn)
  BY <1>1 DEF TypeOK
<1>3. \A i \in 1 .. n : arrays[a][i] \in episodes
  BY DEF FlushedInv
<1>4. /\ arrays' \in Seq(Seq(Turn)) /\ Len(arrays') >= Len(arrays)
      /\ Len(arrays'[a]) >= Len(arrays[a])
      /\ \A i \in 1 .. Len(arrays[a]) : arrays'[a][i] = arrays[a][i]
  BY <1>1 DEF Grows
<1> HIDE DEF a, n
<1>5. a \in 1 .. Len(arrays') /\ arrays'[a] \in Seq(Turn)
  BY <1>1, <1>2, <1>4
<1>6. n \in 1 .. Len(arrays'[a])
  BY <1>1, <1>2, <1>4, <1>5
<1>7. ASSUME NEW i \in 1 .. n
      PROVE  arrays'[a][i] \in episodes'
  <2>1. i \in 1 .. Len(arrays[a])
    BY <1>1, <1>2
  <2> QED
    BY <1>3, <1>4, <2>1
<1> QED
  BY <1>5, <1>6, <1>7 DEF a, n

LEMMA TurnInit == Init => TurnInv
<1> SUFFICES ASSUME Init
             PROVE  TurnInv
  OBVIOUS
<1>1. arrays \in Seq(Seq(Turn)) /\ Len(arrays) = 1
  BY DEF Init
<1>2. \A f \in Flush : ~ Runs(f)
  BY DEF Init, Runs
<1>3. TypeOK
  BY <1>1, <1>2 DEF Init, TypeOK, Idle
<1> QED
  BY <1>2, <1>3 DEF Init, TurnInv, FlushedInv, StaleInv, Stale, TurnsNeverLost

LEMMA TurnStep == TurnInv /\ [Next]_vars => TurnInv'
<1> SUFFICES ASSUME TurnInv, [Next]_vars
             PROVE  TurnInv'
  OBVIOUS
<1>0. /\ TypeOK /\ FlushedInv /\ StaleInv /\ TurnsNeverLost
      /\ arrays \in Seq(Seq(Turn)) /\ Len(arrays) \in Nat \ {0}
      /\ Len(arrays) \in 1 .. Len(arrays) /\ TurnBuffer \in Seq(Turn)
      /\ flushes \in [Flush -> [array : Nat \cup {NoArray}, at : Nat]]
  <2>1. TypeOK /\ FlushedInv /\ StaleInv /\ TurnsNeverLost
    BY DEF TurnInv
  <2>2. arrays \in Seq(Seq(Turn)) /\ Len(arrays) \in Nat \ {0}
    BY <2>1 DEF TypeOK
  <2>3. Len(arrays) \in 1 .. Len(arrays)
    BY <2>2
  <2> QED
    BY <2>1, <2>2, <2>3 DEF TypeOK, TurnBuffer
<1>1. ASSUME NEW t \in Turn, AppendTurn(t)
      PROVE  TurnInv'
  <2> DEFINE n == Len(arrays)
             b == Append(TurnBuffer, t)
             r == [arrays EXCEPT ![n] = b]
  <2>1. /\ b \in Seq(Turn) /\ Len(b) = Len(TurnBuffer) + 1
        /\ \A i \in 1 .. Len(TurnBuffer) : b[i] = TurnBuffer[i]
        /\ ToSet(b) = ToSet(TurnBuffer) \cup {t}
    BY <1>0, AppendIndexes, AppendElements
  <2>2. arrays' = r
    BY <1>1 DEF AppendTurn, TurnBuffer
  <2> HIDE DEF b
  <2>3. /\ r \in Seq(Seq(Turn)) /\ Len(r) = n
        /\ \A a \in 1 .. n : r[a] = IF a = n THEN b ELSE arrays[a]
    BY <1>0, <2>1, ExceptSeq
  <2> HIDE DEF r
  <2>4. TurnBuffer' = b
    BY <1>0, <2>2, <2>3 DEF TurnBuffer
  <2>5. Grows
    <3>1. ASSUME NEW a \in 1 .. n
          PROVE  /\ Len(r[a]) >= Len(arrays[a])
                 /\ \A i \in 1 .. Len(arrays[a]) : r[a][i] = arrays[a][i]
      <4>1. arrays[a] \in Seq(Turn) /\ Len(arrays[a]) \in Nat
        BY <1>0
      <4>2. CASE a = n
        BY <1>0, <2>1, <2>3, <4>1, <4>2 DEF TurnBuffer
      <4>3. CASE a # n
        BY <2>3, <4>1, <4>3
      <4> QED
        BY <4>2, <4>3
    <3> QED
      BY <1>0, <2>2, <2>3, <3>1 DEF Grows
  <2>6. /\ Elements(TurnBuffer)' = Elements(TurnBuffer) \cup {t}
        /\ Len(arrays') = n
    BY <2>1, <2>2, <2>3, <2>4 DEF Elements, ToSet
  <2>7. /\ flushes' = flushes /\ episodes' = episodes /\ discarded' = discarded
        /\ said' = said \cup {t} /\ saved' = saved
        /\ exposed' = IF \E f \in Flush : Stale(f) THEN exposed \cup {t} ELSE exposed
    BY <1>1 DEF AppendTurn
  <2>8. \A f \in Flush : (Runs(f)' <=> Runs(f)) /\ (Stale(f)' <=> Stale(f))
    BY <2>6, <2>7 DEF Runs, Stale
  <2>9. TypeOK' /\ FlushedInv'
    <3>1. \A f \in Flush : Runs(f)' =>
            /\ flushes'[f].array \in 1 .. Len(arrays')
            /\ flushes'[f].at \in 1 .. Len(arrays'[flushes'[f].array])
            /\ \A i \in 1 .. flushes'[f].at :
                 arrays'[flushes'[f].array][i] \in episodes'
      BY <1>0, <2>5, <2>7, <2>8, FlushesKeep
    <3>2. exposed' \in SUBSET Turn
      BY <1>0, <2>7 DEF TypeOK
    <3> QED
      BY <1>0, <2>2, <2>3, <2>6, <2>7, <3>1, <3>2 DEF TypeOK, FlushedInv
  <2>10. StaleInv'
    BY <1>0, <2>6, <2>7, <2>8 DEF StaleInv
  <2>11. TurnsNeverLost'
    BY <1>0, <2>6, <2>7 DEF TurnsNeverLost
  <2> QED
    BY <2>9, <2>10, <2>11 DEF TurnInv
<1>2. CASE Snapshot
  <2>1. TypeOK'
    BY <1>0, <1>2 DEF Snapshot, TypeOK, Runs
  <2>2. FlushedInv' /\ StaleInv' /\ TurnsNeverLost'
    BY <1>0, <1>2
       DEF Snapshot, FlushedInv, StaleInv, TurnsNeverLost, Runs, Stale, TurnBuffer
  <2> QED
    BY <2>1, <2>2 DEF TurnInv
<1>3. CASE Restore
  <2>1. /\ arrays' = Append(arrays, saved) /\ saved \in Seq(Turn)
        /\ flushes' = flushes /\ episodes' = episodes
        /\ said' = said /\ saved' = saved
        /\ discarded' = discarded \cup (Elements(TurnBuffer) \ Elements(saved))
        /\ exposed' = IF \E f \in Flush : Runs(f)
                      THEN exposed \cup Elements(saved) ELSE exposed
    BY <1>0, <1>3 DEF Restore, TypeOK
  <2>2. /\ Grows /\ Len(arrays') = Len(arrays) + 1 /\ TurnBuffer' = saved
    BY <1>0, <2>1, AppendGrows
  <2>3. Elements(TurnBuffer)' = Elements(saved)
    BY <2>2 DEF Elements
  <2>4. \A f \in Flush : Runs(f)' <=> Runs(f)
    BY <2>1 DEF Runs
  <2>5. TypeOK' /\ FlushedInv'
    <3>1. \A f \in Flush : Runs(f)' =>
            /\ flushes'[f].array \in 1 .. Len(arrays')
            /\ flushes'[f].at \in 1 .. Len(arrays'[flushes'[f].array])
            /\ \A i \in 1 .. flushes'[f].at :
                 arrays'[flushes'[f].array][i] \in episodes'
      BY <1>0, <2>1, <2>2, <2>4, FlushesKeep
    <3>2. /\ Elements(saved) \subseteq Turn
          /\ Elements(TurnBuffer) \subseteq Turn
      BY <1>0, <2>1 DEF Elements
    <3>3. exposed' \in SUBSET Turn /\ discarded' \in SUBSET Turn
      BY <1>0, <2>1, <3>2 DEF TypeOK
    <3>4. arrays' \in Seq(Seq(Turn)) /\ Len(arrays') \in Nat \ {0}
      BY <1>0, <2>2 DEF Grows
    <3> QED
      BY <1>0, <2>1, <3>1, <3>3, <3>4 DEF TypeOK, FlushedInv
  <2>6. StaleInv'
    BY <2>1, <2>3, <2>4 DEF StaleInv, Stale
  <2>7. TurnsNeverLost'
    BY <1>0, <2>1, <2>3 DEF TurnsNeverLost
  <2> QED
    BY <2>5, <2>6, <2>7 DEF TurnInv
<1>4. ASSUME NEW f \in Flush, NEW a \in 1 .. Len(arrays), NEW n \in 1 .. Len(arrays[a]),
             Records(f, a, n), UNCHANGED <<arrays, saved, said, discarded, exposed>>,
             \A i \in 1 .. n - 1 : arrays[a][i] \in episodes,
             Stale(f) \/ a = Len(arrays)
      PROVE  TurnInv'
  <2>1. arrays[a] \in Seq(Turn) /\ a \in Nat /\ n \in Nat /\ Len(arrays[a]) \in Nat
    BY <1>0
  <2>2. /\ flushes' = [flushes EXCEPT ![f] = [array |-> a, at |-> n]]
        /\ episodes' = episodes \cup {arrays[a][n]} /\ arrays[a][n] \in Turn
    BY <1>4, <2>1 DEF Records
  <2>3. \A i \in 1 .. n : arrays[a][i] \in episodes'
    <3> SUFFICES ASSUME NEW i \in 1 .. n
                 PROVE  arrays[a][i] \in episodes'
      OBVIOUS
    <3>1. i = n \/ i \in 1 .. n - 1
      BY <2>1
    <3> QED
      BY <1>4, <2>2, <3>1
  <2>4. /\ flushes' \in [Flush -> [array : Nat \cup {NoArray}, at : Nat]]
        /\ flushes'[f] = [array |-> a, at |-> n]
        /\ \A g \in Flush \ {f} : flushes'[g] = flushes[g]
    BY <1>0, <2>1, <2>2
  <2>5. \A g \in Flush : Runs(g)' =>
          /\ flushes'[g].array \in 1 .. Len(arrays')
          /\ flushes'[g].at \in 1 .. Len(arrays'[flushes'[g].array])
          /\ \A i \in 1 .. flushes'[g].at :
               arrays'[flushes'[g].array][i] \in episodes'
    <3>1. ASSUME NEW g \in Flush \ {f}, Runs(g)'
          PROVE  /\ flushes'[g].array \in 1 .. Len(arrays')
                 /\ flushes'[g].at \in 1 .. Len(arrays'[flushes'[g].array])
                 /\ \A i \in 1 .. flushes'[g].at :
                      arrays'[flushes'[g].array][i] \in episodes'
      <4>1. Runs(g) /\ flushes'[g] = flushes[g]
        BY <2>4, <3>1 DEF Runs
      <4> QED
        BY <1>0, <1>4, <2>2, <4>1 DEF TypeOK, FlushedInv
    <3>2. /\ flushes'[f].array \in 1 .. Len(arrays')
          /\ flushes'[f].at \in 1 .. Len(arrays'[flushes'[f].array])
          /\ \A i \in 1 .. flushes'[f].at :
               arrays'[flushes'[f].array][i] \in episodes'
      BY <1>4, <2>3, <2>4
    <3> QED
      BY <3>1, <3>2
  <2>6. TypeOK' /\ FlushedInv'
    BY <1>0, <1>4, <2>2, <2>4, <2>5 DEF TypeOK, FlushedInv
  <2>7. ASSUME NEW g \in Flush, Stale(g)'
        PROVE  \E h \in Flush : Stale(h)
    <3>1. CASE g = f
      <4>1. a # Len(arrays)
        BY <1>4, <2>4, <2>7, <3>1 DEF Stale
      <4> QED
        BY <1>4, <4>1
    <3>2. CASE g # f
      <4>1. Stale(g)
        BY <1>4, <2>4, <2>7, <3>2 DEF Stale, Runs
      <4> QED
        BY <4>1
    <3> QED
      BY <3>1, <3>2
  <2>8. StaleInv' /\ TurnsNeverLost'
    BY <1>0, <1>4, <2>2, <2>7 DEF StaleInv, TurnsNeverLost, TurnBuffer
  <2> QED
    BY <2>6, <2>8 DEF TurnInv
<1>5. ASSUME NEW f \in Flush, BeginFlush(f)
      PROVE  TurnInv'
  <2>1. 1 \in 1 .. Len(arrays[Len(arrays)])
    BY <1>0, <1>5 DEF BeginFlush, TurnBuffer
  <2>2. /\ Records(f, Len(arrays), 1)
        /\ UNCHANGED <<arrays, saved, said, discarded, exposed>>
    BY <1>5 DEF BeginFlush
  <2>3. \A i \in 1 .. 1 - 1 : arrays[Len(arrays)][i] \in episodes
    OBVIOUS
  <2> QED
    BY <1>0, <1>4, <2>1, <2>2, <2>3
<1>6. ASSUME NEW f \in Flush, FlushNext(f)
      PROVE  TurnInv'
  <2> DEFINE a == flushes[f].array
             n == flushes[f].at + 1
  <2>1. a \in 1 .. Len(arrays) /\ flushes[f].at \in 1 .. Len(arrays[a])
    BY <1>0, <1>6 DEF FlushNext, TypeOK
  <2>2. arrays[a] \in Seq(Turn) /\ Len(arrays[a]) \in Nat
    BY <1>0, <2>1
  <2>3. n \in 1 .. Len(arrays[a]) /\ n - 1 = flushes[f].at
    BY <1>6, <2>1, <2>2 DEF FlushNext
  <2>4. \A i \in 1 .. n - 1 : arrays[a][i] \in episodes
    BY <1>0, <1>6, <2>3 DEF FlushNext, FlushedInv
  <2>5. Stale(f) \/ a = Len(arrays)
    BY <1>6 DEF FlushNext, Stale
  <2>6. Records(f, a, n) /\ UNCHANGED <<arrays, saved, said, discarded, exposed>>
    BY <1>6 DEF FlushNext
  <2> HIDE DEF a, n
  <2> QED
    BY <1>4, <2>1, <2>3, <2>4, <2>5, <2>6
<1>7. ASSUME NEW f \in Flush, FlushFails(f)
      PROVE  TurnInv'
  <2>1. /\ flushes' = [flushes EXCEPT ![f] = Idle]
        /\ UNCHANGED <<arrays, saved, said, episodes, discarded, exposed>>
    BY <1>7 DEF FlushFails
  <2>2. /\ flushes' \in [Flush -> [array : Nat \cup {NoArray}, at : Nat]]
        /\ \A g \in Flush : Runs(g)' => Runs(g) /\ flushes'[g] = flushes[g]
    BY <1>0, <2>1 DEF Runs, Idle
  <2>3. TypeOK' /\ FlushedInv'
    BY <1>0, <2>1, <2>2 DEF TypeOK, FlushedInv
  <2>4. StaleInv' /\ TurnsNeverLost'
    BY <1>0, <2>1, <2>2 DEF StaleInv, Stale, TurnsNeverLost, TurnBuffer
  <2> QED
    BY <2>3, <2>4 DEF TurnInv
<1>8. ASSUME NEW f \in Flush, EndFlush(f)
      PROVE  TurnInv'
  <2>1. /\ arrays' = Append(arrays, <<>>) /\ <<>> \in Seq(Turn)
        /\ flushes' = [flushes EXCEPT ![f] = Idle]
        /\ UNCHANGED <<saved, said, episodes, discarded, exposed>>
        /\ Runs(f) /\ flushes[f].at = Len(arrays[flushes[f].array])
    BY <1>8 DEF EndFlush
  <2>2. /\ Grows /\ Len(arrays') = Len(arrays) + 1 /\ TurnBuffer' = <<>>
    BY <1>0, <2>1, AppendGrows
  <2>3. Elements(TurnBuffer)' = {}
    BY <2>2 DEF Elements
  <2>4. /\ flushes' \in [Flush -> [array : Nat \cup {NoArray}, at : Nat]]
        /\ \A g \in Flush : Runs(g)' => Runs(g) /\ flushes'[g] = flushes[g]
    BY <1>0, <2>1 DEF Runs, Idle
  <2>5. TypeOK' /\ FlushedInv'
    <3>1. \A g \in Flush : Runs(g)' =>
            /\ flushes'[g].array \in 1 .. Len(arrays')
            /\ flushes'[g].at \in 1 .. Len(arrays'[flushes'[g].array])
            /\ \A i \in 1 .. flushes'[g].at :
                 arrays'[flushes'[g].array][i] \in episodes'
      BY <1>0, <2>1, <2>2, <2>4, FlushesKeep
    <3>2. arrays' \in Seq(Seq(Turn)) /\ Len(arrays') \in Nat \ {0}
      BY <1>0, <2>2 DEF Grows
    <3> QED
      BY <1>0, <2>1, <2>4, <3>1, <3>2 DEF TypeOK, FlushedInv
  <2>6. Elements(TurnBuffer) \subseteq episodes \cup discarded \cup exposed
    <3>1. CASE Stale(f)
      BY <1>0, <3>1 DEF StaleInv
    <3>2. CASE ~ Stale(f)
      <4>1. flushes[f].array = Len(arrays) /\ flushes[f].at = Len(TurnBuffer)
        BY <2>1, <3>2 DEF Stale, TurnBuffer
      <4>2. \A i \in 1 .. Len(TurnBuffer) : TurnBuffer[i] \in episodes
        BY <1>0, <2>1, <4>1 DEF FlushedInv, TurnBuffer
      <4> QED
        BY <1>0, <4>2 DEF Elements
    <3> QED
      BY <3>1, <3>2
  <2>7. StaleInv' /\ TurnsNeverLost'
    BY <1>0, <2>1, <2>3, <2>6 DEF StaleInv, TurnsNeverLost
  <2> QED
    BY <2>5, <2>7 DEF TurnInv
<1>9. CASE UNCHANGED vars
  BY <1>0, <1>9
     DEF vars, TurnInv, TypeOK, FlushedInv, StaleInv, TurnsNeverLost, Runs, Stale,
         TurnBuffer
<1> QED
  BY <1>1, <1>2, <1>3, <1>5, <1>6, <1>7, <1>8, <1>9 DEF Next

(***************************************************************************)
(* No turn is lost, for any turns and any number of flushes under way:     *)
(* what was said is in the turn buffer or has an episode, unless a restore *)
(* discarded it or it came while a flush worked on an array that was       *)
(* replaced.                                                               *)
(***************************************************************************)
THEOREM TurnsStay == Spec => []TurnsNeverLost
<1>1. TurnInv => TurnsNeverLost
  BY DEF TurnInv
<1> QED
  BY <1>1, TurnInit, TurnStep, PTL DEF Spec

-----------------------------------------------------------------------------
(***************************************************************************)
(* Settings and secrets.  A manager that is up to date has what the file   *)
(* says about every key whose update is to stay, and a keystore that saw   *)
(* the latest write and whose first load succeeded has every secret that   *)
(* was set and not deleted.                                                *)
(***************************************************************************)
LEMMA Bounds == MaxWrites \in Nat /\ MaxArchives \in Nat
  BY BoundsAssumption

USE ConfigAssumption, Bounds

CurrentInv ==
  /\ \A k \in kept : Upper[k] = Unset /\ file[k] # Unset
  /\ \A m \in current : \A k \in kept : config[m][k] = file[k]

KeystoreInv ==
  \A m \in Manager : loaded[m] /\ m \in seen /\ ~ failed[m] => due \subseteq cache[m]

SettingsInv ==
  Config!TypeOK /\ CurrentInv /\ KeystoreInv /\ Config!WritesSurvive
    /\ meant \in [Key -> Value \cup {Unset}]

\* What the layers resolve to: a value for every key, the file's where no
\* layer above says anything, and system.logLevel's for logging.level.
LEMMA LayersResolve ==
  ASSUME NEW g \in [Key -> Value \cup {Unset}]
  PROVE  /\ Config!ResolveLayeredConfig(g) \in [Key -> Value]
         /\ \A k \in Key : Upper[k] = Unset /\ g[k] # Unset =>
              Config!Merged(g)[k] = g[k]
         /\ \A k \in Key : Config!ResolveLayeredConfig(g)[k] =
              Config!Merged(g)[IF k = LoggingLevel THEN SystemLevel ELSE k]
<1>1. Config!Default \in Value
  BY DEF Config!Default
<1>2. /\ Config!Merged(g) \in [Key -> Value]
      /\ \A k \in Key : Upper[k] = Unset /\ g[k] # Unset => Config!Merged(g)[k] = g[k]
  BY <1>1 DEF Config!Merged, Config!DeepMerge
<1> QED
  BY <1>2 DEF Config!ResolveLayeredConfig

\* What is still kept after a load is what was loaded.
LEMMA KeptIsLoaded ==
  ASSUME CurrentInv, file \in [Key -> Value \cup {Unset}], kept \subseteq Key
  PROVE  /\ Config!StillKept \subseteq kept
         /\ \A k \in Config!StillKept : Config!ResolveLayeredConfig(file)[k] = file[k]
<1>1. ASSUME NEW k \in Config!StillKept
      PROVE  k \in kept /\ Config!ResolveLayeredConfig(file)[k] = file[k]
  <2>1. /\ k \in kept /\ k \in Key /\ Upper[k] = Unset /\ file[k] # Unset
        /\ k = LoggingLevel => file[k] = Config!Merged(file)[SystemLevel]
    BY DEF Config!StillKept, CurrentInv
  <2> QED
    BY <2>1, LayersResolve
<1> QED
  BY <1>1

LEMMA SettingsInit == ASSUME Config!Init PROVE SettingsInv
<1>1. Config!Nothing \in [Key -> Value \cup {Unset}]
  BY DEF Config!Nothing
<1>2. Config!TypeOK
  BY <1>1, LayersResolve DEF Config!Init, Config!TypeOK
<1> QED
  BY <1>1, <1>2
     DEF Config!Init, SettingsInv, CurrentInv, KeystoreInv, Config!WritesSurvive,
         Config!SecretsSurvive, Config!UpdatesAreKept

\* The updates of the configuration.
LEMMA ConfigStep ==
  ASSUME SettingsInv, NEW m \in Manager,
         \/ \E k \in Key, v \in Value : Config!Update(m, k, v)
         \/ \E k \in Key, v \in Value : Config!UpdateFails(m, k, v)
         \/ Config!Reload(m)
  PROVE  SettingsInv'
<1>0. /\ Config!TypeOK /\ CurrentInv /\ KeystoreInv
      /\ Config!SecretsSurvive /\ Config!UpdatesAreKept
      /\ file \in [Key -> Value \cup {Unset}]
      /\ config \in [Manager -> [Key -> Value]]
      /\ meant \in [Key -> Value \cup {Unset}]
      /\ kept \subseteq Key /\ current \subseteq Manager
  BY DEF SettingsInv, Config!TypeOK, Config!WritesSurvive
<1>1. UNCHANGED Config!secrets
  BY DEF Config!Update, Config!UpdateFails, Config!Reload, Config!secrets
<1>2. /\ KeystoreInv' /\ Config!SecretsSurvive'
  BY <1>0, <1>1 DEF KeystoreInv, Config!SecretsSurvive, Config!secrets
<1>3. writes' \in 0 .. MaxWrites
  BY DEF SettingsInv, Config!TypeOK,
         Config!Update, Config!UpdateFails, Config!Reload
<1>4. ASSUME NEW k \in Key, NEW v \in Value, Config!Update(m, k, v)
      PROVE  SettingsInv'
  <2>1. /\ config' = [config EXCEPT ![m][k] = v]
        /\ file' = config'[m]
        /\ meant' = [meant EXCEPT ![k] = v]
        /\ kept' = {j \in (IF m \in current THEN kept \cup {k} ELSE {k}) :
                      Upper[j] = Unset}
        /\ current' = {m}
    BY <1>4 DEF Config!Update
  <2>2. /\ config' \in [Manager -> [Key -> Value]]
        /\ config'[m] = [config[m] EXCEPT ![k] = v]
    BY <1>0, <2>1
  <2>3. /\ file' \in [Key -> Value] /\ file'[k] = v
        /\ \A j \in Key \ {k} : file'[j] = config[m][j]
    BY <1>0, <2>1, <2>2
  <2>4. /\ meant' \in [Key -> Value \cup {Unset}] /\ meant'[k] = v
        /\ \A j \in Key \ {k} : meant'[j] = meant[j]
    BY <1>0, <2>1
  <2>5. kept' \subseteq Key /\ \A j \in kept' : j = k \/ (j \in kept /\ m \in current)
    BY <1>0, <2>1
  <2>6. Config!TypeOK'
    BY <1>0, <1>1, <1>3, <2>1, <2>2, <2>3, <2>5
       DEF Config!TypeOK, Config!secrets
  <2>7. CurrentInv'
    BY <2>1, <2>3, <2>5 DEF CurrentInv
  <2>8. Config!UpdatesAreKept'
    <3> SUFFICES ASSUME NEW j \in kept'
                 PROVE  file'[j] = meant'[j]
      BY DEF Config!UpdatesAreKept
    <3>1. CASE j = k
      BY <2>3, <2>4, <3>1
    <3>2. CASE j # k
      <4>1. j \in kept /\ j \in Key \ {k} /\ m \in current
        BY <2>5, <3>2
      <4>2. config[m][j] = file[j] /\ file[j] = meant[j]
        BY <1>0, <4>1 DEF CurrentInv, Config!UpdatesAreKept
      <4> QED
        BY <2>3, <2>4, <4>1, <4>2
    <3> QED
      BY <3>1, <3>2
  <2> QED
    BY <1>2, <2>4, <2>6, <2>7, <2>8 DEF SettingsInv, Config!WritesSurvive
<1>5. ASSUME NEW k \in Key, NEW v \in Value, Config!UpdateFails(m, k, v)
      PROVE  SettingsInv'
  <2>1. /\ config' = [config EXCEPT ![m][k] = v]
        /\ current' = current \ {m}
        /\ UNCHANGED <<file, meant, kept>>
    BY <1>5 DEF Config!UpdateFails
  <2>2. /\ config' \in [Manager -> [Key -> Value]]
        /\ \A n \in Manager \ {m} : config'[n] = config[n]
    BY <1>0, <2>1
  <2>3. Config!TypeOK'
    BY <1>0, <1>1, <1>3, <2>1, <2>2 DEF Config!TypeOK, Config!secrets
  <2>4. CurrentInv' /\ Config!UpdatesAreKept'
    BY <1>0, <2>1, <2>2 DEF CurrentInv, Config!UpdatesAreKept
  <2> QED
    BY <1>0, <1>2, <2>1, <2>3, <2>4 DEF SettingsInv, Config!WritesSurvive
<1>6. CASE Config!Reload(m)
  <2>1. /\ config' = [config EXCEPT ![m] = Config!ResolveLayeredConfig(file)]
        /\ current' = current \cup {m} /\ kept' = Config!StillKept
        /\ UNCHANGED <<file, meant>>
    BY <1>6 DEF Config!Reload
  <2>2. /\ Config!ResolveLayeredConfig(file) \in [Key -> Value]
        /\ kept' \subseteq kept
        /\ \A k \in kept' : Config!ResolveLayeredConfig(file)[k] = file[k]
    BY <1>0, <2>1, LayersResolve, KeptIsLoaded
  <2>3. /\ config' \in [Manager -> [Key -> Value]]
        /\ config'[m] = Config!ResolveLayeredConfig(file)
        /\ \A n \in Manager \ {m} : config'[n] = config[n]
    BY <1>0, <2>1, <2>2
  <2>4. Config!TypeOK'
    BY <1>0, <1>1, <1>3, <2>1, <2>2, <2>3 DEF Config!TypeOK, Config!secrets
  <2>5. CurrentInv' /\ Config!UpdatesAreKept'
    BY <1>0, <2>1, <2>2, <2>3 DEF CurrentInv, Config!UpdatesAreKept
  <2> QED
    BY <1>0, <1>2, <2>1, <2>4, <2>5 DEF SettingsInv, Config!WritesSurvive
<1> QED
  BY <1>4, <1>5, <1>6

\* The operations on secrets.  A save by a keystore that is not blind writes
\* everything that is due.
LEMMA SecretStep ==
  ASSUME SettingsInv, NEW m \in Manager,
         \/ Config!LoadSecrets(m)
         \/ \E k \in Secret : Config!SetSecret(m, k)
         \/ \E k \in Secret : Config!DeleteSecret(m, k)
  PROVE  SettingsInv'
<1>0. /\ Config!TypeOK /\ CurrentInv /\ KeystoreInv
      /\ Config!SecretsSurvive /\ Config!UpdatesAreKept
      /\ vault = Garbled \/ vault \subseteq Secret
      /\ loaded \in [Manager -> BOOLEAN] /\ failed \in [Manager -> BOOLEAN]
      /\ cache \in [Manager -> SUBSET Secret]
      /\ due \subseteq Secret /\ seen \subseteq Manager /\ writes \in 0 .. MaxWrites
  BY DEF SettingsInv, Config!TypeOK, Config!WritesSurvive
<1>1. UNCHANGED <<file, config, meant, kept, current>>
  BY DEF Config!LoadSecrets, Config!SetSecret, Config!DeleteSecret,
         Config!SaveSecrets, Config!settings
<1>2. CurrentInv' /\ Config!UpdatesAreKept'
  BY <1>0, <1>1 DEF CurrentInv, Config!UpdatesAreKept
<1>3. CASE Config!LoadSecrets(m)
  <2>1. /\ loaded' = [loaded EXCEPT ![m] = TRUE]
        /\ failed' = [failed EXCEPT ![m] = Config!LoadFails(m)]
        /\ cache' = [cache EXCEPT ![m] = IF Config!LoadFails(m) THEN {} ELSE vault]
        /\ seen' = seen \cup {m} /\ ~ loaded[m]
        /\ UNCHANGED <<vault, due, writes>>
    BY <1>3 DEF Config!LoadSecrets
  <2>2. /\ Config!LoadFails(m) \in BOOLEAN
        /\ ~ Config!LoadFails(m) => vault \subseteq Secret /\ due \subseteq vault
    BY <1>0, <2>1 DEF Config!LoadFails, Config!SecretsSurvive
  <2>3. Config!TypeOK'
    BY <1>0, <1>1, <2>1, <2>2 DEF Config!TypeOK
  <2>4. KeystoreInv'
    BY <1>0, <2>1, <2>2 DEF KeystoreInv
  <2>5. Config!SecretsSurvive'
    BY <1>0, <2>1 DEF Config!SecretsSurvive
  <2> QED
    BY <1>1, <1>2, <2>3, <2>4, <2>5 DEF SettingsInv, Config!WritesSurvive
<1>4. ASSUME NEW content \in SUBSET Secret, Config!SaveSecrets(m, content),
             NEW wanted \in SUBSET Secret, due' = Config!Owed(m, wanted),
             ~ Config!Blind(m) => wanted \subseteq content
      PROVE  SettingsInv'
  <2>1. /\ cache' = [cache EXCEPT ![m] = content]
        /\ loaded' = [loaded EXCEPT ![m] = TRUE]
        /\ vault' = content /\ failed' = failed
        /\ seen' = {n \in Manager : n = m \/ ~ loaded[n]}
        /\ writes' = writes + 1 /\ writes < MaxWrites
    BY <1>4 DEF Config!SaveSecrets
  <2>2. due' \subseteq content
    BY <1>4, <2>1 DEF Config!Owed
  <2>3. writes' \in 0 .. MaxWrites
    BY <1>0, <2>1
  <2>4. Config!TypeOK'
    BY <1>0, <1>1, <1>4, <2>1, <2>2, <2>3 DEF Config!TypeOK
  <2>5. KeystoreInv'
    BY <1>0, <2>1, <2>2 DEF KeystoreInv
  <2>6. Config!SecretsSurvive'
    BY <2>1, <2>2 DEF Config!SecretsSurvive
  <2> QED
    BY <1>0, <1>1, <1>2, <2>4, <2>5, <2>6 DEF SettingsInv, Config!WritesSurvive
<1>5. ~ Config!LoadFails(m) =>
        /\ Config!Cache(m) \subseteq Secret
        /\ ~ Config!Blind(m) => due \subseteq Config!Cache(m)
  BY <1>0 DEF Config!LoadFails, Config!Cache, Config!Blind, Config!SecretsSurvive,
              KeystoreInv
<1>6. ASSUME NEW k \in Secret, Config!SetSecret(m, k)
      PROVE  SettingsInv'
  <2>1. /\ Config!SaveSecrets(m, Config!Cache(m) \cup {k})
        /\ due' = Config!Owed(m, due \cup {k}) /\ ~ Config!LoadFails(m)
    BY <1>6 DEF Config!SetSecret, Config!SaveSecrets
  <2>2. Config!Cache(m) \cup {k} \in SUBSET Secret /\ due \cup {k} \in SUBSET Secret
    BY <1>0, <1>5, <2>1
  <2> QED
    BY <1>4, <1>5, <2>1, <2>2
<1>7. ASSUME NEW k \in Secret, Config!DeleteSecret(m, k)
      PROVE  SettingsInv'
  <2>1. /\ Config!SaveSecrets(m, Config!Cache(m) \ {k})
        /\ due' = Config!Owed(m, due \ {k}) /\ ~ Config!LoadFails(m)
    BY <1>7 DEF Config!DeleteSecret
  <2>2. Config!Cache(m) \ {k} \in SUBSET Secret /\ due \ {k} \in SUBSET Secret
    BY <1>0, <1>5, <2>1
  <2> QED
    BY <1>4, <1>5, <2>1, <2>2
<1> QED
  BY <1>3, <1>6, <1>7

\* A crash within a save: nothing is due any more.
LEMMA CrashStep ==
  ASSUME SettingsInv, NEW m \in Manager, Config!CrashInSave(m)
  PROVE  SettingsInv'
<1>0. /\ Config!TypeOK /\ CurrentInv /\ Config!UpdatesAreKept
      /\ file \in [Key -> Value \cup {Unset}]
      /\ config \in [Manager -> [Key -> Value]]
      /\ loaded \in [Manager -> BOOLEAN] /\ failed \in [Manager -> BOOLEAN]
      /\ cache \in [Manager -> SUBSET Secret]
      /\ kept \subseteq Key /\ current \subseteq Manager /\ writes \in 0 .. MaxWrites
  BY DEF SettingsInv, Config!TypeOK, Config!WritesSurvive
<1>1. /\ writes < MaxWrites /\ writes' = writes + 1
      /\ vault' = Garbled /\ due' = {}
      /\ loaded' = [loaded EXCEPT ![m] = FALSE]
      /\ failed' = [failed EXCEPT ![m] = FALSE]
      /\ cache' = [cache EXCEPT ![m] = {}]
      /\ seen' = {n \in Manager : ~ loaded'[n]}
      /\ config' = [config EXCEPT ![m] = Config!ResolveLayeredConfig(file)]
      /\ current' = current \cup {m} /\ kept' = Config!StillKept
      /\ UNCHANGED <<file, meant>>
  BY DEF Config!CrashInSave
<1>2. /\ Config!ResolveLayeredConfig(file) \in [Key -> Value]
      /\ kept' \subseteq kept
      /\ \A k \in kept' : Config!ResolveLayeredConfig(file)[k] = file[k]
  BY <1>0, <1>1, LayersResolve, KeptIsLoaded
<1>3. /\ config' \in [Manager -> [Key -> Value]]
      /\ config'[m] = Config!ResolveLayeredConfig(file)
      /\ \A n \in Manager \ {m} : config'[n] = config[n]
  BY <1>0, <1>1, <1>2
<1>4. writes' \in 0 .. MaxWrites
  BY <1>0, <1>1
<1>5. Config!TypeOK'
  BY <1>0, <1>1, <1>2, <1>3, <1>4 DEF Config!TypeOK
<1>6. CurrentInv' /\ Config!UpdatesAreKept'
  BY <1>0, <1>1, <1>2, <1>3 DEF CurrentInv, Config!UpdatesAreKept
<1>7. KeystoreInv' /\ Config!SecretsSurvive'
  BY <1>1 DEF KeystoreInv, Config!SecretsSurvive
<1>8. meant' \in [Key -> Value \cup {Unset}]
  BY <1>1 DEF SettingsInv
<1> QED
  BY <1>5, <1>6, <1>7, <1>8 DEF SettingsInv, Config!WritesSurvive

(***************************************************************************)
(* What was written stays, for any number of processes, keys and secrets:  *)
(* through the writes of every manager and keystore that has read the file *)
(* since the last write of another.                                        *)
(***************************************************************************)
THEOREM WrittenSettingsSurvive ==
  Config!Spec => []WritesSurvive
<1>1. Config!Init => SettingsInv
  BY SettingsInit
<1>2. SettingsInv /\ [Config!Next]_(Config!vars) => SettingsInv'
  <2> SUFFICES ASSUME SettingsInv, [Config!Next]_(Config!vars)
               PROVE  SettingsInv'
    OBVIOUS
  <2>1. CASE Config!Next
    BY <2>1, ConfigStep, SecretStep, CrashStep DEF Config!Next
  <2>2. CASE UNCHANGED Config!vars
    BY <2>2 DEF Config!vars, Config!settings, Config!secrets, SettingsInv,
       CurrentInv, KeystoreInv, Config!TypeOK, Config!WritesSurvive,
       Config!SecretsSurvive, Config!UpdatesAreKept
  <2> QED
    BY <2>1, <2>2
<1>3. SettingsInv => WritesSurvive
  BY DEF SettingsInv, WritesSurvive
<1> QED
  BY <1>1, <1>2, <1>3, PTL DEF Config!Spec

-----------------------------------------------------------------------------
(***************************************************************************)
(* The snapshots.  A manifest that can be read is the one of a snapshot    *)
(* that was finished, so an archive with its hash is finished too, and it  *)
(* stays the archive of its name until somebody writes another, which      *)
(* `replaced` remembers for the rollbacks that have yet to read it.        *)
(***************************************************************************)
USE ArchiveAssumption

\* What a process may be doing.
OpType ==
  {Archiver!Idle}
    \cup [do : {"scan"}, name : Name, read : UNION {[S -> Content] : S \in SUBSET File}]
    \cup [do : {"manifest"}, name : Name, stamp : Nat]
    \cup [do : {"reread"}, name : Name]
    \cup [do : {"extract"}, name : Name, stamp : Nat, left : SUBSET File]

FinishedInv == \A n \in Name : manifest[n] \in complete \cup {Absent, Torn}

RereadInv ==
  \A p \in Process :
    op[p].do = "reread" /\ op[p].name \notin replaced =>
      archive[op[p].name] \in complete

SnapshotInv ==
  /\ contents \in Seq([File -> Content]) /\ complete \subseteq Nat
  /\ archive \in [Name -> Nat \cup {Absent, Torn}]
  /\ manifest \in [Name -> Nat \cup {Absent, Torn}]
  /\ op \in [Process -> OpType]
  /\ replaced \subseteq Name
  /\ FinishedInv /\ RereadInv /\ Archiver!RestoresFinishedSnapshots

\* What is written to the workspace comes from an archive.
FilesInv ==
  /\ files \in [File -> Content]
  /\ \A p \in Process : op[p].do = "extract" => op[p].stamp \in DOMAIN contents

\* What is being done tells what else is known of it.
LEMMA OpShape ==
  ASSUME NEW o \in OpType
  PROVE  /\ o.do \in {"nothing", "scan", "manifest", "reread", "extract"}
         /\ o.do # "nothing" => o.name \in Name
         /\ o.do = "scan" =>
              /\ o \in [do : {"scan"}, name : Name,
                        read : UNION {[S -> Content] : S \in SUBSET File}]
         /\ o.do = "manifest" => o.stamp \in Nat
         /\ o.do = "extract" =>
              o \in [do : {"extract"}, name : Name, stamp : Nat, left : SUBSET File]
  BY DEF OpType, Archiver!Idle

\* A step that changes what one process does and neither an archive nor a
\* manifest, nor which of them were finished.
LEMMA OnlyOp ==
  ASSUME SnapshotInv, NEW p \in Process, NEW o \in OpType,
         op' = [op EXCEPT ![p] = o],
         UNCHANGED <<archive, manifest, contents, complete, restored, replaced>>,
         o.do = "reread" /\ o.name \notin replaced => archive[o.name] \in complete
  PROVE  SnapshotInv'
<1>1. /\ op' \in [Process -> OpType] /\ op'[p] = o
      /\ \A q \in Process \ {p} : op'[q] = op[q]
  BY DEF SnapshotInv
<1>2. FinishedInv' /\ Archiver!RestoresFinishedSnapshots'
  BY DEF SnapshotInv, FinishedInv, Archiver!RestoresFinishedSnapshots
<1>3. RereadInv'
  BY <1>1 DEF SnapshotInv, RereadInv
<1> QED
  BY <1>1, <1>2, <1>3 DEF SnapshotInv

LEMMA SnapshotInit == ASSUME Archiver!Init PROVE SnapshotInv
<1>1. \A p \in Process : op[p].do = "nothing"
  BY DEF Archiver!Init, Archiver!Idle
<1>2. contents \in Seq([File -> Content]) /\ op \in [Process -> OpType]
  BY DEF Archiver!Init, OpType
<1> QED
  BY <1>1, <1>2 DEF Archiver!Init, SnapshotInv, FinishedInv, RereadInv,
     Archiver!RestoresFinishedSnapshots

LEMMA SnapshotStep ==
  ASSUME SnapshotInv, [Archiver!Next]_(Archiver!vars),
         FilesInv
  PROVE  SnapshotInv'
<1>0. /\ contents \in Seq([File -> Content]) /\ complete \subseteq Nat
      /\ archive \in [Name -> Nat \cup {Absent, Torn}]
      /\ manifest \in [Name -> Nat \cup {Absent, Torn}]
      /\ op \in [Process -> OpType] /\ replaced \subseteq Name
      /\ FinishedInv /\ RereadInv /\ restored \subseteq complete
  BY DEF SnapshotInv, Archiver!RestoresFinishedSnapshots
<1>1. ASSUME NEW f \in File, NEW v \in Content, Archiver!Edit(f, v)
      PROVE  SnapshotInv'
  BY <1>1 DEF Archiver!Edit, SnapshotInv, FinishedInv, RereadInv,
     Archiver!RestoresFinishedSnapshots
<1>2. ASSUME NEW p \in Process, NEW n \in Name, Archiver!StartCreate(p, n)
      PROVE  SnapshotInv'
  <2> DEFINE r == [f \in {} |-> Absent]
             o == [do |-> "scan", name |-> n, read |-> r]
  <2>1. r \in [{} -> Content]
    OBVIOUS
  <2>2. r \in UNION {[S -> Content] : S \in SUBSET File}
    BY <2>1
  <2>3. /\ op' = [op EXCEPT ![p] = o]
        /\ UNCHANGED <<archive, manifest, contents, complete, restored, replaced>>
    BY <1>2 DEF Archiver!StartCreate, Archiver!Become
  <2> HIDE DEF r
  <2>4. o \in OpType /\ o.do = "scan"
    BY <2>2 DEF OpType
  <2> HIDE DEF o
  <2> QED
    BY <2>3, <2>4, OnlyOp
<1>3. ASSUME NEW p \in Process, NEW f \in File, Archiver!ScanFile(p, f)
      PROVE  SnapshotInv'
  <2> DEFINE r == op[p].read
             s == [g \in DOMAIN r \cup {f} |-> IF g = f THEN files[f] ELSE r[g]]
             o == [op[p] EXCEPT !.read = s]
  <2>1. /\ op' = [op EXCEPT ![p] = o] /\ op[p].do = "scan"
        /\ UNCHANGED <<archive, manifest, contents, complete, restored, replaced>>
    BY <1>3 DEF Archiver!ScanFile, Archiver!Become
  <2>2. op[p] \in [do : {"scan"}, name : Name,
                   read : UNION {[S -> Content] : S \in SUBSET File}]
    BY <1>0, <2>1, OpShape
  <2>3. PICK S \in SUBSET File : r \in [S -> Content]
    BY <2>2
  <2>4. s \in [S \cup {f} -> Content]
    BY <2>3 DEF FilesInv
  <2>5. s \in UNION {[T -> Content] : T \in SUBSET File}
    BY <2>4
  <2> HIDE DEF s
  <2>6. o \in [do : {"scan"}, name : Name,
               read : UNION {[T -> Content] : T \in SUBSET File}]
    BY <2>2, <2>5
  <2> HIDE DEF o
  <2>7. o \in OpType /\ o.do = "scan"
    BY <2>6 DEF OpType
  <2> QED
    BY <2>1, <2>7, OnlyOp
<1>4. ASSUME NEW p \in Process, Archiver!WriteArchive(p)
      PROVE  SnapshotInv'
  <2> DEFINE n == op[p].name
             s == Len(contents) + 1
             r == op[p].read
             o == [do |-> "manifest", name |-> n, stamp |-> s]
  <2>1. /\ op[p].do = "scan" /\ DOMAIN r = File
        /\ contents' = Append(contents, r)
        /\ archive' = [archive EXCEPT ![n] = s]
        /\ replaced' = replaced \cup ({n} \cap Archiver!AboutToRead)
        /\ op' = [op EXCEPT ![p] = o]
        /\ UNCHANGED <<manifest, complete, restored>>
    BY <1>4 DEF Archiver!WriteArchive, Archiver!Become
  <2>2. op[p] \in [do : {"scan"}, name : Name,
                   read : UNION {[S -> Content] : S \in SUBSET File}]
    BY <1>0, <2>1, OpShape
  <2>3. n \in Name /\ \E S \in SUBSET File : r \in [S -> Content]
    BY <2>2
  <2>4. r \in [File -> Content]
    BY <2>1, <2>3
  <2>5. s \in Nat
    BY <1>0
  <2> HIDE DEF r
  <2>6. contents' \in Seq([File -> Content])
    BY <1>0, <2>1, <2>4
  <2> HIDE DEF n, s
  <2>7. o \in OpType /\ o.do = "manifest"
    BY <2>3, <2>5 DEF OpType
  <2> HIDE DEF o
  <2>8. /\ op' \in [Process -> OpType] /\ op'[p] = o
        /\ \A q \in Process \ {p} : op'[q] = op[q]
    BY <1>0, <2>1, <2>7
  <2>9. /\ archive' \in [Name -> Nat \cup {Absent, Torn}]
        /\ \A m \in Name \ {n} : archive'[m] = archive[m]
    BY <1>0, <2>1, <2>3, <2>5
  <2>10. RereadInv'
    <3> SUFFICES ASSUME NEW q \in Process, op'[q].do = "reread",
                        op'[q].name \notin replaced'
                 PROVE  archive'[op'[q].name] \in complete'
      BY DEF RereadInv
    <3>1. q # p /\ op'[q] = op[q]
      BY <2>7, <2>8
    <3>2. op[q].name \in Name /\ op[q].name \in Archiver!AboutToRead
      BY <1>0, <3>1, OpShape DEF Archiver!AboutToRead
    <3>3. op[q].name # n /\ op[q].name \notin replaced
      BY <2>1, <3>1, <3>2
    <3> QED
      BY <1>0, <2>1, <2>9, <3>1, <3>2, <3>3 DEF RereadInv
  <2>11. replaced' \subseteq Name
    BY <1>0, <2>1, <2>3
  <2> QED
    BY <1>0, <2>1, <2>6, <2>8, <2>9, <2>10, <2>11
       DEF SnapshotInv, FinishedInv, Archiver!RestoresFinishedSnapshots
<1>5. ASSUME NEW p \in Process, Archiver!WriteManifest(p)
      PROVE  SnapshotInv'
  <2> DEFINE n == op[p].name
             s == op[p].stamp
  <2>1. /\ op[p].do = "manifest"
        /\ manifest' = [manifest EXCEPT ![n] = s]
        /\ complete' = complete \cup {s}
        /\ op' = [op EXCEPT ![p] = Archiver!Idle]
        /\ UNCHANGED <<archive, contents, restored, replaced>>
    BY <1>5 DEF Archiver!WriteManifest, Archiver!Become
  <2>2. n \in Name /\ s \in Nat
    BY <1>0, <2>1, OpShape
  <2>3. Archiver!Idle \in OpType /\ Archiver!Idle.do = "nothing"
    BY DEF OpType, Archiver!Idle
  <2>4. /\ op' \in [Process -> OpType] /\ op'[p] = Archiver!Idle
        /\ \A q \in Process \ {p} : op'[q] = op[q]
    BY <1>0, <2>1, <2>3
  <2> HIDE DEF n, s
  <2>5. FinishedInv' /\ manifest' \in [Name -> Nat \cup {Absent, Torn}]
    BY <1>0, <2>1, <2>2 DEF FinishedInv
  <2>6. RereadInv'
    BY <1>0, <2>1, <2>3, <2>4 DEF RereadInv
  <2> QED
    BY <1>0, <2>1, <2>2, <2>4, <2>5, <2>6
       DEF SnapshotInv, Archiver!RestoresFinishedSnapshots
<1>6. ASSUME NEW p \in Process, NEW n \in Name, Archiver!StartRollback(p, n)
      PROVE  SnapshotInv'
  <2> DEFINE o == [do |-> "reread", name |-> n]
  <2>1. /\ op' = [op EXCEPT ![p] = o]
        /\ UNCHANGED <<archive, manifest, contents, complete, restored, replaced>>
        /\ Archiver!Verifies(n)
    BY <1>6 DEF Archiver!StartRollback, Archiver!Become
  <2>2. archive[n] \in Nat /\ manifest[n] = archive[n]
    BY <1>0, <2>1 DEF Archiver!Verifies, Archiver!Written
  <2>3. archive[n] \in complete
    BY <1>0, <2>2 DEF FinishedInv
  <2>4. o \in OpType /\ o.do = "reread" /\ o.name = n
    BY DEF OpType
  <2> HIDE DEF o
  <2> QED
    BY <2>1, <2>3, <2>4, OnlyOp
<1>7. ASSUME NEW p \in Process, Archiver!ReadArchive(p)
      PROVE  SnapshotInv'
  <2> DEFINE n == op[p].name
             o == IF archive[n] \in Archiver!Written
                  THEN [do |-> "extract", name |-> n, stamp |-> archive[n],
                        left |-> File]
                  ELSE Archiver!Idle
  <2>1. /\ op[p].do = "reread" /\ op' = [op EXCEPT ![p] = o]
        /\ replaced' = IF \E q \in Process \ {p} : op[q].do = "reread" /\ op[q].name = n
                       THEN replaced ELSE replaced \ {n}
        /\ restored' = IF n \in replaced \/ archive[n] \notin Archiver!Written
                       THEN restored ELSE restored \cup {archive[n]}
        /\ UNCHANGED <<archive, manifest, contents, complete>>
    BY <1>7 DEF Archiver!ReadArchive, Archiver!Become
  <2>2. n \in Name
    BY <1>0, <2>1, OpShape
  <2>3. archive[n] \in Archiver!Written => archive[n] \in Nat
    BY <1>0 DEF Archiver!Written
  <2>4. restored' \subseteq complete
    BY <1>0, <2>1 DEF RereadInv
  <2> HIDE DEF n
  <2>5. o \in OpType /\ o.do # "reread"
    BY <2>2, <2>3 DEF OpType, Archiver!Idle
  <2> HIDE DEF o
  <2>6. /\ op' \in [Process -> OpType] /\ op'[p] = o
        /\ \A q \in Process \ {p} : op'[q] = op[q]
    BY <1>0, <2>1, <2>5
  <2>7. RereadInv'
    <3> SUFFICES ASSUME NEW q \in Process, op'[q].do = "reread",
                        op'[q].name \notin replaced'
                 PROVE  archive'[op'[q].name] \in complete'
      BY DEF RereadInv
    <3>1. q \in Process \ {p} /\ op'[q] = op[q]
      BY <2>5, <2>6
    <3>2. op[q].name \notin replaced
      BY <2>1, <3>1
    <3> QED
      BY <1>0, <2>1, <3>1, <3>2 DEF RereadInv
  <2> QED
    BY <1>0, <2>1, <2>4, <2>6, <2>7
       DEF SnapshotInv, FinishedInv, Archiver!RestoresFinishedSnapshots
<1>8. ASSUME NEW p \in Process, NEW f \in File, Archiver!ExtractFile(p, f)
      PROVE  SnapshotInv'
  <2> DEFINE r == [op[p] EXCEPT !.left = @ \ {f}]
             o == IF op[p].left = {f} THEN Archiver!Idle ELSE r
  <2>1. /\ op[p].do = "extract" /\ op' = [op EXCEPT ![p] = o]
        /\ UNCHANGED <<archive, manifest, contents, complete, restored, replaced>>
    BY <1>8 DEF Archiver!ExtractFile, Archiver!Become
  <2>2. op[p] \in [do : {"extract"}, name : Name, stamp : Nat, left : SUBSET File]
    BY <1>0, <2>1, OpShape
  <2>3. r \in [do : {"extract"}, name : Name, stamp : Nat, left : SUBSET File]
    BY <2>2
  <2> HIDE DEF r
  <2>4. r \in OpType /\ r.do = "extract"
    BY <2>3 DEF OpType
  <2>5. o \in OpType /\ o.do # "reread"
    BY <2>4 DEF OpType, Archiver!Idle
  <2> HIDE DEF o
  <2> QED
    BY <2>1, <2>5, OnlyOp
<1>9. ASSUME NEW p \in Process, Archiver!Crash(p)
      PROVE  SnapshotInv'
  <2> DEFINE n == op[p].name
  <2>1. /\ op' = [op EXCEPT ![p] = Archiver!Idle]
        /\ UNCHANGED <<contents, complete, restored>>
    BY <1>9 DEF Archiver!Crash, Archiver!Become
  <2>2. Archiver!Idle \in OpType /\ Archiver!Idle.do = "nothing"
    BY DEF OpType, Archiver!Idle
  <2>3. /\ op' \in [Process -> OpType] /\ op'[p] = Archiver!Idle
        /\ \A q \in Process \ {p} : op'[q] = op[q]
    BY <1>0, <2>1, <2>2
  <2>4. CASE UNCHANGED <<archive, manifest, replaced>>
    BY <2>1, <2>2, <2>4, OnlyOp
  <2>5. CASE /\ op[p].do = "scan"
             /\ archive' = [archive EXCEPT ![n] = Torn]
             /\ replaced' = replaced \cup ({n} \cap Archiver!AboutToRead)
             /\ manifest' = manifest
    <3>1. n \in Name
      BY <1>0, <2>5, OpShape
    <3> HIDE DEF n
    <3>2. /\ archive' \in [Name -> Nat \cup {Absent, Torn}]
          /\ \A m \in Name \ {n} : archive'[m] = archive[m]
      BY <1>0, <2>5, <3>1
    <3>3. RereadInv'
      <4> SUFFICES ASSUME NEW q \in Process, op'[q].do = "reread",
                          op'[q].name \notin replaced'
                   PROVE  archive'[op'[q].name] \in complete'
        BY DEF RereadInv
      <4>1. op'[q] = op[q]
        BY <2>2, <2>3
      <4>2. op[q].name \in Name /\ op[q].name \in Archiver!AboutToRead
        BY <1>0, <4>1, OpShape DEF Archiver!AboutToRead
      <4>3. op[q].name # n /\ op[q].name \notin replaced
        BY <2>5, <4>1, <4>2
      <4> QED
        BY <1>0, <2>1, <3>2, <4>1, <4>2, <4>3 DEF RereadInv
    <3>4. replaced' \subseteq Name
      BY <1>0, <2>5, <3>1
    <3> QED
      BY <1>0, <2>1, <2>3, <2>5, <3>2, <3>3, <3>4
         DEF SnapshotInv, FinishedInv, Archiver!RestoresFinishedSnapshots
  <2>6. CASE /\ op[p].do = "manifest"
             /\ manifest' = [manifest EXCEPT ![n] = Torn]
             /\ UNCHANGED <<archive, replaced>>
    <3>1. n \in Name
      BY <1>0, <2>6, OpShape
    <3> HIDE DEF n
    <3>2. FinishedInv' /\ manifest' \in [Name -> Nat \cup {Absent, Torn}]
      BY <1>0, <2>1, <2>6, <3>1 DEF FinishedInv
    <3>3. RereadInv'
      BY <1>0, <2>1, <2>2, <2>3, <2>6 DEF RereadInv
    <3> QED
      BY <1>0, <2>1, <2>3, <2>6, <3>2, <3>3
         DEF SnapshotInv, Archiver!RestoresFinishedSnapshots
  <2> QED
    BY <1>9, <2>4, <2>5, <2>6 DEF Archiver!Crash
<1>10. CASE UNCHANGED Archiver!vars
  BY <1>10 DEF Archiver!vars, SnapshotInv, FinishedInv, RereadInv,
     Archiver!RestoresFinishedSnapshots
<1> QED
  BY <1>1, <1>2, <1>3, <1>4, <1>5, <1>6, <1>7, <1>8, <1>9, <1>10 DEF Archiver!Next

LEMMA FilesStep ==
  ASSUME SnapshotInv, FilesInv, [Archiver!Next]_(Archiver!vars)
  PROVE  FilesInv'
<1>0. /\ contents \in Seq([File -> Content]) /\ op \in [Process -> OpType]
      /\ files \in [File -> Content]
      /\ \A p \in Process : op[p].do = "extract" => op[p].stamp \in DOMAIN contents
  BY DEF SnapshotInv, FilesInv
\* A step that extracts from no other archive than those it found.
<1>1. ASSUME NEW p \in Process, NEW o, op' = [op EXCEPT ![p] = o],
             o.do = "extract" => o.stamp \in DOMAIN contents,
             DOMAIN contents \subseteq DOMAIN contents', files' \in [File -> Content]
      PROVE  FilesInv'
  <2>1. /\ op'[p] = o
        /\ \A q \in Process \ {p} : op'[q] = op[q]
    BY <1>0, <1>1
  <2> QED
    BY <1>0, <1>1, <2>1 DEF FilesInv
<1>2. ASSUME NEW f \in File, NEW v \in Content, Archiver!Edit(f, v)
      PROVE  FilesInv'
  BY <1>0, <1>2 DEF Archiver!Edit, FilesInv
<1>3. ASSUME NEW p \in Process, NEW n \in Name,
             Archiver!StartCreate(p, n) \/ Archiver!StartRollback(p, n)
      PROVE  FilesInv'
  <2> DEFINE scan == [do |-> "scan", name |-> n, read |-> [f \in {} |-> Absent]]
             reread == [do |-> "reread", name |-> n]
  <2>1. /\ op' = [op EXCEPT ![p] = scan] \/ op' = [op EXCEPT ![p] = reread]
        /\ UNCHANGED <<files, contents>>
    BY <1>3 DEF Archiver!StartCreate, Archiver!StartRollback, Archiver!Become
  <2>2. scan.do = "scan" /\ reread.do = "reread"
    OBVIOUS
  <2> HIDE DEF scan, reread
  <2> QED
    BY <1>0, <1>1, <2>1, <2>2
<1>4. ASSUME NEW p \in Process, NEW f \in File, Archiver!ScanFile(p, f)
      PROVE  FilesInv'
  <2> DEFINE r == op[p].read
             s == [g \in DOMAIN r \cup {f} |-> IF g = f THEN files[f] ELSE r[g]]
             o == [op[p] EXCEPT !.read = s]
  <2>1. /\ op' = [op EXCEPT ![p] = o] /\ op[p].do = "scan"
        /\ UNCHANGED <<files, contents>>
    BY <1>4 DEF Archiver!ScanFile, Archiver!Become
  <2>2. op[p] \in [do : {"scan"}, name : Name,
                   read : UNION {[S -> Content] : S \in SUBSET File}]
    BY <1>0, <2>1, OpShape
  <2> HIDE DEF s
  <2>3. o.do = "scan"
    BY <2>2
  <2> HIDE DEF o
  <2> QED
    BY <1>0, <1>1, <2>1, <2>3
<1>5. ASSUME NEW p \in Process, Archiver!WriteArchive(p)
      PROVE  FilesInv'
  <2> DEFINE r == op[p].read
             o == [do |-> "manifest", name |-> op[p].name, stamp |-> Len(contents) + 1]
  <2>1. /\ op' = [op EXCEPT ![p] = o] /\ op[p].do = "scan" /\ DOMAIN r = File
        /\ contents' = Append(contents, r) /\ files' = files
    BY <1>5 DEF Archiver!WriteArchive, Archiver!Become
  <2>2. op[p] \in [do : {"scan"}, name : Name,
                   read : UNION {[S -> Content] : S \in SUBSET File}]
    BY <1>0, <2>1, OpShape
  <2>3. r \in [File -> Content]
    BY <2>1, <2>2
  <2> HIDE DEF r
  <2>4. DOMAIN contents \subseteq DOMAIN contents'
    BY <1>0, <2>1, <2>3
  <2>5. o.do = "manifest"
    OBVIOUS
  <2> HIDE DEF o
  <2> QED
    BY <1>0, <1>1, <2>1, <2>4, <2>5
<1>6. ASSUME NEW p \in Process, Archiver!WriteManifest(p) \/ Archiver!Crash(p)
      PROVE  FilesInv'
  <2>1. op' = [op EXCEPT ![p] = Archiver!Idle] /\ UNCHANGED <<files, contents>>
    BY <1>6 DEF Archiver!WriteManifest, Archiver!Crash, Archiver!Become
  <2>2. Archiver!Idle.do = "nothing"
    BY DEF Archiver!Idle
  <2> QED
    BY <1>0, <1>1, <2>1, <2>2
<1>7. ASSUME NEW p \in Process, Archiver!ReadArchive(p)
      PROVE  FilesInv'
  <2> DEFINE n == op[p].name
             e == [do |-> "extract", name |-> n, stamp |-> archive[n], left |-> File]
             o == IF archive[n] \in Archiver!Written THEN e ELSE Archiver!Idle
  <2>1. op' = [op EXCEPT ![p] = o] /\ UNCHANGED <<files, contents>>
    BY <1>7 DEF Archiver!ReadArchive, Archiver!Become
  <2>2. e.stamp = archive[n] /\ Archiver!Idle.do = "nothing"
    BY DEF Archiver!Idle
  <2> HIDE DEF e
  <2>3. o.do = "extract" => o.stamp \in DOMAIN contents
    BY <2>2 DEF Archiver!Written
  <2> HIDE DEF o
  <2> QED
    BY <1>0, <1>1, <2>1, <2>3
<1>8. ASSUME NEW p \in Process, NEW f \in File, Archiver!ExtractFile(p, f)
      PROVE  FilesInv'
  <2> DEFINE r == [op[p] EXCEPT !.left = @ \ {f}]
             o == IF op[p].left = {f} THEN Archiver!Idle ELSE r
  <2>1. /\ op[p].do = "extract" /\ op' = [op EXCEPT ![p] = o]
        /\ files' = [files EXCEPT ![f] = contents[op[p].stamp][f]]
        /\ contents' = contents
    BY <1>8 DEF Archiver!ExtractFile, Archiver!Become
  <2>2. op[p] \in [do : {"extract"}, name : Name, stamp : Nat, left : SUBSET File]
    BY <1>0, <2>1, OpShape
  <2>3. op[p].stamp \in DOMAIN contents
    BY <1>0, <2>1
  <2>4. contents[op[p].stamp] \in [File -> Content]
    BY <1>0, <2>3
  <2>5. files' \in [File -> Content]
    BY <1>0, <2>1, <2>4
  <2>6. r.stamp = op[p].stamp /\ Archiver!Idle.do = "nothing"
    BY <2>2 DEF Archiver!Idle
  <2> HIDE DEF r
  <2>7. o.do = "extract" => o.stamp \in DOMAIN contents
    BY <2>3, <2>6
  <2> HIDE DEF o
  <2> QED
    BY <1>1, <2>1, <2>5, <2>7
<1>9. CASE UNCHANGED Archiver!vars
  BY <1>0, <1>9 DEF Archiver!vars, FilesInv
<1> QED
  BY <1>2, <1>3, <1>4, <1>5, <1>6, <1>7, <1>8, <1>9 DEF Archiver!Next

(***************************************************************************)
(* A rollback restores only snapshots that were finished, for any number   *)
(* of processes, files and names, unless the archive of its name was       *)
(* written between the verification and the second read.                   *)
(***************************************************************************)
THEOREM RollbacksRestoreFinished ==
  Archiver!Spec => []RestoresFinishedSnapshots
<1>1. Archiver!Init => SnapshotInv /\ FilesInv
  <2> SUFFICES ASSUME Archiver!Init
               PROVE  FilesInv
    BY SnapshotInit
  <2> QED
    BY DEF Archiver!Init, Archiver!Idle, FilesInv
<1>2. SnapshotInv /\ FilesInv /\ [Archiver!Next]_(Archiver!vars)
        => (SnapshotInv /\ FilesInv)'
  BY SnapshotStep, FilesStep
<1>3. SnapshotInv => RestoresFinishedSnapshots
  BY DEF SnapshotInv, RestoresFinishedSnapshots
<1> QED
  BY <1>1, <1>2, <1>3, PTL DEF Archiver!Spec

-----------------------------------------------------------------------------
(***************************************************************************)
(* Learning.  A row of anti_patterns counts how often its lesson was       *)
(* drawn, and no lesson has two.  A proposal that waits has a version      *)
(* above all those of its target, or has been overtaken since.             *)
(***************************************************************************)
Pattern == [lesson : Lesson, occurrences : Nat]
Mutation ==
  [target : Prompt, version : Nat, valid : BOOLEAN,
   status : {"active", "rolled_back"}, overtaken : BOOLEAN]
Waiting == [target : Prompt \cup {"none"}, version : Nat, overtaken : BOOLEAN]

PatternInv ==
  /\ patterns \in Seq(Pattern) /\ learned \in [Lesson -> Nat]
  /\ \A i, j \in DOMAIN patterns : patterns[i].lesson = patterns[j].lesson => i = j
  /\ \A i \in DOMAIN patterns :
       patterns[i].occurrences = learned[patterns[i].lesson]
  /\ \A l \in Lesson :
       learned[l] > 0 => \E i \in DOMAIN patterns : patterns[i].lesson = l

VersionInv ==
  /\ mutations \in Seq(Mutation) /\ proposals \in [Proposal -> Waiting]
  /\ \E bound \in Nat : \A i \in DOMAIN mutations : mutations[i].version <= bound
  /\ \A p \in Proposal : proposals[p] # Lessons!NoProposal =>
       /\ proposals[p].target \in Prompt
       /\ \/ proposals[p].overtaken
          \/ \A i \in DOMAIN mutations :
               mutations[i].target = proposals[p].target =>
                 mutations[i].version < proposals[p].version
  /\ \A j \in DOMAIN mutations : \A i \in 1 .. j - 1 :
       mutations[i].target = mutations[j].target =>
         mutations[i].version < mutations[j].version \/ mutations[j].overtaken

LEMMA RowFields ==
  /\ patterns \in Seq(Pattern) =>
       \A i \in DOMAIN patterns : patterns[i].lesson \in Lesson
  /\ mutations \in Seq(Mutation) =>
       \A i \in DOMAIN mutations : mutations[i].version \in Nat
<1>1. ASSUME patterns \in Seq(Pattern), NEW i \in DOMAIN patterns
      PROVE  patterns[i].lesson \in Lesson
  <2>1. patterns[i] \in Pattern
    BY <1>1
  <2> QED
    BY <2>1 DEF Pattern
<1>2. ASSUME mutations \in Seq(Mutation), NEW i \in DOMAIN mutations
      PROVE  mutations[i].version \in Nat
  <2>1. mutations[i] \in Mutation
    BY <1>2
  <2> QED
    BY <2>1 DEF Mutation
<1> QED
  BY <1>1, <1>2

LEMMA AtMostOne ==
  ASSUME NEW S, \A x, y \in S : x = y
  PROVE  Cardinality(S) <= 1
<1>1. CASE S = {}
  BY <1>1, FS_EmptySet
<1>2. CASE S # {}
  <2>1. PICK x \in S : S = {x}
    BY <1>2
  <2>2. Cardinality({x}) = 1
    BY FS_Singleton
  <2> QED
    BY <2>1, <2>2
<1> QED
  BY <1>1, <1>2

LEMMA LearnedWhenPatterned == PatternInv => Lessons!LearnedOnce
<1> SUFFICES ASSUME PatternInv, NEW l \in Lesson
             PROVE  /\ Lessons!Cardinality(Lessons!Known(l)) <= 1
                    /\ learned[l] > 0 =>
                         \E i \in Lessons!Known(l) : patterns[i].occurrences = learned[l]
  BY DEF Lessons!LearnedOnce
<1> DEFINE K == Lessons!Known(l)
<1>1. \A i, j \in K : i = j
  BY DEF PatternInv, Lessons!Known
<1>2. learned[l] > 0 => \E i \in K : patterns[i].occurrences = learned[l]
  BY DEF PatternInv, Lessons!Known
<1>3. Cardinality(K) <= 1
  <2> HIDE DEF K
  <2> QED
    BY <1>1, AtMostOne
<1> QED
  BY <1>2, <1>3 DEF Lessons!Cardinality, Cardinality

LEMMA OrderedWhenVersioned == VersionInv => Lessons!VersionsTellOrder
<1> SUFFICES ASSUME VersionInv, NEW t \in Prompt,
                    \A i \in DOMAIN mutations :
                      mutations[i].target = t => ~mutations[i].overtaken
             PROVE  Lessons!Cardinality(Lessons!ActivePrompts(t)) <= 1
  BY DEF VersionInv, Lessons!VersionsTellOrder
<1> DEFINE A == Lessons!ActivePrompts(t)
<1>1. \A i \in A : i \in DOMAIN mutations /\ mutations[i].target = t
  BY DEF Lessons!ActivePrompts
<1>2. \A i, j \in A : mutations[j].version <= mutations[i].version
  BY DEF Lessons!ActivePrompts
<1>3. ASSUME NEW i \in A, NEW j \in A, i < j
      PROVE  FALSE
  <2>1. i \in 1 .. j - 1 /\ i \in DOMAIN mutations /\ j \in DOMAIN mutations
    BY <1>1, <1>3 DEF VersionInv
  <2>2. mutations[i].version < mutations[j].version
    BY <1>1, <2>1 DEF VersionInv
  <2>3. mutations[i].version \in Nat /\ mutations[j].version \in Nat
    BY <2>1, RowFields DEF VersionInv
  <2> QED
    BY <1>2, <2>2, <2>3
<1>4. ASSUME NEW i \in A, NEW j \in A
      PROVE  i = j
  <2>1. i \in Nat /\ j \in Nat
    BY <1>1 DEF VersionInv
  <2> HIDE DEF A
  <2> QED
    BY <1>3, <2>1
<1>5. Cardinality(A) <= 1
  <2> HIDE DEF A
  <2> QED
    BY <1>4, AtMostOne
<1> QED
  BY <1>5 DEF Lessons!Cardinality, Cardinality

LEMMA LessonsInit == Lessons!Init => PatternInv /\ VersionInv
  BY DEF Lessons!Init, PatternInv, VersionInv, Waiting, Lessons!NoProposal

LEMMA RecordKeeps ==
  ASSUME PatternInv, NEW l \in Lesson, Lessons!RecordLesson(l)
  PROVE  PatternInv'
<1> DEFINE K == Lessons!Known(l)
<1>0. /\ patterns \in Seq(Pattern) /\ learned \in [Lesson -> Nat]
      /\ learned' = [learned EXCEPT ![l] = @ + 1]
  BY DEF PatternInv, Lessons!RecordLesson, Lessons!Learn
<1>1. /\ learned' \in [Lesson -> Nat]
      /\ learned'[l] = learned[l] + 1
      /\ \A m \in Lesson : m # l => learned'[m] = learned[m]
  BY <1>0
<1>2. CASE K = {}
  <2> DEFINE r == [lesson |-> l, occurrences |-> 1]
             k == Len(patterns) + 1
  <2>1. patterns' = Append(patterns, r) /\ r \in Pattern
    BY <1>2 DEF Lessons!RecordLesson, Pattern
  <2>2. r.lesson = l /\ r.occurrences = 1
    OBVIOUS
  <2> HIDE DEF r
  <2>3. /\ patterns' \in Seq(Pattern) /\ Len(patterns') = k
        /\ patterns'[k] = r
        /\ \A i \in 1 .. Len(patterns) : patterns'[i] = patterns[i]
    BY <1>0, <2>1, AppendIndexes
  <2>4. /\ \A i \in DOMAIN patterns' : i \in DOMAIN patterns \/ i = k
        /\ \A i \in DOMAIN patterns : patterns'[i] = patterns[i] /\ i \in DOMAIN patterns'
        /\ k \in DOMAIN patterns'
    <3>1. /\ DOMAIN patterns = 1 .. Len(patterns) /\ Len(patterns) \in Nat
          /\ DOMAIN patterns' = 1 .. Len(patterns) + 1
      BY <1>0, <2>3
    <3> QED
      BY <2>3, <3>1
  <2>5. \A i \in DOMAIN patterns : patterns[i].lesson # l /\ patterns[i].lesson \in Lesson
    BY <1>0, <1>2, RowFields DEF Lessons!Known
  <2>6. learned[l] = 0
    BY <1>0, <2>5 DEF PatternInv
  <2> HIDE DEF k
  <2>7. ASSUME NEW i \in DOMAIN patterns', NEW j \in DOMAIN patterns',
               patterns'[i].lesson = patterns'[j].lesson
        PROVE  i = j
    BY <2>2, <2>3, <2>4, <2>5, <2>7 DEF PatternInv
  <2>8. ASSUME NEW i \in DOMAIN patterns'
        PROVE  patterns'[i].occurrences = learned'[patterns'[i].lesson]
    BY <1>1, <2>2, <2>3, <2>4, <2>5, <2>6 DEF PatternInv
  <2>9. ASSUME NEW m \in Lesson, learned'[m] > 0
        PROVE  \E i \in DOMAIN patterns' : patterns'[i].lesson = m
    <3>1. CASE m = l
      BY <2>2, <2>3, <2>4, <3>1
    <3>2. CASE m # l
      <4>1. learned[m] > 0
        BY <1>1, <2>9, <3>2
      <4>2. PICK i \in DOMAIN patterns : patterns[i].lesson = m
        BY <4>1 DEF PatternInv
      <4> QED
        BY <2>4, <4>2
    <3> QED
      BY <3>1, <3>2
  <2> QED
    BY <1>1, <2>3, <2>7, <2>8, <2>9 DEF PatternInv
<1>3. CASE K # {}
  <2> DEFINE k == CHOOSE j \in K : TRUE
             r == [patterns[k] EXCEPT !.occurrences = @ + 1]
  <2>1. k \in DOMAIN patterns /\ patterns[k].lesson = l
    <3>1. k \in K
      <4> HIDE DEF K
      <4> QED
        BY <1>3
    <3> HIDE DEF k
    <3> QED
      BY <3>1 DEF Lessons!Known
  <2>2. patterns' = [i \in DOMAIN patterns |-> IF i = k THEN r ELSE patterns[i]]
    BY <1>3 DEF Lessons!RecordLesson
  <2> HIDE DEF k, K
  <2>3. r \in Pattern /\ r.lesson = l /\ r.occurrences = patterns[k].occurrences + 1
    <3>1. patterns[k] \in Pattern
      BY <1>0, <2>1
    <3> QED
      BY <2>1, <3>1 DEF Pattern
  <2> HIDE DEF r
  <2>4. /\ patterns' \in Seq(Pattern) /\ DOMAIN patterns' = DOMAIN patterns
        /\ \A i \in DOMAIN patterns :
             patterns'[i] = IF i = k THEN r ELSE patterns[i]
    BY <1>0, <2>2, <2>3
  <2>5. \A i \in DOMAIN patterns : /\ patterns'[i].lesson = patterns[i].lesson
                                   /\ patterns[i].lesson \in Lesson
    BY <1>0, <2>1, <2>3, <2>4, RowFields
  <2>6. ASSUME NEW i \in DOMAIN patterns
        PROVE  patterns'[i].occurrences = learned'[patterns'[i].lesson]
    <3>1. CASE i = k
      BY <1>1, <2>1, <2>3, <2>4, <3>1 DEF PatternInv
    <3>2. CASE i # k
      <4>1. patterns[i].lesson # l
        BY <2>1, <3>2 DEF PatternInv
      <4> QED
        BY <1>1, <2>4, <2>5, <3>2, <4>1 DEF PatternInv
    <3> QED
      BY <3>1, <3>2
  <2>7. ASSUME NEW m \in Lesson, learned'[m] > 0
        PROVE  \E i \in DOMAIN patterns : patterns'[i].lesson = m
    <3>1. CASE m = l
      BY <2>1, <2>5, <3>1
    <3>2. CASE m # l
      <4>1. learned[m] > 0
        BY <1>1, <2>7, <3>2
      <4>2. PICK i \in DOMAIN patterns : patterns[i].lesson = m
        BY <4>1 DEF PatternInv
      <4> QED
        BY <2>5, <4>2
    <3> QED
      BY <3>1, <3>2
  <2> QED
    BY <1>1, <2>4, <2>5, <2>6, <2>7 DEF PatternInv
<1> QED
  BY <1>2, <1>3

\* The version that a proposal begins with is above all of its target.
LEMMA LatestIsAbove ==
  ASSUME VersionInv, NEW t \in Prompt
  PROVE  /\ Lessons!LatestVersion(t) \in Nat
         /\ \A w \in Lessons!Versions(t) : w <= Lessons!LatestVersion(t)
<1> DEFINE V == Lessons!Versions(t)
<1>1. V \in SUBSET Nat
  <2>1. \A i \in DOMAIN mutations : mutations[i].version \in Nat
    BY RowFields DEF VersionInv
  <2> QED
    BY <2>1 DEF Lessons!Versions
<1>2. CASE V = {}
  BY <1>2 DEF Lessons!LatestVersion
<1>3. CASE V # {}
  <2> DEFINE U == {n \in Nat : \A w \in V : w <= n}
  <2>1. U \in SUBSET Nat /\ U # {}
    <3>1. PICK bound \in Nat : \A i \in DOMAIN mutations : mutations[i].version <= bound
      BY DEF VersionInv
    <3>2. \A w \in V : w <= bound
      BY <3>1 DEF Lessons!Versions
    <3> HIDE DEF V
    <3> QED
      BY <3>2
  <2>2. PICK n \in U : \A m \in U : n <= m
    <3> HIDE DEF U
    <3> QED
      BY <2>1, LeastNatural
  <2> HIDE DEF V
  <2>3. n \in V
    <3>1. CASE n = 0
      <4>1. \A w \in V : w \in Nat /\ w <= 0
        BY <1>1, <2>2, <3>1
      <4> QED
        BY <1>3, <3>1, <4>1
    <3>2. CASE n # 0 /\ n \notin V
      <4>1. \A w \in V : w <= n - 1
        BY <1>1, <2>2, <3>2
      <4>2. n - 1 \in U
        BY <2>2, <3>2, <4>1
      <4> QED
        BY <2>2, <4>2
    <3> QED
      BY <3>1, <3>2
  <2>4. \A w \in V : w <= n
    BY <2>2
  <2> DEFINE m == CHOOSE v \in V : \A w \in V : w <= v
  <2>5. m \in V /\ \A w \in V : w <= m
    BY <2>3, <2>4
  <2>6. Lessons!LatestVersion(t) = m
    BY <1>3 DEF Lessons!LatestVersion, V
  <2> QED
    BY <1>1, <2>5, <2>6 DEF V
<1> QED
  BY <1>2, <1>3

LEMMA BeginProposalKeeps ==
  ASSUME VersionInv, NEW p \in Proposal, NEW t \in Prompt,
         Lessons!BeginProposal(p, t)
  PROVE  VersionInv'
<1> DEFINE v == Lessons!LatestVersion(t)
           new == [target |-> t, version |-> v + 1, overtaken |-> FALSE]
<1>1. v \in Nat /\ \A w \in Lessons!Versions(t) : w <= v
  BY LatestIsAbove
<1>2. /\ proposals' = [proposals EXCEPT ![p] = new] /\ UNCHANGED mutations
  BY DEF Lessons!BeginProposal
<1> HIDE DEF v
<1>3. /\ new \in Waiting /\ new.target = t /\ new.version = v + 1
  BY <1>1 DEF Waiting
<1> HIDE DEF new
<1>4. proposals \in [Proposal -> Waiting] /\ mutations \in Seq(Mutation)
  BY DEF VersionInv
<1>5. \A i \in DOMAIN mutations : mutations[i].target = t => mutations[i].version < v + 1
  <2>1. ASSUME NEW i \in DOMAIN mutations, mutations[i].target = t
        PROVE  mutations[i].version < v + 1
    <3>1. mutations[i].version \in Lessons!Versions(t)
      BY <2>1 DEF Lessons!Versions
    <3>2. mutations[i].version \in Nat
      BY <1>4, RowFields
    <3> QED
      BY <1>1, <3>1, <3>2
  <2> QED
    BY <2>1
<1>6. /\ proposals' \in [Proposal -> Waiting]
      /\ \A q \in Proposal : proposals'[q] = IF q = p THEN new ELSE proposals[q]
  BY <1>2, <1>3, <1>4
<1> QED
  BY <1>2, <1>3, <1>4, <1>5, <1>6 DEF VersionInv

LEMMA EndProposalKeeps ==
  ASSUME VersionInv, NEW p \in Proposal, NEW valid \in BOOLEAN,
         Lessons!EndProposal(p, valid)
  PROVE  VersionInv'
<1> DEFINE new == proposals[p]
           row == [target |-> new.target, version |-> new.version, valid |-> valid,
                   status |-> "active", overtaken |-> new.overtaken]
           k == Len(mutations) + 1
<1>1. /\ mutations \in Seq(Mutation) /\ proposals \in [Proposal -> Waiting]
      /\ new # Lessons!NoProposal
      /\ new.target \in Prompt /\ new \in Waiting
  BY DEF VersionInv, Lessons!EndProposal
<1>2. /\ mutations' = Append(mutations, row)
      /\ proposals' = [q \in Proposal |->
           IF q = p THEN Lessons!NoProposal
           ELSE IF proposals[q].target = new.target
                THEN [proposals[q] EXCEPT !.overtaken = TRUE] ELSE proposals[q]]
  BY DEF Lessons!EndProposal
<1>3. /\ \/ new.overtaken
         \/ \A i \in DOMAIN mutations :
              mutations[i].target = new.target => mutations[i].version < new.version
  BY <1>1 DEF VersionInv
<1> HIDE DEF new
<1>4. /\ row \in Mutation /\ row.target = new.target
      /\ row.version = new.version /\ row.overtaken = new.overtaken
      /\ new.version \in Nat
  BY <1>1 DEF Mutation, Waiting
<1> HIDE DEF row
<1>5. /\ mutations' \in Seq(Mutation) /\ Len(mutations') = k
      /\ mutations'[k] = row
      /\ \A i \in 1 .. Len(mutations) : mutations'[i] = mutations[i]
  BY <1>1, <1>2, <1>4, AppendIndexes
<1>6. /\ \A i \in DOMAIN mutations' : i \in DOMAIN mutations \/ i = k
      /\ k - 1 = Len(mutations) /\ k \in Nat
      /\ \A i \in DOMAIN mutations : i \in 1 .. Len(mutations)
  BY <1>1, <1>5
<1>7. \E bound \in Nat : \A i \in DOMAIN mutations' : mutations'[i].version <= bound
  <2>1. PICK b \in Nat : \A i \in DOMAIN mutations : mutations[i].version <= b
    BY DEF VersionInv
  <2>2. \A i \in DOMAIN mutations : mutations[i].version \in Nat
    BY <1>1, RowFields
  <2> DEFINE c == b + new.version
  <2>3. c \in Nat /\ \A i \in DOMAIN mutations' : mutations'[i].version <= c
    <3> HIDE DEF k
    <3> QED
      BY <1>4, <1>5, <1>6, <2>1, <2>2
  <2> QED
    BY <2>3
<1>8. ASSUME NEW q \in Proposal
      PROVE  /\ proposals'[q] \in Waiting
             /\ proposals'[q] # Lessons!NoProposal =>
                  /\ q # p
                  /\ \/ /\ proposals'[q].target = new.target /\ proposals'[q].overtaken
                     \/ /\ proposals'[q] = proposals[q]
                        /\ proposals[q].target # new.target
  <2>1. proposals[q] \in Waiting
    BY <1>1
  <2>2. CASE q = p
    BY <1>2, <2>2 DEF Waiting, Lessons!NoProposal
  <2>3. CASE q # p /\ proposals[q].target = new.target
    <3>1. proposals'[q] = [proposals[q] EXCEPT !.overtaken = TRUE]
      BY <1>2, <2>3
    <3> QED
      BY <2>1, <2>3, <3>1 DEF Waiting
  <2>4. CASE q # p /\ proposals[q].target # new.target
    BY <1>2, <2>1, <2>4
  <2> QED
    BY <2>2, <2>3, <2>4
<1>9. proposals' \in [Proposal -> Waiting]
  <2>1. proposals' = [q \in Proposal |-> proposals'[q]]
    BY <1>2
  <2> QED
    BY <1>8, <2>1
<1>10. ASSUME NEW q \in Proposal, proposals'[q] # Lessons!NoProposal
       PROVE  /\ proposals'[q].target \in Prompt
              /\ \/ proposals'[q].overtaken
                 \/ \A i \in DOMAIN mutations' :
                      mutations'[i].target = proposals'[q].target =>
                        mutations'[i].version < proposals'[q].version
  <2>1. CASE proposals'[q].target = new.target /\ proposals'[q].overtaken
    BY <1>1, <2>1
  <2>2. CASE proposals'[q] = proposals[q] /\ proposals[q].target # new.target
    <3> HIDE DEF k
    <3>1. proposals[q] # Lessons!NoProposal
      BY <1>10, <2>2
    <3> QED
      BY <1>4, <1>5, <1>6, <2>2, <3>1 DEF VersionInv
  <2> QED
    BY <1>8, <1>10, <2>1, <2>2
<1>11. ASSUME NEW j \in DOMAIN mutations', NEW i \in 1 .. j - 1,
              mutations'[i].target = mutations'[j].target
       PROVE  mutations'[i].version < mutations'[j].version \/ mutations'[j].overtaken
  <2>1. CASE j = k
    <3>1. i \in DOMAIN mutations /\ mutations'[i] = mutations[i]
      BY <1>1, <1>5, <1>6, <2>1
    <3> QED
      BY <1>3, <1>4, <1>5, <1>11, <2>1, <3>1
  <2>2. CASE j \in DOMAIN mutations
    <3>1. i \in 1 .. Len(mutations) /\ j \in 1 .. Len(mutations)
      BY <1>1, <2>2
    <3> QED
      BY <1>5, <1>11, <2>2, <3>1 DEF VersionInv
  <2> QED
    BY <1>6, <2>1, <2>2
<1> QED
  BY <1>5, <1>7, <1>9, <1>10, <1>11 DEF VersionInv

LEMMA SetStatusKeeps ==
  ASSUME VersionInv, NEW i \in DOMAIN mutations,
         NEW status \in {"active", "rolled_back"}, Lessons!SetStatus(i, status)
  PROVE  VersionInv'
<1> DEFINE r == [mutations[i] EXCEPT !.status = status]
<1>1. mutations \in Seq(Mutation) /\ mutations[i] \in Mutation
  BY DEF VersionInv
<1>2. mutations' = [mutations EXCEPT ![i] = r] /\ UNCHANGED proposals
  BY DEF Lessons!SetStatus
<1>3. /\ r \in Mutation /\ r.target = mutations[i].target
      /\ r.version = mutations[i].version /\ r.overtaken = mutations[i].overtaken
  BY <1>1 DEF Mutation
<1> HIDE DEF r
<1>4. /\ mutations' \in Seq(Mutation) /\ DOMAIN mutations' = DOMAIN mutations
      /\ \A j \in DOMAIN mutations :
           mutations'[j] = IF j = i THEN r ELSE mutations[j]
  BY <1>1, <1>2, <1>3
<1>5. \A j \in DOMAIN mutations :
        /\ mutations'[j].target = mutations[j].target
        /\ mutations'[j].version = mutations[j].version
        /\ mutations'[j].overtaken = mutations[j].overtaken
        /\ \A k \in 1 .. j - 1 : k \in DOMAIN mutations
  BY <1>1, <1>3, <1>4
<1>6. \E bound \in Nat : \A j \in DOMAIN mutations' : mutations'[j].version <= bound
  BY <1>4, <1>5 DEF VersionInv
<1>7. ASSUME NEW q \in Proposal, proposals[q] # Lessons!NoProposal
      PROVE  /\ proposals[q].target \in Prompt
             /\ \/ proposals[q].overtaken
                \/ \A j \in DOMAIN mutations' :
                     mutations'[j].target = proposals[q].target =>
                       mutations'[j].version < proposals[q].version
  BY <1>4, <1>5, <1>7 DEF VersionInv
<1>8. ASSUME NEW j \in DOMAIN mutations, NEW k \in 1 .. j - 1,
             mutations'[k].target = mutations'[j].target
      PROVE  mutations'[k].version < mutations'[j].version \/ mutations'[j].overtaken
  <2>1. k \in DOMAIN mutations
    BY <1>5
  <2> QED
    BY <1>5, <1>8, <2>1 DEF VersionInv
<1>9. proposals' \in [Proposal -> Waiting]
  BY <1>2 DEF VersionInv
<1> QED
  BY <1>2, <1>4, <1>6, <1>7, <1>8, <1>9 DEF VersionInv

LEMMA LessonsStep ==
  PatternInv /\ VersionInv /\ [Lessons!Next]_(Lessons!vars)
    => PatternInv' /\ VersionInv'
<1> SUFFICES ASSUME PatternInv, VersionInv, [Lessons!Next]_(Lessons!vars)
             PROVE  PatternInv' /\ VersionInv'
  OBVIOUS
<1>1. ASSUME UNCHANGED <<patterns, learned>>
      PROVE  PatternInv'
  BY <1>1 DEF PatternInv
<1>2. ASSUME UNCHANGED <<proposals, mutations>>
      PROVE  VersionInv'
  BY <1>2 DEF VersionInv
<1>3. ASSUME NEW a \in Analysis, NEW success \in BOOLEAN,
             Lessons!ProcessTrace(a, success)
      PROVE  PatternInv' /\ VersionInv'
  BY <1>1, <1>2, <1>3 DEF Lessons!ProcessTrace
<1>4. ASSUME NEW a \in analyses, NEW l \in Lesson, Lessons!EndAnalysis(a, l)
      PROVE  PatternInv' /\ VersionInv'
  BY <1>2, <1>4, RecordKeeps DEF Lessons!EndAnalysis
<1>5. ASSUME NEW p \in Proposal, NEW t \in Prompt, Lessons!BeginProposal(p, t)
      PROVE  PatternInv' /\ VersionInv'
  <2>1. UNCHANGED <<patterns, learned>>
    BY <1>5 DEF Lessons!BeginProposal
  <2> QED
    BY <1>1, <1>5, <2>1, BeginProposalKeeps
<1>6. ASSUME NEW p \in Proposal, NEW valid \in BOOLEAN, Lessons!EndProposal(p, valid)
      PROVE  PatternInv' /\ VersionInv'
  <2>1. UNCHANGED <<patterns, learned>>
    BY <1>6 DEF Lessons!EndProposal
  <2> QED
    BY <1>1, <1>6, <2>1, EndProposalKeeps
<1>7. ASSUME NEW i \in DOMAIN mutations, NEW s \in {"active", "rolled_back"},
             Lessons!SetStatus(i, s)
      PROVE  PatternInv' /\ VersionInv'
  <2>1. UNCHANGED <<patterns, learned>>
    BY <1>7 DEF Lessons!SetStatus
  <2> QED
    BY <1>1, <1>7, <2>1, SetStatusKeeps
<1>8. CASE UNCHANGED Lessons!vars
  BY <1>1, <1>2, <1>8 DEF Lessons!vars
<1> QED
  BY <1>3, <1>4, <1>5, <1>6, <1>7, <1>8 DEF Lessons!Next

\* However analyses and proposals overlap, a lesson has one row that counts how
\* often it was drawn, and a later prompt has the higher version unless the
\* earlier was decided while it waited for the model
\* (anti-pattern-store.ts, prompt-evolution-engine.ts).
THEOREM LearningStaysOrdered == Lessons!Spec => []LearningIsOrdered
<1>1. PatternInv /\ VersionInv => LearningIsOrdered
  BY LearnedWhenPatterned, OrderedWhenVersioned DEF LearningIsOrdered
<1> QED
  BY <1>1, LessonsInit, LessonsStep, PTL DEF Lessons!Spec

-----------------------------------------------------------------------------
(***************************************************************************)
(* Facts are drawn at least once, and dreams retract the superseded only.  *)
(***************************************************************************)
EpisodeRow == [task : Subject, summary : Object, time : Time, tool : BOOLEAN,
               important : BOOLEAN, consolidated : BOOLEAN]
FactRow == [key : Subject, object : Object, from : Time, confidence : Nat,
            source : Nat, active : BOOLEAN]

\* The rows of the two tables; a fact comes from nowhere or from an episode.
TablesInv ==
  /\ rows \in Seq(EpisodeRow)
  /\ facts \in Seq(FactRow)
  /\ \A f \in DOMAIN facts : facts[f].source = 0 \/ facts[f].source \in DOMAIN rows

\* Something about the same key is newer, in the sense of dream.
Newer(g, f) ==
  \/ facts[g].from > facts[f].from
  \/ /\ facts[g].from = facts[f].from
     /\ \/ facts[g].confidence < facts[f].confidence
        \/ facts[g].confidence = facts[f].confidence /\ g < f
Beaten(f) == \E g \in DOMAIN facts : facts[g].key = facts[f].key /\ Newer(g, f)

\* A dream is about to retract, or has retracted, only what is beaten.
DreamInv ==
  /\ DOMAIN dreams = Dream
  /\ \A d \in Dream : \A x \in dreams[d] : x.of \in DOMAIN facts /\ Beaten(x.of)
  /\ \A f \in DOMAIN facts : ~facts[f].active => f \in denied \/ Beaten(f)

\* What a cycle has yet to do for an episode.
Marks(c, t, e) == \E x \in cycles[c] : x.do = "mark" /\ x.task = t /\ e \in x.of
Draws(c, t, e) == \E x \in cycles[c] : x.do = "fact" /\ x.task = t /\ x.of = {e}
Drawn(e) == \E f \in DOMAIN facts : facts[f].source = e

\* The statements of a cycle: a fact is drawn from one episode, once, and before
\* the mark that is to follow; what is to be marked has its facts, drawn or due.
WorkInv ==
  /\ DOMAIN cycles = Cycle
  /\ \A c \in Cycle : \A x \in cycles[c] :
       /\ x.do \in {"procedure", "fact", "mark"}
       /\ x.do = "mark" =>
            \A e \in x.of : /\ e \in DOMAIN rows
                            /\ rows[e].task = x.task
                            /\ rows[e].important => Drawn(e) \/ Draws(c, x.task, e)
       /\ x.do = "fact" =>
            /\ \E e \in DOMAIN rows : x.of = {e} /\ Marks(c, x.task, e)
            /\ \A y \in cycles[c] : y.do = "fact" /\ y.of = x.of => y = x

\* What is consolidated has its fact.
ConsolidatedInv ==
  \A e \in DOMAIN rows :
    rows[e].consolidated /\ rows[e].important => Drawn(e)

\* An episode that no two cycles meet: one cycle is at it, it has one fact at
\* the most, and none while a cycle is to draw it or none has begun.
OnceInv ==
  \A e \in DOMAIN rows \ again :
    /\ \A c, d \in Cycle : \A t, u \in Subject :
         Marks(c, t, e) /\ Marks(d, u, e) => c = d
    /\ \A f, g \in DOMAIN facts :
         facts[f].source = e /\ facts[g].source = e => f = g
    /\ \A c \in Cycle : \A t \in Subject : Draws(c, t, e) => ~Drawn(e)
    /\ Drawn(e) => \/ rows[e].consolidated
                   \/ \E c \in Cycle : \E t \in Subject : Marks(c, t, e)

\* What a step does to rows that are there: it changes two flags at most.
RowsGrow ==
  /\ DOMAIN rows \subseteq DOMAIN rows'
  /\ \A e \in DOMAIN rows : /\ rows'[e].task = rows[e].task
                           /\ rows'[e].important = rows[e].important
FactsGrow ==
  /\ DOMAIN facts \subseteq DOMAIN facts'
  /\ \A f \in DOMAIN facts : /\ facts'[f].key = facts[f].key
                            /\ facts'[f].from = facts[f].from
                            /\ facts'[f].confidence = facts[f].confidence
                            /\ facts'[f].source = facts[f].source

LEMMA TableFields ==
  ASSUME TablesInv
  PROVE  /\ Len(rows) \in Nat /\ DOMAIN rows = 1 .. Len(rows)
         /\ Len(facts) \in Nat /\ DOMAIN facts = 1 .. Len(facts)
         /\ \A e \in DOMAIN rows :
              /\ rows[e] \in EpisodeRow /\ rows[e].task \in Subject
              /\ rows[e].summary \in Object /\ rows[e].time \in Time
         /\ \A f \in DOMAIN facts :
              /\ facts[f] \in FactRow /\ facts[f].confidence \in Nat
              /\ facts[f].from \in Int
<1>1. ASSUME NEW e \in DOMAIN rows
      PROVE  /\ rows[e] \in EpisodeRow /\ rows[e].task \in Subject
             /\ rows[e].summary \in Object /\ rows[e].time \in Time
  <2>1. rows[e] \in EpisodeRow
    BY DEF TablesInv
  <2> QED
    BY <2>1 DEF EpisodeRow
<1>2. ASSUME NEW f \in DOMAIN facts
      PROVE  /\ facts[f] \in FactRow /\ facts[f].confidence \in Nat
             /\ facts[f].from \in Int
  <2>1. facts[f] \in FactRow
    BY DEF TablesInv
  <2> QED
    BY <2>1, RecordsAssumption DEF FactRow
<1> QED
  BY <1>1, <1>2 DEF TablesInv

LEMMA FactAppended ==
  ASSUME TablesInv, NEW r \in FactRow, facts' = Append(facts, r)
  PROVE  /\ facts' \in Seq(FactRow)
         /\ DOMAIN facts' = DOMAIN facts \cup {Len(facts) + 1}
         /\ facts'[Len(facts) + 1] = r
         /\ \A f \in DOMAIN facts : facts'[f] = facts[f]
         /\ FactsGrow
<1>1. facts \in Seq(FactRow) /\ Len(facts) \in Nat /\ DOMAIN facts = 1 .. Len(facts)
  BY TableFields DEF TablesInv
<1>2. /\ facts' \in Seq(FactRow) /\ Len(facts') = Len(facts) + 1
      /\ facts'[Len(facts) + 1] = r
      /\ \A f \in 1 .. Len(facts) : facts'[f] = facts[f]
  BY <1>1, AppendIndexes
<1>3. DOMAIN facts' = 1 .. Len(facts) + 1
  BY <1>2
<1> QED
  BY <1>1, <1>2, <1>3 DEF FactsGrow

LEMMA FactRetracted ==
  ASSUME TablesInv, NEW f \in DOMAIN facts, facts' = Store!Retracted(f)
  PROVE  /\ facts' \in Seq(FactRow) /\ DOMAIN facts' = DOMAIN facts
         /\ \A g \in DOMAIN facts \ {f} : facts'[g] = facts[g]
         /\ FactsGrow
<1>1. facts[f] \in FactRow
  BY TableFields
<1>2. [facts[f] EXCEPT !.active = FALSE] \in FactRow
  BY <1>1 DEF FactRow
<1> DEFINE r == [facts[f] EXCEPT !.active = FALSE]
<1>3. /\ r.key = facts[f].key /\ r.from = facts[f].from
      /\ r.confidence = facts[f].confidence /\ r.source = facts[f].source
  BY <1>1 DEF FactRow
<1>4. facts' = [facts EXCEPT ![f] = r]
  BY DEF Store!Retracted
<1> HIDE DEF r
<1>5. facts' \in Seq(FactRow) /\ DOMAIN facts' = DOMAIN facts
  BY <1>2, <1>4 DEF TablesInv, r
<1>6. facts'[f] = r /\ \A g \in DOMAIN facts \ {f} : facts'[g] = facts[g]
  BY <1>4 DEF TablesInv
<1> QED
  BY <1>3, <1>5, <1>6 DEF FactsGrow

LEMMA RowAppended ==
  ASSUME TablesInv, NEW r \in EpisodeRow, rows' = Append(rows, r)
  PROVE  /\ rows' \in Seq(EpisodeRow)
         /\ DOMAIN rows' = DOMAIN rows \cup {Len(rows) + 1}
         /\ rows'[Len(rows) + 1] = r
         /\ \A e \in DOMAIN rows : rows'[e] = rows[e]
         /\ RowsGrow
<1>1. rows \in Seq(EpisodeRow) /\ Len(rows) \in Nat /\ DOMAIN rows = 1 .. Len(rows)
  BY TableFields DEF TablesInv
<1>2. /\ rows' \in Seq(EpisodeRow) /\ Len(rows') = Len(rows) + 1
      /\ rows'[Len(rows) + 1] = r
      /\ \A e \in 1 .. Len(rows) : rows'[e] = rows[e]
  BY <1>1, AppendIndexes
<1>3. DOMAIN rows' = 1 .. Len(rows) + 1
  BY <1>2
<1> QED
  BY <1>1, <1>2, <1>3 DEF RowsGrow

\* The mark of some episodes.
LEMMA RowsMarked ==
  ASSUME TablesInv, NEW S,
         rows' = [e \in DOMAIN rows |->
                    IF e \in S THEN [rows[e] EXCEPT !.consolidated = TRUE]
                    ELSE rows[e]]
  PROVE  /\ rows' \in Seq(EpisodeRow) /\ DOMAIN rows' = DOMAIN rows
         /\ \A e \in DOMAIN rows : e \notin S => rows'[e] = rows[e]
         /\ \A e \in DOMAIN rows : e \in S => rows'[e].consolidated
         /\ RowsGrow
<1>1. ASSUME NEW e \in DOMAIN rows
      PROVE  /\ rows'[e] \in EpisodeRow
             /\ rows'[e].task = rows[e].task
             /\ rows'[e].important = rows[e].important
             /\ e \in S => rows'[e].consolidated
             /\ e \notin S => rows'[e] = rows[e]
  <2>1. rows[e] \in EpisodeRow
    BY TableFields
  <2>2. CASE e \in S
    BY <2>1, <2>2 DEF EpisodeRow
  <2>3. CASE e \notin S
    BY <2>1, <2>3
  <2> QED
    BY <2>2, <2>3
<1>2. DOMAIN rows' = DOMAIN rows
  OBVIOUS
<1>3. Len(rows) \in Nat /\ DOMAIN rows = 1 .. Len(rows)
  BY TableFields
<1>4. rows' \in [1 .. Len(rows) -> EpisodeRow]
  BY <1>1, <1>2, <1>3
<1>5. rows' \in Seq(EpisodeRow)
  BY <1>3, <1>4
<1> QED
  BY <1>1, <1>2, <1>5 DEF RowsGrow

\* The statements for one task: its mark, its facts and perhaps a procedure.
Statement(what, t, first, of) ==
  [do |-> what, task |-> t, first |-> first, of |-> of]
OfTask(t, B) == {e \in B : rows[e].task = t}

LEMMA WorkShape ==
  ASSUME NEW t, NEW B
  PROVE  \E first :
           /\ Statement("mark", t, first, OfTask(t, B)) \in Store!WorkOn(t, B)
           /\ \A e \in OfTask(t, B) : rows[e].important =>
                Statement("fact", t, first, {e}) \in Store!WorkOn(t, B)
           /\ \A x \in Store!WorkOn(t, B) :
                \/ x = Statement("mark", t, first, OfTask(t, B))
                \/ \E e \in OfTask(t, B) : x = Statement("fact", t, first, {e})
                \/ x.do = "procedure" /\ x.task = t
<1> DEFINE mine == OfTask(t, B)
           tools == {e \in mine : rows[e].tool}
           first == CHOOSE e \in mine : \A d \in mine \ {e} : Store!Older(e, d)
           rest == IF Store!Cardinality(tools) < 2 THEN {}
                   ELSE {Statement("procedure", t, first, tools)}
           weighty == {d \in mine : rows[d].important}
           W == Store!WorkOn(t, B)
<1>1. W = {Statement("mark", t, first, mine)}
          \cup {Statement("fact", t, first, {e}) : e \in weighty} \cup rest
  BY DEF Store!WorkOn, Statement, OfTask
<1>2. \A x \in rest : x.do = "procedure" /\ x.task = t
  BY DEF Statement
<1> HIDE DEF first, rest, tools, mine, W
<1>3. \A x \in W :
        \/ x = Statement("mark", t, first, mine)
        \/ \E e \in mine : x = Statement("fact", t, first, {e})
        \/ x.do = "procedure" /\ x.task = t
  BY <1>1, <1>2
<1>4. /\ Statement("mark", t, first, mine) \in W
      /\ \A e \in mine : rows[e].important => Statement("fact", t, first, {e}) \in W
  BY <1>1
<1> QED
  BY <1>3, <1>4 DEF W, mine

LEMMA WorkHolds ==
  ASSUME NEW t, NEW B, NEW x \in Store!WorkOn(t, B)
  PROVE  /\ x.do \in {"procedure", "fact", "mark"} /\ x.task = t
         /\ x.do = "mark" => x.of = OfTask(t, B)
         /\ x.do = "fact" => \E e \in OfTask(t, B) : x.of = {e}
         /\ x.do = "fact" => \A y \in Store!WorkOn(t, B) :
              y.do = "fact" /\ y.of = x.of => y = x
<1> DEFINE W == Store!WorkOn(t, B)
           mine == OfTask(t, B)
<1>1. PICK first :
        /\ Statement("mark", t, first, mine) \in W
        /\ \A e \in mine : rows[e].important => Statement("fact", t, first, {e}) \in W
        /\ \A y \in W :
             \/ y = Statement("mark", t, first, mine)
             \/ \E e \in mine : y = Statement("fact", t, first, {e})
             \/ y.do = "procedure" /\ y.task = t
  BY WorkShape
<1>2. x \in W
  OBVIOUS
<1> HIDE DEF W, mine
<1>3. /\ x.do \in {"procedure", "fact", "mark"} /\ x.task = t
      /\ x.do = "mark" => x.of = mine
      /\ x.do = "fact" => \E e \in mine : x.of = {e}
  BY <1>1, <1>2 DEF Statement
<1>4. ASSUME x.do = "fact", NEW y \in W, y.do = "fact", y.of = x.of
      PROVE  y = x
  <2>1. PICK e \in mine : x = Statement("fact", t, first, {e})
    BY <1>1, <1>2, <1>4 DEF Statement
  <2>2. PICK d \in mine : y = Statement("fact", t, first, {d})
    BY <1>1, <1>4 DEF Statement
  <2>3. {e} = {d}
    BY <1>4, <2>1, <2>2 DEF Statement
  <2>4. e = d
    BY <2>3
  <2> QED
    BY <2>1, <2>2, <2>4
<1> QED
  BY <1>3, <1>4 DEF W, mine

LEMMA WorkHas ==
  ASSUME NEW t, NEW B, NEW e \in OfTask(t, B)
  PROVE  /\ \E x \in Store!WorkOn(t, B) :
              x.do = "mark" /\ x.task = t /\ e \in x.of
         /\ rows[e].important => \E x \in Store!WorkOn(t, B) :
              x.do = "fact" /\ x.task = t /\ x.of = {e}
<1> DEFINE W == Store!WorkOn(t, B)
           mine == OfTask(t, B)
<1>1. PICK first :
        /\ Statement("mark", t, first, mine) \in W
        /\ \A d \in mine : rows[d].important => Statement("fact", t, first, {d}) \in W
        /\ \A y \in W :
             \/ y = Statement("mark", t, first, mine)
             \/ \E d \in mine : y = Statement("fact", t, first, {d})
             \/ y.do = "procedure" /\ y.task = t
  BY WorkShape
<1>2. e \in mine
  OBVIOUS
<1> HIDE DEF W, mine
<1>3. \E x \in W : x.do = "mark" /\ x.task = t /\ e \in x.of
  BY <1>1, <1>2 DEF Statement
<1>4. rows[e].important => \E x \in W : x.do = "fact" /\ x.task = t /\ x.of = {e}
  BY <1>1, <1>2 DEF Statement
<1> QED
  BY <1>3, <1>4 DEF W

LEMMA BeatenStays ==
  ASSUME TablesInv, FactsGrow, NEW f \in DOMAIN facts, Beaten(f)
  PROVE  Beaten(f)'
<1>1. PICK g \in DOMAIN facts : facts[g].key = facts[f].key /\ Newer(g, f)
  BY DEF Beaten
<1>2. g \in DOMAIN facts' /\ facts'[g].key = facts'[f].key
  BY <1>1 DEF FactsGrow
<1>3. Newer(g, f)'
  BY <1>1 DEF FactsGrow, Newer
<1> QED
  BY <1>2, <1>3 DEF Beaten

LEMMA BeatenIsNotNewest ==
  ASSUME TablesInv, NEW f \in DOMAIN facts, Beaten(f)
  PROVE  ~Store!IsNewest(f)
<1>1. PICK g \in DOMAIN facts : facts[g].key = facts[f].key /\ Newer(g, f)
  BY DEF Beaten
<1>2. /\ facts[f].confidence \in Nat /\ facts[g].confidence \in Nat
      /\ facts[f].from \in Int /\ facts[g].from \in Int
      /\ f \in Nat /\ g \in Nat
  BY TableFields
<1> QED
  BY <1>1, <1>2 DEF Newer, Store!IsNewest

LEMMA SupersededIsBeaten ==
  ASSUME TablesInv, NEW S, NEW f \in Store!Superseded(S), S \subseteq DOMAIN facts
  PROVE  f \in DOMAIN facts /\ Beaten(f)
<1>1. f \in S
  BY DEF Store!Superseded
<1>2. PICK g \in Store!OfKey(f, S) :
        /\ \A h \in Store!OfKey(f, S) \ {g} :
             \/ facts[g].from > facts[h].from
             \/ facts[g].from = facts[h].from /\ Store!Surer(h, g)
        /\ facts[f].object # facts[g].object
  BY DEF Store!Superseded
<1>3. f \in Store!OfKey(f, S) /\ f # g
  BY <1>1, <1>2 DEF Store!OfKey
<1>4. \/ facts[g].from > facts[f].from
      \/ facts[g].from = facts[f].from /\ Store!Surer(f, g)
  BY <1>2, <1>3
<1>5. g \in DOMAIN facts /\ facts[g].key = facts[f].key
  BY <1>2 DEF Store!OfKey
<1>6. /\ facts[f].confidence \in Nat /\ facts[g].confidence \in Nat
      /\ f \in Nat /\ g \in Nat
  BY <1>1, <1>5, TableFields
<1>7. Newer(g, f)
  BY <1>4, <1>6 DEF Newer, Store!Surer
<1> QED
  BY <1>1, <1>5, <1>7 DEF Beaten

\* Old facts stay as they are or are retracted with reason; new ones are active.
LEMMA DreamKeeps ==
  ASSUME TablesInv, DreamInv, FactsGrow, DOMAIN dreams' = Dream,
         \A d \in Dream : \A x \in dreams'[d] :
           \/ \E e \in Dream : x \in dreams[e]
           \/ x.of \in DOMAIN facts /\ Beaten(x.of),
         denied \subseteq denied',
         \A f \in DOMAIN facts' : ~facts'[f].active =>
           /\ f \in DOMAIN facts
           /\ facts[f].active => f \in denied' \/ Beaten(f)
  PROVE  DreamInv'
<1>1. ASSUME NEW d \in Dream, NEW x \in dreams'[d]
      PROVE  x.of \in DOMAIN facts' /\ Beaten(x.of)'
  <2>1. x.of \in DOMAIN facts /\ Beaten(x.of)
    BY <1>1 DEF DreamInv
  <2> DEFINE f == x.of
  <2>2. f \in DOMAIN facts /\ Beaten(f)
    BY <2>1
  <2> HIDE DEF f
  <2>3. Beaten(f)'
    BY <2>2, BeatenStays
  <2>4. f \in DOMAIN facts'
    BY <2>2 DEF FactsGrow
  <2> QED
    BY <2>3, <2>4 DEF f
<1>2. ASSUME NEW f \in DOMAIN facts', ~facts'[f].active
      PROVE  f \in denied' \/ Beaten(f)'
  <2>1. f \in DOMAIN facts /\ (facts[f].active => f \in denied' \/ Beaten(f))
    BY <1>2
  <2>2. f \in denied' \/ Beaten(f)
    BY <2>1 DEF DreamInv
  <2> QED
    BY <2>1, <2>2, BeatenStays
<1> QED
  BY <1>1, <1>2 DEF DreamInv

LEMMA FactsSame ==
  ASSUME UNCHANGED facts
  PROVE  FactsGrow
  BY DEF FactsGrow

LEMMA AssertedIsRow ==
  ASSUME NEW f \in NewFacts
  PROVE  Store!Fact(f, 0) \in FactRow /\ Store!Fact(f, 0).active
                                      /\ Store!Fact(f, 0).source = 0
<1>1. f \in [key : Subject, object : Object, from : Time, confidence : Nat]
  BY RecordsAssumption
<1> QED
  BY <1>1 DEF Store!Fact, FactRow

LEMMA ExtractedIsRow ==
  ASSUME TablesInv, NEW e \in DOMAIN rows
  PROVE  Store!Extracted(e) \in FactRow /\ Store!Extracted(e).active
                                        /\ Store!Extracted(e).source = e
<1>1. /\ rows[e].task \in Subject /\ rows[e].summary \in Object
      /\ rows[e].time \in Time /\ e \in Nat
  BY TableFields
<1> QED
  BY <1>1 DEF Store!Extracted, Store!Fact, FactRow

LEMMA RecordedIsRow ==
  ASSUME NEW e \in NewEpisodes
  PROVE  Store!Episode(e) \in EpisodeRow /\ ~Store!Episode(e).consolidated
<1>1. e \in [task : Subject, summary : Object, time : Time, tool : BOOLEAN,
             important : BOOLEAN]
  BY RecordsAssumption
<1> QED
  BY <1>1 DEF Store!Episode, EpisodeRow

LEMMA DreamStepKeeps ==
  ASSUME TablesInv, DreamInv, NEW d \in Dream, Store!DreamStep(d)
  PROVE  /\ facts' \in Seq(FactRow) /\ DOMAIN facts' = DOMAIN facts /\ FactsGrow
         /\ DreamInv'
<1>1. PICK x \in dreams[d] : /\ facts' = Store!Retracted(x.of)
                             /\ dreams' = [dreams EXCEPT ![d] = @ \ {x}]
                             /\ denied' = denied
  BY DEF Store!DreamStep
<1> DEFINE f == x.of
<1>2. f \in DOMAIN facts /\ Beaten(f) /\ facts' = Store!Retracted(f)
  BY <1>1 DEF DreamInv
<1> HIDE DEF f
<1>3. /\ facts' \in Seq(FactRow) /\ DOMAIN facts' = DOMAIN facts /\ FactsGrow
      /\ \A g \in DOMAIN facts \ {f} : facts'[g] = facts[g]
  BY <1>2, FactRetracted
<1>4. ASSUME NEW g \in DOMAIN facts', ~facts'[g].active
      PROVE  g \in DOMAIN facts /\ (facts[g].active => g \in denied' \/ Beaten(g))
  <2>1. CASE g = f
    BY <1>2, <2>1
  <2>2. CASE g # f
    <3>1. g \in DOMAIN facts /\ facts'[g] = facts[g]
      BY <1>3, <2>2
    <3> QED
      BY <1>4, <3>1
  <2> QED
    BY <2>1, <2>2
<1>5. DOMAIN dreams' = Dream /\ \A e \in Dream : dreams'[e] \subseteq dreams[e]
  BY <1>1 DEF DreamInv
<1>6. DreamInv'
  BY <1>1, <1>3, <1>4, <1>5, DreamKeeps
<1> QED
  BY <1>3, <1>6

LEMMA BeginDreamKeeps ==
  ASSUME TablesInv, DreamInv, NEW d \in Dream, Store!BeginDream(d)
  PROVE  DreamInv'
<1>1. /\ dreams' = [dreams EXCEPT ![d] = Store!Retractions(Store!Active)]
      /\ UNCHANGED <<facts, denied>>
  BY DEF Store!BeginDream
<1> DEFINE S == Store!Active
<1>2. S \subseteq DOMAIN facts
  BY DEF Store!Active
<1>3. \A x \in Store!Retractions(S) : x.of \in Store!Superseded(S)
  BY DEF Store!Retractions
<1> HIDE DEF S
<1>4. \A x \in Store!Retractions(S) : x.of \in DOMAIN facts /\ Beaten(x.of)
  BY <1>2, <1>3, SupersededIsBeaten
<1>5. /\ DOMAIN dreams' = Dream
      /\ \A e \in Dream : dreams'[e] = dreams[e] \/ dreams'[e] = Store!Retractions(S)
  BY <1>1 DEF DreamInv, S
<1>6. \A f \in DOMAIN facts' : ~facts'[f].active =>
        /\ f \in DOMAIN facts
        /\ facts[f].active => f \in denied' \/ Beaten(f)
  BY <1>1
<1>7. \A e \in Dream : \A x \in dreams'[e] :
        \/ \E i \in Dream : x \in dreams[i]
        \/ x.of \in DOMAIN facts /\ Beaten(x.of)
  BY <1>4, <1>5
<1> QED
  BY <1>1, <1>5, <1>6, <1>7, FactsSame, DreamKeeps

CyclesInv == WorkInv /\ ConsolidatedInv /\ OnceInv

LEMMA MarksAreUnmarked ==
  ASSUME NEW c, NEW t, NEW e, Marks(c, t, e)
  PROVE  e \in Store!Unmarked(c)
  BY DEF Marks, Store!Unmarked

\* A mark that is due is of an episode of its task.
LEMMA MarksAreTyped ==
  ASSUME TablesInv, WorkInv, NEW c \in Cycle, NEW t, NEW e, Marks(c, t, e)
  PROVE  e \in DOMAIN rows /\ rows[e].task = t /\ t \in Subject
<1>1. e \in DOMAIN rows /\ rows[e].task = t
  BY DEF WorkInv, Marks
<1> QED
  BY <1>1, TableFields

\* What the cycles have to do stays, and others write.
LEMMA WritersKeep ==
  ASSUME TablesInv, CyclesInv, FactsGrow, cycles' = cycles, again' = again,
         0 \notin DOMAIN rows', DOMAIN rows \subseteq DOMAIN rows',
         \A e \in DOMAIN rows : rows'[e] = rows[e],
         \A e \in DOMAIN rows' \ DOMAIN rows : ~rows'[e].consolidated,
         \A f \in DOMAIN facts' \ DOMAIN facts : facts'[f].source = 0
  PROVE  CyclesInv'
<1>1. \A c, t, e : /\ Marks(c, t, e)' <=> Marks(c, t, e)
                   /\ Draws(c, t, e)' <=> Draws(c, t, e)
  BY DEF Marks, Draws
<1>2. \A e \in DOMAIN rows' : Drawn(e)' => e \in DOMAIN rows
  BY DEF TablesInv, FactsGrow, Drawn
<1>3. \A e \in DOMAIN rows' : Drawn(e)' <=> Drawn(e)
  BY DEF FactsGrow, Drawn
<1>4. WorkInv'
  <2>1. ASSUME NEW c \in Cycle, NEW x \in cycles[c], x.do = "mark", NEW e \in x.of
        PROVE  /\ e \in DOMAIN rows' /\ rows'[e].task = x.task
               /\ rows'[e].important => Drawn(e)' \/ Draws(c, x.task, e)'
    <3>1. /\ e \in DOMAIN rows /\ rows[e].task = x.task
          /\ rows[e].important => Drawn(e) \/ Draws(c, x.task, e)
      BY <2>1 DEF CyclesInv, WorkInv
    <3>2. e \in DOMAIN rows' /\ rows'[e] = rows[e]
      BY <3>1
    <3> QED
      BY <1>1, <1>3, <3>1, <3>2
  <2>2. ASSUME NEW c \in Cycle, NEW x \in cycles[c], x.do = "fact"
        PROVE  \E e \in DOMAIN rows' : x.of = {e} /\ Marks(c, x.task, e)'
    BY <1>1, <2>2 DEF CyclesInv, WorkInv
  <2> QED
    BY <2>1, <2>2 DEF CyclesInv, WorkInv
<1>5. ConsolidatedInv'
  <2>1. ASSUME NEW e \in DOMAIN rows', rows'[e].consolidated, rows'[e].important
        PROVE  Drawn(e)'
    <3>1. e \in DOMAIN rows /\ rows'[e] = rows[e]
      BY <2>1
    <3>2. rows[e].consolidated /\ rows[e].important
      BY <2>1, <3>1
    <3> QED
      BY <1>3, <3>1, <3>2 DEF CyclesInv, ConsolidatedInv
  <2> QED
    BY <2>1 DEF ConsolidatedInv
<1>6. ASSUME NEW e \in DOMAIN rows' \ again'
      PROVE  /\ \A c, d \in Cycle : \A t, u \in Subject :
                  Marks(c, t, e)' /\ Marks(d, u, e)' => c = d
             /\ \A f, g \in DOMAIN facts' :
                  facts'[f].source = e /\ facts'[g].source = e => f = g
             /\ \A c \in Cycle : \A t \in Subject : Draws(c, t, e)' => ~Drawn(e)'
             /\ Drawn(e)' => \/ rows'[e].consolidated
                             \/ \E c \in Cycle : \E t \in Subject : Marks(c, t, e)'
  <2>1. \A f \in DOMAIN facts' : facts'[f].source = e =>
          f \in DOMAIN facts /\ facts[f].source = e
    BY DEF FactsGrow
  <2>2. CASE e \in DOMAIN rows
    <3>1. e \in DOMAIN rows \ again /\ rows'[e] = rows[e]
      BY <2>2
    <3>2. /\ \A c, d \in Cycle : \A t, u \in Subject :
               Marks(c, t, e) /\ Marks(d, u, e) => c = d
          /\ \A f, g \in DOMAIN facts :
               facts[f].source = e /\ facts[g].source = e => f = g
          /\ \A c \in Cycle : \A t \in Subject : Draws(c, t, e) => ~Drawn(e)
          /\ Drawn(e) => \/ rows[e].consolidated
                         \/ \E c \in Cycle : \E t \in Subject : Marks(c, t, e)
      BY <3>1 DEF CyclesInv, OnceInv
    <3>3. rows[e].consolidated => rows'[e].consolidated
      BY <3>1
    <3> QED
      BY <1>1, <1>3, <2>1, <3>2, <3>3
  <2>3. CASE e \notin DOMAIN rows
    <3>1. ~Drawn(e)'
      BY <1>2, <2>3
    <3>2. \A c \in Cycle : \A t : ~Marks(c, t, e)
      BY <2>3, MarksAreTyped DEF CyclesInv
    <3>3. \A f \in DOMAIN facts' : facts'[f].source # e
      BY <3>1 DEF Drawn
    <3> QED
      BY <1>1, <3>1, <3>2, <3>3
  <2> QED
    BY <2>2, <2>3
<1>7. OnceInv'
  BY <1>6 DEF OnceInv
<1> QED
  BY <1>4, <1>5, <1>7 DEF CyclesInv

\* Cycles end early, by an error or a crash.
LEMMA DroppedKeep ==
  ASSUME TablesInv, CyclesInv, UNCHANGED <<rows, facts>>,
         DOMAIN cycles' = Cycle, again \subseteq again',
         \A c \in Cycle :
           \/ cycles'[c] = cycles[c]
           \/ cycles'[c] = {} /\ Store!Unmarked(c) \subseteq again'
  PROVE  CyclesInv'
<1>1. \A c \in Cycle : \A t, e : /\ Marks(c, t, e)' => Marks(c, t, e)
                                 /\ Draws(c, t, e)' => Draws(c, t, e)
  BY DEF Marks, Draws
<1>2. \A c \in Cycle : \A t, e :
        e \notin again' /\ Marks(c, t, e) => Marks(c, t, e)'
  <2>1. ASSUME NEW c \in Cycle, NEW t, NEW e, e \notin again', Marks(c, t, e)
        PROVE  Marks(c, t, e)'
    <3>1. cycles'[c] = cycles[c]
      BY <2>1, MarksAreUnmarked
    <3> QED
      BY <2>1, <3>1 DEF Marks
  <2> QED
    BY <2>1
<1>3. \A e : Drawn(e)' <=> Drawn(e)
  BY DEF Drawn
<1>4. WorkInv'
  <2>1. ASSUME NEW c \in Cycle, NEW x \in cycles'[c]
        PROVE  /\ x \in cycles[c] /\ cycles'[c] = cycles[c]
               /\ \A t, e : Marks(c, t, e) <=> Marks(c, t, e)'
               /\ \A t, e : Draws(c, t, e) <=> Draws(c, t, e)'
    BY <2>1 DEF Marks, Draws
  <2> QED
    BY <1>3, <2>1 DEF CyclesInv, WorkInv
<1>5. ConsolidatedInv'
  BY <1>3 DEF CyclesInv, ConsolidatedInv
<1>6. OnceInv'
  <2>1. ASSUME NEW e \in DOMAIN rows' \ again'
        PROVE  e \in DOMAIN rows \ again
    OBVIOUS
  <2> QED
    BY <1>1, <1>2, <1>3, <2>1 DEF CyclesInv, OnceInv
<1> QED
  BY <1>4, <1>5, <1>6 DEF CyclesInv

\* What a cycle sets out to do with a batch.
Planned(B) == UNION {Store!WorkOn(rows[e].task, B) : e \in B}

LEMMA PlannedShape ==
  ASSUME NEW B
  PROVE  /\ \A x \in Planned(B) : x \in Store!WorkOn(x.task, B)
         /\ \A e \in B : \A x \in Store!WorkOn(rows[e].task, B) : x \in Planned(B)
<1>1. ASSUME NEW x \in Planned(B)
      PROVE  x \in Store!WorkOn(x.task, B)
  <2>1. PICK e \in B : x \in Store!WorkOn(rows[e].task, B)
    BY <1>1 DEF Planned
  <2>2. x.task = rows[e].task
    BY <2>1, WorkHolds
  <2> QED
    BY <2>1, <2>2
<1> QED
  BY <1>1 DEF Planned

LEMMA PlannedHolds ==
  ASSUME NEW B, NEW c \in Cycle, cycles'[c] = Planned(B), rows' = rows
  PROVE  /\ \A t, e : Marks(c, t, e)' => e \in B /\ rows[e].task = t
         /\ \A t, e : Draws(c, t, e)' => e \in B
         /\ \A e \in B : Marks(c, rows[e].task, e)'
         /\ \A e \in B : rows[e].important => Draws(c, rows[e].task, e)'
         /\ \A x \in Planned(B) :
              /\ x.do \in {"procedure", "fact", "mark"}
              /\ x.do = "mark" => \A e \in x.of : e \in B /\ rows[e].task = x.task
              /\ x.do = "fact" => \E e \in B : x.of = {e} /\ rows[e].task = x.task
              /\ x.do = "fact" => \A y \in Planned(B) :
                   y.do = "fact" /\ y.of = x.of => y = x
<1>1. ASSUME NEW x \in Planned(B)
      PROVE  /\ x.do \in {"procedure", "fact", "mark"}
             /\ x.do = "mark" => \A e \in x.of : e \in B /\ rows[e].task = x.task
             /\ x.do = "fact" => \E e \in B : x.of = {e} /\ rows[e].task = x.task
  <2> DEFINE t == x.task
  <2>1. x \in Store!WorkOn(t, B)
    BY PlannedShape
  <2>2. /\ x.do \in {"procedure", "fact", "mark"}
        /\ x.do = "mark" => x.of = OfTask(t, B)
        /\ x.do = "fact" => \E e \in OfTask(t, B) : x.of = {e}
    BY <2>1, WorkHolds
  <2> QED
    BY <2>2 DEF OfTask
<1>2. ASSUME NEW x \in Planned(B), x.do = "fact",
             NEW y \in Planned(B), y.do = "fact", y.of = x.of
      PROVE  y = x
  <2>1. PICK e \in B : x.of = {e} /\ rows[e].task = x.task
    BY <1>1, <1>2
  <2>2. PICK d \in B : y.of = {d} /\ rows[d].task = y.task
    BY <1>1, <1>2
  <2>3. {d} = {e}
    BY <1>2, <2>1, <2>2
  <2>4. d = e
    BY <2>3
  <2> DEFINE t == x.task
  <2>5. x \in Store!WorkOn(t, B) /\ y \in Store!WorkOn(t, B)
    BY <2>1, <2>2, <2>4, PlannedShape
  <2> QED
    BY <1>2, <2>5, WorkHolds
<1>3. ASSUME NEW e \in B
      PROVE  /\ Marks(c, rows[e].task, e)'
             /\ rows[e].important => Draws(c, rows[e].task, e)'
  <2> DEFINE t == rows[e].task
  <2>1. e \in OfTask(t, B)
    BY DEF OfTask
  <2>2. /\ \E x \in Store!WorkOn(t, B) : x.do = "mark" /\ x.task = t /\ e \in x.of
        /\ rows[e].important => \E x \in Store!WorkOn(t, B) :
             x.do = "fact" /\ x.task = t /\ x.of = {e}
    BY <2>1, WorkHas
  <2>3. \A x \in Store!WorkOn(t, B) : x \in cycles'[c]
    BY PlannedShape
  <2>4. rows'[e].task = t
    OBVIOUS
  <2> HIDE DEF t
  <2>5. Marks(c, t, e)' /\ (rows[e].important => Draws(c, t, e)')
    BY <2>2, <2>3 DEF Marks, Draws, t
  <2> QED
    BY <2>5 DEF t
<1>4. \A t, e : Marks(c, t, e)' => e \in B /\ rows[e].task = t
  BY <1>1 DEF Marks
<1>5. ASSUME NEW t, NEW e, Draws(c, t, e)'
      PROVE  e \in B
  <2>1. PICK x \in Planned(B) : x.do = "fact" /\ x.of = {e}
    BY <1>5 DEF Draws
  <2>2. PICK d \in B : x.of = {d}
    BY <1>1, <2>1
  <2> QED
    BY <2>1, <2>2
<1> QED
  BY <1>1, <1>2, <1>3, <1>4, <1>5

\* A cycle takes up episodes that are not consolidated; those that another is
\* at are counted as met again.
LEMMA BeginKeeps ==
  ASSUME TablesInv, CyclesInv, NEW c \in Cycle, Store!BeginCycle(c)
  PROVE  CyclesInv'
<1> DEFINE B == Store!Unconsolidated
<1>1. /\ UNCHANGED <<rows, facts>> /\ cycles[c] = {}
      /\ cycles' = [cycles EXCEPT ![c] = Planned(B)]
      /\ again' = again \cup (B \cap UNION {Store!Unmarked(d) : d \in Cycle})
  BY DEF Store!BeginCycle, Planned
<1>2. \A e \in B : e \in DOMAIN rows /\ ~rows[e].consolidated
  BY DEF Store!Unconsolidated
<1> HIDE DEF B
<1>3. /\ DOMAIN cycles' = Cycle /\ cycles'[c] = Planned(B)
      /\ \A d \in Cycle \ {c} : cycles'[d] = cycles[d]
  BY <1>1 DEF CyclesInv, WorkInv
<1>4. /\ \A t, e : Marks(c, t, e)' => e \in B /\ rows[e].task = t
      /\ \A t, e : Draws(c, t, e)' => e \in B
      /\ \A e \in B : Marks(c, rows[e].task, e)'
      /\ \A e \in B : rows[e].important => Draws(c, rows[e].task, e)'
      /\ \A x \in Planned(B) :
           /\ x.do \in {"procedure", "fact", "mark"}
           /\ x.do = "mark" => \A e \in x.of : e \in B /\ rows[e].task = x.task
           /\ x.do = "fact" => \E e \in B : x.of = {e} /\ rows[e].task = x.task
           /\ x.do = "fact" => \A y \in Planned(B) :
                y.do = "fact" /\ y.of = x.of => y = x
  BY <1>1, <1>3, PlannedHolds
<1>5. \A d \in Cycle \ {c} : \A t, e : /\ Marks(d, t, e)' <=> Marks(d, t, e)
                                       /\ Draws(d, t, e)' <=> Draws(d, t, e)
  BY <1>3 DEF Marks, Draws
<1>6. \A t, e : ~Marks(c, t, e)
  BY <1>1 DEF Marks
<1>7. \A e : Drawn(e)' <=> Drawn(e)
  BY <1>1 DEF Drawn
<1>8. ASSUME NEW e \in B, e \notin again', NEW d \in Cycle, NEW t, Marks(d, t, e)
      PROVE  FALSE
  BY <1>1, <1>8, MarksAreUnmarked
<1>9. WorkInv'
  <2>1. ASSUME NEW x \in cycles'[c], x.do = "mark", NEW e \in x.of
        PROVE  /\ e \in DOMAIN rows' /\ rows'[e].task = x.task
               /\ rows'[e].important => Drawn(e)' \/ Draws(c, x.task, e)'
    <3>1. e \in B /\ rows[e].task = x.task
      BY <1>3, <1>4, <2>1
    <3>2. rows[e].important => Draws(c, rows[e].task, e)'
      BY <1>4, <3>1
    <3> QED
      BY <1>1, <1>2, <3>1, <3>2
  <2>2. ASSUME NEW x \in cycles'[c], x.do = "fact"
        PROVE  /\ \E e \in DOMAIN rows' : x.of = {e} /\ Marks(c, x.task, e)'
               /\ \A y \in cycles'[c] : y.do = "fact" /\ y.of = x.of => y = x
    <3>1. PICK e \in B : x.of = {e} /\ rows[e].task = x.task
      BY <1>3, <1>4, <2>2
    <3>2. Marks(c, rows[e].task, e)'
      BY <1>4
    <3> QED
      BY <1>1, <1>2, <1>3, <1>4, <2>2, <3>1, <3>2
  <2>3. ASSUME NEW d \in Cycle \ {c}, NEW x \in cycles'[d]
        PROVE  /\ x.do \in {"procedure", "fact", "mark"}
               /\ x.do = "mark" =>
                    \A e \in x.of :
                      /\ e \in DOMAIN rows' /\ rows'[e].task = x.task
                      /\ rows'[e].important => Drawn(e)' \/ Draws(d, x.task, e)'
               /\ x.do = "fact" =>
                    /\ \E e \in DOMAIN rows' : x.of = {e} /\ Marks(d, x.task, e)'
                    /\ \A y \in cycles'[d] : y.do = "fact" /\ y.of = x.of => y = x
    <3>1. x \in cycles[d] /\ cycles'[d] = cycles[d]
      BY <1>3, <2>3
    <3> QED
      BY <1>1, <1>5, <1>7, <3>1 DEF CyclesInv, WorkInv
  <2> QED
    BY <1>3, <1>4, <2>1, <2>2, <2>3 DEF WorkInv
<1>10. ConsolidatedInv'
  BY <1>1, <1>7 DEF CyclesInv, ConsolidatedInv
<1>11. ASSUME NEW e \in DOMAIN rows' \ again'
       PROVE  /\ \A a, d \in Cycle : \A t, u \in Subject :
                   Marks(a, t, e)' /\ Marks(d, u, e)' => a = d
              /\ \A f, g \in DOMAIN facts' :
                   facts'[f].source = e /\ facts'[g].source = e => f = g
              /\ \A d \in Cycle : \A t \in Subject : Draws(d, t, e)' => ~Drawn(e)'
              /\ Drawn(e)' => \/ rows'[e].consolidated
                              \/ \E d \in Cycle : \E t \in Subject : Marks(d, t, e)'
  <2>1. e \in DOMAIN rows \ again /\ e \notin again'
    BY <1>1
  <2>2. /\ \A a, d \in Cycle : \A t, u \in Subject :
             Marks(a, t, e) /\ Marks(d, u, e) => a = d
        /\ \A f, g \in DOMAIN facts :
             facts[f].source = e /\ facts[g].source = e => f = g
        /\ \A d \in Cycle : \A t \in Subject : Draws(d, t, e) => ~Drawn(e)
        /\ Drawn(e) => \/ rows[e].consolidated
                       \/ \E d \in Cycle : \E t \in Subject : Marks(d, t, e)
    BY <2>1 DEF CyclesInv, OnceInv
  <2>3. ASSUME NEW a \in Cycle, NEW d \in Cycle, NEW t \in Subject, NEW u \in Subject,
               Marks(a, t, e)', Marks(d, u, e)'
        PROVE  a = d
    <3>1. CASE a # c /\ d # c
      BY <1>5, <2>2, <2>3, <3>1
    <3>2. CASE a = c /\ d # c
      BY <1>4, <1>5, <1>8, <2>1, <2>3, <3>2
    <3>3. CASE a # c /\ d = c
      BY <1>4, <1>5, <1>8, <2>1, <2>3, <3>3
    <3> QED
      BY <3>1, <3>2, <3>3
  <2>4. ASSUME NEW d \in Cycle, NEW t \in Subject, Draws(d, t, e)'
        PROVE  ~Drawn(e)'
    <3>1. CASE d # c
      BY <1>5, <1>7, <2>2, <2>4, <3>1
    <3>2. CASE d = c
      <4>1. e \in B
        BY <1>4, <2>4, <3>2
      <4>2. ~rows[e].consolidated
        BY <1>2, <4>1
      <4> QED
        BY <1>7, <1>8, <2>1, <2>2, <4>1, <4>2
    <3> QED
      BY <3>1, <3>2
  <2>5. Drawn(e)' => \/ rows'[e].consolidated
                     \/ \E d \in Cycle : \E t \in Subject : Marks(d, t, e)'
    BY <1>1, <1>5, <1>6, <1>7, <2>2
  <2> QED
    BY <1>1, <2>2, <2>3, <2>4, <2>5
<1>12. OnceInv'
  BY <1>11 DEF OnceInv
<1> QED
  BY <1>9, <1>10, <1>12 DEF CyclesInv

\* Within a task the mark comes after the facts.
LEMMA FactsPrecedeMark ==
  ASSUME NEW x, NEW y, x.do = "mark", y.do = "fact", y.task = x.task
  PROVE  Store!Precedes(y, x)
  BY DEF Store!Precedes, Store!Rank

\* What a cycle has yet to do, one statement later.
LEMMA StatementDone ==
  ASSUME WorkInv, NEW c \in Cycle, NEW x \in cycles[c],
         cycles' = [cycles EXCEPT ![c] = @ \ {x}]
  PROVE  /\ DOMAIN cycles' = Cycle
         /\ \A d \in Cycle : \A y \in cycles'[d] : y \in cycles[d]
         /\ \A d \in Cycle : \A y \in cycles[d] :
              y \in cycles'[d] \/ (d = c /\ y = x)
         /\ x \notin cycles'[c]
         /\ \A d \in Cycle : \A t, e : /\ Marks(d, t, e)' => Marks(d, t, e)
                                       /\ Draws(d, t, e)' => Draws(d, t, e)
         /\ x.do # "mark" => \A d \in Cycle : \A t, e :
              Marks(d, t, e) => Marks(d, t, e)'
         /\ x.do # "fact" => \A d \in Cycle : \A t, e :
              Draws(d, t, e) => Draws(d, t, e)'
<1>1. /\ DOMAIN cycles' = Cycle /\ cycles'[c] = cycles[c] \ {x}
      /\ \A d \in Cycle \ {c} : cycles'[d] = cycles[d]
  BY DEF WorkInv
<1>2. /\ \A d \in Cycle : \A y \in cycles'[d] : y \in cycles[d]
      /\ \A d \in Cycle : \A y \in cycles[d] :
           y \in cycles'[d] \/ (d = c /\ y = x)
      /\ x \notin cycles'[c]
  BY <1>1
<1> QED
  BY <1>1, <1>2 DEF Marks, Draws

LEMMA MarkKeeps ==
  ASSUME TablesInv, CyclesInv, NEW c \in Cycle, NEW x \in cycles[c], x.do = "mark",
         \A y \in cycles[c] : ~Store!Precedes(y, x),
         cycles' = [cycles EXCEPT ![c] = @ \ {x}], UNCHANGED <<facts, again>>,
         RowsGrow, DOMAIN rows' = DOMAIN rows,
         \A e \in DOMAIN rows : e \notin x.of => rows'[e] = rows[e],
         \A e \in DOMAIN rows : e \in x.of => rows'[e].consolidated
  PROVE  CyclesInv'
<1>1. /\ DOMAIN cycles' = Cycle
      /\ \A d \in Cycle : \A y \in cycles'[d] : y \in cycles[d]
      /\ \A d \in Cycle : \A y \in cycles[d] :
           y \in cycles'[d] \/ (d = c /\ y = x)
      /\ \A d \in Cycle : \A t, e : /\ Marks(d, t, e)' => Marks(d, t, e)
                                    /\ Draws(d, t, e)' => Draws(d, t, e)
      /\ \A d \in Cycle : \A t, e : Draws(d, t, e) => Draws(d, t, e)'
  BY StatementDone DEF CyclesInv
<1>2. \A y \in cycles[c] : y.do = "fact" => y.task # x.task
  BY FactsPrecedeMark
<1>3. \A e : Drawn(e)' <=> Drawn(e)
  BY DEF Drawn
<1>4. \A e \in DOMAIN rows : /\ rows'[e].task = rows[e].task
                             /\ rows'[e].important = rows[e].important
  BY DEF RowsGrow
<1>5. \A d \in Cycle : \A t, e :
        \/ Marks(d, t, e) => Marks(d, t, e)'
        \/ d = c /\ t = x.task /\ e \in x.of
  <2>1. ASSUME NEW d \in Cycle, NEW t, NEW e, Marks(d, t, e),
               ~(d = c /\ t = x.task /\ e \in x.of)
        PROVE  Marks(d, t, e)'
    <3>1. PICK y \in cycles[d] : y.do = "mark" /\ y.task = t /\ e \in y.of
      BY <2>1 DEF Marks
    <3>2. y \in cycles'[d]
      BY <1>1, <2>1, <3>1
    <3> QED
      BY <3>1, <3>2 DEF Marks
  <2> QED
    BY <2>1
<1>6. WorkInv'
  <2>1. ASSUME NEW d \in Cycle, NEW y \in cycles'[d], y.do = "mark", NEW e \in y.of
        PROVE  /\ e \in DOMAIN rows' /\ rows'[e].task = y.task
               /\ rows'[e].important => Drawn(e)' \/ Draws(d, y.task, e)'
    <3>1. /\ e \in DOMAIN rows /\ rows[e].task = y.task
          /\ rows[e].important => Drawn(e) \/ Draws(d, y.task, e)
      BY <1>1, <2>1 DEF CyclesInv, WorkInv
    <3> QED
      BY <1>1, <1>3, <1>4, <3>1
  <2>2. ASSUME NEW d \in Cycle, NEW y \in cycles'[d], y.do = "fact"
        PROVE  \E e \in DOMAIN rows' : y.of = {e} /\ Marks(d, y.task, e)'
    <3>1. PICK e \in DOMAIN rows : y.of = {e} /\ Marks(d, y.task, e)
      BY <1>1, <2>2 DEF CyclesInv, WorkInv
    <3>2. ~(d = c /\ y.task = x.task)
      BY <1>1, <1>2, <2>2
    <3> QED
      BY <1>5, <3>1, <3>2
  <2> QED
    BY <1>1, <2>1, <2>2 DEF CyclesInv, WorkInv
<1>7. ConsolidatedInv'
  <2>1. ASSUME NEW e \in DOMAIN rows', rows'[e].consolidated, rows'[e].important
        PROVE  Drawn(e)'
    <3>1. e \in DOMAIN rows /\ rows[e].important
      BY <1>4, <2>1
    <3>2. CASE e \in x.of
      <4>1. Drawn(e) \/ Draws(c, x.task, e)
        BY <3>1, <3>2 DEF CyclesInv, WorkInv
      <4>2. ~Draws(c, x.task, e)
        BY <1>2 DEF Draws
      <4> QED
        BY <1>3, <4>1, <4>2
    <3>3. CASE e \notin x.of
      <4>1. rows'[e] = rows[e]
        BY <3>1, <3>3
      <4>2. rows[e].consolidated
        BY <2>1, <4>1
      <4> QED
        BY <1>3, <3>1, <4>2 DEF CyclesInv, ConsolidatedInv
    <3> QED
      BY <3>2, <3>3
  <2> QED
    BY <2>1 DEF ConsolidatedInv
<1>8. ASSUME NEW e \in DOMAIN rows' \ again'
      PROVE  /\ \A a, d \in Cycle : \A t, u \in Subject :
                  Marks(a, t, e)' /\ Marks(d, u, e)' => a = d
             /\ \A f, g \in DOMAIN facts' :
                  facts'[f].source = e /\ facts'[g].source = e => f = g
             /\ \A d \in Cycle : \A t \in Subject : Draws(d, t, e)' => ~Drawn(e)'
             /\ Drawn(e)' => \/ rows'[e].consolidated
                             \/ \E d \in Cycle : \E t \in Subject : Marks(d, t, e)'
  <2>1. e \in DOMAIN rows \ again
    OBVIOUS
  <2>2. /\ \A a, d \in Cycle : \A t, u \in Subject :
             Marks(a, t, e) /\ Marks(d, u, e) => a = d
        /\ \A f, g \in DOMAIN facts :
             facts[f].source = e /\ facts[g].source = e => f = g
        /\ \A d \in Cycle : \A t \in Subject : Draws(d, t, e) => ~Drawn(e)
        /\ Drawn(e) => \/ rows[e].consolidated
                       \/ \E d \in Cycle : \E t \in Subject : Marks(d, t, e)
    BY <2>1 DEF CyclesInv, OnceInv
  <2>3. ASSUME Drawn(e)', ~rows'[e].consolidated
        PROVE  \E d \in Cycle : \E t \in Subject : Marks(d, t, e)'
    <3>1. e \notin x.of
      BY <2>1, <2>3
    <3>2. rows'[e] = rows[e]
      BY <2>1, <3>1
    <3>3. ~rows[e].consolidated
      BY <2>3, <3>2
    <3> QED
      BY <1>3, <1>5, <2>2, <2>3, <3>1, <3>3
  <2> QED
    BY <1>1, <1>3, <2>2, <2>3
<1>9. OnceInv'
  BY <1>8 DEF OnceInv
<1> QED
  BY <1>6, <1>7, <1>9 DEF CyclesInv

LEMMA ProcedureKeeps ==
  ASSUME TablesInv, CyclesInv, NEW c \in Cycle, NEW x \in cycles[c],
         x.do = "procedure", UNCHANGED <<rows, facts, again>>,
         cycles' = [cycles EXCEPT ![c] = @ \ {x}]
  PROVE  CyclesInv'
<1>1. /\ DOMAIN cycles' = Cycle
      /\ \A d \in Cycle : \A y \in cycles'[d] : y \in cycles[d]
      /\ \A d \in Cycle : \A t, e : /\ Marks(d, t, e)' <=> Marks(d, t, e)
                                    /\ Draws(d, t, e)' <=> Draws(d, t, e)
  BY StatementDone DEF CyclesInv
<1>2. \A e : Drawn(e)' <=> Drawn(e)
  BY DEF Drawn
<1>3. WorkInv'
  BY <1>1, <1>2 DEF CyclesInv, WorkInv
<1>4. ConsolidatedInv'
  BY <1>2 DEF CyclesInv, ConsolidatedInv
<1>5. OnceInv'
  BY <1>1, <1>2 DEF CyclesInv, OnceInv
<1> QED
  BY <1>3, <1>4, <1>5 DEF CyclesInv

LEMMA DrawKeeps ==
  ASSUME TablesInv, CyclesInv, NEW c \in Cycle, NEW x \in cycles[c], x.do = "fact",
         NEW e \in x.of, UNCHANGED <<rows, again>>,
         facts' = Append(facts, Store!Extracted(e)),
         cycles' = [cycles EXCEPT ![c] = @ \ {x}]
  PROVE  CyclesInv'
<1>1. /\ DOMAIN cycles' = Cycle
      /\ \A d \in Cycle : \A y \in cycles'[d] : y \in cycles[d]
      /\ \A d \in Cycle : \A y \in cycles[d] :
           y \in cycles'[d] \/ (d = c /\ y = x)
      /\ x \notin cycles'[c]
      /\ \A d \in Cycle : \A t, i : /\ Marks(d, t, i)' <=> Marks(d, t, i)
                                    /\ Draws(d, t, i)' => Draws(d, t, i)
  BY StatementDone DEF CyclesInv
<1>2. x.of = {e} /\ e \in DOMAIN rows /\ Marks(c, x.task, e)
  BY DEF CyclesInv, WorkInv
<1>3. rows[e].task = x.task /\ x.task \in Subject
  BY <1>2, MarksAreTyped DEF CyclesInv
<1>4. Draws(c, x.task, e)
  BY <1>2 DEF Draws
<1> DEFINE last == Len(facts) + 1
<1>5. Store!Extracted(e) \in FactRow /\ Store!Extracted(e).source = e
  BY <1>2, ExtractedIsRow
<1>6. /\ DOMAIN facts' = DOMAIN facts \cup {last} /\ facts'[last].source = e
      /\ \A f \in DOMAIN facts : facts'[f].source = facts[f].source
  BY <1>5, FactAppended DEF FactsGrow
<1> HIDE DEF last
<1>7. \A i : Drawn(i)' <=> Drawn(i) \/ i = e
  BY <1>6 DEF Drawn
<1>8. WorkInv'
  <2>1. ASSUME NEW d \in Cycle, NEW y \in cycles'[d], y.do = "mark", NEW i \in y.of
        PROVE  /\ i \in DOMAIN rows /\ rows[i].task = y.task
               /\ rows[i].important => Drawn(i)' \/ Draws(d, y.task, i)'
    <3>1. /\ i \in DOMAIN rows /\ rows[i].task = y.task
          /\ rows[i].important => Drawn(i) \/ Draws(d, y.task, i)
      BY <1>1, <2>1 DEF CyclesInv, WorkInv
    <3>2. ASSUME Draws(d, y.task, i), i # e
          PROVE  Draws(d, y.task, i)'
      <4>1. PICK z \in cycles[d] : z.do = "fact" /\ z.task = y.task /\ z.of = {i}
        BY <3>2 DEF Draws
      <4>2. z # x
        BY <1>2, <3>2, <4>1
      <4>3. z \in cycles'[d]
        BY <1>1, <4>2
      <4> QED
        BY <4>1, <4>3 DEF Draws
    <3> QED
      BY <1>7, <3>1, <3>2
  <2> QED
    BY <1>1, <2>1 DEF CyclesInv, WorkInv
<1>9. ConsolidatedInv'
  BY <1>7 DEF CyclesInv, ConsolidatedInv
<1>10. ASSUME NEW i \in DOMAIN rows' \ again'
       PROVE  /\ \A a, d \in Cycle : \A t, u \in Subject :
                   Marks(a, t, i)' /\ Marks(d, u, i)' => a = d
              /\ \A f, g \in DOMAIN facts' :
                   facts'[f].source = i /\ facts'[g].source = i => f = g
              /\ \A d \in Cycle : \A t \in Subject : Draws(d, t, i)' => ~Drawn(i)'
              /\ Drawn(i)' => \/ rows'[i].consolidated
                              \/ \E d \in Cycle : \E t \in Subject : Marks(d, t, i)'
  <2>1. i \in DOMAIN rows \ again
    OBVIOUS
  <2>2. /\ \A a, d \in Cycle : \A t, u \in Subject :
             Marks(a, t, i) /\ Marks(d, u, i) => a = d
        /\ \A f, g \in DOMAIN facts :
             facts[f].source = i /\ facts[g].source = i => f = g
        /\ \A d \in Cycle : \A t \in Subject : Draws(d, t, i) => ~Drawn(i)
        /\ Drawn(i) => \/ rows[i].consolidated
                       \/ \E d \in Cycle : \E t \in Subject : Marks(d, t, i)
    BY <2>1 DEF CyclesInv, OnceInv
  <2>3. CASE i # e
    BY <1>1, <1>6, <1>7, <2>2, <2>3
  <2>4. CASE i = e
    <3>1. ~Drawn(e)
      BY <1>3, <1>4, <2>2, <2>4
    <3>2. \A f \in DOMAIN facts' : facts'[f].source = e => f = last
      BY <1>6, <3>1 DEF Drawn
    <3>3. ASSUME NEW d \in Cycle, NEW t \in Subject, Draws(d, t, e)'
          PROVE  FALSE
      <4>1. PICK y \in cycles'[d] : y.do = "fact" /\ y.task = t /\ y.of = {e}
        BY <3>3 DEF Draws
      <4>2. y \in cycles[d]
        BY <1>1, <4>1
      <4>3. \E j \in DOMAIN rows : y.of = {j} /\ Marks(d, y.task, j)
        BY <4>1, <4>2 DEF CyclesInv, WorkInv
      <4>4. Marks(d, t, e)
        BY <4>1, <4>3
      <4>5. d = c
        BY <1>2, <1>3, <2>2, <2>4, <4>4
      <4>6. y = x
        BY <1>2, <4>1, <4>2, <4>5 DEF CyclesInv, WorkInv
      <4> QED
        BY <1>1, <4>1, <4>5, <4>6
    <3>4. \E d \in Cycle : \E t \in Subject : Marks(d, t, e)'
      BY <1>1, <1>2, <1>3
    <3> QED
      BY <1>1, <2>2, <2>4, <3>2, <3>3, <3>4
  <2> QED
    BY <2>3, <2>4
<1>11. OnceInv'
  BY <1>10 DEF OnceInv
<1> QED
  BY <1>8, <1>9, <1>11 DEF CyclesInv

\* What a statement does to the tables, and that everything is kept.
LEMMA CycleStepKeeps ==
  ASSUME TablesInv, DreamInv, CyclesInv, NEW c \in Cycle, Store!CycleStep(c)
  PROVE  TablesInv' /\ DreamInv' /\ CyclesInv'
<1>1. PICK x \in cycles[c] :
        /\ \A y \in cycles[c] : ~Store!Precedes(y, x)
        /\ IF x.do = "fact"
           THEN \E e \in x.of : facts' = Append(facts, Store!Extracted(e))
           ELSE UNCHANGED facts
        /\ rows' = [e \in DOMAIN rows |->
             IF x.do = "mark" /\ e \in x.of
             THEN [rows[e] EXCEPT !.consolidated = TRUE] ELSE rows[e]]
        /\ cycles' = [cycles EXCEPT ![c] = @ \ {x}]
        /\ UNCHANGED <<dreams, again, denied>>
  BY DEF Store!CycleStep
<1>2. ASSUME FactsGrow,
             \A f \in DOMAIN facts' : ~facts'[f].active =>
               f \in DOMAIN facts /\ facts'[f] = facts[f]
      PROVE  DreamInv'
  <2>1. ASSUME NEW f \in DOMAIN facts', ~facts'[f].active
        PROVE  f \in DOMAIN facts /\ ~facts[f].active
    <3>1. f \in DOMAIN facts /\ facts'[f] = facts[f]
      BY <1>2, <2>1
    <3> QED
      BY <2>1, <3>1
  <2>2. DOMAIN dreams' = Dream
    BY <1>1 DEF DreamInv
  <2>3. \A d \in Dream : \A y \in dreams'[d] : \E i \in Dream : y \in dreams[i]
    BY <1>1
  <2> QED
    BY <1>1, <1>2, <2>1, <2>2, <2>3, DreamKeeps
<1>3. x.do \in {"procedure", "fact", "mark"}
  BY DEF CyclesInv, WorkInv
<1>4. ASSUME x.do # "mark"
      PROVE  UNCHANGED rows
  <2>1. rows' = [e \in DOMAIN rows |-> rows[e]]
    BY <1>1, <1>4
  <2>2. rows = [e \in DOMAIN rows |-> rows[e]]
    BY DEF TablesInv
  <2> QED
    BY <2>1, <2>2
<1>5. CASE x.do = "fact"
  <2>1. PICK e \in x.of : facts' = Append(facts, Store!Extracted(e))
    BY <1>1, <1>5
  <2>2. e \in DOMAIN rows
    BY <1>5 DEF CyclesInv, WorkInv
  <2>3. UNCHANGED <<rows, again>>
    BY <1>1, <1>4, <1>5
  <2>4. /\ Store!Extracted(e) \in FactRow /\ Store!Extracted(e).active
        /\ Store!Extracted(e).source = e
    BY <2>2, ExtractedIsRow
  <2>5. /\ facts' \in Seq(FactRow) /\ FactsGrow
        /\ DOMAIN facts' = DOMAIN facts \cup {Len(facts) + 1}
        /\ facts'[Len(facts) + 1] = Store!Extracted(e)
        /\ \A f \in DOMAIN facts : facts'[f] = facts[f]
    BY <2>1, <2>4, FactAppended
  <2>6. facts'[Len(facts) + 1].active /\ facts'[Len(facts) + 1].source = e
    BY <2>4, <2>5
  <2>7. DreamInv'
    BY <1>2, <2>5, <2>6
  <2>8. TablesInv'
    BY <2>2, <2>3, <2>5, <2>6 DEF TablesInv
  <2>9. CyclesInv'
    BY <1>1, <1>5, <2>1, <2>3, DrawKeeps
  <2> QED
    BY <2>7, <2>8, <2>9
<1>6. CASE x.do = "procedure"
  <2>1. UNCHANGED <<rows, facts, again>>
    BY <1>1, <1>4, <1>6
  <2>2. CyclesInv'
    BY <1>1, <1>6, <2>1, ProcedureKeeps
  <2>3. TablesInv'
    BY <2>1 DEF TablesInv
  <2>4. DreamInv'
    BY <1>2, <2>1, FactsSame
  <2> QED
    BY <2>2, <2>3, <2>4
<1>7. CASE x.do = "mark"
  <2> DEFINE S == x.of
  <2>1. rows' = [e \in DOMAIN rows |->
                   IF e \in S THEN [rows[e] EXCEPT !.consolidated = TRUE]
                   ELSE rows[e]]
    BY <1>1, <1>7
  <2> HIDE DEF S
  <2>2. /\ rows' \in Seq(EpisodeRow) /\ DOMAIN rows' = DOMAIN rows
        /\ \A e \in DOMAIN rows : e \notin S => rows'[e] = rows[e]
        /\ \A e \in DOMAIN rows : e \in S => rows'[e].consolidated
        /\ RowsGrow
    BY <2>1, RowsMarked
  <2>3. UNCHANGED <<facts, again>>
    BY <1>1, <1>7
  <2>4. CyclesInv'
    BY <1>1, <1>7, <2>2, <2>3, MarkKeeps DEF S
  <2>5. TablesInv'
    BY <2>2, <2>3 DEF TablesInv
  <2>6. DreamInv'
    BY <1>2, <2>3, FactsSame
  <2> QED
    BY <2>4, <2>5, <2>6
<1> QED
  BY <1>3, <1>5, <1>6, <1>7

StoreInv == TablesInv /\ DreamInv /\ CyclesInv

LEMMA StoreInit == Store!Init => StoreInv
<1> SUFFICES ASSUME Store!Init
             PROVE  StoreInv
  OBVIOUS
<1>1. /\ rows = <<>> /\ facts = <<>>
      /\ cycles = [c \in Cycle |-> {}] /\ dreams = [d \in Dream |-> {}]
  BY DEF Store!Init
<1>2. TablesInv
  BY <1>1 DEF TablesInv
<1>3. DOMAIN rows = {} /\ DOMAIN facts = {}
  BY <1>1
<1>4. DreamInv
  BY <1>1, <1>3 DEF DreamInv
<1>5. CyclesInv
  BY <1>1, <1>3 DEF CyclesInv, WorkInv, ConsolidatedInv, OnceInv
<1> QED
  BY <1>2, <1>4, <1>5 DEF StoreInv

LEMMA StoreStep == StoreInv /\ [Store!Next]_(Store!vars) => StoreInv'
<1> SUFFICES ASSUME StoreInv, [Store!Next]_(Store!vars)
             PROVE  StoreInv'
  OBVIOUS
<1> USE DEF StoreInv
<1>1. /\ Len(rows) \in Nat /\ DOMAIN rows = 1 .. Len(rows)
      /\ Len(facts) \in Nat /\ DOMAIN facts = 1 .. Len(facts)
  BY TableFields
<1>2. 0 \notin DOMAIN rows /\ Len(rows) + 1 # 0
  BY <1>1
<1>3. ASSUME NEW e \in NewEpisodes, Store!RecordEpisode(e)
      PROVE  StoreInv'
  <2>1. /\ rows' = Append(rows, Store!Episode(e))
        /\ UNCHANGED <<facts, cycles, dreams, again, denied>>
    BY <1>3 DEF Store!RecordEpisode
  <2>2. Store!Episode(e) \in EpisodeRow /\ ~Store!Episode(e).consolidated
    BY RecordedIsRow
  <2>3. /\ rows' \in Seq(EpisodeRow)
        /\ DOMAIN rows' = DOMAIN rows \cup {Len(rows) + 1}
        /\ rows'[Len(rows) + 1] = Store!Episode(e)
        /\ \A d \in DOMAIN rows : rows'[d] = rows[d]
    BY <2>1, <2>2, RowAppended
  <2>4. ~rows'[Len(rows) + 1].consolidated
    BY <2>2, <2>3
  <2>5. CyclesInv'
    BY <1>2, <2>1, <2>3, <2>4, FactsSame, WritersKeep
  <2>6. TablesInv'
    BY <2>1, <2>3 DEF TablesInv
  <2>7. DreamInv'
    BY <2>1 DEF DreamInv, Beaten, Newer
  <2> QED
    BY <2>5, <2>6, <2>7
<1>4. ASSUME NEW f \in NewFacts, Store!AssertFact(f)
      PROVE  StoreInv'
  <2>1. /\ facts' = Append(facts, Store!Fact(f, 0))
        /\ UNCHANGED <<rows, cycles, dreams, again, denied>>
    BY <1>4 DEF Store!AssertFact
  <2>2. /\ Store!Fact(f, 0) \in FactRow /\ Store!Fact(f, 0).active
        /\ Store!Fact(f, 0).source = 0
    BY AssertedIsRow
  <2>3. /\ facts' \in Seq(FactRow) /\ FactsGrow
        /\ DOMAIN facts' = DOMAIN facts \cup {Len(facts) + 1}
        /\ facts'[Len(facts) + 1] = Store!Fact(f, 0)
        /\ \A g \in DOMAIN facts : facts'[g] = facts[g]
    BY <2>1, <2>2, FactAppended
  <2>4. facts'[Len(facts) + 1].active /\ facts'[Len(facts) + 1].source = 0
    BY <2>2, <2>3
  <2>5. CyclesInv'
    BY <1>2, <2>1, <2>3, <2>4, WritersKeep
  <2>6. TablesInv'
    BY <2>1, <2>3, <2>4 DEF TablesInv
  <2>7. ASSUME NEW g \in DOMAIN facts', ~facts'[g].active
        PROVE  g \in DOMAIN facts /\ ~facts[g].active
    <3>1. g \in DOMAIN facts
      BY <2>3, <2>4, <2>7
    <3>2. facts'[g] = facts[g]
      BY <2>3, <3>1
    <3> QED
      BY <2>7, <3>1, <3>2
  <2>8. /\ DOMAIN dreams' = Dream
        /\ \A d \in Dream : \A x \in dreams'[d] : \E i \in Dream : x \in dreams[i]
    BY <2>1 DEF DreamInv
  <2>9. DreamInv'
    BY <2>1, <2>3, <2>7, <2>8, DreamKeeps
  <2> QED
    BY <2>5, <2>6, <2>9
<1>5. ASSUME NEW f \in DOMAIN facts, Store!RetractFact(f)
      PROVE  StoreInv'
  <2>1. /\ facts' = Store!Retracted(f) /\ denied' = denied \cup {f}
        /\ UNCHANGED <<rows, cycles, dreams, again>>
    BY <1>5 DEF Store!RetractFact
  <2>2. /\ facts' \in Seq(FactRow) /\ DOMAIN facts' = DOMAIN facts /\ FactsGrow
        /\ \A g \in DOMAIN facts \ {f} : facts'[g] = facts[g]
    BY <2>1, FactRetracted
  <2>3. CyclesInv'
    BY <1>2, <2>1, <2>2, WritersKeep
  <2>4. TablesInv'
    BY <2>1, <2>2 DEF TablesInv, FactsGrow
  <2>5. ASSUME NEW g \in DOMAIN facts', ~facts'[g].active
        PROVE  g \in DOMAIN facts /\ (facts[g].active => g \in denied' \/ Beaten(g))
    <3>1. CASE g = f
      BY <2>1, <3>1
    <3>2. CASE g # f
      <4>1. g \in DOMAIN facts /\ facts'[g] = facts[g]
        BY <2>2, <3>2
      <4> QED
        BY <2>5, <4>1
    <3> QED
      BY <3>1, <3>2
  <2>6. /\ DOMAIN dreams' = Dream
        /\ \A d \in Dream : \A x \in dreams'[d] : \E i \in Dream : x \in dreams[i]
    BY <2>1 DEF DreamInv
  <2>7. DreamInv'
    BY <2>1, <2>2, <2>5, <2>6, DreamKeeps
  <2> QED
    BY <2>3, <2>4, <2>7
<1>6. ASSUME NEW c \in Cycle, Store!BeginCycle(c)
      PROVE  StoreInv'
  <2>1. UNCHANGED <<rows, facts, dreams, denied>>
    BY <1>6 DEF Store!BeginCycle
  <2>2. TablesInv'
    BY <2>1 DEF TablesInv
  <2>3. DreamInv'
    BY <2>1 DEF DreamInv, Beaten, Newer
  <2> QED
    BY <1>6, <2>2, <2>3, BeginKeeps
<1>7. ASSUME NEW c \in Cycle, Store!CycleStep(c)
      PROVE  StoreInv'
  BY <1>7, CycleStepKeeps
<1>8. ASSUME NEW c \in Cycle, Store!CycleFails(c)
      PROVE  StoreInv'
  <2>1. /\ cycles' = [cycles EXCEPT ![c] = {}]
        /\ again' = again \cup Store!Unmarked(c)
        /\ UNCHANGED <<rows, facts, dreams, denied>>
    BY <1>8 DEF Store!CycleFails
  <2>2. /\ DOMAIN cycles' = Cycle
        /\ \A d \in Cycle :
             \/ cycles'[d] = cycles[d]
             \/ cycles'[d] = {} /\ Store!Unmarked(d) \subseteq again'
    BY <2>1 DEF CyclesInv, WorkInv
  <2>3. CyclesInv'
    BY <2>1, <2>2, DroppedKeep
  <2>4. TablesInv'
    BY <2>1 DEF TablesInv
  <2>5. DreamInv'
    BY <2>1 DEF DreamInv, Beaten, Newer
  <2> QED
    BY <2>3, <2>4, <2>5
<1>9. ASSUME NEW d \in Dream, Store!BeginDream(d)
      PROVE  StoreInv'
  <2>1. UNCHANGED <<rows, facts, cycles, again>>
    BY <1>9 DEF Store!BeginDream
  <2>2. TablesInv'
    BY <2>1 DEF TablesInv
  <2>3. CyclesInv'
    BY <1>2, <2>1, FactsSame, WritersKeep
  <2> QED
    BY <1>9, <2>2, <2>3, BeginDreamKeeps
<1>10. ASSUME NEW d \in Dream, Store!DreamStep(d)
       PROVE  StoreInv'
  <2>1. UNCHANGED <<rows, cycles, again>>
    BY <1>10 DEF Store!DreamStep
  <2>2. /\ facts' \in Seq(FactRow) /\ DOMAIN facts' = DOMAIN facts /\ FactsGrow
        /\ DreamInv'
    BY <1>10, DreamStepKeeps
  <2>3. TablesInv'
    BY <2>1, <2>2 DEF TablesInv, FactsGrow
  <2>4. CyclesInv'
    BY <1>2, <2>1, <2>2, WritersKeep
  <2> QED
    BY <2>2, <2>3, <2>4
<1>11. CASE Store!Crash
  <2>1. /\ cycles' = [c \in Cycle |-> {}] /\ dreams' = [d \in Dream |-> {}]
        /\ again' = again \cup UNION {Store!Unmarked(c) : c \in Cycle}
        /\ UNCHANGED <<rows, facts, denied>>
    BY <1>11 DEF Store!Crash
  <2>2. \A c \in Cycle : cycles'[c] = {} /\ Store!Unmarked(c) \subseteq again'
    BY <2>1
  <2>3. CyclesInv'
    BY <2>1, <2>2, DroppedKeep
  <2>4. TablesInv'
    BY <2>1 DEF TablesInv
  <2>5. DreamInv'
    BY <2>1 DEF DreamInv, Beaten, Newer
  <2> QED
    BY <2>3, <2>4, <2>5
<1>12. CASE UNCHANGED Store!vars
  <2>1. UNCHANGED <<rows, facts, cycles, dreams, again, denied>>
    BY <1>12 DEF Store!vars
  <2>2. TablesInv'
    BY <2>1 DEF TablesInv
  <2>3. DreamInv'
    BY <2>1 DEF DreamInv, Beaten, Newer
  <2>4. CyclesInv'
    BY <1>2, <2>1, FactsSame, WritersKeep
  <2> QED
    BY <2>2, <2>3, <2>4
<1> QED
  BY <1>3, <1>4, <1>5, <1>6, <1>7, <1>8, <1>9, <1>10, <1>11, <1>12 DEF Store!Next

LEMMA FactsSoundWhenKept == StoreInv => FactsAreSound
<1> SUFFICES ASSUME StoreInv
             PROVE  Store!ExtractedOnce /\ Store!NewestIsBelieved
  BY DEF FactsAreSound
<1>1. ASSUME NEW e \in DOMAIN rows, rows[e].consolidated, rows[e].important
      PROVE  Store!FactsOf(e) # {}
  BY <1>1 DEF StoreInv, CyclesInv, ConsolidatedInv, Drawn, Store!FactsOf
<1>2. ASSUME NEW e \in DOMAIN rows, e \notin again
      PROVE  ~(Store!Cardinality(Store!FactsOf(e)) > 1)
  <2> DEFINE S == Store!FactsOf(e)
  <2>1. \A f, g \in S : f = g
    BY <1>2 DEF StoreInv, CyclesInv, OnceInv, Store!FactsOf
  <2> HIDE DEF S
  <2>2. Cardinality(S) = 0 \/ Cardinality(S) = 1
    <3>1. CASE S = {}
      BY <3>1, FS_EmptySet
    <3>2. CASE S # {}
      <4>1. PICK f \in S : S = {f}
        BY <2>1, <3>2
      <4>2. Cardinality({f}) = 1
        BY FS_Singleton
      <4> QED
        BY <4>1, <4>2
    <3> QED
      BY <3>1, <3>2
  <2>3. ~(Cardinality(S) > 1)
    BY <2>2
  <2> QED
    BY <2>3 DEF S, Store!Cardinality, Cardinality
<1>3. ASSUME NEW f \in DOMAIN facts, f \notin denied, Store!IsNewest(f)
      PROVE  facts[f].active
  BY <1>3, BeatenIsNotNewest DEF StoreInv, DreamInv
<1> QED
  BY <1>1, <1>2, <1>3 DEF Store!ExtractedOnce, Store!NewestIsBelieved

\* However cycles and dreams overlap, are cut short by an error or a crash and
\* have other writers between their statements: what counts as consolidated has
\* its fact, what only one cycle met has no two, and the newest fact of a key is
\* believed until somebody denies it (consolidation-daemon.ts:86-105,
\* dreaming-engine.ts:58-82).
THEOREM FactsStaySound == Store!Spec => []FactsAreSound
  BY FactsSoundWhenKept, StoreInit, StoreStep, PTL DEF Store!Spec

-----------------------------------------------------------------------------
(***************************************************************************)
(* The knowledge graph.  Leaving aside the facts that are exposed, a call  *)
(* holds what its rows say until it writes them, because no other call is  *)
(* under way; two calls at once expose each other.                         *)
(***************************************************************************)
BusyUpserts == {u \in Upsert : Graph!Busy(upserts[u])}
BusyMerges == {m \in Merge : Graph!Busy(merges[m])}

\* Ids are given once, and a call that goes on has read rows of some.
UpsertShape(c, bound) ==
  /\ c = [pc |-> c.pc, cand |-> c.cand, found |-> c.found, row |-> c.row]
  /\ c.found \in 0 .. bound /\ (c.pc = "write" => c.found # 0)
MergeShape(c, bound) ==
  /\ c = [pc |-> c.pc, source |-> c.source, target |-> c.target, from |-> c.from,
          into |-> c.into, name |-> c.name]
  /\ c.source \in 1 .. bound /\ c.source # c.target
  /\ c.pc # "target" => c.target \in 1 .. bound
IdInv ==
  /\ born \in Nat /\ DOMAIN entities \subseteq 1 .. born
  /\ DOMAIN upserts = Upsert /\ DOMAIN merges = Merge
  /\ \A u \in Upsert : upserts[u].pc \in {"new", "scan", "act", "write", "done"}
  /\ \A u \in Upsert :
       upserts[u].pc \in {"scan", "act", "write"} => UpsertShape(upserts[u], born)
  /\ \A m \in Merge :
       merges[m].pc \in {"new", "target", "repoint", "write", "delete", "done"}
  /\ \A m \in Merge :
       merges[m].pc \in {"target", "repoint", "write", "delete"} =>
         MergeShape(merges[m], born)

\* Calls that overlap are exposed.
StakeInv ==
  /\ \A u \in BusyUpserts :
       BusyUpserts # {u} \/ BusyMerges # {} => upserts[u].cand.facts \subseteq crossed
  /\ \A m \in BusyMerges :
       BusyMerges # {m} \/ BusyUpserts # {} => merges[m].from.facts \subseteq crossed

\* What a call has read still stands, and what a merge took is kept elsewhere.
Same(a, b) == \A f : f \notin crossed => (f \in a <=> f \in b)
FoundStands(u) ==
  upserts[u].pc \in {"act", "write"} /\ upserts[u].found \in DOMAIN entities =>
    Same(upserts[u].row.facts, entities[upserts[u].found].facts)
SourceStands(m) ==
  m \in BusyMerges =>
    IF merges[m].source \in DOMAIN entities
    THEN Same(merges[m].from.facts, entities[merges[m].source].facts)
    ELSE merges[m].from.facts \subseteq crossed
TargetStands(m) ==
  merges[m].pc \in {"repoint", "write"} /\ merges[m].target \in DOMAIN entities =>
    Same(merges[m].into.facts, entities[merges[m].target].facts)
Moved(m) ==
  merges[m].pc = "delete" =>
    \A f \in merges[m].from.facts : f \notin crossed =>
      \E e \in DOMAIN entities : e # merges[m].source /\ f \in entities[e].facts
MergeStands(m) == SourceStands(m) /\ TargetStands(m) /\ Moved(m)
ReadInv ==
  (\A u \in Upsert : FoundStands(u)) /\ \A m \in Merge : MergeStands(m)

\* After a merge has repointed the relationships of its source, only those that
\* were written since are of it, and those it deleted were of it to its end.
IsRow(row) == row = [from |-> row.from, to |-> row.to, active |-> row.active]
RowInv ==
  /\ DOMAIN relates = Relate
  /\ \A r \in DOMAIN rels : IsRow(rels[r])
  /\ \A r \in Relate : relates[r].pc = "act" =>
       relates[r] = [pc |-> "act", from |-> relates[r].from, to |-> relates[r].to,
                     found |-> relates[r].found, row |-> relates[r].row]
  /\ \A r \in Relate : relates[r].pc = "write" => IsRow(relates[r].row)
RepointInv ==
  /\ \A m \in Merge : merges[m].pc \in {"write", "delete"} =>
       \A r \in DOMAIN rels : Graph!Touches(r, merges[m].source) => <<m, r>> \in fresh
  /\ \A m \in Merge : \A r : <<m, r>> \in orphaned => merges[m].pc = "done"
  /\ Graph!MergeKeepsRelationships

LEMMA FirstIsIn ==
  ASSUME NEW S \in SUBSET Nat
  PROVE  Graph!First(S) \in S \cup {0} /\ (S # {} => Graph!First(S) \in S)
<1>1. CASE S = {}
  BY <1>1 DEF Graph!First, Graph!Missing
<1>2. CASE S # {}
  <2>1. \E x \in S : \A y \in S : x <= y
    BY <1>2, LeastNatural
  <2>2. (CHOOSE x \in S : \A y \in S : x <= y) \in S
    BY <2>1
  <2>3. Graph!Min(S) \in S
    BY <2>2 DEF Graph!Min
  <2> QED
    BY <1>2, <2>3 DEF Graph!First
<1> QED
  BY <1>1, <1>2

LEMMA MatchesAreRows ==
  ASSUME IdInv, NEW c
  PROVE  /\ Graph!ExactMatch(c) \in DOMAIN entities \cup {0}
         /\ Graph!AnyMatch(c) \in DOMAIN entities \cup {0}
<1> DEFINE A == {e \in DOMAIN entities : entities[e].name = c.name}
           B == {e \in DOMAIN entities :
                   Graph!NamesOf(entities[e]) \cap Graph!NamesOf(c) # {}}
<1>1. A \in SUBSET Nat /\ B \in SUBSET Nat
  BY DEF IdInv
<1>2. Graph!ExactMatch(c) = Graph!First(A) /\ Graph!AnyMatch(c) = Graph!First(B)
  BY DEF Graph!ExactMatch, Graph!AnyMatch
<1>3. A \subseteq DOMAIN entities /\ B \subseteq DOMAIN entities
  OBVIOUS
<1> HIDE DEF A, B
<1>4. Graph!First(A) \in A \cup {0} /\ Graph!First(B) \in B \cup {0}
  BY <1>1, FirstIsIn
<1> QED
  BY <1>2, <1>3, <1>4

\* Where a call may be.
UpsertPc == {"new", "scan", "act", "write", "done"}
MergePc == {"new", "target", "repoint", "write", "delete", "done"}

LEMMA UpsertKeepsIds ==
  ASSUME IdInv, NEW u \in Upsert, NEW call, upserts' = [upserts EXCEPT ![u] = call],
         UNCHANGED merges, born' \in Nat, born <= born',
         DOMAIN entities' \subseteq 1 .. born',
         call.pc \in UpsertPc,
         call.pc \in {"scan", "act", "write"} => UpsertShape(call, born')
  PROVE  IdInv'
<1>1. \A c : UpsertShape(c, born) => UpsertShape(c, born')
  BY DEF UpsertShape, IdInv
<1>2. \A c : MergeShape(c, born) => MergeShape(c, born')
  BY DEF MergeShape, IdInv
<1>3. /\ DOMAIN upserts' = Upsert /\ upserts'[u] = call
      /\ \A v \in Upsert \ {u} : upserts'[v] = upserts[v]
  BY DEF IdInv
<1>4. \A v \in Upsert :
        /\ upserts'[v].pc \in UpsertPc
        /\ upserts'[v].pc \in {"scan", "act", "write"} =>
             UpsertShape(upserts'[v], born')
  BY <1>1, <1>3 DEF IdInv, UpsertPc
<1> QED
  BY <1>2, <1>3, <1>4 DEF IdInv, UpsertPc

LEMMA MergeKeepsIds ==
  ASSUME IdInv, NEW m \in Merge, NEW call, merges' = [merges EXCEPT ![m] = call],
         UNCHANGED <<upserts, born>>, DOMAIN entities' \subseteq 1 .. born,
         call.pc \in MergePc,
         call.pc \in {"target", "repoint", "write", "delete"} => MergeShape(call, born)
  PROVE  IdInv'
<1>1. /\ DOMAIN merges' = Merge /\ merges'[m] = call
      /\ \A n \in Merge \ {m} : merges'[n] = merges[n]
  BY DEF IdInv
<1>2. \A n \in Merge :
        /\ merges'[n].pc \in MergePc
        /\ merges'[n].pc \in {"target", "repoint", "write", "delete"} =>
             MergeShape(merges'[n], born')
  BY <1>1 DEF IdInv, MergePc
<1> QED
  BY <1>1, <1>2 DEF IdInv, MergePc

LEMMA OthersKeepIds ==
  ASSUME IdInv, UNCHANGED <<upserts, merges, born>>,
         DOMAIN entities' \subseteq DOMAIN entities
  PROVE  IdInv'
  BY DEF IdInv

LEMMA PutRow ==
  ASSUME NEW e, NEW row, Graph!Put(e, row)
  PROVE  /\ DOMAIN entities' = DOMAIN entities \cup {e}
         /\ entities'[e] = row
         /\ \A x \in DOMAIN entities : x # e => entities'[x] = entities[x]
  BY DEF Graph!Put

LEMMA CascadeRows ==
  ASSUME NEW e, Graph!Cascade(e)
  PROVE  /\ DOMAIN entities' = DOMAIN entities \ {e}
         /\ \A x \in DOMAIN entities' : entities'[x] = entities[x]
         /\ DOMAIN rels' \subseteq DOMAIN rels
         /\ \A r \in DOMAIN rels' : rels'[r] = rels[r]
  BY DEF Graph!Cascade

LEMMA IdStep == IdInv /\ [Graph!Next]_(Graph!vars) => IdInv'
<1> SUFFICES ASSUME IdInv, [Graph!Next]_(Graph!vars)
             PROVE  IdInv'
  OBVIOUS
<1>1. born \in Nat /\ DOMAIN entities \subseteq 1 .. born
  BY DEF IdInv
<1>2. ASSUME NEW u \in Upsert, NEW c \in Candidate, Graph!Resolve(u, c)
      PROVE  IdInv'
  <2> DEFINE call == [pc |-> "scan", cand |-> c, found |-> Graph!ExactMatch(c),
                      row |-> Graph!NoRow]
  <2>1. /\ upserts' = [upserts EXCEPT ![u] = call]
        /\ UNCHANGED <<entities, born, merges>>
    BY <1>2 DEF Graph!Resolve, Graph!tables
  <2>b. born' \in Nat /\ born <= born' /\ DOMAIN entities' \subseteq 1 .. born'
    BY <1>1, <2>1
  <2>2. Graph!ExactMatch(c) \in 0 .. born
    BY <1>1, MatchesAreRows
  <2>3. call.pc \in UpsertPc /\ UpsertShape(call, born)
    BY <2>2 DEF UpsertPc, UpsertShape
  <2> HIDE DEF call
  <2> QED
    BY <2>1, <2>3, <2>b, UpsertKeepsIds
<1>3. ASSUME NEW u \in Upsert, Graph!Scan(u)
      PROVE  IdInv'
  <2> DEFINE old == upserts[u]
             e == IF old.found # Graph!Missing THEN old.found
                  ELSE Graph!AnyMatch(old.cand)
             call == [pc |-> "act", cand |-> old.cand, found |-> e,
                      row |-> Graph!Snapshot(e)]
  <2>1. /\ upserts' = [upserts EXCEPT ![u] = call] /\ old.pc = "scan"
        /\ UNCHANGED <<entities, born, merges>>
    BY <1>3 DEF Graph!Scan, Graph!tables
  <2>b. born' \in Nat /\ born <= born' /\ DOMAIN entities' \subseteq 1 .. born'
    BY <1>1, <2>1
  <2>2. UpsertShape(old, born)
    BY <2>1 DEF IdInv
  <2>a. Graph!AnyMatch(old.cand) \in DOMAIN entities \cup {0}
    BY MatchesAreRows
  <2>3. e \in 0 .. born
    BY <1>1, <2>2, <2>a DEF UpsertShape
  <2> HIDE DEF e, old
  <2>4. call.pc \in UpsertPc /\ UpsertShape(call, born)
    BY <2>3 DEF UpsertPc, UpsertShape
  <2> HIDE DEF call
  <2> QED
    BY <2>1, <2>4, <2>b, UpsertKeepsIds
<1>4. ASSUME NEW u \in Upsert, Graph!CreateEntity(u)
      PROVE  IdInv'
  <2>1. /\ upserts' = [upserts EXCEPT ![u] = Graph!Done] /\ born' = born + 1
        /\ Graph!Put(born + 1, upserts[u].cand) /\ UNCHANGED merges
    BY <1>4 DEF Graph!CreateEntity, Graph!Returns
  <2>2. DOMAIN entities' = DOMAIN entities \cup {born + 1}
    BY <2>1 DEF Graph!Put
  <2>b. born' \in Nat /\ born <= born' /\ DOMAIN entities' \subseteq 1 .. born'
    BY <1>1, <2>1, <2>2
  <2>3. Graph!Done.pc = "done"
    BY DEF Graph!Done
  <2> QED
    BY <2>1, <2>3, <2>b, UpsertKeepsIds DEF UpsertPc
<1>5. ASSUME NEW u \in Upsert, Graph!ReadEntity(u)
      PROVE  IdInv'
  <2> DEFINE old == upserts[u]
             call == IF Graph!Exists(old.found) THEN [old EXCEPT !.pc = "write"]
                     ELSE Graph!Done
  <2>1. /\ upserts' = [upserts EXCEPT ![u] = call]
        /\ old.pc = "act" /\ old.found # Graph!Missing
        /\ UNCHANGED <<entities, born, merges>>
    BY <1>5 DEF Graph!ReadEntity, Graph!tables
  <2>b. born' \in Nat /\ born <= born' /\ DOMAIN entities' \subseteq 1 .. born'
    BY <1>1, <2>1
  <2>2. UpsertShape(old, born)
    BY <2>1 DEF IdInv
  <2> HIDE DEF old
  <2>3. /\ call.pc \in UpsertPc
        /\ call.pc \in {"scan", "act", "write"} => UpsertShape(call, born)
    BY <2>1, <2>2 DEF UpsertPc, UpsertShape, Graph!Done, Graph!Missing
  <2> HIDE DEF call
  <2> QED
    BY <2>1, <2>3, <2>b, UpsertKeepsIds
<1>6. ASSUME NEW u \in Upsert, Graph!UpdateEntity(u)
      PROVE  IdInv'
  <2>1. /\ upserts' = [upserts EXCEPT ![u] = Graph!Done] /\ UNCHANGED <<born, merges>>
    BY <1>6 DEF Graph!UpdateEntity, Graph!Returns
  <2>2. DOMAIN entities' = DOMAIN entities
    BY <1>6 DEF Graph!UpdateEntity, Graph!Put, Graph!Exists
  <2>b. born' \in Nat /\ born <= born' /\ DOMAIN entities' \subseteq 1 .. born'
    BY <1>1, <2>1, <2>2
  <2>3. Graph!Done.pc = "done"
    BY DEF Graph!Done
  <2> QED
    BY <2>1, <2>3, <2>b, UpsertKeepsIds DEF UpsertPc
<1>7. ASSUME NEW m \in Merge, NEW s \in Graph!EntityId, NEW t \in Graph!EntityId,
             Graph!StartMerge(m, s, t)
      PROVE  IdInv'
  <2> DEFINE call == [pc |-> "target", source |-> s, target |-> t,
                      from |-> entities[s], into |-> Graph!NoRow,
                      name |-> Graph!NoRow.name]
  <2>1. /\ merges' = [merges EXCEPT ![m] = call] /\ s # t /\ s \in DOMAIN entities
        /\ UNCHANGED <<entities, born, upserts>>
    BY <1>7 DEF Graph!StartMerge, Graph!Exists, Graph!tables
  <2>2. call.pc \in MergePc /\ MergeShape(call, born)
    BY <1>1, <2>1 DEF MergePc, MergeShape
  <2> HIDE DEF call
  <2> QED
    BY <1>1, <2>1, <2>2, MergeKeepsIds
<1>8. ASSUME NEW m \in Merge, Graph!ReadTarget(m)
      PROVE  IdInv'
  <2> DEFINE old == merges[m]
             call == IF Graph!Exists(old.target)
                     THEN [old EXCEPT !.pc = "repoint", !.into = entities[old.target]]
                     ELSE Graph!Done
  <2>1. /\ merges' = [merges EXCEPT ![m] = call] /\ old.pc = "target"
        /\ UNCHANGED <<entities, born, upserts>>
    BY <1>8 DEF Graph!ReadTarget, Graph!tables
  <2>2. MergeShape(old, born)
    BY <2>1 DEF IdInv
  <2> HIDE DEF old
  <2>3. /\ call.pc \in MergePc
        /\ call.pc \in {"target", "repoint", "write", "delete"} =>
             MergeShape(call, born)
    BY <1>1, <2>1, <2>2 DEF MergePc, MergeShape, Graph!Done, Graph!Exists
  <2> HIDE DEF call
  <2> QED
    BY <1>1, <2>1, <2>3, MergeKeepsIds
<1>9. ASSUME NEW m \in Merge, Graph!Repoint(m)
      PROVE  IdInv'
  <2> DEFINE old == merges[m]
             call == IF Graph!Exists(old.target)
                     THEN [old EXCEPT !.pc = "write",
                                      !.name = entities[old.target].name]
                     ELSE Graph!Done
  <2>1. /\ merges' = [merges EXCEPT ![m] = call] /\ old.pc = "repoint"
        /\ UNCHANGED <<entities, born, upserts>>
    BY <1>9 DEF Graph!Repoint
  <2>2. MergeShape(old, born)
    BY <2>1 DEF IdInv
  <2> HIDE DEF old
  <2>3. /\ call.pc \in MergePc
        /\ call.pc \in {"target", "repoint", "write", "delete"} =>
             MergeShape(call, born)
    BY <1>1, <2>1, <2>2 DEF MergePc, MergeShape, Graph!Done, Graph!Exists
  <2> HIDE DEF call
  <2> QED
    BY <1>1, <2>1, <2>3, MergeKeepsIds
<1>10. ASSUME NEW m \in Merge, Graph!WriteTarget(m)
       PROVE  IdInv'
  <2> DEFINE old == merges[m]
             call == IF Graph!Exists(old.target) THEN [old EXCEPT !.pc = "delete"]
                     ELSE Graph!Done
  <2>1. /\ merges' = [merges EXCEPT ![m] = call] /\ old.pc = "write"
        /\ UNCHANGED <<born, upserts>>
    BY <1>10 DEF Graph!WriteTarget
  <2>2. DOMAIN entities' = DOMAIN entities
    BY <1>10 DEF Graph!WriteTarget, Graph!Put, Graph!Exists
  <2>3. MergeShape(old, born)
    BY <2>1 DEF IdInv
  <2> HIDE DEF old
  <2>4. /\ call.pc \in MergePc
        /\ call.pc \in {"target", "repoint", "write", "delete"} =>
             MergeShape(call, born)
    BY <1>1, <2>1, <2>3 DEF MergePc, MergeShape, Graph!Done, Graph!Exists
  <2> HIDE DEF call
  <2> QED
    BY <1>1, <2>1, <2>2, <2>4, MergeKeepsIds
<1>11. ASSUME NEW m \in Merge, Graph!DeleteSource(m)
       PROVE  IdInv'
  <2>1. /\ merges' = [merges EXCEPT ![m] = Graph!Done] /\ UNCHANGED <<born, upserts>>
        /\ DOMAIN entities' \subseteq DOMAIN entities
    BY <1>11, CascadeRows DEF Graph!DeleteSource
  <2>2. Graph!Done.pc = "done"
    BY DEF Graph!Done
  <2> QED
    BY <1>1, <2>1, <2>2, MergeKeepsIds DEF MergePc
<1>12. ASSUME NEW e \in Graph!EntityId, Graph!DeleteEntity(e)
       PROVE  IdInv'
  BY <1>12, CascadeRows, OthersKeepIds DEF Graph!DeleteEntity, Graph!calls
<1>13. ASSUME UNCHANGED <<entities, born, upserts, merges>>
       PROVE  IdInv'
  BY <1>13, OthersKeepIds
<1>14. CASE UNCHANGED Graph!vars
  BY <1>13, <1>14 DEF Graph!vars, Graph!tables, Graph!calls
<1>15. ASSUME NEW r \in Relate, NEW f \in Graph!EntityId, NEW t \in Graph!EntityId,
              Graph!FindRelationship(r, f, t)
       PROVE  IdInv'
  BY <1>13, <1>15 DEF Graph!FindRelationship, Graph!tables
<1>16. ASSUME NEW r \in Relate,
              Graph!CreateRelationship(r) \/ Graph!ReadRelationship(r)
                \/ Graph!UpdateRelationship(r)
       PROVE  IdInv'
  BY <1>13, <1>16 DEF Graph!CreateRelationship, Graph!ReadRelationship,
                      Graph!UpdateRelationship, Graph!tables
<1>17. ASSUME NEW r \in Graph!RelId,
              Graph!EndRelationship(r) \/ Graph!DeleteRelationship(r)
       PROVE  IdInv'
  BY <1>13, <1>17 DEF Graph!EndRelationship, Graph!DeleteRelationship, Graph!calls
<1> QED
  BY <1>2, <1>3, <1>4, <1>5, <1>6, <1>7, <1>8, <1>9, <1>10, <1>11, <1>12, <1>14,
     <1>15, <1>16, <1>17 DEF Graph!Next

KeptInv == StakeInv /\ ReadInv /\ Graph!NothingForgotten

\* What is spread over other facts holds all of both that is not replaced.
LEMMA SpreadKeeps ==
  ASSUME NEW old, NEW new
  PROVE  \A f : f \notin Graph!Replaced(old, new) =>
           (f \in Graph!Spread(old, new) <=> f \in old \/ f \in new)
  BY DEF Graph!Spread, Graph!Replaced

\* A step that leaves every row of an entity as it was, the exposed aside.
EntitiesStand ==
  /\ crossed \subseteq crossed'
  /\ \A x \in DOMAIN entities \cap DOMAIN entities' : \A f : f \notin crossed' =>
       (f \in entities'[x].facts <=> f \in entities[x].facts)
  /\ \A x \in DOMAIN entities \ DOMAIN entities' : entities[x].facts \subseteq crossed'
  /\ \A x \in DOMAIN entities' \ DOMAIN entities : x \notin 0 .. born

LEMMA FoundStay ==
  ASSUME IdInv, EntitiesStand, NEW u \in Upsert, upserts'[u] = upserts[u],
         FoundStands(u)
  PROVE  FoundStands(u)'
<1> SUFFICES ASSUME upserts[u].pc \in {"act", "write"},
                    upserts[u].found \in DOMAIN entities', NEW f, f \notin crossed'
             PROVE  f \in upserts[u].row.facts
                      <=> f \in entities'[upserts[u].found].facts
  BY DEF FoundStands, Same
<1>1. upserts[u].found \in 0 .. born
  BY DEF IdInv, UpsertShape
<1>2. upserts[u].found \in DOMAIN entities /\ f \notin crossed
  BY <1>1 DEF EntitiesStand
<1>3. f \in upserts[u].row.facts <=> f \in entities[upserts[u].found].facts
  BY <1>2 DEF FoundStands, Same
<1> QED
  BY <1>2, <1>3 DEF EntitiesStand

LEMMA SourceStays ==
  ASSUME IdInv, EntitiesStand, NEW m \in Merge,
         merges[m].pc \in {"target", "repoint", "write", "delete"},
         merges'[m].pc \in {"target", "repoint", "write", "delete"},
         merges'[m].source = merges[m].source, merges'[m].from = merges[m].from,
         SourceStands(m)
  PROVE  SourceStands(m)'
<1> DEFINE s == merges[m].source
<1>1. m \in BusyMerges /\ s \in 0 .. born
  BY DEF BusyMerges, Graph!Busy, IdInv, MergeShape
<1>2. CASE s \in DOMAIN entities'
  <2>1. s \in DOMAIN entities
    BY <1>1, <1>2 DEF EntitiesStand
  <2>2. Same(merges[m].from.facts, entities[s].facts)
    BY <1>1, <2>1 DEF SourceStands
  <2> QED
    BY <1>2, <2>1, <2>2 DEF SourceStands, Same, EntitiesStand
<1>3. CASE s \notin DOMAIN entities' /\ s \in DOMAIN entities
  <2>1. Same(merges[m].from.facts, entities[s].facts)
    BY <1>1, <1>3 DEF SourceStands
  <2>2. entities[s].facts \subseteq crossed'
    BY <1>3 DEF EntitiesStand
  <2>3. merges[m].from.facts \subseteq crossed'
    BY <2>1, <2>2 DEF Same, EntitiesStand
  <2> QED
    BY <1>3, <2>3 DEF SourceStands
<1>4. CASE s \notin DOMAIN entities' /\ s \notin DOMAIN entities
  <2>1. merges[m].from.facts \subseteq crossed'
    BY <1>1, <1>4 DEF SourceStands, EntitiesStand
  <2> QED
    BY <1>4, <2>1 DEF SourceStands
<1> QED
  BY <1>2, <1>3, <1>4

LEMMA TargetStays ==
  ASSUME IdInv, EntitiesStand, NEW m \in Merge,
         merges[m].pc \in {"repoint", "write"},
         merges'[m].target = merges[m].target, merges'[m].into = merges[m].into,
         TargetStands(m)
  PROVE  TargetStands(m)'
<1> SUFFICES ASSUME merges[m].target \in DOMAIN entities', NEW f, f \notin crossed'
             PROVE  f \in merges[m].into.facts
                      <=> f \in entities'[merges[m].target].facts
  BY DEF TargetStands, Same
<1>1. merges[m].target \in 0 .. born
  BY DEF IdInv, MergeShape
<1>2. merges[m].target \in DOMAIN entities /\ f \notin crossed
  BY <1>1 DEF EntitiesStand
<1>3. f \in merges[m].into.facts <=> f \in entities[merges[m].target].facts
  BY <1>2 DEF TargetStands, Same
<1> QED
  BY <1>2, <1>3 DEF EntitiesStand

LEMMA HeldStays ==
  ASSUME IdInv, EntitiesStand, NEW f, f \notin crossed', NEW s, NEW e \in DOMAIN entities,
         e # s, f \in entities[e].facts
  PROVE  \E x \in DOMAIN entities' : x # s /\ f \in entities'[x].facts
<1>1. e \in DOMAIN entities'
  BY DEF EntitiesStand
<1> QED
  BY <1>1 DEF EntitiesStand

LEMMA MergeStays ==
  ASSUME IdInv, EntitiesStand, NEW m \in Merge, merges'[m] = merges[m], MergeStands(m)
  PROVE  MergeStands(m)'
<1> DEFINE pc == merges[m].pc
<1>1. pc \in {"new", "target", "repoint", "write", "delete", "done"}
  BY DEF IdInv
<1>2. CASE pc \in {"new", "done"}
  BY <1>2 DEF MergeStands, SourceStands, TargetStands, Moved, BusyMerges, Graph!Busy
<1>3. CASE pc \in {"target", "repoint", "write", "delete"}
  <2>1. SourceStands(m)'
    BY <1>3, SourceStays DEF MergeStands
  <2>2. TargetStands(m)'
    <3>1. CASE pc \in {"repoint", "write"}
      BY <3>1, TargetStays DEF MergeStands
    <3>2. CASE pc \notin {"repoint", "write"}
      BY <3>2 DEF TargetStands
    <3> QED
      BY <3>1, <3>2
  <2>3. Moved(m)'
    <3> SUFFICES ASSUME pc = "delete", NEW f \in merges[m].from.facts, f \notin crossed'
                 PROVE  \E x \in DOMAIN entities' :
                          x # merges[m].source /\ f \in entities'[x].facts
      BY DEF Moved
    <3>1. PICK e \in DOMAIN entities : e # merges[m].source /\ f \in entities[e].facts
      BY DEF MergeStands, Moved, EntitiesStand
    <3> QED
      BY <3>1, HeldStays
  <2> QED
    BY <2>1, <2>2, <2>3 DEF MergeStands
<1> QED
  BY <1>1, <1>2, <1>3

\* What is known and held stays so; what comes to be known is to be held.
LEMMA KnownStays ==
  ASSUME IdInv, EntitiesStand, Graph!NothingForgotten,
         \A f \in known' \ known : f \notin crossed' =>
           \E e \in DOMAIN entities' : f \in entities'[e].facts
  PROVE  Graph!NothingForgotten'
<1> SUFFICES ASSUME NEW f \in known', f \notin crossed'
             PROVE  \E e \in DOMAIN entities' : f \in entities'[e].facts
  BY DEF Graph!NothingForgotten
<1>1. CASE f \in known
  <2>1. f \notin crossed
    BY DEF EntitiesStand
  <2>2. PICK e \in DOMAIN entities : f \in entities[e].facts
    BY <1>1, <2>1 DEF Graph!NothingForgotten
  <2>3. e \in DOMAIN entities'
    BY <2>2 DEF EntitiesStand
  <2> QED
    BY <2>2, <2>3 DEF EntitiesStand
<1>2. CASE f \notin known
  BY <1>2
<1> QED
  BY <1>1, <1>2

\* As long as no call begins, what is exposed stays so.
LEMMA StakeShrinks ==
  ASSUME StakeInv, crossed \subseteq crossed',
         BusyUpserts' \subseteq BusyUpserts, BusyMerges' \subseteq BusyMerges,
         \A u \in BusyUpserts' : upserts'[u].cand = upserts[u].cand,
         \A m \in BusyMerges' : merges'[m].from = merges[m].from
  PROVE  StakeInv'
<1>1. ASSUME NEW u \in BusyUpserts', BusyUpserts' # {u} \/ BusyMerges' # {}
      PROVE  upserts'[u].cand.facts \subseteq crossed'
  <2>1. u \in BusyUpserts /\ (BusyUpserts # {u} \/ BusyMerges # {})
    BY <1>1
  <2> QED
    BY <2>1 DEF StakeInv
<1>2. ASSUME NEW m \in BusyMerges', BusyMerges' # {m} \/ BusyUpserts' # {}
      PROVE  merges'[m].from.facts \subseteq crossed'
  <2>1. m \in BusyMerges /\ (BusyMerges # {m} \/ BusyUpserts # {})
    BY <1>2
  <2> QED
    BY <2>1 DEF StakeInv
<1> QED
  BY <1>1, <1>2 DEF StakeInv

\* What is at stake covers all that the calls under way hold.
LEMMA AtStakeCovers ==
  ASSUME ReadInv
  PROVE  /\ \A u \in BusyUpserts : upserts[u].cand.facts \subseteq Graph!AtStake
         /\ \A m \in BusyMerges : merges[m].from.facts \subseteq crossed \cup Graph!AtStake
<1>1. ASSUME NEW u \in BusyUpserts
      PROVE  upserts[u].cand.facts \subseteq Graph!AtStake
  BY DEF Graph!AtStake, BusyUpserts
<1>2. ASSUME NEW m \in BusyMerges
      PROVE  merges[m].from.facts \subseteq crossed \cup Graph!AtStake
  <2>1. SourceStands(m) /\ m \in Merge /\ Graph!Busy(merges[m])
    BY DEF ReadInv, MergeStands, BusyMerges
  <2>2. CASE merges[m].source \in DOMAIN entities
    <3> DEFINE s == merges[m].source
               sources == {merges[k].source : k \in {n \in Merge : Graph!Busy(merges[n])}}
               H == UNION {entities[e].facts : e \in sources \cap DOMAIN entities}
               C == UNION {upserts[u].cand.facts :
                             u \in {v \in Upsert : Graph!Busy(upserts[v])}}
    <3>1. Graph!AtStake = C \cup H
      BY DEF Graph!AtStake
    <3>2. s \in sources \cap DOMAIN entities
      BY <2>1, <2>2
    <3> HIDE DEF sources, s
    <3>3. \A f \in entities[s].facts : f \in H
      BY <3>2
    <3> HIDE DEF C, H
    <3>4. entities[s].facts \subseteq Graph!AtStake
      BY <3>1, <3>3
    <3> QED
      BY <2>1, <2>2, <3>4 DEF SourceStands, Same, s
  <2>3. CASE merges[m].source \notin DOMAIN entities
    BY <2>1, <2>3 DEF SourceStands
  <2> QED
    BY <2>2, <2>3
<1> QED
  BY <1>1, <1>2

\* A step of one call leaves the others as they were.
LEMMA UpsertMoves ==
  ASSUME IdInv, KeptInv, NEW u \in Upsert,
         DOMAIN upserts' = Upsert, \A v \in Upsert \ {u} : upserts'[v] = upserts[v],
         merges' = merges
  PROVE  /\ BusyMerges' = BusyMerges
         /\ BusyUpserts' \subseteq BusyUpserts \cup {u}
         /\ \A v \in BusyUpserts' : v # u => v \in BusyUpserts /\ upserts'[v] = upserts[v]
         /\ EntitiesStand =>
              /\ \A v \in Upsert \ {u} : FoundStands(v)'
              /\ \A m \in Merge : MergeStands(m)'
<1>1. ASSUME EntitiesStand
      PROVE  /\ \A v \in Upsert \ {u} : FoundStands(v)'
             /\ \A m \in Merge : MergeStands(m)'
  BY <1>1, FoundStay, MergeStays DEF KeptInv, ReadInv
<1> QED
  BY <1>1 DEF BusyMerges, BusyUpserts

LEMMA MergeMoves ==
  ASSUME IdInv, KeptInv, NEW m \in Merge,
         DOMAIN merges' = Merge, \A n \in Merge \ {m} : merges'[n] = merges[n],
         upserts' = upserts
  PROVE  /\ BusyUpserts' = BusyUpserts
         /\ BusyMerges' \subseteq BusyMerges \cup {m}
         /\ \A n \in BusyMerges' : n # m => n \in BusyMerges /\ merges'[n] = merges[n]
         /\ EntitiesStand =>
              /\ \A u \in Upsert : FoundStands(u)'
              /\ \A n \in Merge \ {m} : MergeStands(n)'
<1>1. ASSUME EntitiesStand
      PROVE  /\ \A u \in Upsert : FoundStands(u)'
             /\ \A n \in Merge \ {m} : MergeStands(n)'
  BY <1>1, FoundStay, MergeStays DEF KeptInv, ReadInv
<1> QED
  BY <1>1 DEF BusyMerges, BusyUpserts

LEMMA EntitiesSame ==
  ASSUME UNCHANGED entities, crossed \subseteq crossed'
  PROVE  EntitiesStand
  BY DEF EntitiesStand

LEMMA KnownSame ==
  ASSUME IdInv, KeptInv, EntitiesStand, UNCHANGED known
  PROVE  Graph!NothingForgotten'
  BY KnownStays DEF KeptInv

\* Beginning beside others exposes them all, and itself.
LEMMA Exposure ==
  ASSUME KeptInv, NEW stake, Graph!Exposes(stake)
  PROVE  /\ crossed \subseteq crossed'
         /\ BusyUpserts # {} \/ BusyMerges # {} =>
              /\ stake \subseteq crossed'
              /\ \A u \in BusyUpserts : upserts[u].cand.facts \subseteq crossed'
              /\ \A m \in BusyMerges : merges[m].from.facts \subseteq crossed'
<1>1. /\ \A u \in BusyUpserts : upserts[u].cand.facts \subseteq Graph!AtStake
      /\ \A m \in BusyMerges : merges[m].from.facts \subseteq crossed \cup Graph!AtStake
  BY AtStakeCovers DEF KeptInv
<1>2. Graph!Alone => BusyUpserts = {} /\ BusyMerges = {}
  BY DEF Graph!Alone, BusyUpserts, BusyMerges
<1>3. crossed' = IF Graph!Alone THEN crossed
                 ELSE crossed \cup stake \cup Graph!AtStake
  BY DEF Graph!Exposes
<1>4. BusyUpserts = {} /\ BusyMerges = {} => Graph!Alone
  BY DEF Graph!Alone, BusyUpserts, BusyMerges
<1>5. CASE Graph!Alone
  BY <1>2, <1>3, <1>5
<1>6. CASE ~Graph!Alone
  BY <1>1, <1>3, <1>6
<1> QED
  BY <1>5, <1>6

LEMMA ResolveKeeps ==
  ASSUME IdInv, KeptInv, NEW u \in Upsert, NEW c \in Candidate, Graph!Resolve(u, c)
  PROVE  KeptInv'
<1>1. /\ upserts[u] = Graph!Fresh
      /\ upserts' = [upserts EXCEPT ![u] =
           [pc |-> "scan", cand |-> c, found |-> Graph!ExactMatch(c),
            row |-> Graph!NoRow]]
      /\ Graph!Exposes(c.facts)
      /\ UNCHANGED <<entities, merges, known>>
  BY DEF Graph!Resolve, Graph!tables
<1>2. /\ DOMAIN upserts' = Upsert /\ \A v \in Upsert \ {u} : upserts'[v] = upserts[v]
      /\ upserts'[u].pc = "scan" /\ upserts'[u].cand = c
  BY <1>1 DEF IdInv
<1>3. /\ crossed \subseteq crossed'
      /\ BusyUpserts # {} \/ BusyMerges # {} =>
           /\ c.facts \subseteq crossed'
           /\ \A v \in BusyUpserts : upserts[v].cand.facts \subseteq crossed'
           /\ \A m \in BusyMerges : merges[m].from.facts \subseteq crossed'
  BY <1>1, Exposure
<1>4. EntitiesStand
  BY <1>1, <1>3, EntitiesSame
<1>5. /\ BusyMerges' = BusyMerges
      /\ \A v \in BusyUpserts' : v # u => v \in BusyUpserts /\ upserts'[v] = upserts[v]
      /\ \A v \in Upsert \ {u} : FoundStands(v)'
      /\ \A m \in Merge : MergeStands(m)'
  BY <1>1, <1>2, <1>4, UpsertMoves
<1>6. FoundStands(u)'
  BY <1>2 DEF FoundStands
<1>7. u \notin BusyUpserts
  BY <1>1 DEF BusyUpserts, Graph!Busy, Graph!Fresh
<1>8. ASSUME NEW v \in BusyUpserts', BusyUpserts' # {v} \/ BusyMerges' # {}
      PROVE  upserts'[v].cand.facts \subseteq crossed'
  BY <1>2, <1>3, <1>5, <1>8
<1>9. ASSUME NEW m \in BusyMerges'
      PROVE  merges'[m].from.facts \subseteq crossed'
  BY <1>1, <1>3, <1>5, <1>9
<1>10. StakeInv'
  BY <1>8, <1>9 DEF StakeInv
<1>11. ReadInv'
  BY <1>5, <1>6 DEF ReadInv
<1> QED
  BY <1>1, <1>4, <1>10, <1>11, KnownSame DEF KeptInv

LEMMA ScanKeeps ==
  ASSUME IdInv, KeptInv, NEW u \in Upsert, Graph!Scan(u)
  PROVE  KeptInv'
<1> DEFINE old == upserts[u]
           e == IF old.found # Graph!Missing THEN old.found
                ELSE Graph!AnyMatch(old.cand)
<1>1. /\ old.pc = "scan"
      /\ upserts' = [upserts EXCEPT ![u] =
           [pc |-> "act", cand |-> old.cand, found |-> e, row |-> Graph!Snapshot(e)]]
      /\ UNCHANGED <<entities, merges, known, crossed>>
  BY DEF Graph!Scan, Graph!tables, Graph!ghosts
<1> HIDE DEF e
<1>2. /\ DOMAIN upserts' = Upsert /\ \A v \in Upsert \ {u} : upserts'[v] = upserts[v]
      /\ upserts'[u].cand = old.cand
      /\ upserts'[u].found = e /\ upserts'[u].row = Graph!Snapshot(e)
  BY <1>1 DEF IdInv
<1>3. EntitiesStand
  BY <1>1, EntitiesSame
<1>4. /\ BusyMerges' = BusyMerges
      /\ BusyUpserts' \subseteq BusyUpserts \cup {u}
      /\ \A v \in BusyUpserts' : v # u => v \in BusyUpserts /\ upserts'[v] = upserts[v]
      /\ \A v \in Upsert \ {u} : FoundStands(v)'
      /\ \A m \in Merge : MergeStands(m)'
  BY <1>1, <1>2, <1>3, UpsertMoves
<1>5. FoundStands(u)'
  BY <1>1, <1>2 DEF FoundStands, Same, Graph!Snapshot, Graph!Exists
<1>6. u \in BusyUpserts
  BY <1>1 DEF BusyUpserts, Graph!Busy
<1>7. \A v \in BusyUpserts' : upserts'[v].cand = upserts[v].cand
  BY <1>2, <1>4
<1>8. StakeInv'
  BY <1>1, <1>4, <1>6, <1>7, StakeShrinks DEF KeptInv
<1>9. ReadInv'
  BY <1>4, <1>5 DEF ReadInv
<1> QED
  BY <1>1, <1>3, <1>8, <1>9, KnownSame DEF KeptInv

LEMMA ReadEntityKeeps ==
  ASSUME IdInv, KeptInv, NEW u \in Upsert, Graph!ReadEntity(u)
  PROVE  KeptInv'
<1> DEFINE old == upserts[u]
           call == IF Graph!Exists(old.found) THEN [old EXCEPT !.pc = "write"]
                   ELSE Graph!Done
<1>1. /\ old.pc = "act" /\ upserts' = [upserts EXCEPT ![u] = call]
      /\ UNCHANGED <<entities, merges, known, crossed>>
  BY DEF Graph!ReadEntity, Graph!tables, Graph!ghosts
<1>2. \/ call.pc = "done"
      \/ call.cand = old.cand /\ call.found = old.found /\ call.row = old.row
  <2>1. UpsertShape(old, born)
    BY <1>1 DEF IdInv
  <2> QED
    BY <2>1 DEF UpsertShape, Graph!Done
<1> HIDE DEF call
<1>3. /\ DOMAIN upserts' = Upsert /\ \A v \in Upsert \ {u} : upserts'[v] = upserts[v]
      /\ upserts'[u] = call
  BY <1>1 DEF IdInv
<1>4. EntitiesStand
  BY <1>1, EntitiesSame
<1>5. /\ BusyMerges' = BusyMerges
      /\ BusyUpserts' \subseteq BusyUpserts \cup {u}
      /\ \A v \in BusyUpserts' : v # u => v \in BusyUpserts /\ upserts'[v] = upserts[v]
      /\ \A v \in Upsert \ {u} : FoundStands(v)'
      /\ \A m \in Merge : MergeStands(m)'
  BY <1>1, <1>3, <1>4, UpsertMoves
<1>6. FoundStands(u)'
  BY <1>1, <1>2, <1>3 DEF FoundStands, Same, KeptInv, ReadInv
<1>7. u \in BusyUpserts
  BY <1>1 DEF BusyUpserts, Graph!Busy
<1>8. \A v \in BusyUpserts' : upserts'[v].cand = upserts[v].cand
  BY <1>2, <1>3, <1>5 DEF BusyUpserts, Graph!Busy
<1>9. StakeInv'
  BY <1>1, <1>5, <1>7, <1>8, StakeShrinks DEF KeptInv
<1>10. ReadInv'
  BY <1>5, <1>6 DEF ReadInv
<1> QED
  BY <1>1, <1>4, <1>9, <1>10, KnownSame DEF KeptInv

LEMMA CreateKeeps ==
  ASSUME IdInv, KeptInv, NEW u \in Upsert, Graph!CreateEntity(u)
  PROVE  KeptInv'
<1>1. /\ upserts[u].pc = "act"
      /\ upserts' = [upserts EXCEPT ![u] = Graph!Done]
      /\ Graph!Put(born + 1, upserts[u].cand)
      /\ known' = known \cup upserts[u].cand.facts
      /\ UNCHANGED <<merges, crossed>>
  BY DEF Graph!CreateEntity, Graph!Returns
<1>2. /\ DOMAIN upserts' = Upsert /\ \A v \in Upsert \ {u} : upserts'[v] = upserts[v]
      /\ upserts'[u].pc = "done"
  BY <1>1 DEF IdInv, Graph!Done
<1>3. /\ DOMAIN entities' = DOMAIN entities \cup {born + 1}
      /\ entities'[born + 1] = upserts[u].cand
      /\ \A x \in DOMAIN entities : x # born + 1 => entities'[x] = entities[x]
  BY <1>1, PutRow
<1>4. born + 1 \notin 0 .. born /\ born + 1 \notin DOMAIN entities
  BY DEF IdInv
<1>5. EntitiesStand
  BY <1>1, <1>3, <1>4 DEF EntitiesStand
<1>6. /\ BusyMerges' = BusyMerges
      /\ BusyUpserts' \subseteq BusyUpserts \cup {u}
      /\ \A v \in BusyUpserts' : v # u => v \in BusyUpserts /\ upserts'[v] = upserts[v]
      /\ \A v \in Upsert \ {u} : FoundStands(v)'
      /\ \A m \in Merge : MergeStands(m)'
  BY <1>1, <1>2, <1>5, UpsertMoves
<1>7. FoundStands(u)' /\ u \notin BusyUpserts'
  BY <1>2 DEF FoundStands, BusyUpserts, Graph!Busy
<1>8. StakeInv'
  BY <1>1, <1>6, <1>7, StakeShrinks DEF KeptInv
<1>9. ReadInv'
  BY <1>6, <1>7 DEF ReadInv
<1>10. \A f \in known' \ known : \E e \in DOMAIN entities' : f \in entities'[e].facts
  BY <1>1, <1>3
<1> QED
  BY <1>5, <1>8, <1>9, <1>10, KnownStays DEF KeptInv

\* The rows stand unless the one who writes is alone.
LEMMA UpdateKeeps ==
  ASSUME IdInv, KeptInv, NEW u \in Upsert, Graph!UpdateEntity(u)
  PROVE  KeptInv'
<1> DEFINE old == upserts[u]
           e == old.found
<1>1. /\ old.pc = "write" /\ upserts' = [upserts EXCEPT ![u] = Graph!Done]
      /\ merges' = merges /\ crossed \subseteq crossed'
  BY DEF Graph!UpdateEntity, Graph!Returns
<1>2. /\ DOMAIN upserts' = Upsert /\ \A v \in Upsert \ {u} : upserts'[v] = upserts[v]
      /\ upserts'[u].pc = "done"
  BY <1>1 DEF IdInv, Graph!Done
<1>3. /\ BusyMerges' = BusyMerges
      /\ BusyUpserts' \subseteq BusyUpserts \cup {u}
      /\ \A v \in BusyUpserts' : v # u => v \in BusyUpserts /\ upserts'[v] = upserts[v]
      /\ EntitiesStand =>
           /\ \A v \in Upsert \ {u} : FoundStands(v)'
           /\ \A m \in Merge : MergeStands(m)'
  BY <1>1, <1>2, UpsertMoves
<1>4. FoundStands(u)' /\ u \notin BusyUpserts' /\ u \in BusyUpserts
  BY <1>1, <1>2 DEF FoundStands, BusyUpserts, Graph!Busy
<1>5. StakeInv'
  BY <1>1, <1>3, <1>4, StakeShrinks DEF KeptInv
<1>6. CASE e \in DOMAIN entities
  <2>1. /\ DOMAIN entities' = DOMAIN entities
        /\ \A f : f \notin crossed' =>
             (f \in entities'[e].facts <=> f \in old.row.facts \/ f \in old.cand.facts)
        /\ \A f : f \in old.cand.facts => f \in entities'[e].facts
        /\ \A x \in DOMAIN entities : x # e => entities'[x] = entities[x]
        /\ known' = known \cup old.cand.facts
    <3> DEFINE row == [name |-> old.cand.name,
                       aliases |-> old.row.aliases \cup old.cand.aliases,
                       facts |-> Graph!Spread(old.row.facts, old.cand.facts)]
    <3>1. /\ Graph!Put(e, row) /\ known' = known \cup old.cand.facts
          /\ Graph!Replaced(old.row.facts, old.cand.facts) \subseteq crossed'
      BY <1>6 DEF Graph!UpdateEntity, Graph!Returns, Graph!Exists
    <3>2. /\ \A f : f \notin crossed' =>
               (f \in row.facts <=> f \in old.row.facts \/ f \in old.cand.facts)
          /\ \A f : f \in old.cand.facts => f \in row.facts
      BY <3>1, SpreadKeeps DEF Graph!Spread
    <3> HIDE DEF row
    <3> QED
      <4>1. /\ DOMAIN entities' = DOMAIN entities \cup {e} /\ entities'[e] = row
            /\ \A x \in DOMAIN entities : x # e => entities'[x] = entities[x]
        BY <3>1, PutRow
      <4> QED
        BY <1>6, <3>1, <3>2, <4>1
  <2>2. Same(old.row.facts, entities[e].facts)
    BY <1>1, <1>6 DEF KeptInv, ReadInv, FoundStands
  <2>3. ASSUME old.cand.facts \subseteq crossed
        PROVE  EntitiesStand
    BY <1>1, <2>1, <2>2, <2>3 DEF EntitiesStand, Same
  <2>4. ASSUME NEW v \in Upsert \ {u}
        PROVE  FoundStands(v)'
    <3>1. CASE v \in BusyUpserts
      BY <1>3, <1>4, <2>3, <3>1 DEF KeptInv, StakeInv
    <3>2. CASE v \notin BusyUpserts
      BY <1>2, <3>2 DEF FoundStands, BusyUpserts, Graph!Busy
    <3> QED
      BY <3>1, <3>2
  <2>5. ASSUME NEW m \in Merge
        PROVE  MergeStands(m)'
    <3>1. CASE m \in BusyMerges
      BY <1>3, <1>4, <2>3, <3>1 DEF KeptInv, StakeInv
    <3>2. CASE m \notin BusyMerges
      BY <1>1, <3>2 DEF MergeStands, SourceStands, TargetStands, Moved, BusyMerges,
                        Graph!Busy
    <3> QED
      BY <3>1, <3>2
  <2>6. ReadInv'
    BY <1>4, <2>4, <2>5 DEF ReadInv
  <2>7. ASSUME NEW f \in known', f \notin crossed'
        PROVE  \E x \in DOMAIN entities' : f \in entities'[x].facts
    <3>1. CASE f \in old.cand.facts
      BY <1>6, <2>1, <3>1
    <3>2. CASE f \notin old.cand.facts
      <4>1. f \in known /\ f \notin crossed
        BY <1>1, <2>1, <2>7, <3>2
      <4>2. PICK x \in DOMAIN entities : f \in entities[x].facts
        BY <4>1 DEF KeptInv, Graph!NothingForgotten
      <4>3. CASE x = e
        BY <2>1, <2>2, <2>7, <4>1, <4>2, <4>3 DEF Same
      <4>4. CASE x # e
        BY <2>1, <4>2, <4>4
      <4> QED
        BY <4>3, <4>4
    <3> QED
      BY <3>1, <3>2
  <2> QED
    BY <1>5, <2>6, <2>7 DEF KeptInv, Graph!NothingForgotten
<1>7. CASE e \notin DOMAIN entities
  <2>1. UNCHANGED <<entities, known>>
    BY <1>7 DEF Graph!UpdateEntity, Graph!Exists
  <2>2. EntitiesStand
    BY <1>1, <2>1, EntitiesSame
  <2>3. ReadInv'
    BY <1>3, <1>4, <2>2 DEF ReadInv
  <2> QED
    BY <1>5, <2>1, <2>2, <2>3, KnownSame DEF KeptInv
<1> QED
  BY <1>6, <1>7

LEMMA StartMergeKeeps ==
  ASSUME IdInv, KeptInv, NEW m \in Merge, NEW s, NEW t, Graph!StartMerge(m, s, t)
  PROVE  KeptInv'
<1>1. /\ merges[m] = Graph!Fresh /\ s \in DOMAIN entities
      /\ merges' = [merges EXCEPT ![m] =
           [pc |-> "target", source |-> s, target |-> t, from |-> entities[s],
            into |-> Graph!NoRow, name |-> Graph!NoRow.name]]
      /\ Graph!Exposes(entities[s].facts)
      /\ UNCHANGED <<entities, upserts, known>>
  BY DEF Graph!StartMerge, Graph!tables, Graph!Exists
<1>2. /\ DOMAIN merges' = Merge /\ \A n \in Merge \ {m} : merges'[n] = merges[n]
      /\ merges'[m].pc = "target" /\ merges'[m].source = s
      /\ merges'[m].from = entities[s]
  BY <1>1 DEF IdInv
<1> DEFINE stake == entities[s].facts
<1>3. Graph!Exposes(stake)
  BY <1>1
<1> HIDE DEF stake
<1>4. /\ crossed \subseteq crossed'
      /\ BusyUpserts # {} \/ BusyMerges # {} =>
           /\ stake \subseteq crossed'
           /\ \A v \in BusyUpserts : upserts[v].cand.facts \subseteq crossed'
           /\ \A n \in BusyMerges : merges[n].from.facts \subseteq crossed'
  BY <1>3, Exposure
<1>5. EntitiesStand
  BY <1>1, <1>4, EntitiesSame
<1>6. /\ BusyUpserts' = BusyUpserts
      /\ \A n \in BusyMerges' : n # m => n \in BusyMerges /\ merges'[n] = merges[n]
      /\ \A u \in Upsert : FoundStands(u)'
      /\ \A n \in Merge \ {m} : MergeStands(n)'
  BY <1>1, <1>2, <1>5, MergeMoves
<1>7. MergeStands(m)'
  BY <1>1, <1>2 DEF MergeStands, SourceStands, TargetStands, Moved, Same
<1>8. ASSUME NEW n \in BusyMerges', BusyMerges' # {n} \/ BusyUpserts' # {}
      PROVE  merges'[n].from.facts \subseteq crossed'
  BY <1>2, <1>4, <1>6, <1>8 DEF stake
<1>9. ASSUME NEW v \in BusyUpserts'
      PROVE  upserts'[v].cand.facts \subseteq crossed'
  BY <1>1, <1>4, <1>6, <1>9
<1>10. StakeInv'
  BY <1>8, <1>9 DEF StakeInv
<1>11. ReadInv'
  BY <1>6, <1>7 DEF ReadInv
<1> QED
  BY <1>1, <1>5, <1>10, <1>11, KnownSame DEF KeptInv

\* A merge that goes on holds what it took, or it ends.
LEMMA MergeAdvances ==
  ASSUME IdInv, KeptInv, EntitiesStand, NEW m \in BusyMerges, NEW call,
         merges' = [merges EXCEPT ![m] = call],
         UNCHANGED <<upserts, known>>,
         call.pc # "done" => call.from = merges[m].from, MergeStands(m)'
  PROVE  KeptInv'
<1>1. /\ DOMAIN merges' = Merge /\ \A n \in Merge \ {m} : merges'[n] = merges[n]
      /\ merges'[m] = call
  BY DEF IdInv, BusyMerges
<1>2. /\ BusyUpserts' = BusyUpserts
      /\ BusyMerges' \subseteq BusyMerges \cup {m}
      /\ \A n \in BusyMerges' : n # m => n \in BusyMerges /\ merges'[n] = merges[n]
      /\ \A u \in Upsert : FoundStands(u)'
      /\ \A n \in Merge \ {m} : MergeStands(n)'
  BY <1>1, MergeMoves DEF BusyMerges
<1>3. \A n \in BusyMerges' : merges'[n].from = merges[n].from
  BY <1>1, <1>2 DEF BusyMerges, Graph!Busy
<1>4. StakeInv'
  BY <1>2, <1>3, StakeShrinks DEF KeptInv, EntitiesStand
<1>5. ReadInv'
  BY <1>2 DEF ReadInv
<1> QED
  BY <1>4, <1>5, KnownSame DEF KeptInv

LEMMA ReadTargetKeeps ==
  ASSUME IdInv, KeptInv, NEW m \in Merge, Graph!ReadTarget(m)
  PROVE  KeptInv'
<1> DEFINE old == merges[m]
           call == IF Graph!Exists(old.target)
                   THEN [old EXCEPT !.pc = "repoint", !.into = entities[old.target]]
                   ELSE Graph!Done
<1>1. /\ old.pc = "target" /\ merges' = [merges EXCEPT ![m] = call]
      /\ UNCHANGED <<entities, upserts, known, crossed>>
  BY DEF Graph!ReadTarget, Graph!tables, Graph!ghosts
<1>2. EntitiesStand /\ m \in BusyMerges
  BY <1>1, EntitiesSame DEF BusyMerges, Graph!Busy
<1>3. MergeShape(old, born)
  BY <1>1 DEF IdInv
<1>4. \/ call.pc = "done"
      \/ /\ call.pc = "repoint" /\ call.from = old.from /\ call.source = old.source
         /\ call.target = old.target /\ call.into = entities[old.target]
  BY <1>3 DEF MergeShape, Graph!Done
<1> HIDE DEF call
<1>5. merges'[m] = call
  BY <1>1 DEF IdInv
<1>6. MergeStands(m)'
  <2>1. CASE call.pc = "done"
    BY <1>5, <2>1 DEF MergeStands, SourceStands, TargetStands, Moved, BusyMerges,
                      Graph!Busy
  <2>2. CASE call.pc # "done"
    <3>1. SourceStands(m)'
      BY <1>1, <1>2, <1>4, <1>5, <2>2, SourceStays DEF KeptInv, ReadInv, MergeStands
    <3>2. TargetStands(m)'
      BY <1>1, <1>4, <1>5, <2>2 DEF TargetStands, Same
    <3>3. Moved(m)'
      BY <1>4, <1>5, <2>2 DEF Moved
    <3> QED
      BY <3>1, <3>2, <3>3 DEF MergeStands
  <2> QED
    BY <2>1, <2>2
<1> QED
  BY <1>1, <1>2, <1>4, <1>6, MergeAdvances

LEMMA RepointKeeps ==
  ASSUME IdInv, KeptInv, NEW m \in Merge, Graph!Repoint(m)
  PROVE  KeptInv'
<1> DEFINE old == merges[m]
           call == IF Graph!Exists(old.target)
                   THEN [old EXCEPT !.pc = "write", !.name = entities[old.target].name]
                   ELSE Graph!Done
<1>1. /\ old.pc = "repoint" /\ merges' = [merges EXCEPT ![m] = call]
      /\ UNCHANGED <<entities, upserts, known, crossed>>
  BY DEF Graph!Repoint
<1>2. EntitiesStand /\ m \in BusyMerges
  BY <1>1, EntitiesSame DEF BusyMerges, Graph!Busy
<1>3. MergeShape(old, born)
  BY <1>1 DEF IdInv
<1>4. \/ call.pc = "done"
      \/ /\ call.pc = "write" /\ call.from = old.from /\ call.source = old.source
         /\ call.target = old.target /\ call.into = old.into
  BY <1>3 DEF MergeShape, Graph!Done
<1> HIDE DEF call
<1>5. merges'[m] = call
  BY <1>1 DEF IdInv
<1>6. MergeStands(m)'
  <2>1. CASE call.pc = "done"
    BY <1>5, <2>1 DEF MergeStands, SourceStands, TargetStands, Moved, BusyMerges,
                      Graph!Busy
  <2>2. CASE call.pc # "done"
    <3>1. SourceStands(m)'
      BY <1>1, <1>2, <1>4, <1>5, <2>2, SourceStays DEF KeptInv, ReadInv, MergeStands
    <3>2. TargetStands(m)'
      BY <1>1, <1>2, <1>4, <1>5, <2>2, TargetStays DEF KeptInv, ReadInv, MergeStands
    <3>3. Moved(m)'
      BY <1>4, <1>5, <2>2 DEF Moved
    <3> QED
      BY <3>1, <3>2, <3>3 DEF MergeStands
  <2> QED
    BY <2>1, <2>2
<1> QED
  BY <1>1, <1>2, <1>4, <1>6, MergeAdvances

\* One merge beside nothing else: the others have nothing to stand by.
LEMMA LoneMerge ==
  ASSUME IdInv, KeptInv, NEW m \in BusyMerges,
         merges[m].from.facts \subseteq crossed => EntitiesStand,
         DOMAIN merges' = Merge, \A n \in Merge \ {m} : merges'[n] = merges[n],
         upserts' = upserts
  PROVE  /\ \A u \in Upsert : FoundStands(u)'
         /\ \A n \in Merge \ {m} : MergeStands(n)'
<1>1. m \in Merge
  BY DEF BusyMerges
<1>2. EntitiesStand =>
        /\ \A u \in Upsert : FoundStands(u)'
        /\ \A n \in Merge \ {m} : MergeStands(n)'
  BY <1>1, MergeMoves
<1>3. CASE BusyMerges # {m} \/ BusyUpserts # {}
  BY <1>2, <1>3 DEF KeptInv, StakeInv
<1>4. CASE BusyMerges = {m} /\ BusyUpserts = {}
  <2>1. ASSUME NEW u \in Upsert
        PROVE  FoundStands(u)'
    BY <1>4 DEF FoundStands, BusyUpserts, Graph!Busy
  <2>2. ASSUME NEW n \in Merge \ {m}
        PROVE  MergeStands(n)'
    <3>1. ~Graph!Busy(merges[n]) /\ merges'[n] = merges[n]
      BY <1>4 DEF BusyMerges
    <3> QED
      BY <3>1 DEF MergeStands, SourceStands, TargetStands, Moved, BusyMerges,
                  Graph!Busy
  <2> QED
    BY <2>1, <2>2
<1> QED
  BY <1>3, <1>4

LEMMA WriteTargetKeeps ==
  ASSUME IdInv, KeptInv, NEW m \in Merge, Graph!WriteTarget(m)
  PROVE  KeptInv'
<1> DEFINE old == merges[m]
           s == old.source
           t == old.target
           call == IF Graph!Exists(t) THEN [old EXCEPT !.pc = "delete"]
                   ELSE Graph!Done
<1>1. /\ old.pc = "write" /\ merges' = [merges EXCEPT ![m] = call]
      /\ UNCHANGED <<upserts, known>> /\ crossed \subseteq crossed'
  BY DEF Graph!WriteTarget
<1>2. m \in BusyMerges
  BY <1>1 DEF BusyMerges, Graph!Busy
<1>3. MergeShape(old, born)
  BY <1>1 DEF IdInv
<1>4. /\ ~Graph!Exists(t) => call.pc = "done"
      /\ Graph!Exists(t) => /\ call.pc = "delete" /\ call.from = old.from
                            /\ call.source = s /\ call.target = t
  BY <1>3 DEF MergeShape, Graph!Done
<1> HIDE DEF call
<1>5. /\ DOMAIN merges' = Merge /\ \A n \in Merge \ {m} : merges'[n] = merges[n]
      /\ merges'[m] = call
  BY <1>1 DEF IdInv
<1>6. CASE ~Graph!Exists(t)
  <2>1. UNCHANGED entities
    BY <1>6 DEF Graph!WriteTarget
  <2>2. EntitiesStand
    BY <1>1, <2>1, EntitiesSame
  <2>3. MergeStands(m)'
    BY <1>4, <1>5, <1>6 DEF MergeStands, SourceStands, TargetStands, Moved,
                            BusyMerges, Graph!Busy
  <2> QED
    BY <1>1, <1>2, <1>4, <1>6, <2>2, <2>3, MergeAdvances
<1>7. CASE Graph!Exists(t)
  <2>1. /\ t \in DOMAIN entities /\ DOMAIN entities' = DOMAIN entities
        /\ \A f : f \notin crossed' =>
             (f \in entities'[t].facts <=> f \in old.from.facts \/ f \in old.into.facts)
        /\ \A x \in DOMAIN entities : x # t => entities'[x] = entities[x]
    <3>1. /\ t \in DOMAIN entities /\ Graph!Put(t, Graph!Merged(old))
          /\ Graph!Replaced(old.from.facts, old.into.facts) \subseteq crossed'
      BY <1>7 DEF Graph!WriteTarget, Graph!Exists
    <3>2. Graph!Merged(old).facts = Graph!Spread(old.from.facts, old.into.facts)
      BY DEF Graph!Merged
    <3>3. \A f : f \notin crossed' =>
            (f \in Graph!Merged(old).facts <=> f \in old.from.facts \/ f \in old.into.facts)
      BY <3>1, <3>2, SpreadKeeps
    <3>4. /\ DOMAIN entities' = DOMAIN entities \cup {t}
          /\ entities'[t] = Graph!Merged(old)
          /\ \A x \in DOMAIN entities : x # t => entities'[x] = entities[x]
      BY <3>1, PutRow
    <3> QED
      BY <3>1, <3>3, <3>4
  <2>2. Same(old.into.facts, entities[t].facts)
    BY <1>1, <2>1 DEF KeptInv, ReadInv, MergeStands, TargetStands
  <2>3. ASSUME old.from.facts \subseteq crossed
        PROVE  EntitiesStand
    BY <1>1, <2>1, <2>2, <2>3 DEF EntitiesStand, Same
  <2>4. /\ \A u \in Upsert : FoundStands(u)'
        /\ \A n \in Merge \ {m} : MergeStands(n)'
    BY <1>1, <1>2, <1>5, <2>3, LoneMerge
  <2>5. s # t
    BY <1>3 DEF MergeShape
  <2>6. SourceStands(m)'
    <3>1. SourceStands(m)
      BY DEF KeptInv, ReadInv, MergeStands
    <3>2. CASE s \in DOMAIN entities
      BY <1>1, <1>2, <1>4, <1>5, <1>7, <2>1, <2>5, <3>1, <3>2 DEF SourceStands, Same
    <3>3. CASE s \notin DOMAIN entities
      BY <1>1, <1>2, <1>4, <1>5, <1>7, <2>1, <3>1, <3>3 DEF SourceStands
    <3> QED
      BY <3>2, <3>3
  <2>7. TargetStands(m)'
    BY <1>4, <1>5, <1>7 DEF TargetStands
  <2>8. Moved(m)'
    BY <1>4, <1>5, <1>7, <2>1, <2>5 DEF Moved
  <2>9. ReadInv'
    BY <2>4, <2>6, <2>7, <2>8 DEF ReadInv, MergeStands
  <2>10. StakeInv'
    <3>1. /\ BusyUpserts' = BusyUpserts /\ BusyMerges' \subseteq BusyMerges
          /\ \A n \in BusyMerges' : merges'[n].from = merges[n].from
      BY <1>1, <1>2, <1>4, <1>5, <1>7 DEF BusyUpserts, BusyMerges
    <3> QED
      BY <1>1, <3>1, StakeShrinks DEF KeptInv
  <2>11. Graph!NothingForgotten'
    <3> SUFFICES ASSUME NEW f \in known', f \notin crossed'
                 PROVE  \E e \in DOMAIN entities' : f \in entities'[e].facts
      BY DEF Graph!NothingForgotten
    <3>1. f \in known /\ f \notin crossed
      BY <1>1
    <3>2. PICK e \in DOMAIN entities : f \in entities[e].facts
      BY <3>1 DEF KeptInv, Graph!NothingForgotten
    <3>3. f \in entities'[e].facts
      BY <2>1, <2>2, <3>1, <3>2 DEF Same
    <3> QED
      BY <2>1, <3>2, <3>3
  <2> QED
    BY <2>9, <2>10, <2>11 DEF KeptInv
<1> QED
  BY <1>6, <1>7

LEMMA DeleteSourceKeeps ==
  ASSUME IdInv, KeptInv, NEW m \in Merge, Graph!DeleteSource(m)
  PROVE  KeptInv'
<1> DEFINE old == merges[m]
           s == old.source
<1>1. /\ old.pc = "delete" /\ merges' = [merges EXCEPT ![m] = Graph!Done]
      /\ UNCHANGED <<upserts, known, crossed>>
  BY DEF Graph!DeleteSource
<1>2. m \in BusyMerges
  BY <1>1 DEF BusyMerges, Graph!Busy
<1>3. /\ DOMAIN merges' = Merge /\ \A n \in Merge \ {m} : merges'[n] = merges[n]
      /\ merges'[m].pc = "done"
  BY <1>1 DEF IdInv, Graph!Done
<1>4. MergeStands(m)'
  BY <1>3 DEF MergeStands, SourceStands, TargetStands, Moved, BusyMerges, Graph!Busy
<1>5. CASE s \notin DOMAIN entities
  <2>1. UNCHANGED entities
    BY <1>5 DEF Graph!DeleteSource, Graph!Exists
  <2>2. EntitiesStand
    BY <1>1, <2>1, EntitiesSame
  <2>3. Graph!Done.pc = "done"
    BY DEF Graph!Done
  <2> QED
    BY <1>1, <1>2, <1>4, <2>2, <2>3, MergeAdvances
<1>6. CASE s \in DOMAIN entities
  <2>1. /\ DOMAIN entities' = DOMAIN entities \ {s}
        /\ \A x \in DOMAIN entities' : entities'[x] = entities[x]
    BY <1>6, CascadeRows DEF Graph!DeleteSource, Graph!Exists
  <2>2. Same(old.from.facts, entities[s].facts)
    BY <1>2, <1>6 DEF KeptInv, ReadInv, MergeStands, SourceStands
  <2>3. ASSUME old.from.facts \subseteq crossed
        PROVE  EntitiesStand
    BY <1>1, <2>1, <2>2, <2>3 DEF EntitiesStand, Same
  <2>4. /\ \A u \in Upsert : FoundStands(u)'
        /\ \A n \in Merge \ {m} : MergeStands(n)'
    BY <1>1, <1>2, <1>3, <2>3, LoneMerge
  <2>5. ReadInv'
    BY <1>4, <2>4 DEF ReadInv
  <2>6. StakeInv'
    <3>1. /\ BusyUpserts' = BusyUpserts /\ BusyMerges' \subseteq BusyMerges
          /\ \A n \in BusyMerges' : merges'[n].from = merges[n].from
      BY <1>1, <1>2, <1>3 DEF BusyUpserts, BusyMerges, Graph!Busy
    <3> QED
      BY <1>1, <3>1, StakeShrinks DEF KeptInv
  <2>7. Graph!NothingForgotten'
    <3> SUFFICES ASSUME NEW f \in known', f \notin crossed'
                 PROVE  \E e \in DOMAIN entities' : f \in entities'[e].facts
      BY DEF Graph!NothingForgotten
    <3>1. f \in known /\ f \notin crossed
      BY <1>1
    <3>2. PICK e \in DOMAIN entities : f \in entities[e].facts
      BY <3>1 DEF KeptInv, Graph!NothingForgotten
    <3>3. CASE e = s
      <4>1. f \in old.from.facts
        BY <2>2, <3>1, <3>2, <3>3 DEF Same
      <4>2. Moved(m)
        BY DEF KeptInv, ReadInv, MergeStands
      <4>3. PICK x \in DOMAIN entities : x # s /\ f \in entities[x].facts
        BY <1>1, <3>1, <4>1, <4>2 DEF Moved
      <4> QED
        BY <2>1, <4>3
    <3>4. CASE e # s
      BY <2>1, <3>2, <3>4
    <3> QED
      BY <3>3, <3>4
  <2> QED
    BY <2>5, <2>6, <2>7 DEF KeptInv
<1> QED
  BY <1>5, <1>6

\* A step of no call.
LEMMA OthersKeep ==
  ASSUME IdInv, KeptInv, EntitiesStand, UNCHANGED <<upserts, merges, known>>
  PROVE  KeptInv'
<1>1. BusyUpserts' = BusyUpserts /\ BusyMerges' = BusyMerges
  BY DEF BusyUpserts, BusyMerges
<1>2. StakeInv'
  BY <1>1, StakeShrinks DEF KeptInv, EntitiesStand
<1>3. ReadInv'
  BY FoundStay, MergeStays DEF KeptInv, ReadInv
<1> QED
  BY <1>2, <1>3, KnownSame DEF KeptInv

LEMMA KeptStep == IdInv /\ KeptInv /\ [Graph!Next]_(Graph!vars) => KeptInv'
<1> SUFFICES ASSUME IdInv, KeptInv, [Graph!Next]_(Graph!vars)
             PROVE  KeptInv'
  OBVIOUS
<1>1. ASSUME UNCHANGED <<entities, upserts, merges, known, crossed>>
      PROVE  KeptInv'
  <2>1. EntitiesStand
    BY <1>1, EntitiesSame
  <2> QED
    BY <1>1, <2>1, OthersKeep
<1>2. ASSUME NEW u \in Upsert, NEW c \in Candidate, Graph!Resolve(u, c)
      PROVE  KeptInv'
  BY <1>2, ResolveKeeps
<1>3. ASSUME NEW u \in Upsert,
             \/ Graph!Scan(u) \/ Graph!CreateEntity(u)
             \/ Graph!ReadEntity(u) \/ Graph!UpdateEntity(u)
      PROVE  KeptInv'
  BY <1>3, ScanKeeps, CreateKeeps, ReadEntityKeeps, UpdateKeeps
<1>4. ASSUME NEW m \in Merge, NEW s, NEW t, Graph!StartMerge(m, s, t)
      PROVE  KeptInv'
  BY <1>4, StartMergeKeeps
<1>5. ASSUME NEW m \in Merge,
             \/ Graph!ReadTarget(m) \/ Graph!Repoint(m)
             \/ Graph!WriteTarget(m) \/ Graph!DeleteSource(m)
      PROVE  KeptInv'
  BY <1>5, ReadTargetKeeps, RepointKeeps, WriteTargetKeeps, DeleteSourceKeeps
<1>6. ASSUME NEW e \in Graph!EntityId, Graph!DeleteEntity(e)
      PROVE  KeptInv'
  <2>1. /\ crossed' = crossed \cup entities[e].facts /\ UNCHANGED <<upserts, merges, known>>
        /\ Graph!Cascade(e)
    BY <1>6 DEF Graph!DeleteEntity, Graph!calls
  <2>2. /\ DOMAIN entities' = DOMAIN entities \ {e}
        /\ \A x \in DOMAIN entities' : entities'[x] = entities[x]
    BY <2>1, CascadeRows
  <2>3. EntitiesStand
    BY <2>1, <2>2 DEF EntitiesStand
  <2> QED
    BY <2>1, <2>3, OthersKeep
<1>7. ASSUME NEW r \in Relate, NEW f \in Graph!EntityId, NEW t \in Graph!EntityId,
             Graph!FindRelationship(r, f, t)
      PROVE  KeptInv'
  BY <1>1, <1>7 DEF Graph!FindRelationship, Graph!tables, Graph!ghosts
<1>8. ASSUME NEW r \in Relate,
             \/ Graph!CreateRelationship(r) \/ Graph!ReadRelationship(r)
             \/ Graph!UpdateRelationship(r)
      PROVE  KeptInv'
  BY <1>1, <1>8 DEF Graph!CreateRelationship, Graph!ReadRelationship,
                    Graph!UpdateRelationship, Graph!tables, Graph!ghosts
<1>9. ASSUME NEW r \in Graph!RelId,
             Graph!EndRelationship(r) \/ Graph!DeleteRelationship(r)
      PROVE  KeptInv'
  BY <1>1, <1>9 DEF Graph!EndRelationship, Graph!DeleteRelationship, Graph!calls,
                    Graph!ghosts
<1>10. CASE UNCHANGED Graph!vars
  BY <1>1, <1>10 DEF Graph!vars, Graph!tables, Graph!calls, Graph!ghosts
<1> QED
  BY <1>2, <1>3, <1>4, <1>5, <1>6, <1>7, <1>8, <1>9, <1>10 DEF Graph!Next

LEMMA RowStep == RowInv /\ [Graph!Next]_(Graph!vars) => RowInv'
<1> SUFFICES ASSUME RowInv, [Graph!Next]_(Graph!vars)
             PROVE  RowInv'
  OBVIOUS
<1>1. ASSUME UNCHANGED relates, DOMAIN rels' \subseteq DOMAIN rels,
             \A r \in DOMAIN rels' : rels'[r] = rels[r]
      PROVE  RowInv'
  BY <1>1 DEF RowInv, IsRow
<1>2. ASSUME UNCHANGED <<rels, relates>>
      PROVE  RowInv'
  BY <1>2, <1>1
<1>3. ASSUME NEW u \in Upsert, NEW c \in Candidate, Graph!Resolve(u, c)
      PROVE  RowInv'
  BY <1>2, <1>3 DEF Graph!Resolve, Graph!tables
<1>4. ASSUME NEW u \in Upsert,
             \/ Graph!Scan(u) \/ Graph!CreateEntity(u)
             \/ Graph!ReadEntity(u) \/ Graph!UpdateEntity(u)
      PROVE  RowInv'
  BY <1>2, <1>4 DEF Graph!Scan, Graph!CreateEntity, Graph!ReadEntity,
                    Graph!UpdateEntity, Graph!tables
<1>5. ASSUME NEW m \in Merge, NEW s, NEW t, Graph!StartMerge(m, s, t)
      PROVE  RowInv'
  BY <1>2, <1>5 DEF Graph!StartMerge, Graph!tables
<1>6. ASSUME NEW m \in Merge, Graph!ReadTarget(m) \/ Graph!WriteTarget(m)
      PROVE  RowInv'
  BY <1>2, <1>6 DEF Graph!ReadTarget, Graph!WriteTarget, Graph!tables
<1>7. ASSUME NEW m \in Merge, Graph!Repoint(m)
      PROVE  RowInv'
  <2>1. /\ UNCHANGED relates /\ DOMAIN rels' = DOMAIN rels
        /\ \A r \in DOMAIN rels :
             \/ rels'[r] = rels[r]
             \/ rels'[r] = Graph!Repointed(r, merges[m].source, merges[m].target)
    BY <1>7 DEF Graph!Repoint
  <2>2. ASSUME NEW r \in DOMAIN rels
        PROVE  IsRow(rels'[r])
    <3>1. IsRow(rels[r])
      BY DEF RowInv
    <3> QED
      BY <2>1, <3>1 DEF IsRow, Graph!Repointed
  <2> QED
    BY <2>1, <2>2 DEF RowInv
<1>8. ASSUME NEW m \in Merge, Graph!DeleteSource(m)
      PROVE  RowInv'
  BY <1>1, <1>8, CascadeRows DEF Graph!DeleteSource
<1>9. ASSUME NEW e \in Graph!EntityId, Graph!DeleteEntity(e)
      PROVE  RowInv'
  BY <1>1, <1>9, CascadeRows DEF Graph!DeleteEntity, Graph!calls
<1>10. ASSUME NEW r \in Relate, NEW call, relates' = [relates EXCEPT ![r] = call],
              \A x \in DOMAIN rels' :
                \/ rels'[x] = rels[x] /\ x \in DOMAIN rels
                \/ IsRow(rels'[x]),
              call.pc \notin {"act", "write"}
       PROVE  RowInv'
  BY <1>10 DEF RowInv, IsRow
<1>11. ASSUME NEW r \in Relate, NEW f, NEW t, Graph!FindRelationship(r, f, t)
       PROVE  RowInv'
  <2>1. PICK found : relates' = [relates EXCEPT ![r] =
                       [pc |-> "act", from |-> f, to |-> t, found |-> found,
                        row |-> Graph!NoEnds]]
    BY <1>11 DEF Graph!FindRelationship
  <2>2. UNCHANGED rels
    BY <1>11 DEF Graph!FindRelationship, Graph!tables
  <2> QED
    BY <2>1, <2>2 DEF RowInv, IsRow
<1>12. ASSUME NEW r \in Relate, Graph!CreateRelationship(r)
       PROVE  RowInv'
  <2>1. Graph!Done.pc = "done"
    BY DEF Graph!Done
  <2>2. relates' = [relates EXCEPT ![r] = Graph!Done]
    BY <1>12 DEF Graph!CreateRelationship
  <2>3. \A x \in DOMAIN rels' :
          \/ rels'[x] = rels[x] /\ x \in DOMAIN rels
          \/ IsRow(rels'[x])
    BY <1>12 DEF Graph!CreateRelationship, Graph!PutRel, IsRow
  <2> QED
    BY <1>10, <2>1, <2>2, <2>3
<1>13. ASSUME NEW r \in Relate, Graph!ReadRelationship(r)
       PROVE  RowInv'
  <2> DEFINE old == relates[r]
             call == IF old.found \in DOMAIN rels
                     THEN [old EXCEPT !.pc = "write", !.row = rels[old.found]]
                     ELSE Graph!Done
  <2>1. relates' = [relates EXCEPT ![r] = call] /\ old.pc = "act" /\ UNCHANGED rels
    BY <1>13 DEF Graph!ReadRelationship, Graph!tables
  <2>2. \/ call.pc = "done"
        \/ call.pc = "write" /\ IsRow(call.row)
    BY <2>1 DEF RowInv, Graph!Done
  <2> HIDE DEF call
  <2> QED
    BY <2>1, <2>2 DEF RowInv, IsRow
<1>14. ASSUME NEW r \in Relate, Graph!UpdateRelationship(r)
       PROVE  RowInv'
  <2>1. Graph!Done.pc = "done"
    BY DEF Graph!Done
  <2>2. relates' = [relates EXCEPT ![r] = Graph!Done] /\ IsRow(relates[r].row)
    BY <1>14 DEF Graph!UpdateRelationship, RowInv
  <2>3. \A x \in DOMAIN rels' :
          \/ rels'[x] = rels[x] /\ x \in DOMAIN rels
          \/ IsRow(rels'[x])
    BY <1>14, <2>2 DEF Graph!UpdateRelationship, Graph!PutRel
  <2> QED
    BY <1>10, <2>1, <2>2, <2>3
<1>15. ASSUME NEW r \in Graph!RelId, Graph!EndRelationship(r)
       PROVE  RowInv'
  BY <1>15 DEF Graph!EndRelationship, Graph!calls, RowInv, IsRow
<1>16. ASSUME NEW r \in Graph!RelId, Graph!DeleteRelationship(r)
       PROVE  RowInv'
  BY <1>1, <1>16 DEF Graph!DeleteRelationship, Graph!calls
<1>17. CASE UNCHANGED Graph!vars
  BY <1>2, <1>17 DEF Graph!vars, Graph!tables, Graph!calls
<1> QED
  BY <1>3, <1>4, <1>5, <1>6, <1>7, <1>8, <1>9, <1>11, <1>12, <1>13, <1>14, <1>15,
     <1>16, <1>17 DEF Graph!Next

\* Merges that have repointed stay true while relationships keep their ends.
LEMMA RepointStays ==
  ASSUME RepointInv, fresh \subseteq fresh', UNCHANGED orphaned,
         \A m \in Merge : merges[m].pc = "done" => merges'[m].pc = "done",
         \A m \in Merge : merges'[m].pc \in {"write", "delete"} =>
           /\ merges[m].pc \in {"write", "delete"}
           /\ merges'[m].source = merges[m].source,
         \A r \in DOMAIN rels' :
           \/ \A m \in Merge : <<m, r>> \in fresh'
           \/ /\ r \in DOMAIN rels
              /\ rels'[r].from = rels[r].from /\ rels'[r].to = rels[r].to
  PROVE  RepointInv'
<1>1. ASSUME NEW m \in Merge, merges'[m].pc \in {"write", "delete"},
             NEW r \in DOMAIN rels', merges'[m].source \in {rels'[r].from, rels'[r].to}
      PROVE  <<m, r>> \in fresh'
  <2>1. CASE \A n \in Merge : <<n, r>> \in fresh'
    BY <2>1
  <2>2. CASE /\ r \in DOMAIN rels
             /\ rels'[r].from = rels[r].from /\ rels'[r].to = rels[r].to
    BY <1>1, <2>2 DEF RepointInv, Graph!Touches
  <2> QED
    BY <2>1, <2>2
<1>2. \A m \in Merge : \A r : <<m, r>> \in orphaned' => merges'[m].pc = "done"
  BY DEF RepointInv
<1>3. orphaned' \subseteq fresh'
  BY DEF RepointInv, Graph!MergeKeepsRelationships
<1> QED
  BY <1>1, <1>2, <1>3 DEF RepointInv, Graph!Touches, Graph!MergeKeepsRelationships

LEMMA RepointedEnds ==
  ASSUME NEW r, IsRow(rels[r]), NEW s, NEW t, s # t
  PROVE  LET row == Graph!Repointed(r, s, t)
         IN  /\ row.from = IF rels[r].from = s THEN t ELSE rels[r].from
             /\ row.to = IF rels[r].to = s THEN t ELSE rels[r].to
BY DEF IsRow, Graph!Repointed

\* No relationship of the source is left, and what other merges find anew is fresh.
LEMMA RepointRepoints ==
  ASSUME IdInv, RowInv, RepointInv, NEW m \in Merge, Graph!Repoint(m)
  PROVE  RepointInv'
<1> DEFINE s == merges[m].source
           t == merges[m].target
<1>1. merges[m].pc = "repoint" /\ DOMAIN merges = Merge /\ s # t /\ UNCHANGED orphaned
  BY DEF Graph!Repoint, IdInv, MergeShape
<1>2. \A n \in Merge \ {m} : merges'[n] = merges[n]
  BY <1>1 DEF Graph!Repoint
<1>3. CASE ~Graph!Exists(t)
  <2>1. merges'[m].pc = "done" /\ UNCHANGED <<rels, fresh>>
    BY <1>1, <1>3 DEF Graph!Repoint, Graph!Done
  <2> QED
    BY <1>1, <1>2, <2>1, RepointStays
<1>4. CASE Graph!Exists(t)
  <2>1. /\ rels' = [r \in DOMAIN rels |-> Graph!Repointed(r, s, t)]
        /\ fresh' = (fresh \ ({m} \X Graph!RelId)) \cup ((Merge \ {m}) \X Graph!RelsOf(s))
    BY <1>4 DEF Graph!Repoint
  <2>2. merges'[m].source = s
    <3>1. MergeShape(merges[m], born)
      BY <1>1 DEF IdInv
    <3>2. merges' = [merges EXCEPT ![m] = [merges[m] EXCEPT !.pc = "write",
                                                  !.name = entities[t].name]]
      BY <1>4 DEF Graph!Repoint
    <3> QED
      BY <1>1, <3>1, <3>2 DEF MergeShape
  <2>3. ASSUME NEW r \in DOMAIN rels
        PROVE  /\ rels'[r].from = IF rels[r].from = s THEN t ELSE rels[r].from
               /\ rels'[r].to = IF rels[r].to = s THEN t ELSE rels[r].to
    <3>1. IsRow(rels[r]) /\ rels'[r] = Graph!Repointed(r, s, t)
      BY <2>1 DEF RowInv
    <3> QED
      BY <1>1, <3>1, RepointedEnds
  <2>4. ASSUME NEW n \in Merge, NEW r \in DOMAIN rels', merges'[n].pc \in {"write", "delete"},
               merges'[n].source \in {rels'[r].from, rels'[r].to}
        PROVE  <<n, r>> \in fresh'
    <3>1. r \in DOMAIN rels
      BY <2>1
    <3>2. n # m
      BY <1>1, <2>2, <2>3, <2>4, <3>1
    <3>3. merges'[n] = merges[n]
      BY <1>2, <3>2
    <3>4. CASE s \in {rels[r].from, rels[r].to}
      <4>1. r \in Graph!RelsOf(s)
        BY <3>1, <3>4 DEF Graph!RelsOf, Graph!Touches
      <4> QED
        BY <2>1, <3>2, <4>1
    <3>5. CASE s \notin {rels[r].from, rels[r].to}
      <4>1. Graph!Touches(r, merges[n].source)
        BY <2>3, <2>4, <3>1, <3>3, <3>5 DEF Graph!Touches
      <4>2. <<n, r>> \in fresh
        BY <2>4, <3>1, <3>3, <4>1 DEF RepointInv
      <4> QED
        BY <2>1, <3>2, <4>2
    <3> QED
      BY <3>4, <3>5
  <2>5. ASSUME NEW n \in Merge, NEW r, <<n, r>> \in orphaned'
        PROVE  merges'[n].pc = "done"
    BY <1>1, <1>2, <2>5 DEF RepointInv
  <2>6. orphaned' \subseteq fresh'
    <3> SUFFICES ASSUME NEW p \in orphaned
                 PROVE  p \in fresh'
      BY <1>1
    <3>1. p \in fresh
      BY DEF RepointInv, Graph!MergeKeepsRelationships
    <3>2. p \notin {m} \X Graph!RelId
      BY <1>1 DEF RepointInv
    <3> QED
      BY <2>1, <3>1, <3>2
  <2> QED
    BY <2>4, <2>5, <2>6 DEF RepointInv, Graph!Touches, Graph!MergeKeepsRelationships
<1> QED
  BY <1>3, <1>4

LEMMA DeleteSourceRepoints ==
  ASSUME IdInv, RepointInv, NEW m \in Merge, Graph!DeleteSource(m)
  PROVE  RepointInv'
<1> DEFINE s == merges[m].source
<1>1. /\ merges[m].pc = "delete" /\ merges'[m].pc = "done" /\ UNCHANGED fresh
      /\ \A n \in Merge \ {m} : merges'[n] = merges[n]
  BY DEF Graph!DeleteSource, Graph!Done, IdInv
<1>2. CASE ~Graph!Exists(s)
  <2>1. UNCHANGED <<rels, orphaned>>
    BY <1>2 DEF Graph!DeleteSource
  <2> QED
    BY <1>1, <2>1, RepointStays
<1>3. CASE Graph!Exists(s)
  <2>1. Graph!Cascade(s) /\ orphaned' = {<<m, r>> : r \in Graph!RelsOf(s)}
    BY <1>3 DEF Graph!DeleteSource
  <2>2. DOMAIN rels' \subseteq DOMAIN rels /\ \A r \in DOMAIN rels' : rels'[r] = rels[r]
    BY <2>1, CascadeRows
  <2>3. \A r \in Graph!RelsOf(s) : <<m, r>> \in fresh
    BY <1>1 DEF RepointInv, Graph!RelsOf
  <2>4. orphaned' \subseteq fresh'
    BY <1>1, <2>1, <2>3
  <2>5. \A n \in Merge : \A r : <<n, r>> \in orphaned' => merges'[n].pc = "done"
    BY <1>1, <2>1
  <2>6. ASSUME NEW n \in Merge, NEW r \in DOMAIN rels',
               merges'[n].pc \in {"write", "delete"},
               merges'[n].source \in {rels'[r].from, rels'[r].to}
        PROVE  <<n, r>> \in fresh'
    <3>1. n # m
      BY <1>1, <2>6
    <3> QED
      BY <1>1, <2>2, <2>6, <3>1 DEF RepointInv, Graph!Touches
  <2> QED
    BY <2>4, <2>5, <2>6 DEF RepointInv, Graph!Touches, Graph!MergeKeepsRelationships
<1> QED
  BY <1>2, <1>3

LEMMA RepointStep ==
  IdInv /\ RowInv /\ RepointInv /\ [Graph!Next]_(Graph!vars) => RepointInv'
<1> SUFFICES ASSUME IdInv, RowInv, RepointInv, [Graph!Next]_(Graph!vars)
             PROVE  RepointInv'
  OBVIOUS
<1>1. ASSUME UNCHANGED <<merges, fresh, orphaned>>,
             DOMAIN rels' \subseteq DOMAIN rels,
             \A r \in DOMAIN rels' :
               rels'[r].from = rels[r].from /\ rels'[r].to = rels[r].to
      PROVE  RepointInv'
  BY <1>1, RepointStays
<1>2. ASSUME UNCHANGED <<rels, merges, fresh, orphaned>>
      PROVE  RepointInv'
  BY <1>2, <1>1
<1>3. ASSUME NEW u \in Upsert, NEW c \in Candidate, Graph!Resolve(u, c)
      PROVE  RepointInv'
  BY <1>2, <1>3 DEF Graph!Resolve, Graph!tables
<1>4. ASSUME NEW u \in Upsert,
             \/ Graph!Scan(u) \/ Graph!CreateEntity(u)
             \/ Graph!ReadEntity(u) \/ Graph!UpdateEntity(u)
      PROVE  RepointInv'
  BY <1>2, <1>4 DEF Graph!Scan, Graph!CreateEntity, Graph!ReadEntity,
                    Graph!UpdateEntity, Graph!tables, Graph!ghosts
<1>5. ASSUME NEW m \in Merge, NEW call, merges' = [merges EXCEPT ![m] = call],
             merges[m].pc # "done", UNCHANGED <<rels, fresh, orphaned>>,
             call.pc \in {"write", "delete"} =>
               merges[m].pc \in {"write", "delete"} /\ call.source = merges[m].source
      PROVE  RepointInv'
  <2>1. merges'[m] = call /\ \A n \in Merge \ {m} : merges'[n] = merges[n]
    BY <1>5 DEF IdInv
  <2> QED
    BY <1>5, <2>1, RepointStays
<1>6. ASSUME NEW m \in Merge, NEW s, NEW t, Graph!StartMerge(m, s, t)
      PROVE  RepointInv'
  <2>1. /\ merges[m].pc = "new" /\ UNCHANGED <<rels, fresh, orphaned>>
        /\ merges' = [merges EXCEPT ![m] =
             [pc |-> "target", source |-> s, target |-> t, from |-> entities[s],
              into |-> Graph!NoRow, name |-> Graph!NoRow.name]]
    BY <1>6 DEF Graph!StartMerge, Graph!Fresh, Graph!tables
  <2> QED
    BY <1>5, <2>1
<1>7. ASSUME NEW m \in Merge, Graph!ReadTarget(m)
      PROVE  RepointInv'
  <2> DEFINE old == merges[m]
             call == IF Graph!Exists(old.target)
                     THEN [old EXCEPT !.pc = "repoint", !.into = entities[old.target]]
                     ELSE Graph!Done
  <2>1. /\ merges' = [merges EXCEPT ![m] = call] /\ old.pc = "target"
        /\ UNCHANGED <<rels, fresh, orphaned>>
    BY <1>7 DEF Graph!ReadTarget, Graph!tables, Graph!ghosts
  <2>2. MergeShape(old, born)
    BY <2>1 DEF IdInv
  <2>3. call.pc \in {"repoint", "done"}
    BY <2>2 DEF MergeShape, Graph!Done
  <2> HIDE DEF call
  <2> QED
    BY <1>5, <2>1, <2>3
<1>8. ASSUME NEW m \in Merge, Graph!WriteTarget(m)
      PROVE  RepointInv'
  <2> DEFINE old == merges[m]
             call == IF Graph!Exists(old.target) THEN [old EXCEPT !.pc = "delete"]
                     ELSE Graph!Done
  <2>1. /\ merges' = [merges EXCEPT ![m] = call] /\ old.pc = "write"
        /\ UNCHANGED <<rels, fresh, orphaned>>
    BY <1>8 DEF Graph!WriteTarget, Graph!ghosts
  <2>2. MergeShape(old, born)
    BY <2>1 DEF IdInv
  <2>3. /\ ~Graph!Exists(old.target) => call.pc = "done"
        /\ Graph!Exists(old.target) => call.pc = "delete" /\ call.source = old.source
    BY <2>2 DEF MergeShape, Graph!Done
  <2> HIDE DEF call
  <2> QED
    BY <1>5, <2>1, <2>3
<1>9. ASSUME NEW m \in Merge, Graph!Repoint(m) \/ Graph!DeleteSource(m)
      PROVE  RepointInv'
  BY <1>9, RepointRepoints, DeleteSourceRepoints
<1>10. ASSUME NEW e \in Graph!EntityId, Graph!DeleteEntity(e)
       PROVE  RepointInv'
  <2>1. Graph!Cascade(e) /\ UNCHANGED <<merges, fresh, orphaned>>
    BY <1>10 DEF Graph!DeleteEntity, Graph!calls
  <2> QED
    BY <1>1, <2>1, CascadeRows
<1>11. ASSUME NEW r \in Relate, NEW f, NEW t, Graph!FindRelationship(r, f, t)
       PROVE  RepointInv'
  BY <1>2, <1>11 DEF Graph!FindRelationship, Graph!tables, Graph!ghosts
<1>12. ASSUME NEW r \in Relate, Graph!ReadRelationship(r)
       PROVE  RepointInv'
  BY <1>2, <1>12 DEF Graph!ReadRelationship, Graph!tables, Graph!ghosts
<1>13. ASSUME NEW r, NEW row, Graph!PutRel(r, row), fresh' = Graph!Renewed(r),
              UNCHANGED <<merges, orphaned>>
       PROVE  RepointInv'
  <2>1. \A x \in DOMAIN rels' : x = r \/ (x \in DOMAIN rels /\ rels'[x] = rels[x])
    BY <1>13 DEF Graph!PutRel
  <2>2. fresh \subseteq fresh' /\ \A m \in Merge : <<m, r>> \in fresh'
    BY <1>13 DEF Graph!Renewed
  <2>3. \A x \in DOMAIN rels' :
          \/ \A m \in Merge : <<m, x>> \in fresh'
          \/ /\ x \in DOMAIN rels
             /\ rels'[x].from = rels[x].from /\ rels'[x].to = rels[x].to
    BY <2>1, <2>2
  <2> QED
    BY <1>13, <2>2, <2>3, RepointStays
<1>14. ASSUME NEW r \in Relate, Graph!CreateRelationship(r)
       PROVE  RepointInv'
  BY <1>2, <1>13, <1>14 DEF Graph!CreateRelationship
<1>15. ASSUME NEW r \in Relate, Graph!UpdateRelationship(r)
       PROVE  RepointInv'
  BY <1>2, <1>13, <1>15 DEF Graph!UpdateRelationship
<1>16. ASSUME NEW r \in Graph!RelId, Graph!EndRelationship(r)
       PROVE  RepointInv'
  <2>1. /\ r \in DOMAIN rels /\ rels' = [rels EXCEPT ![r].active = FALSE]
        /\ UNCHANGED <<merges, fresh, orphaned>>
    BY <1>16 DEF Graph!EndRelationship, Graph!calls, Graph!ghosts
  <2>2. IsRow(rels[r])
    BY <2>1 DEF RowInv
  <2>3. \A x \in DOMAIN rels' :
          rels'[x].from = rels[x].from /\ rels'[x].to = rels[x].to
    BY <2>1, <2>2 DEF IsRow
  <2> QED
    BY <1>1, <2>1, <2>3
<1>17. ASSUME NEW r \in Graph!RelId, Graph!DeleteRelationship(r)
       PROVE  RepointInv'
  BY <1>1, <1>17 DEF Graph!DeleteRelationship, Graph!calls, Graph!ghosts
<1>18. CASE UNCHANGED Graph!vars
  BY <1>2, <1>18 DEF Graph!vars, Graph!tables, Graph!calls, Graph!ghosts
<1> QED
  BY <1>3, <1>4, <1>6, <1>7, <1>8, <1>9, <1>10, <1>11, <1>12, <1>14, <1>15, <1>16,
     <1>17, <1>18 DEF Graph!Next

LEMMA GraphInit == Graph!Init => IdInv /\ KeptInv /\ RowInv /\ RepointInv
<1> SUFFICES ASSUME Graph!Init
             PROVE  IdInv /\ KeptInv /\ RowInv /\ RepointInv
  OBVIOUS
<1>1. /\ DOMAIN entities = {} /\ DOMAIN rels = {} /\ born = 0
      /\ DOMAIN upserts = Upsert /\ DOMAIN merges = Merge /\ DOMAIN relates = Relate
      /\ \A u \in Upsert : upserts[u].pc = "new"
      /\ \A m \in Merge : merges[m].pc = "new"
      /\ \A r \in Relate : relates[r].pc = "new"
      /\ known = {} /\ crossed = {} /\ orphaned = {}
  BY DEF Graph!Init, Graph!Fresh
<1>2. BusyUpserts = {} /\ BusyMerges = {}
  BY <1>1 DEF BusyUpserts, BusyMerges, Graph!Busy
<1>3. IdInv
  BY <1>1 DEF IdInv
<1>4. StakeInv /\ Graph!NothingForgotten
  BY <1>1, <1>2 DEF StakeInv, Graph!NothingForgotten
<1>5. ReadInv
  BY <1>1, <1>2 DEF ReadInv, FoundStands, MergeStands, SourceStands, TargetStands, Moved
<1>6. RowInv /\ RepointInv
  BY <1>1 DEF RowInv, RepointInv, Graph!MergeKeepsRelationships
<1> QED
  BY <1>3, <1>4, <1>5, <1>6 DEF KeptInv

(***************************************************************************)
(* What an upsert that returned recorded is held by an entity for ever, if *)
(* no call overlapped with it and no caller deleted it, and a merge keeps  *)
(* the relationships of both entities: for any number of calls, candidates *)
(* and rows (entity-manager.ts:246-290, knowledge-graph.ts:163-181).       *)
(***************************************************************************)
THEOREM KnowledgeIsKept == Graph!Spec => []GraphKeepsKnowledge
<1> DEFINE Inv == IdInv /\ KeptInv /\ RowInv /\ RepointInv
<1>1. Inv => GraphKeepsKnowledge
  BY DEF KeptInv, RepointInv, GraphKeepsKnowledge
<1>2. Inv /\ [Graph!Next]_(Graph!vars) => Inv'
  BY IdStep, KeptStep, RowStep, RepointStep
<1>3. Graph!Init => Inv
  BY GraphInit
<1> QED
  BY <1>1, <1>2, <1>3, PTL DEF Graph!Spec
-----------------------------------------------------------------------------
(***************************************************************************)
(* The behaviours that the run explores are behaviours of each component,  *)
(* so that what is proved of one holds in every state of them.             *)
(***************************************************************************)
LEMMA ComponentsOfStores ==
  AllSpec => /\ Spec /\ Store!Spec /\ Lessons!Spec /\ Graph!Spec /\ Archiver!Spec
             /\ Config!Spec
<1> DEFINE all == <<focus, vars, storeVars, lessonVars, graphVars, snapshotVars,
                    settingVars>>
<1>1. AllInit => /\ Init /\ Store!Init /\ Lessons!Init /\ Graph!Init
                 /\ Archiver!Init /\ Config!Init
  BY DEF AllInit
<1>2. [AllNextInFocus]_all => /\ [Next]_vars /\ [Store!Next]_(Store!vars)
                              /\ [Lessons!Next]_(Lessons!vars)
                              /\ [Graph!Next]_(Graph!vars)
                              /\ [Archiver!Next]_(Archiver!vars)
                              /\ [Config!Next]_(Config!vars)
  BY DEF AllNextInFocus, AllNext, storeVars, lessonVars, graphVars, snapshotVars,
         settingVars, Store!vars, Lessons!vars, Graph!vars, Graph!tables,
         Graph!calls, Graph!ghosts, Archiver!vars, Config!vars, Config!settings,
         Config!secrets
<1> QED
  BY <1>1, <1>2, PTL DEF AllSpec, Spec, Store!Spec, Lessons!Spec, Graph!Spec,
     Archiver!Spec, Config!Spec

\* The invariants of the run, for all values of the constants.
THEOREM StoresStaySound ==
  AllSpec => [](/\ TurnsNeverLost /\ FactsAreSound /\ LearningIsOrdered
                /\ GraphKeepsKnowledge /\ RestoresFinishedSnapshots
                /\ WritesSurvive)
  BY ComponentsOfStores, TurnsStay, FactsStaySound, LearningStaysOrdered,
     KnowledgeIsKept, RollbacksRestoreFinished, WrittenSettingsSurvive, PTL
=============================================================================
