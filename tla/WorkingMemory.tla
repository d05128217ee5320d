--------------------------- MODULE WorkingMemory ---------------------------
(***************************************************************************)
(* The working memory (memory/src/working/working-memory.ts) and its flush *)
(* to the episodic store (memory/src/memory-system.ts).  The turns of the  *)
(* conversation are in an array that appendTurn extends in place, that     *)
(* getTurns hands out as it is, and that clearTurns and restore replace by *)
(* a new one.  A flush waits for the event bus after each turn, so other   *)
(* flushes, appends and a restore come between.                            *)
(***************************************************************************)
EXTENDS Naturals, Sequences

CONSTANTS Turn,      \* the turns of the conversation
          Flush,     \* the flushes that may be under way at once
          MaxArrays, \* bounds the arrays that are ever allocated
          NoArray    \* what a flush that is not under way works on

ASSUME ArrayAssumption == MaxArrays \in Nat /\ NoArray \notin Nat

VARIABLES arrays,    \* every array of turns so far; the last is turnBuffer
          saved,     \* the turns of the latest snapshot
          said,      \* the turns that were appended
          flushes,   \* the array that each flush works on and how far it is
          episodes,  \* the turns that have an episode in the store
          discarded, \* the turns that a restore replaced
          exposed    \* the turns that came while a flush worked on an old array

vars == <<arrays, saved, said, flushes, episodes, discarded, exposed>>

Idle == [array |-> NoArray, at |-> 0]

Init ==
  /\ arrays = << <<>> >>
  /\ saved = <<>>
  /\ said = {}
  /\ flushes = [f \in Flush |-> Idle]
  /\ episodes = {}
  /\ discarded = {} /\ exposed = {}

Elements(s) == {s[i] : i \in DOMAIN s}
TurnBuffer == arrays[Len(arrays)]
Runs(f) == flushes[f] # Idle
\* A flush works on an array that is no longer the turn buffer.
Stale(f) == Runs(f) /\ flushes[f].array # Len(arrays)

AppendTurn(t) ==
  /\ t \notin said
  /\ said' = said \cup {t}
  /\ arrays' = [arrays EXCEPT ![Len(arrays)] = Append(@, t)]
  /\ exposed' = IF \E f \in Flush : Stale(f) THEN exposed \cup {t} ELSE exposed
  /\ UNCHANGED <<saved, flushes, episodes, discarded>>

Snapshot ==
  /\ saved' = TurnBuffer
  /\ UNCHANGED <<arrays, said, flushes, episodes, discarded, exposed>>

Restore ==
  /\ Len(arrays) < MaxArrays
  /\ arrays' = Append(arrays, saved)
  /\ discarded' = discarded \cup (Elements(TurnBuffer) \ Elements(saved))
  /\ exposed' = IF \E f \in Flush : Runs(f)
                THEN exposed \cup Elements(saved) ELSE exposed
  /\ UNCHANGED <<saved, said, flushes, episodes>>

\* recordEpisode inserts the row and then waits for the event bus.
Records(f, array, index) ==
  /\ flushes' = [flushes EXCEPT ![f] = [array |-> array, at |-> index]]
  /\ episodes' = episodes \cup {arrays[array][index]}

\* flushWorkingToEpisodic: the flush works on the turn buffer itself.
BeginFlush(f) ==
  /\ ~Runs(f) /\ TurnBuffer # <<>>
  /\ Records(f, Len(arrays), 1)
  /\ UNCHANGED <<arrays, saved, said, discarded, exposed>>

\* The next turn of the array, one that was appended meanwhile included.
FlushNext(f) ==
  /\ Runs(f)
  /\ flushes[f].at < Len(arrays[flushes[f].array])
  /\ Records(f, flushes[f].array, flushes[f].at + 1)
  /\ UNCHANGED <<arrays, saved, said, discarded, exposed>>

\* A statement throws, the one that indexes this turn or the next one's: the
\* flush ends without clearing.
FlushFails(f) ==
  /\ Runs(f)
  /\ flushes' = [flushes EXCEPT ![f] = Idle]
  /\ UNCHANGED <<arrays, saved, said, episodes, discarded, exposed>>

\* Mutant of EndFlush: the turns that came meanwhile are not waited for.
EndFlushEarly(f) ==
  /\ Runs(f)
  /\ Len(arrays) < MaxArrays
  /\ arrays' = Append(arrays, <<>>)
  /\ flushes' = [flushes EXCEPT ![f] = Idle]
  /\ UNCHANGED <<saved, said, episodes, discarded, exposed>>

\* clearTurns, whatever the turn buffer is by now.
EndFlush(f) ==
  /\ Runs(f)
  /\ flushes[f].at = Len(arrays[flushes[f].array])
  /\ Len(arrays) < MaxArrays
  /\ arrays' = Append(arrays, <<>>)
  /\ flushes' = [flushes EXCEPT ![f] = Idle]
  /\ UNCHANGED <<saved, said, episodes, discarded, exposed>>

Next ==
  \/ \E t \in Turn : AppendTurn(t)
  \/ Snapshot \/ Restore
  \/ \E f \in Flush :
       BeginFlush(f) \/ FlushNext(f) \/ FlushFails(f) \/ EndFlush(f)

Spec == Init /\ [][Next]_vars
-----------------------------------------------------------------------------
\* The type invariant: the domain of every variable of the working memory.
TypeOK ==
  /\ arrays \in Seq(Seq(Turn)) /\ Len(arrays) \in Nat \ {0}
  /\ saved \in Seq(Turn)
  /\ said \in SUBSET Turn
  /\ flushes \in [Flush -> [array : Nat \cup {NoArray}, at : Nat]]
  /\ \A f \in Flush : Runs(f) =>
       /\ flushes[f].array \in 1 .. Len(arrays)
       /\ flushes[f].at \in 1 .. Len(arrays[flushes[f].array])
  /\ episodes \in SUBSET Turn
  /\ discarded \in SUBSET Turn /\ exposed \in SUBSET Turn

(***************************************************************************)
(* No turn is lost (memory-system.ts:198-219): it is in the turn buffer or *)
(* has an episode, also when it came while a flush was under way, unless a *)
(* restore discarded it or it came while a flush still worked on an array  *)
(* that another flush, or a restore, had already replaced.                 *)
(***************************************************************************)
TurnsNeverLost ==
  said \subseteq Elements(TurnBuffer) \cup episodes \cup discarded \cup exposed
=============================================================================
