---------------------------- MODULE HelperProofs ----------------------------
(***************************************************************************)
(* Proofs about the event bus, for every set of emissions, handlers and    *)
(* patterns, with emissions inside handlers to any depth; and about the    *)
(* helpers that the bus and other components call: the graph of a plan,    *)
(* for plans of every length, the triggers, the replay of the journal, the *)
(* queries of the graph, the context of a task and the bodies of responses.*)
(***************************************************************************)
EXTENDS EventBus, MCHelpers, SequenceFacts

-----------------------------------------------------------------------------
(***************************************************************************)
(* The event bus.  An emission that is dispatched or more has its targets, *)
(* and a handler that was called for it is one of them; whatever emitted   *)
(* it from a handler was dispatched before, and has the earlier times.     *)
(***************************************************************************)
Outcome == {"none", "pending", "done", "dead"}

BusTypes ==
  /\ subs \subseteq Pattern \X Handler
  /\ journal \subseteq Emission /\ stack \in Seq(Emission)
  /\ reading \in Nat
  /\ born \in [Emission -> Nat] /\ stamp \in [Emission -> Nat]
  /\ pc \in [Emission -> {"new", "dispatching", "awaiting", "returned"}]
  /\ targets \in [Emission -> SUBSET Handler]
  /\ call \in [Emission -> [Handler -> Outcome]]
  /\ cause \in [Emission -> {<<>>} \cup (Emission \X Handler)]
  /\ dlq \in Seq(Emission \X Handler)
  /\ delivered \in [Handler -> Seq(Emission)]

CalledInv ==
  \A e \in Emission, h \in Handler :
    /\ pc[e] = "new" => call[e][h] = "none" /\ h \notin targets[e]
    /\ call[e][h] # "none" => h \in targets[e]
    /\ pc[e] \in {"awaiting", "returned"} /\ h \in targets[e] =>
         call[e][h] # "none"
    /\ pc[e] = "returned" => call[e][h] # "pending"

OnceInv ==
  \A e \in Emission, h \in Handler :
    Times(delivered[h], e) = IF call[e][h] = "none" THEN 0 ELSE 1

DeadInv ==
  \A e \in Emission, h \in Handler :
    Times(dlq, <<e, h>>) = IF call[e][h] = "dead" THEN 1 ELSE 0

CauseInv ==
  \A e \in Emission : cause[e] # <<>> => pc[cause[e][1]] # "new"

RowInv ==
  /\ \A e \in Emission : born[e] <= reading /\ stamp[e] <= reading
  /\ \A d \in Emission :
       cause[d] # <<>> =>
         born[cause[d][1]] <= born[d] /\ stamp[cause[d][1]] <= stamp[d]

BusInv == BusTypes /\ CalledInv /\ OnceInv /\ DeadInv /\ CauseInv /\ RowInv

\* The instance has its own names for the operators of the libraries.
LEMMA SameCardinality ==
  ASSUME NEW S
  PROVE  Cardinality(S) = Cardinality(S)
  BY DEF Cardinality, Cardinality

LEMMA HandledWhenReturned == BusInv => ReturnedIsHandled
<1> SUFFICES ASSUME BusInv, NEW e \in Emission, pc[e] = "returned",
                    NEW h \in Handler
             PROVE  /\ h \in targets[e] <=> call[e][h] \in {"done", "dead"}
                    /\ Cardinality({i \in DOMAIN delivered[h] :
                                      delivered[h][i] = e})
                         = IF h \in targets[e] THEN 1 ELSE 0
  BY SameCardinality DEF ReturnedIsHandled
<1>1. /\ call[e][h] \in Outcome
      /\ h \in targets[e] => call[e][h] # "none"
      /\ call[e][h] # "none" => h \in targets[e]
      /\ call[e][h] # "pending"
  BY DEF BusInv, CalledInv, BusTypes
<1>2. Times(delivered[h], e) = IF call[e][h] = "none" THEN 0 ELSE 1
  BY DEF BusInv, OnceInv
<1> QED
  BY <1>1, <1>2 DEF Times, Outcome

LEMMA RecordsTell == BusInv => RecordsAreTrue
<1> SUFFICES ASSUME BusInv
             PROVE  DeadLettersAreFailures /\ CausesComeFirst
  BY DEF RecordsAreTrue
<1>1. DeadLettersAreFailures
  BY SameCardinality DEF DeadLettersAreFailures, BusInv, DeadInv, Times
<1>2. CausesComeFirst
  BY DEF CausesComeFirst, BusInv, BusTypes, RowInv, Nobody
<1> QED
  BY <1>1, <1>2

LEMMA BusInit == Init => BusInv
<1> SUFFICES ASSUME Init
             PROVE  BusInv
  OBVIOUS
<1>1. /\ subs = {} /\ journal = {} /\ stack = <<>> /\ dlq = <<>>
      /\ reading = 0
      /\ born = [e \in Emission |-> 0] /\ stamp = [e \in Emission |-> 0]
      /\ pc = [e \in Emission |-> "new"]
      /\ targets = [e \in Emission |-> {}]
      /\ call = [e \in Emission |-> [h \in Handler |-> "none"]]
      /\ cause = [e \in Emission |-> <<>>]
      /\ delivered = [h \in Handler |-> <<>>]
  BY DEF Init, Nobody
<1>2. BusTypes
  BY <1>1 DEF BusTypes, Outcome
<1>3. CalledInv /\ CauseInv
  BY <1>1 DEF CalledInv, CauseInv
<1>4. \A x : Times(<<>>, x) = 0
  BY FS_EmptySet DEF Times
<1>5. OnceInv /\ DeadInv
  BY <1>1, <1>4 DEF OnceInv, DeadInv
<1>6. RowInv
  BY <1>1 DEF RowInv
<1> QED
  BY <1>2, <1>3, <1>5, <1>6 DEF BusInv

\* What the invariant needs to know of the first part of an emit call.
LEMMA DispatchEffects ==
  ASSUME BusInv, NEW e \in Emission, Dispatch(e)
  PROVE  /\ pc[e] = "new" /\ pc' = [pc EXCEPT ![e] = "dispatching"]
         /\ journal' \subseteq Emission /\ stack' \in Seq(Emission)
         /\ reading' \in Nat
         /\ born' \in [Emission -> Nat] /\ stamp' \in [Emission -> Nat]
         /\ pc' \in [Emission -> {"new", "dispatching", "awaiting", "returned"}]
         /\ targets' \in [Emission -> SUBSET Handler]
         /\ \A x \in Emission : x # e =>
              targets'[x] = targets[x] /\ born'[x] = born[x] /\ stamp'[x] = stamp[x]
         /\ reading <= born'[e] /\ born'[e] <= reading'
         /\ reading <= stamp'[e] /\ stamp'[e] <= reading' /\ reading <= reading'
<1>1. BusTypes
  BY DEF BusInv
<1>2. MatchingHandlers(TypeOf[e]) \in SUBSET Handler
  BY <1>1 DEF MatchingHandlers, BusTypes
<1>3. /\ pc[e] = "new" /\ pc' = [pc EXCEPT ![e] = "dispatching"]
      /\ journal' = journal \/ journal' = journal \cup {e}
      /\ targets' = [targets EXCEPT ![e] = MatchingHandlers(TypeOf[e])]
      /\ stack' = Append(stack, e)
  BY DEF Dispatch
<1>4. journal' \subseteq Emission /\ stack' \in Seq(Emission)
  <2>1. Append(stack, e) \in Seq(Emission)
    BY <1>1 DEF BusTypes
  <2> QED
    BY <1>1, <1>3, <2>1 DEF BusTypes
<1>5. /\ pc' \in [Emission -> {"new", "dispatching", "awaiting", "returned"}]
      /\ targets' \in [Emission -> SUBSET Handler]
      /\ \A x \in Emission : x # e => targets'[x] = targets[x]
  BY <1>1, <1>2, <1>3 DEF BusTypes
<1>6. PICK id \in Moments : \E time \in Moments :
        /\ reading <= id /\ id <= time
        /\ born' = [born EXCEPT ![e] = id]
        /\ stamp' = [stamp EXCEPT ![e] = time]
        /\ reading' = time
  BY DEF Dispatch
<1>7. PICK time \in Moments :
        /\ reading <= id /\ id <= time
        /\ born' = [born EXCEPT ![e] = id]
        /\ stamp' = [stamp EXCEPT ![e] = time]
        /\ reading' = time
  BY <1>6
<1>8. id \in Nat /\ time \in Nat /\ reading \in Nat
  BY <1>1, <1>6, <1>7, BusAssumption DEF BusTypes
<1>9. /\ reading' \in Nat
      /\ born' \in [Emission -> Nat] /\ stamp' \in [Emission -> Nat]
      /\ \A x \in Emission : x # e => born'[x] = born[x] /\ stamp'[x] = stamp[x]
      /\ reading <= born'[e] /\ born'[e] <= reading'
      /\ reading <= stamp'[e] /\ stamp'[e] <= reading' /\ reading <= reading'
  BY <1>1, <1>7, <1>8 DEF BusTypes
<1> QED
  BY <1>3, <1>4, <1>5, <1>9

\* A dispatch takes its times from a clock that is past those of every event
\* that was dispatched, its cause among them.
LEMMA DispatchKeepsRows ==
  ASSUME BusInv, NEW e \in Emission, Dispatch(e),
         \/ cause' = cause
         \/ \E d \in Emission, h \in Handler :
              pc[d] # "new" /\ cause' = [cause EXCEPT ![e] = <<d, h>>]
  PROVE  /\ cause' \in [Emission -> {<<>>} \cup (Emission \X Handler)]
         /\ CauseInv' /\ RowInv'
<1>0. BusTypes /\ CauseInv /\ RowInv
  BY DEF BusInv
<1>1. /\ pc[e] = "new" /\ pc' = [pc EXCEPT ![e] = "dispatching"]
      /\ reading \in Nat /\ reading' \in Nat
      /\ born' \in [Emission -> Nat] /\ stamp' \in [Emission -> Nat]
      /\ \A x \in Emission : x # e => born'[x] = born[x] /\ stamp'[x] = stamp[x]
      /\ reading <= born'[e] /\ born'[e] <= reading'
      /\ reading <= stamp'[e] /\ stamp'[e] <= reading' /\ reading <= reading'
  BY <1>0, DispatchEffects DEF BusTypes
<1>2. /\ cause' \in [Emission -> {<<>>} \cup (Emission \X Handler)]
      /\ \A x \in Emission : x # e => cause'[x] = cause[x]
      /\ cause'[e] # <<>> => /\ cause'[e][1] \in Emission
                             /\ pc[cause'[e][1]] # "new"
  <2>1. CASE cause' = cause
    BY <1>0, <2>1 DEF BusTypes, CauseInv
  <2>2. ASSUME NEW d \in Emission, NEW h \in Handler, pc[d] # "new",
               cause' = [cause EXCEPT ![e] = <<d, h>>]
        PROVE  /\ cause' \in [Emission -> {<<>>} \cup (Emission \X Handler)]
               /\ \A x \in Emission : x # e => cause'[x] = cause[x]
               /\ cause'[e] # <<>> => /\ cause'[e][1] \in Emission
                                      /\ pc[cause'[e][1]] # "new"
    BY <1>0, <2>2 DEF BusTypes
  <2> QED
    BY <2>1, <2>2
<1>3. \A x \in Emission : pc[x] # "new" => x # e /\ pc'[x] = pc[x]
  BY <1>0, <1>1 DEF BusTypes
<1>4. \A x \in Emission : cause'[x] # <<>> => /\ cause'[x][1] \in Emission
                                             /\ cause'[x][1] # e
                                             /\ pc[cause'[x][1]] # "new"
  <2>1. pc[e] = "new"
    BY <1>1
  <2>2. ASSUME NEW x \in Emission, cause'[x] # <<>>
        PROVE  cause'[x][1] \in Emission /\ pc[cause'[x][1]] # "new"
    <3>1. CASE x = e
      BY <1>2, <2>2, <3>1
    <3>2. CASE x # e
      <4>1. cause[x] # <<>> /\ cause'[x] = cause[x]
        BY <1>2, <2>2, <3>2
      <4>2. cause[x] \in Emission \X Handler
        BY <1>0, <4>1 DEF BusTypes
      <4> QED
        BY <1>0, <4>1, <4>2 DEF CauseInv
    <3> QED
      BY <3>1, <3>2
  <2> QED
    BY <2>1, <2>2
<1>5. CauseInv'
  BY <1>3, <1>4 DEF CauseInv
<1>6. born \in [Emission -> Nat] /\ stamp \in [Emission -> Nat]
  BY <1>0 DEF BusTypes
<1>7. ASSUME NEW x \in Emission
      PROVE  born'[x] <= reading' /\ stamp'[x] <= reading'
  <2>1. CASE x = e
    BY <1>1, <2>1
  <2>2. CASE x # e
    <3>1. born[x] <= reading /\ stamp[x] <= reading
      BY <1>0 DEF RowInv
    <3> QED
      BY <1>1, <1>6, <2>2, <3>1
  <2> QED
    BY <2>1, <2>2
<1>8. ASSUME NEW x \in Emission, cause'[x] # <<>>
      PROVE  /\ born'[cause'[x][1]] <= born'[x]
             /\ stamp'[cause'[x][1]] <= stamp'[x]
  <2> DEFINE y == cause'[x][1]
  <2>1. y \in Emission /\ y # e /\ pc[y] # "new"
    BY <1>4, <1>8
  <2>2. /\ born'[y] = born[y] /\ stamp'[y] = stamp[y]
        /\ born[y] <= reading /\ stamp[y] <= reading
    BY <1>0, <1>1, <2>1 DEF RowInv
  <2>3. x # e => born[y] <= born[x] /\ stamp[y] <= stamp[x]
    BY <1>0, <1>2, <1>8 DEF RowInv
  <2> HIDE DEF y
  <2>4. born'[y] <= born'[x] /\ stamp'[y] <= stamp'[x]
    BY <1>1, <1>6, <2>1, <2>2, <2>3
  <2> QED
    BY <2>4 DEF y
<1>9. RowInv'
  BY <1>7, <1>8 DEF RowInv
<1> QED
  BY <1>2, <1>5, <1>9

\* One handler call takes another state.
Marks(e, h, outcome) ==
  /\ call' \in [Emission -> [Handler -> Outcome]]
  /\ \A x \in Emission, k \in Handler :
       call'[x][k] = IF x = e /\ k = h THEN outcome ELSE call[x][k]

LEMMA MarksOne ==
  ASSUME BusInv, NEW e \in Emission, NEW h \in Handler, NEW outcome \in Outcome,
         call' = [call EXCEPT ![e][h] = outcome]
  PROVE  Marks(e, h, outcome)
  BY DEF BusInv, BusTypes, Marks

\* A mark of an emission that was dispatched keeps what is said of its calls.
LEMMA MarkKeepsCalls ==
  ASSUME CalledInv, NEW e \in Emission, NEW h \in Handler,
         NEW outcome \in {"pending", "done", "dead"}, Marks(e, h, outcome),
         pc[e] # "new", pc[e] = "returned" => outcome # "pending",
         h \in targets[e], UNCHANGED <<pc, targets>>
  PROVE  CalledInv'
<1> SUFFICES ASSUME NEW x \in Emission, NEW k \in Handler
             PROVE  /\ pc[x] = "new" =>
                         call'[x][k] = "none" /\ k \notin targets[x]
                    /\ call'[x][k] # "none" => k \in targets[x]
                    /\ pc[x] \in {"awaiting", "returned"} /\ k \in targets[x] =>
                         call'[x][k] # "none"
                    /\ pc[x] = "returned" => call'[x][k] # "pending"
  BY DEF CalledInv
<1>1. CASE x = e /\ k = h
  <2>1. call'[x][k] = outcome
    BY <1>1 DEF Marks
  <2> QED
    BY <1>1, <2>1
<1>2. CASE ~ (x = e /\ k = h)
  <2>1. call'[x][k] = call[x][k]
    BY <1>2 DEF Marks
  <2> QED
    BY <2>1 DEF CalledInv
<1> QED
  BY <1>1, <1>2

\* A handler is called for an emission that is being dispatched, and not again.
LEMMA CallEffects ==
  ASSUME BusInv, NEW e \in Emission, NEW h \in Handler,
         NEW outcome \in {"pending", "dead"}, Calls(e, h, outcome)
  PROVE  /\ pc[e] = "dispatching" /\ h \in targets[e] /\ call[e][h] = "none"
         /\ Marks(e, h, outcome)
         /\ delivered' \in [Handler -> Seq(Emission)] /\ OnceInv'
<1>0. BusTypes /\ CalledInv /\ OnceInv
  BY DEF BusInv
<1>1. /\ h \in targets[e] /\ call[e][h] = "none"
      /\ call' = [call EXCEPT ![e][h] = outcome]
      /\ delivered' = [delivered EXCEPT ![h] = Append(@, e)]
  BY DEF Calls, Uncalled
<1>2. pc[e] = "dispatching"
  BY <1>0, <1>1 DEF BusTypes, CalledInv
<1>3. Marks(e, h, outcome)
  BY <1>1, MarksOne DEF Outcome
<1>4. /\ delivered' \in [Handler -> Seq(Emission)]
      /\ delivered'[h] = Append(delivered[h], e)
      /\ \A k \in Handler : k # h => delivered'[k] = delivered[k]
  <2>1. delivered[h] \in Seq(Emission)
    BY <1>0 DEF BusTypes
  <2>2. Append(delivered[h], e) \in Seq(Emission)
    BY <2>1
  <2> QED
    BY <1>0, <1>1, <2>2 DEF BusTypes
<1>5. OnceInv'
  <2> SUFFICES ASSUME NEW x \in Emission, NEW k \in Handler
               PROVE  Times(delivered'[k], x) = IF call'[x][k] = "none" THEN 0 ELSE 1
    BY DEF OnceInv
  <2>1. Times(delivered[k], x) = IF call[x][k] = "none" THEN 0 ELSE 1
    BY <1>0 DEF OnceInv
  <2>2. CASE k # h
    BY <1>3, <1>4, <2>1, <2>2 DEF Marks
  <2>3. CASE k = h
    <3>1. Times(delivered'[h], x) = Times(delivered[h], x) + IF x = e THEN 1 ELSE 0
      BY <1>0, <1>4, AppendTimes DEF BusTypes
    <3> QED
      BY <1>1, <1>3, <2>1, <2>3, <3>1 DEF Marks
  <2> QED
    BY <2>2, <2>3
<1> QED
  BY <1>1, <1>2, <1>3, <1>4, <1>5

\* A call that fails is put into the dead letter queue.
LEMMA DeadLetterKept ==
  ASSUME BusInv, NEW e \in Emission, NEW h \in Handler, call[e][h] # "dead",
         Marks(e, h, "dead"), dlq' = Append(dlq, <<e, h>>)
  PROVE  dlq' \in Seq(Emission \X Handler) /\ DeadInv'
<1>1. dlq \in Seq(Emission \X Handler) /\ <<e, h>> \in Emission \X Handler
  BY DEF BusInv, BusTypes
<1>2. \A x \in Emission \X Handler :
        Times(dlq', x) = Times(dlq, x) + IF x = <<e, h>> THEN 1 ELSE 0
  <2> DEFINE S == Emission \X Handler
  <2>1. PICK p \in S : p = <<e, h>>
    OBVIOUS
  <2>2. dlq \in Seq(S)
    BY <1>1
  <2> HIDE DEF S
  <2>3. \A x \in S :
          Times(Append(dlq, p), x) = Times(dlq, x) + IF x = p THEN 1 ELSE 0
    BY <2>2, AppendTimes
  <2> QED
    BY <2>1, <2>3 DEF S
<1>3. DeadInv'
  <2> SUFFICES ASSUME NEW x \in Emission, NEW k \in Handler
               PROVE  Times(dlq', <<x, k>>) = IF call'[x][k] = "dead" THEN 1 ELSE 0
    BY DEF DeadInv
  <2>1. Times(dlq, <<x, k>>) = IF call[x][k] = "dead" THEN 1 ELSE 0
    BY DEF BusInv, DeadInv
  <2>2. <<x, k>> = <<e, h>> <=> x = e /\ k = h
    OBVIOUS
  <2>3. Times(dlq', <<x, k>>) =
          Times(dlq, <<x, k>>) + IF x = e /\ k = h THEN 1 ELSE 0
    BY <1>2, <2>2
  <2> QED
    BY <2>1, <2>3 DEF Marks
<1> QED
  BY <1>1, <1>3

\* The steps that neither dispatch nor call: a handler settles, an emit ends.
LEMMA SettleKeeps ==
  ASSUME BusInv, NEW e \in Emission, NEW h \in Handler, Settle(e, h)
  PROVE  BusInv'
<1>0. BusTypes /\ CalledInv /\ OnceInv /\ DeadInv /\ CauseInv /\ RowInv
  BY DEF BusInv
<1>1. /\ call[e][h] = "pending"
      /\ UNCHANGED <<subs, rowVars, stack, pc, targets, cause, delivered>>
  BY DEF Settle, Resolve, Reject
<1>2. h \in targets[e] /\ pc[e] # "new" /\ pc[e] # "returned"
  BY <1>0, <1>1 DEF CalledInv
<1>3. CASE Resolve(e, h)
  <2>1. call' = [call EXCEPT ![e][h] = "done"] /\ dlq' = dlq
    BY <1>3 DEF Resolve
  <2>2. Marks(e, h, "done")
    BY <2>1, MarksOne DEF Outcome
  <2>3. BusTypes' /\ CalledInv'
    <3>1. BusTypes'
      BY <1>0, <1>1, <2>1, <2>2 DEF BusTypes, Marks, rowVars
    <3>2. CalledInv'
      BY <1>0, <1>1, <1>2, <2>2, MarkKeepsCalls
    <3> QED
      BY <3>1, <3>2
  <2>4. OnceInv' /\ DeadInv'
    BY <1>0, <1>1, <2>1, <2>2 DEF OnceInv, DeadInv, Marks
  <2>5. CauseInv' /\ RowInv'
    BY <1>0, <1>1 DEF CauseInv, RowInv, rowVars
  <2> QED
    BY <2>3, <2>4, <2>5 DEF BusInv
<1>4. CASE Reject(e, h)
  <2>1. call' = [call EXCEPT ![e][h] = "dead"] /\ dlq' = Append(dlq, <<e, h>>)
    BY <1>4 DEF Reject
  <2>2. Marks(e, h, "dead")
    BY <2>1, MarksOne DEF Outcome
  <2>3. dlq' \in Seq(Emission \X Handler) /\ DeadInv'
    <3>1. call[e][h] # "dead" /\ dlq' = Append(dlq, <<e, h>>)
      BY <1>1, <2>1
    <3> QED
      BY <2>2, <3>1, DeadLetterKept
  <2>4. BusTypes'
    BY <1>0, <1>1, <2>2, <2>3 DEF BusTypes, Marks, rowVars
  <2>5. CalledInv'
    BY <1>0, <1>1, <1>2, <2>2, MarkKeepsCalls
  <2>6. OnceInv'
    BY <1>0, <1>1, <2>2 DEF OnceInv, Marks
  <2>7. CauseInv' /\ RowInv'
    BY <1>0, <1>1 DEF CauseInv, RowInv, rowVars
  <2> QED
    BY <2>3, <2>4, <2>5, <2>6, <2>7 DEF BusInv
<1> QED
  BY <1>3, <1>4 DEF Settle

LEMMA EndKeeps ==
  ASSUME BusInv, NEW e \in Emission, EndDispatch(e) \/ Return(e)
  PROVE  BusInv'
<1>0. BusTypes /\ CalledInv /\ OnceInv /\ DeadInv /\ CauseInv /\ RowInv
  BY DEF BusInv
<1>1. UNCHANGED <<subs, rowVars, targets, call, cause, dlq, delivered>>
  BY DEF EndDispatch, Return
<1>2. OnceInv' /\ DeadInv'
  BY <1>0, <1>1 DEF OnceInv, DeadInv
<1>3. CASE EndDispatch(e)
  <2>1. /\ stack # <<>> /\ stack' = Front(stack)
        /\ pc' = [pc EXCEPT ![e] = "awaiting"]
        /\ \A h \in targets[e] : call[e][h] # "none"
    <3>1. Front(stack) = Front(stack)
      BY DEF Front, Front
    <3> QED
      BY <1>3, <3>1 DEF EndDispatch, Uncalled
  <2>2. stack' \in Seq(Emission)
    <3>1. stack \in Seq(Emission) /\ Len(stack) - 1 \in 0 .. Len(stack)
      BY <1>0, <2>1 DEF BusTypes
    <3>2. SubSeq(stack, 1, Len(stack) - 1) \in Seq(Emission)
      BY <3>1, SubSeqProperties
    <3> QED
      BY <2>1, <3>2 DEF Front
  <2>3. BusTypes' /\ CauseInv' /\ RowInv'
    <3>1. UNCHANGED <<journal, reading, born, stamp>>
      BY <1>1 DEF rowVars
    <3>2. BusTypes'
      BY <1>0, <1>1, <2>1, <2>2, <3>1 DEF BusTypes
    <3>3. CauseInv' /\ RowInv'
      BY <1>0, <1>1, <2>1, <3>1 DEF BusTypes, CauseInv, RowInv
    <3> QED
      BY <3>2, <3>3
  <2>4. CalledInv'
    BY <1>0, <1>1, <2>1 DEF BusTypes, CalledInv
  <2> QED
    BY <1>2, <2>3, <2>4 DEF BusInv
<1>4. CASE Return(e)
  <2>1. /\ pc[e] = "awaiting" /\ pc' = [pc EXCEPT ![e] = "returned"]
        /\ \A h \in Handler : call[e][h] # "pending"
        /\ stack' = stack
    BY <1>4 DEF Return
  <2>2. BusTypes' /\ CauseInv' /\ RowInv'
    BY <1>0, <1>1, <2>1 DEF BusTypes, CauseInv, RowInv, rowVars
  <2>3. CalledInv'
    BY <1>0, <1>1, <2>1 DEF BusTypes, CalledInv
  <2> QED
    BY <1>2, <2>2, <2>3 DEF BusInv
<1> QED
  BY <1>3, <1>4

\* The invariant after a dispatch beside which at most one handler is called.
LEMMA DispatchKeepsCalls ==
  ASSUME BusInv, NEW e \in Emission, Dispatch(e),
         \/ call' = call
         \/ \E x \in Emission, h \in Handler :
              x # e /\ h \in targets[x] /\ pc[x] = "dispatching"
                /\ Marks(x, h, "pending")
  PROVE  CalledInv'
<1>0. BusTypes /\ CalledInv
  BY DEF BusInv
<1>1. /\ pc[e] = "new" /\ pc' = [pc EXCEPT ![e] = "dispatching"]
      /\ \A x \in Emission : x # e => targets'[x] = targets[x]
  BY DispatchEffects
<1>2. \A h \in Handler : call'[e][h] = "none"
  BY <1>0, <1>1 DEF CalledInv, Marks
<1> SUFFICES ASSUME NEW x \in Emission, NEW k \in Handler
             PROVE  /\ pc'[x] = "new" =>
                         call'[x][k] = "none" /\ k \notin targets'[x]
                    /\ call'[x][k] # "none" => k \in targets'[x]
                    /\ pc'[x] \in {"awaiting", "returned"} /\ k \in targets'[x] =>
                         call'[x][k] # "none"
                    /\ pc'[x] = "returned" => call'[x][k] # "pending"
  BY DEF CalledInv
<1>3. CASE x = e
  BY <1>0, <1>1, <1>2, <1>3 DEF BusTypes
<1>4. CASE x # e
  <2>1. pc'[x] = pc[x] /\ targets'[x] = targets[x]
    BY <1>0, <1>1, <1>4 DEF BusTypes
  <2>2. \/ call'[x][k] = call[x][k]
        \/ /\ k \in targets[x] /\ pc[x] = "dispatching"
           /\ call'[x][k] = "pending"
    BY DEF Marks
  <2> QED
    BY <1>0, <2>1, <2>2 DEF CalledInv
<1> QED
  BY <1>3, <1>4

\* Somebody emits, outside of a handler call or later in one.
LEMMA EmitKeeps ==
  ASSUME BusInv, NEW e \in Emission,
         Emit(e) \/ \E d \in Emission, h \in Handler : EmitLater(d, h, e)
  PROVE  BusInv'
<1>0. BusTypes /\ CalledInv /\ OnceInv /\ DeadInv
  BY DEF BusInv
<1>1. /\ Dispatch(e)
      /\ UNCHANGED <<subs, call, dlq, delivered>>
  BY DEF Emit, EmitLater
<1>2. \/ cause' = cause
      \/ \E d \in Emission, h \in Handler :
           pc[d] # "new" /\ cause' = [cause EXCEPT ![e] = <<d, h>>]
  BY <1>0 DEF Emit, EmitLater, CalledInv
<1>3. /\ journal' \subseteq Emission /\ stack' \in Seq(Emission)
      /\ pc' \in [Emission -> {"new", "dispatching", "awaiting", "returned"}]
      /\ targets' \in [Emission -> SUBSET Handler]
      /\ reading' \in Nat
      /\ born' \in [Emission -> Nat] /\ stamp' \in [Emission -> Nat]
  BY <1>1, DispatchEffects
<1>4. /\ cause' \in [Emission -> {<<>>} \cup (Emission \X Handler)]
      /\ CauseInv' /\ RowInv'
  BY <1>1, <1>2, DispatchKeepsRows
<1>5. CalledInv'
  BY <1>1, DispatchKeepsCalls
<1>6. OnceInv' /\ DeadInv'
  BY <1>0, <1>1 DEF OnceInv, DeadInv
<1>7. BusTypes'
  BY <1>0, <1>1, <1>3, <1>4 DEF BusTypes
<1> QED
  BY <1>4, <1>5, <1>6, <1>7 DEF BusInv

\* The innermost emit calls a handler, which may emit in its turn.
LEMMA CallKeeps ==
  ASSUME BusInv, NEW e \in Emission, NEW h \in Handler,
         \/ CallReturns(e, h) \/ CallThrows(e, h)
         \/ \E d \in Emission : CallEmits(e, h, d)
  PROVE  BusInv'
<1>0. BusTypes /\ CalledInv /\ OnceInv /\ DeadInv /\ CauseInv /\ RowInv
  BY DEF BusInv
<1>1. CASE CallThrows(e, h)
  <2>1. /\ Calls(e, h, "dead") /\ dlq' = Append(dlq, <<e, h>>)
        /\ UNCHANGED <<subs, rowVars, stack, pc, targets, cause>>
    BY <1>1 DEF CallThrows
  <2>2. /\ pc[e] = "dispatching" /\ h \in targets[e] /\ call[e][h] = "none"
        /\ Marks(e, h, "dead")
        /\ delivered' \in [Handler -> Seq(Emission)] /\ OnceInv'
    BY <2>1, CallEffects
  <2>3. dlq' \in Seq(Emission \X Handler) /\ DeadInv'
    <3>1. call[e][h] # "dead"
      BY <2>2
    <3> QED
      BY <2>1, <2>2, <3>1, DeadLetterKept
  <2>4. CalledInv'
    BY <1>0, <2>1, <2>2, MarkKeepsCalls
  <2>5. BusTypes' /\ CauseInv' /\ RowInv'
    BY <1>0, <2>1, <2>2, <2>3 DEF BusTypes, CauseInv, RowInv, Marks, rowVars
  <2> QED
    BY <2>2, <2>3, <2>4, <2>5 DEF BusInv
<1>2. ASSUME Calls(e, h, "pending"), UNCHANGED <<subs, dlq>>
      PROVE  /\ pc[e] = "dispatching" /\ h \in targets[e]
             /\ Marks(e, h, "pending")
             /\ delivered' \in [Handler -> Seq(Emission)]
             /\ OnceInv' /\ DeadInv'
  <2>1. /\ pc[e] = "dispatching" /\ h \in targets[e] /\ call[e][h] = "none"
        /\ Marks(e, h, "pending")
        /\ delivered' \in [Handler -> Seq(Emission)] /\ OnceInv'
    BY <1>2, CallEffects
  <2>2. DeadInv'
    BY <1>0, <1>2, <2>1 DEF DeadInv, Marks
  <2> QED
    BY <2>1, <2>2
<1>3. CASE CallReturns(e, h)
  <2>1. /\ Calls(e, h, "pending")
        /\ UNCHANGED <<subs, rowVars, stack, pc, targets, cause, dlq>>
    BY <1>3 DEF CallReturns
  <2>2. /\ pc[e] = "dispatching" /\ h \in targets[e]
        /\ Marks(e, h, "pending")
        /\ delivered' \in [Handler -> Seq(Emission)]
        /\ OnceInv' /\ DeadInv'
    BY <1>2, <2>1
  <2>3. CalledInv'
    BY <1>0, <2>1, <2>2, MarkKeepsCalls
  <2>4. BusTypes' /\ CauseInv' /\ RowInv'
    BY <1>0, <2>1, <2>2 DEF BusTypes, CauseInv, RowInv, Marks, rowVars
  <2> QED
    BY <2>2, <2>3, <2>4 DEF BusInv
<1>4. ASSUME NEW d \in Emission, CallEmits(e, h, d)
      PROVE  BusInv'
  <2>1. /\ Calls(e, h, "pending") /\ Dispatch(d)
        /\ cause' = [cause EXCEPT ![d] = <<e, h>>]
        /\ UNCHANGED <<subs, dlq>>
    BY <1>4 DEF CallEmits
  <2>2. /\ pc[e] = "dispatching" /\ h \in targets[e]
        /\ Marks(e, h, "pending")
        /\ delivered' \in [Handler -> Seq(Emission)]
        /\ OnceInv' /\ DeadInv'
    BY <1>2, <2>1
  <2>3. /\ pc[d] = "new"
        /\ journal' \subseteq Emission /\ stack' \in Seq(Emission)
        /\ pc' \in [Emission -> {"new", "dispatching", "awaiting", "returned"}]
        /\ targets' \in [Emission -> SUBSET Handler]
        /\ reading' \in Nat
        /\ born' \in [Emission -> Nat] /\ stamp' \in [Emission -> Nat]
    BY <2>1, DispatchEffects
  <2>4. /\ cause' \in [Emission -> {<<>>} \cup (Emission \X Handler)]
        /\ CauseInv' /\ RowInv'
    <3>1. \E x \in Emission, k \in Handler :
            pc[x] # "new" /\ cause' = [cause EXCEPT ![d] = <<x, k>>]
      BY <2>1, <2>2
    <3> QED
      BY <2>1, <3>1, DispatchKeepsRows
  <2>5. CalledInv'
    <3>1. \E x \in Emission, k \in Handler :
            x # d /\ k \in targets[x] /\ pc[x] = "dispatching"
              /\ Marks(x, k, "pending")
      BY <2>2, <2>3
    <3> QED
      BY <2>1, <3>1, DispatchKeepsCalls
  <2>6. BusTypes'
    BY <1>0, <2>1, <2>2, <2>3, <2>4 DEF BusTypes, Marks, rowVars
  <2> QED
    BY <2>2, <2>4, <2>5, <2>6 DEF BusInv
<1> QED
  BY <1>1, <1>3, <1>4

LEMMA BusStep == BusInv /\ [Next]_(vars) => BusInv'
<1> SUFFICES ASSUME BusInv, [Next]_(vars)
             PROVE  BusInv'
  OBVIOUS
<1>1. ASSUME subs' \subseteq Pattern \X Handler,
             UNCHANGED <<rowVars, stack, pc, targets, call, cause, dlq,
                         delivered>>
      PROVE  BusInv'
  BY <1>1 DEF BusInv, BusTypes, CalledInv, OnceInv, DeadInv, CauseInv, RowInv, rowVars
<1>2. ASSUME NEW p \in Pattern, NEW h \in Handler,
             Subscribe(p, h) \/ Unsubscribe(p, h)
      PROVE  BusInv'
  <2>1. /\ subs' \subseteq Pattern \X Handler
        /\ UNCHANGED <<rowVars, stack, pc, targets, call, cause, dlq,
                       delivered>>
    BY <1>2 DEF Subscribe, Unsubscribe, BusInv, BusTypes
  <2> QED
    BY <1>1, <2>1
<1>3. CASE UNCHANGED vars
  <2>1. /\ subs' \subseteq Pattern \X Handler
        /\ UNCHANGED <<rowVars, stack, pc, targets, call, cause, dlq,
                       delivered>>
    BY <1>3 DEF vars, BusInv, BusTypes
  <2> QED
    BY <1>1, <2>1
<1>4. ASSUME NEW e \in Emission,
             \/ Emit(e)
             \/ \E d \in Emission, h \in Handler : EmitLater(d, h, e)
      PROVE  BusInv'
  BY <1>4, EmitKeeps
<1>5. ASSUME NEW e \in Emission, DispatchStep(e) \/ Return(e)
      PROVE  BusInv'
  <2>1. CASE EndDispatch(e) \/ Return(e)
    BY <2>1, EndKeeps
  <2>2. ASSUME NEW h \in Handler,
               \/ CallReturns(e, h) \/ CallThrows(e, h)
               \/ \E d \in Emission : CallEmits(e, h, d)
        PROVE  BusInv'
    BY <2>2, CallKeeps
  <2> QED
    BY <1>5, <2>1, <2>2 DEF DispatchStep
<1>6. ASSUME NEW e \in Emission, NEW h \in Handler, Settle(e, h)
      PROVE  BusInv'
  BY <1>6, SettleKeeps
<1> QED
  BY <1>2, <1>3, <1>4, <1>5, <1>6 DEF Next

\* When emit returns, each handler that matched was called once and has ended.
THEOREM EmitsAreHandled == Spec => []ReturnedIsHandled
  BY BusInit, BusStep, HandledWhenReturned, PTL DEF Spec

\* The dead letters are the failed calls, and neither the timestamps nor the
\* times in the ids put an event before the one whose handler emitted it.
THEOREM BusRecordsAreTrue == Spec => []RecordsAreTrue
  BY BusInit, BusStep, RecordsTell, PTL DEF Spec

-----------------------------------------------------------------------------
(***************************************************************************)
(* The graph of a plan.  First the list of a set of steps.                 *)
(***************************************************************************)

Ascends(q) == \A i, j \in DOMAIN q : i < j => q[i] < q[j]

LEMMA AscendingIsInjective ==
  ASSUME NEW n \in Nat, NEW q \in Seq(1 .. n), Ascends(q)
  PROVE  IsInjective(q)
<1> SUFFICES ASSUME NEW i \in DOMAIN q, NEW j \in DOMAIN q, q[i] = q[j], i # j
             PROVE  FALSE
  BY DEF IsInjective
<1>1. i \in Int /\ j \in Int /\ q[i] \in Int
  <2>1. DOMAIN q = 1 .. Len(q) /\ Len(q) \in Nat
    OBVIOUS
  <2>2. q[i] \in 1 .. n
    BY <2>1, ElementOfSeq
  <2> QED
    BY <2>1, <2>2
<1>2. CASE i < j
  <2>1. q[i] < q[j]
    BY <1>2 DEF Ascends
  <2> QED
    BY <1>1, <2>1
<1>3. CASE j < i
  <2>1. q[j] < q[i]
    BY <1>3 DEF Ascends
  <2> QED
    BY <1>1, <2>1
<1> QED
  BY <1>1, <1>2, <1>3

\* Every set of steps has one.
LEMMA ListExists ==
  ASSUME NEW n \in Nat, NEW S \in SUBSET (1 .. n)
  PROVE  \E q \in [1 .. Cardinality(S) -> S] : ToSet(q) = S /\ Ascends(q)
<1> DEFINE Listed(U, q) == ToSet(q) = U /\ Ascends(q)
           P == {m \in 0 .. n : \A U \in SUBSET (1 .. m) :
                                  \E q \in Seq(U) : Listed(U, q)}
<1>1. 0 \in P
  <2> SUFFICES ASSUME NEW U \in SUBSET (1 .. 0)
               PROVE  \E q \in Seq(U) : Listed(U, q)
    OBVIOUS
  <2>1. U = {} /\ <<>> \in Seq(U) /\ DOMAIN <<>> = {}
    OBVIOUS
  <2>2. ToSet(<<>>) = {}
    BY <2>1 DEF ToSet
  <2>3. Ascends(<<>>)
    BY <2>1 DEF Ascends
  <2> QED
    BY <2>1, <2>2, <2>3
<1>2. ASSUME NEW m \in 0 .. n - 1, m \in P
      PROVE  m + 1 \in P
  <2> SUFFICES ASSUME NEW U \in SUBSET (1 .. m + 1)
               PROVE  \E q \in Seq(U) : Listed(U, q)
    <3>1. m + 1 \in 0 .. n
      OBVIOUS
    <3> QED
      BY <3>1
  <2>1. CASE m + 1 \notin U
    <3>1. U \in SUBSET (1 .. m)
      BY <2>1
    <3> QED
      BY <1>2, <3>1
  <2>2. CASE m + 1 \in U
    <3> DEFINE V == U \ {m + 1}
    <3>1. V \in SUBSET (1 .. m)
      OBVIOUS
    <3> HIDE DEF V
    <3>2. PICK q \in Seq(V) : Listed(V, q)
      BY <1>2, <3>1
    <3>3. q \in Seq(U)
      BY <3>2, SeqMonotonic DEF V
    <3> DEFINE r == Append(q, m + 1)
    <3>4. /\ r \in Seq(U) /\ Len(r) = Len(q) + 1 /\ r[Len(q) + 1] = m + 1
          /\ \A j \in 1 .. Len(q) : r[j] = q[j]
      BY <2>2, <3>3, AppendIndexes
    <3>5. ToSet(r) = ToSet(q) \cup {m + 1}
      BY <2>2, <3>3, AppendElements
    <3> HIDE DEF r
    <3>6. Ascends(r)
      <4> SUFFICES ASSUME NEW i \in DOMAIN r, NEW j \in DOMAIN r, i < j
                   PROVE  r[i] < r[j]
        BY DEF Ascends
      <4>1. Len(q) \in Nat /\ DOMAIN q = 1 .. Len(q) /\ DOMAIN r = 1 .. Len(q) + 1
        BY <3>3, <3>4
      <4>2. i \in 1 .. Len(q)
        BY <4>1
      <4>5. r[i] = q[i]
        BY <3>4, <4>2
      <4>6. q[i] \in V
        BY <3>2, <4>1, <4>2
      <4>7. q[i] \in 1 .. m
        BY <3>1, <4>6
      <4>3. CASE j = Len(q) + 1
        BY <3>4, <4>5, <4>7, <4>3
      <4>4. CASE j # Len(q) + 1
        <5>1. j \in 1 .. Len(q) /\ r[j] = q[j]
          BY <3>4, <4>1, <4>4
        <5> QED
          BY <3>2, <4>1, <4>2, <4>5, <5>1 DEF Ascends
      <4> QED
        BY <4>3, <4>4
    <3>7. ToSet(r) = U
      BY <2>2, <3>2, <3>5 DEF V
    <3> QED
      BY <3>4, <3>6, <3>7
  <2> QED
    BY <2>1, <2>2
<1> HIDE DEF P
<1>3. n \in P
  BY <1>1, <1>2, InductionUpTo
<1>4. PICK q \in Seq(S) : Listed(S, q)
  BY <1>3 DEF P
<1>5. q \in Seq(1 .. n)
  BY SeqMonotonic
<1>6. IsInjective(q)
  BY <1>4, <1>5, AscendingIsInjective
<1>7. Cardinality(S) = Len(q)
  BY <1>4, <1>6, InjectiveLength
<1>8. q \in [1 .. Cardinality(S) -> S]
  BY <1>7
<1> QED
  BY <1>4, <1>8

LEMMA ListOfSteps ==
  ASSUME NEW n \in Nat, NEW S \in SUBSET (1 .. n)
  PROVE  /\ InListOrder(S) \in Seq(1 .. n)
         /\ ToSet(InListOrder(S)) = S
         /\ IsInjective(InListOrder(S))
<1> DEFINE q == InListOrder(S)
<1>1. q \in [1 .. Cardinality(S) -> S] /\ ToSet(q) = S /\ Ascends(q)
  BY ListExists DEF InListOrder, Ascends
<1>2. IsFiniteSet(S)
  <2>1. IsFiniteSet(1 .. n)
    BY FS_Interval
  <2> QED
    BY <2>1, FS_Subset
<1>3. Cardinality(S) \in Nat
  BY <1>2, FS_CardinalityType
<1> HIDE DEF q
<1>4. q \in Seq(1 .. n)
  <2>1. q \in Seq(S)
    BY <1>1, <1>3
  <2> QED
    BY <2>1, SeqMonotonic
<1>5. IsInjective(q)
  BY <1>1, <1>4, AscendingIsInjective
<1> QED
  BY <1>1, <1>4, <1>5 DEF q

-----------------------------------------------------------------------------
(***************************************************************************)
(* The loop of Kahn's algorithm.  A step is queued when all it depends on  *)
(* is sorted, and its degree counts what is not.                           *)
(***************************************************************************)

Edges(n) == SUBSET ((1 .. n) \X (1 .. n))
KahnStates(n) ==
  [degree : [1 .. n -> Int], queue : Seq(1 .. n), sorted : Seq(1 .. n)]

LEMMA PredsAreSteps ==
  ASSUME NEW n \in Nat, NEW edges \in Edges(n), NEW v
  PROVE  /\ Preds(edges, v) \subseteq 1 .. n
         /\ IsFiniteSet(Preds(edges, v))
         /\ \A u : u \in Preds(edges, v) <=> <<u, v>> \in edges
<1>1. \A e \in edges : e[1] \in 1 .. n /\ e = <<e[1], e[2]>>
  BY DEF Edges
<1>2. Preds(edges, v) \subseteq 1 .. n
  BY <1>1 DEF Preds
<1>3. IsFiniteSet(1 .. n)
  BY FS_Interval
<1>4. \A u : u \in Preds(edges, v) <=> <<u, v>> \in edges
  BY <1>1 DEF Preds
<1> QED
  BY <1>2, <1>3, <1>4, FS_Subset

LEMMA DegreesAreNumbers ==
  ASSUME NEW n \in Nat, NEW edges \in Edges(n)
  PROVE  InDegree(n, edges) \in [1 .. n -> Nat]
<1>1. ASSUME NEW v \in 1 .. n
      PROVE  Cardinality(Preds(edges, v)) \in Nat
  BY PredsAreSteps, FS_CardinalityType
<1> QED
  BY <1>1 DEF InDegree

LEMMA KahnStartsWell ==
  ASSUME NEW n \in Nat, NEW edges \in Edges(n)
  PROVE  KahnStart(n, edges) \in KahnStates(n)
<1> DEFINE S == {s \in 1 .. n : InDegree(n, edges)[s] = 0}
<1>1. InListOrder(S) \in Seq(1 .. n)
  BY ListOfSteps
<1>2. InDegree(n, edges) \in [1 .. n -> Int] /\ <<>> \in Seq(1 .. n)
  BY DegreesAreNumbers
<1> QED
  BY <1>1, <1>2 DEF KahnStart, KahnStates

LEMMA KahnRoundsWell ==
  ASSUME NEW n \in Nat, NEW edges \in Edges(n), NEW s \in KahnStates(n),
         s.queue # <<>>
  PROVE  KahnRound(n, edges, s) \in KahnStates(n)
<1> DEFINE u == Head(s.queue)
           F == Freed(n, edges, s.degree, u)
<1>1. s.degree \in [1 .. n -> Int] /\ s.queue \in Seq(1 .. n) /\ s.sorted \in Seq(1 .. n)
  BY DEF KahnStates
<1>2. u \in 1 .. n /\ Tail(s.queue) \in Seq(1 .. n)
  BY <1>1, HeadTailProperties
<1>3. F \in SUBSET (1 .. n)
  BY DEF Freed
<1>4. InListOrder(F) \in Seq(1 .. n)
  BY <1>3, ListOfSteps
<1> HIDE DEF u, F
<1>5. Tail(s.queue) \o InListOrder(F) \in Seq(1 .. n)
  BY <1>2, <1>4, ConcatProperties
<1>6. Append(s.sorted, u) \in Seq(1 .. n)
  BY <1>1, <1>2, AppendProperties
<1>7. [v \in 1 .. n |-> s.degree[v] - IF <<u, v>> \in edges THEN 1 ELSE 0]
        \in [1 .. n -> Int]
  BY <1>1
<1> QED
  BY <1>5, <1>6, <1>7 DEF KahnRound, KahnStates, u, F

KahnNext(n, edges, s) ==
  IF s.queue = <<>> THEN s ELSE KahnRound(n, edges, s)

\* What the definition of the loop is.
LEMMA KahnUnfolds ==
  ASSUME NEW n \in Nat, NEW edges \in Edges(n)
  PROVE  \A k \in 0 .. n :
           Kahn(n, edges)[k] = IF k = 0 THEN KahnStart(n, edges)
                               ELSE KahnNext(n, edges, Kahn(n, edges)[k - 1])
<1> DEFINE X == KahnStates(n)
           start == KahnStart(n, edges)
           step == [s \in X |-> KahnNext(n, edges, s)]
           Loop(f) == f = [k \in 0 .. n |->
                             IF k = 0 THEN start
                             ELSE IF f[k - 1].queue = <<>> THEN f[k - 1]
                             ELSE KahnRound(n, edges, f[k - 1])]
<1>1. start \in X
  BY KahnStartsWell
<1>2. step \in [X -> X]
  <2>1. ASSUME NEW s \in X
        PROVE  KahnNext(n, edges, s) \in X
    BY KahnRoundsWell DEF KahnNext
  <2> QED
    BY <2>1
<1>3. \A s \in X : step[s] = KahnNext(n, edges, s)
  OBVIOUS
<1> HIDE DEF X, start, step
<1>4. PICK f \in [0 .. n -> X] : Iterates(f, n, start, step)
  BY <1>1, <1>2, RecursionUpTo
<1>5. ASSUME NEW k \in 0 .. n, k # 0
      PROVE  step[f[k - 1]] = KahnNext(n, edges, f[k - 1])
  <2>1. f[k - 1] \in X
    BY <1>5
  <2> QED
    BY <1>3, <2>1
<1>6. Loop(f)
  <2>1. \A k \in 0 .. n : f[k] = IF k = 0 THEN start ELSE KahnNext(n, edges, f[k - 1])
    BY <1>4, <1>5 DEF Iterates
  <2> QED
    BY <2>1 DEF KahnNext
<1>7. Kahn(n, edges) = CHOOSE g : Loop(g)
  BY DEF Kahn, start
<1>8. Loop(Kahn(n, edges))
  BY <1>6, <1>7
<1> QED
  BY <1>8 DEF KahnNext, start

\* The invariant of the loop, of its state after k rounds.
Unsorted(edges, s, v) == Preds(edges, v) \ ToSet(s.sorted)

KahnInv(n, edges, s, k) ==
  /\ s \in KahnStates(n)
  /\ IsInjective(s.sorted) /\ IsInjective(s.queue)
  /\ ToSet(s.sorted) \cap ToSet(s.queue) = {}
  /\ \A v \in 1 .. n : s.degree[v] = Cardinality(Unsorted(edges, s, v))
  /\ \A v \in 1 .. n : v \in ToSet(s.sorted) \cup ToSet(s.queue)
                         <=> Unsorted(edges, s, v) = {}
  /\ \A i \in DOMAIN s.sorted :
       \A x \in Preds(edges, s.sorted[i]) : \E j \in 1 .. i - 1 : s.sorted[j] = x
  /\ s.queue # <<>> => Len(s.sorted) = k

LEMMA KahnInvStarts ==
  ASSUME NEW n \in Nat, NEW edges \in Edges(n)
  PROVE  KahnInv(n, edges, KahnStart(n, edges), 0)
<1> DEFINE s == KahnStart(n, edges)
           S == {v \in 1 .. n : InDegree(n, edges)[v] = 0}
<1>1. s \in KahnStates(n)
  BY KahnStartsWell
<1>2. s.sorted = <<>> /\ s.queue = InListOrder(S) /\ s.degree = InDegree(n, edges)
  BY DEF KahnStart
<1> HIDE DEF s
<1>3. /\ IsInjective(s.queue) /\ ToSet(s.queue) = S
  <2>1. S \in SUBSET (1 .. n)
    OBVIOUS
  <2> HIDE DEF S
  <2> QED
    BY <1>2, <2>1, ListOfSteps
<1>4. /\ DOMAIN s.sorted = {} /\ ToSet(s.sorted) = {} /\ IsInjective(s.sorted)
      /\ Len(s.sorted) = 0
  BY <1>2 DEF ToSet, IsInjective
<1>5. ASSUME NEW v \in 1 .. n
      PROVE  /\ Unsorted(edges, s, v) = Preds(edges, v)
             /\ s.degree[v] = Cardinality(Preds(edges, v))
             /\ s.degree[v] = 0 <=> Preds(edges, v) = {}
  <2>1. Unsorted(edges, s, v) = Preds(edges, v)
    BY <1>4 DEF Unsorted
  <2>2. s.degree[v] = Cardinality(Preds(edges, v))
    BY <1>2 DEF InDegree
  <2>3. IsFiniteSet(Preds(edges, v))
    BY PredsAreSteps
  <2> QED
    BY <2>1, <2>2, <2>3, FS_EmptySet
<1>6. \A v \in 1 .. n : v \in S <=> s.degree[v] = 0
  BY <1>2
<1> HIDE DEF S
<1> QED
  BY <1>1, <1>3, <1>4, <1>5, <1>6 DEF KahnInv, s

\* A round sorts the head of the queue u, and queues the steps that waited for
\* nothing but u.
LEMMA KahnInvStays ==
  ASSUME NEW n \in Nat, NEW edges \in Edges(n), NEW k \in Nat,
         NEW s, KahnInv(n, edges, s, k), s.queue # <<>>
  PROVE  KahnInv(n, edges, KahnRound(n, edges, s), k + 1)
<1> DEFINE t == KahnRound(n, edges, s)
           u == Head(s.queue)
           F == Freed(n, edges, s.degree, u)
           old == ToSet(s.sorted)
<1>1. /\ s \in KahnStates(n) /\ t \in KahnStates(n)
      /\ s.queue \in Seq(1 .. n) /\ s.sorted \in Seq(1 .. n)
      /\ s.degree \in [1 .. n -> Int]
  <2>1. s \in KahnStates(n)
    BY DEF KahnInv
  <2>2. t \in KahnStates(n)
    BY <2>1, KahnRoundsWell
  <2> QED
    BY <2>1, <2>2 DEF KahnStates
<1>2. /\ t.sorted = Append(s.sorted, u)
      /\ t.queue = Tail(s.queue) \o InListOrder(F)
      /\ \A v \in 1 .. n :
           t.degree[v] = s.degree[v] - IF <<u, v>> \in edges THEN 1 ELSE 0
  BY DEF KahnRound
<1> HIDE DEF t
<1>3. /\ u \in 1 .. n /\ u \in ToSet(s.queue)
      /\ Tail(s.queue) \in Seq(1 .. n) /\ IsInjective(Tail(s.queue))
      /\ ToSet(Tail(s.queue)) = ToSet(s.queue) \ {u}
  <2>1. IsInjective(s.queue)
    BY DEF KahnInv
  <2> QED
    BY <1>1, <2>1, HeadTailProperties, TailElements
<1>4. /\ InListOrder(F) \in Seq(1 .. n) /\ ToSet(InListOrder(F)) = F
      /\ IsInjective(InListOrder(F))
  <2>1. F \in SUBSET (1 .. n)
    BY DEF Freed
  <2> HIDE DEF F
  <2> QED
    BY <2>1, ListOfSteps
<1> HIDE DEF u
<1>5. \A v \in 1 .. n : v \in F <=> <<u, v>> \in edges /\ s.degree[v] = 1
  BY DEF Freed
<1> HIDE DEF F
<1>6. /\ u \notin old
      /\ \A v \in 1 .. n : s.degree[v] = Cardinality(Unsorted(edges, s, v))
      /\ \A v \in 1 .. n : v \in old \cup ToSet(s.queue)
                             <=> Unsorted(edges, s, v) = {}
      /\ \A i \in DOMAIN s.sorted :
           \A x \in Preds(edges, s.sorted[i]) :
             \E j \in 1 .. i - 1 : s.sorted[j] = x
      /\ Len(s.sorted) = k
  BY <1>3 DEF KahnInv
<1>7. ToSet(t.sorted) = old \cup {u} /\ IsInjective(t.sorted)
  <2>1. IsInjective(s.sorted)
    BY DEF KahnInv
  <2> QED
    BY <1>1, <1>2, <1>3, <1>6, <2>1, AppendElements
<1>8. ASSUME NEW v \in 1 .. n
      PROVE  /\ Unsorted(edges, t, v) = Unsorted(edges, s, v) \ {u}
             /\ u \in Unsorted(edges, s, v) <=> <<u, v>> \in edges
             /\ IsFiniteSet(Unsorted(edges, s, v))
  <2>1. /\ IsFiniteSet(Preds(edges, v))
        /\ u \in Preds(edges, v) <=> <<u, v>> \in edges
    BY PredsAreSteps
  <2>2. IsFiniteSet(Unsorted(edges, s, v))
    BY <2>1, FS_Subset DEF Unsorted
  <2> QED
    BY <1>6, <1>7, <2>1, <2>2 DEF Unsorted
<1>9. ASSUME NEW v \in 1 .. n
      PROVE  t.degree[v] = Cardinality(Unsorted(edges, t, v))
  <2> DEFINE A == Unsorted(edges, s, v)
  <2>1. /\ IsFiniteSet(A) /\ Unsorted(edges, t, v) = A \ {u}
        /\ u \in A <=> <<u, v>> \in edges
        /\ s.degree[v] = Cardinality(A)
    BY <1>6, <1>8
  <2>2. t.degree[v] = s.degree[v] - IF <<u, v>> \in edges THEN 1 ELSE 0
    BY <1>2
  <2> HIDE DEF A
  <2>3. /\ Cardinality(A \ {u}) =
             IF u \in A THEN Cardinality(A) - 1 ELSE Cardinality(A)
        /\ Cardinality(A) \in Int
    BY <2>1, FS_RemoveElement, FS_CardinalityType
  <2>4. CASE u \in A
    BY <2>1, <2>2, <2>3, <2>4
  <2>5. CASE u \notin A
    BY <2>1, <2>2, <2>3, <2>5
  <2> QED
    BY <2>4, <2>5
\* The freed steps are those of which u was the last.
<1>10. ASSUME NEW v \in 1 .. n
       PROVE  v \in F <=> Unsorted(edges, s, v) = {u}
  <2> DEFINE A == Unsorted(edges, s, v)
  <2>1. IsFiniteSet(A) /\ (Cardinality(A) = 1 <=> \E x : A = {x})
    BY <1>8, FS_Singleton
  <2>2. v \in F <=> u \in A /\ Cardinality(A) = 1
    BY <1>5, <1>6, <1>8
  <2> HIDE DEF A
  <2>3. u \in A /\ Cardinality(A) = 1 <=> A = {u}
    BY <2>1
  <2> QED
    BY <2>2, <2>3 DEF A
<1>11. F \cap (old \cup ToSet(s.queue)) = {} /\ F \subseteq 1 .. n
  <2>1. F \subseteq 1 .. n
    BY <1>4, <1>1 DEF ToSet
  <2> QED
    BY <1>6, <1>10, <2>1
<1>12. /\ IsInjective(t.queue)
       /\ ToSet(t.queue) = (ToSet(s.queue) \ {u}) \cup F
  BY <1>2, <1>3, <1>4, <1>11, ConcatElements
<1>13. ToSet(t.sorted) \cap ToSet(t.queue) = {}
  <2>1. old \cap ToSet(s.queue) = {}
    BY DEF KahnInv
  <2> QED
    BY <1>3, <1>7, <1>11, <1>12, <2>1
<1>14. ASSUME NEW v \in 1 .. n
       PROVE  v \in ToSet(t.sorted) \cup ToSet(t.queue)
                <=> Unsorted(edges, t, v) = {}
  <2>1. v \in ToSet(t.sorted) \cup ToSet(t.queue)
          <=> v \in old \cup ToSet(s.queue) \/ v \in F
    BY <1>3, <1>7, <1>12
  <2>2. Unsorted(edges, t, v) = {}
          <=> Unsorted(edges, s, v) = {} \/ Unsorted(edges, s, v) = {u}
    BY <1>8
  <2> QED
    BY <1>6, <1>10, <2>1, <2>2
<1>15. ASSUME NEW i \in DOMAIN t.sorted, NEW x \in Preds(edges, t.sorted[i])
       PROVE  \E j \in 1 .. i - 1 : t.sorted[j] = x
  <2>1. /\ t.sorted[k + 1] = u /\ \A j \in 1 .. k : t.sorted[j] = s.sorted[j]
        /\ Len(t.sorted) = k + 1 /\ t.sorted \in Seq(1 .. n)
    <3> DEFINE q == s.sorted
    <3>1. q \in Seq(1 .. n) /\ Len(q) = k
      BY <1>1, <1>6
    <3> HIDE DEF q
    <3>2. /\ Append(q, u) \in Seq(1 .. n) /\ Len(Append(q, u)) = Len(q) + 1
          /\ Append(q, u)[Len(q) + 1] = u
          /\ \A j \in 1 .. Len(q) : Append(q, u)[j] = q[j]
      BY <1>3, <3>1, AppendIndexes
    <3> QED
      BY <1>2, <3>1, <3>2 DEF q
  <2>2. DOMAIN s.sorted = 1 .. k /\ DOMAIN t.sorted = 1 .. k + 1
    BY <1>1, <1>6, <2>1
  <2>3. CASE i = k + 1
    <3>1. Unsorted(edges, s, u) = {}
      BY <1>3, <1>6
    <3>2. x \in ToSet(s.sorted)
      BY <2>1, <2>3, <3>1 DEF Unsorted
    <3>3. PICK j \in 1 .. k : s.sorted[j] = x
      BY <2>2, <3>2 DEF ToSet
    <3>4. j \in 1 .. i - 1 /\ t.sorted[j] = x
      BY <2>1, <2>3, <3>3
    <3> QED
      BY <3>4
  <2>4. CASE i # k + 1
    <3>1. i \in 1 .. k /\ t.sorted[i] = s.sorted[i]
      BY <2>1, <2>2, <2>4
    <3>2. PICK j \in 1 .. i - 1 : s.sorted[j] = x
      BY <1>6, <2>2, <3>1
    <3>3. j \in 1 .. k
      BY <3>1, <3>2
    <3>4. t.sorted[j] = x
      BY <2>1, <3>2, <3>3
    <3> QED
      BY <3>4
  <2> QED
    BY <2>3, <2>4
<1>16. Len(t.sorted) = k + 1
  BY <1>1, <1>2, <1>3, <1>6, AppendIndexes
<1> HIDE DEF old
<1> QED
  BY <1>1, <1>7, <1>9, <1>12, <1>13, <1>14, <1>15, <1>16 DEF KahnInv, t

LEMMA KahnInvHolds ==
  ASSUME NEW n \in Nat, NEW edges \in Edges(n)
  PROVE  \A k \in 0 .. n : KahnInv(n, edges, Kahn(n, edges)[k], k)
<1> DEFINE f == Kahn(n, edges)
           P == {k \in 0 .. n : KahnInv(n, edges, f[k], k)}
<1>1. f[0] = KahnStart(n, edges)
  BY KahnUnfolds
<1>2. \A k \in 1 .. n : f[k] = KahnNext(n, edges, f[k - 1])
  BY KahnUnfolds
<1> HIDE DEF f
<1>3. 0 \in P
  BY <1>1, KahnInvStarts
<1>4. ASSUME NEW k \in 0 .. n - 1, k \in P
      PROVE  k + 1 \in P
  <2>1. k + 1 \in 1 .. n /\ k \in Nat /\ KahnInv(n, edges, f[k], k)
    BY <1>4
  <2>2. f[k + 1] = KahnNext(n, edges, f[k])
    BY <1>2, <2>1
  <2>3. CASE f[k].queue = <<>>
    <3>1. KahnInv(n, edges, f[k], k + 1)
      BY <2>1, <2>3 DEF KahnInv
    <3> QED
      BY <2>1, <2>2, <2>3, <3>1 DEF KahnNext
  <2>4. CASE f[k].queue # <<>>
    <3>1. KahnInv(n, edges, KahnRound(n, edges, f[k]), k + 1)
      BY <2>1, <2>4, KahnInvStays
    <3> QED
      BY <2>1, <2>2, <2>4, <3>1 DEF KahnNext
  <2> QED
    BY <2>3, <2>4
<1> HIDE DEF P
<1>5. \A k \in 0 .. n : k \in P
  BY <1>3, <1>4, InductionUpTo
<1> QED
  BY <1>5 DEF P, f

(***************************************************************************)
(* The while loop of validateDAG and topologicalSort (dag-builder.ts:55    *)
(* and 104) ends after as many rounds as there are steps, at most, whatever*)
(* the dependencies are: then its queue is empty.                          *)
(***************************************************************************)
THEOREM KahnEnds ==
  ASSUME NEW n \in Nat, NEW edges \in Edges(n)
  PROVE  Kahn(n, edges)[n].queue = <<>>
<1> DEFINE s == Kahn(n, edges)[n]
<1>1. KahnInv(n, edges, s, n)
  BY KahnInvHolds
<1> HIDE DEF s
<1>2. SUFFICES ASSUME s.queue # <<>>
               PROVE  FALSE
  BY DEF s
<1>3. /\ s.queue \in Seq(1 .. n) /\ s.sorted \in Seq(1 .. n)
      /\ IsInjective(s.sorted) /\ Len(s.sorted) = n
      /\ ToSet(s.sorted) \cap ToSet(s.queue) = {}
  BY <1>1, <1>2 DEF KahnInv, KahnStates
<1>4. Cardinality(ToSet(s.sorted)) = n
  BY <1>3, InjectiveLength
<1>5. IsFiniteSet(1 .. n) /\ Cardinality(1 .. n) = n
  BY FS_Interval
<1>6. ToSet(s.sorted) \in SUBSET (1 .. n)
  BY <1>3 DEF ToSet
<1>7. ToSet(s.sorted) = 1 .. n
  BY <1>4, <1>5, <1>6, FS_Subset
<1>8. s.queue[1] \in 1 .. n /\ s.queue[1] \in ToSet(s.queue)
  <2>1. Len(s.queue) \in Nat \ {0} /\ DOMAIN s.queue = 1 .. Len(s.queue)
    BY <1>2, <1>3, EmptySeq
  <2>2. 1 \in DOMAIN s.queue
    BY <2>1
  <2> QED
    BY <1>3, <2>1, <2>2, ElementOfSeq DEF ToSet
<1> QED
  BY <1>3, <1>7, <1>8

\* What topologicalSort returns is in order and closed, with cycles or without.
LEMMA SortIsClosed ==
  ASSUME NEW n \in Nat, NEW edges \in Edges(n), NEW sorted,
         sorted = TopologicalSort(n, edges)
  PROVE  /\ sorted \in Seq(1 .. n) /\ IsInjective(sorted)
         /\ \A v \in 1 .. n :
              v \in ToSet(sorted) <=> Preds(edges, v) \subseteq ToSet(sorted)
         /\ \A i \in DOMAIN sorted :
              \A x \in Preds(edges, sorted[i]) : \E j \in 1 .. i - 1 : sorted[j] = x
         /\ Len(sorted) = n <=> ToSet(sorted) = 1 .. n
<1> DEFINE s == Kahn(n, edges)[n]
<1>1. KahnInv(n, edges, s, n) /\ s.queue = <<>> /\ sorted = s.sorted
  BY KahnInvHolds, KahnEnds DEF TopologicalSort
<1> HIDE DEF s
<1>2. /\ sorted \in Seq(1 .. n) /\ IsInjective(sorted)
      /\ \A i \in DOMAIN sorted :
           \A x \in Preds(edges, sorted[i]) : \E j \in 1 .. i - 1 : sorted[j] = x
  BY <1>1 DEF KahnInv, KahnStates
<1>3. ToSet(s.queue) = {}
  BY <1>1 DEF ToSet
<1>4. ASSUME NEW v \in 1 .. n
      PROVE  v \in ToSet(sorted) <=> Preds(edges, v) \subseteq ToSet(sorted)
  BY <1>1, <1>3 DEF KahnInv, Unsorted
<1>5. /\ Cardinality(ToSet(sorted)) = Len(sorted)
      /\ ToSet(sorted) \in SUBSET (1 .. n)
      /\ IsFiniteSet(1 .. n) /\ Cardinality(1 .. n) = n
  <2>1. Cardinality(ToSet(sorted)) = Len(sorted)
    BY <1>2, InjectiveLength
  <2>2. ToSet(sorted) \in SUBSET (1 .. n)
    BY <1>2 DEF ToSet
  <2>3. IsFiniteSet(1 .. n) /\ Cardinality(1 .. n) = n
    BY FS_Interval
  <2> QED
    BY <2>1, <2>2, <2>3
<1>6. Len(sorted) = n <=> ToSet(sorted) = 1 .. n
  <2>1. ASSUME Len(sorted) = n
        PROVE  ToSet(sorted) = 1 .. n
    BY <1>5, <2>1, FS_Subset
  <2> QED
    BY <1>5, <2>1
<1> QED
  BY <1>2, <1>4, <1>6

(***************************************************************************)
(* validateDAG accepts a graph exactly when it has no cycle, and then the  *)
(* list of topologicalSort has every step once, after all it depends on.   *)
(***************************************************************************)
THEOREM ValidMeansAcyclic ==
  ASSUME NEW n \in Nat, NEW edges \in Edges(n)
  PROVE  /\ Validates(n, edges) <=> Acyclic(n, edges)
         /\ Validates(n, edges) =>
              LET sorted == TopologicalSort(n, edges) IN
              /\ ToSet(sorted) = 1 .. n /\ Len(sorted) = n
              /\ \A i, j \in 1 .. n : <<sorted[i], sorted[j]>> \in edges => i < j
<1> DEFINE sorted == TopologicalSort(n, edges)
<1>1. /\ sorted \in Seq(1 .. n) /\ IsInjective(sorted)
      /\ \A v \in 1 .. n :
           v \in ToSet(sorted) <=> Preds(edges, v) \subseteq ToSet(sorted)
      /\ \A i \in DOMAIN sorted :
           \A x \in Preds(edges, sorted[i]) : \E j \in 1 .. i - 1 : sorted[j] = x
      /\ Len(sorted) = n <=> ToSet(sorted) = 1 .. n
  BY SortIsClosed
<1>2. Validates(n, edges) <=> /\ \A e \in edges : e[1] # e[2]
                              /\ Len(sorted) = n
  BY DEF Validates, Edges
<1> HIDE DEF sorted
<1>3. ASSUME Acyclic(n, edges)
      PROVE  Validates(n, edges)
  <2>1. ASSUME NEW e \in edges, e[1] = e[2]
        PROVE  FALSE
    <3> DEFINE S == {e[2]}
    <3>1. S \in (SUBSET (1 .. n)) \ {{}}
      BY DEF Edges
    <3>2. e[1] \in Preds(edges, e[2])
      BY DEF Preds
    <3>3. PICK v \in S : Preds(edges, v) \cap S = {}
      BY <1>3, <3>1 DEF Acyclic
    <3> QED
      BY <2>1, <3>2, <3>3
  <2>2. ToSet(sorted) = 1 .. n
    <3> DEFINE S == 1 .. n \ ToSet(sorted)
    <3>1. ToSet(sorted) \subseteq 1 .. n
      BY <1>1 DEF ToSet
    <3>2. SUFFICES ASSUME S # {}
                   PROVE  FALSE
      BY <3>1
    <3>3. S \in (SUBSET (1 .. n)) \ {{}}
      BY <3>2
    <3>4. PICK v \in S : Preds(edges, v) \cap S = {}
      BY <1>3, <3>3 DEF Acyclic
    <3>5. Preds(edges, v) \subseteq 1 .. n
      BY PredsAreSteps
    <3> QED
      BY <1>1, <3>4, <3>5
  <2> QED
    BY <1>1, <1>2, <2>1, <2>2
<1>4. ASSUME Validates(n, edges)
      PROVE  /\ ToSet(sorted) = 1 .. n /\ Len(sorted) = n
             /\ \A i, j \in 1 .. n : <<sorted[i], sorted[j]>> \in edges => i < j
  <2>1. ToSet(sorted) = 1 .. n /\ Len(sorted) = n /\ DOMAIN sorted = 1 .. n
    BY <1>1, <1>2, <1>4
  <2>2. ASSUME NEW i \in 1 .. n, NEW j \in 1 .. n, <<sorted[i], sorted[j]>> \in edges
        PROVE  i < j
    <3>1. sorted[i] \in Preds(edges, sorted[j])
      BY <2>2, PredsAreSteps
    <3>2. PICK k \in 1 .. j - 1 : sorted[k] = sorted[i]
      BY <1>1, <2>1, <3>1
    <3>3. k \in 1 .. n
      BY <3>2
    <3>4. k = i
      BY <1>1, <2>1, <3>2, <3>3 DEF IsInjective
    <3> QED
      BY <3>2, <3>4
  <2> QED
    BY <2>1, <2>2
\* The first step of a set in the list depends on no other one of the set.
<1>5. ASSUME Validates(n, edges)
      PROVE  Acyclic(n, edges)
  <2>1. ToSet(sorted) = 1 .. n /\ DOMAIN sorted = 1 .. n
    BY <1>1, <1>4, <1>5
  <2> SUFFICES ASSUME NEW S \in SUBSET (1 .. n), S # {}
               PROVE  \E v \in S : Preds(edges, v) \cap S = {}
    BY DEF Acyclic
  <2> DEFINE T == {i \in 1 .. n : sorted[i] \in S}
  <2>2. T # {}
    <3>1. PICK v \in S : v \in 1 .. n
      OBVIOUS
    <3>2. PICK i \in 1 .. n : sorted[i] = v
      BY <2>1, <3>1 DEF ToSet
    <3> QED
      BY <3>1, <3>2
  <2>3. T \in SUBSET Nat
    OBVIOUS
  <2>4. \A i : i \in T <=> i \in 1 .. n /\ sorted[i] \in S
    OBVIOUS
  <2> HIDE DEF T
  <2>5. PICK i \in T : \A j \in T : i <= j
    BY <2>2, <2>3, LeastNatural
  <2>6. ASSUME NEW x \in Preds(edges, sorted[i]), x \in S
        PROVE  FALSE
    <3>1. PICK j \in 1 .. i - 1 : sorted[j] = x
      BY <1>1, <2>1, <2>4, <2>5
    <3>2. i \in 1 .. n /\ j \in 1 .. n
      BY <2>4, <2>5, <3>1
    <3>3. j \in T
      BY <2>4, <2>6, <3>1, <3>2
    <3>4. i <= j
      BY <2>5, <3>3
    <3> QED
      BY <3>1, <3>2, <3>4
  <2>7. sorted[i] \in S
    BY <2>4, <2>5
  <2> QED
    BY <2>6, <2>7
<1>6. Validates(n, edges) <=> Acyclic(n, edges)
  BY <1>3, <1>5
<1> QED
  BY <1>4, <1>6 DEF sorted

-----------------------------------------------------------------------------
(***************************************************************************)
(* The loop of topologicalLevelSort.  After the waves before it, a wave    *)
(* has the steps that are ready, and the degree of a step counts what it   *)
(* depends on and is not in them.                                          *)
(***************************************************************************)

WaveStates(n) == [degree : [1 .. n -> Int], level : SUBSET (1 .. n)]

LEMMA IntersectionCounts ==
  ASSUME NEW n \in Nat, NEW edges \in Edges(n), NEW v, NEW S
  PROVE  Cardinality(Preds(edges, v) \cap S) \in Nat
BY PredsAreSteps, FS_Intersection, FS_CardinalityType

LEMMA WavesAreStates ==
  ASSUME NEW n \in Nat, NEW edges \in Edges(n)
  PROVE  /\ FirstWave(n, edges) \in WaveStates(n)
         /\ \A w \in WaveStates(n) : NextWave(n, edges, w) \in WaveStates(n)
<1>1. FirstWave(n, edges) \in WaveStates(n)
  BY DegreesAreNumbers DEF FirstWave, WaveStates
<1>2. ASSUME NEW w \in WaveStates(n)
      PROVE  NextWave(n, edges, w) \in WaveStates(n)
  <2> DEFINE lower(v) == w.degree[v] - Cardinality(Preds(edges, v) \cap w.level)
  <2>1. ASSUME NEW v \in 1 .. n
        PROVE  lower(v) \in Int
    <3>1. w.degree[v] \in Int
      BY DEF WaveStates
    <3>2. Cardinality(Preds(edges, v) \cap w.level) \in Nat
      BY IntersectionCounts
    <3> QED
      BY <3>1, <3>2
  <2>2. [v \in 1 .. n |-> lower(v)] \in [1 .. n -> Int]
    BY <2>1
  <2>3. {v \in 1 .. n : w.degree[v] > 0 /\ lower(v) = 0} \in SUBSET (1 .. n)
    OBVIOUS
  <2>4. NextWave(n, edges, w) =
          [degree |-> [v \in 1 .. n |-> lower(v)],
           level |-> {v \in 1 .. n : w.degree[v] > 0 /\ lower(v) = 0}]
    BY DEF NextWave
  <2> QED
    BY <2>2, <2>3, <2>4 DEF WaveStates
<1> QED
  BY <1>1, <1>2

LEMMA WavesUnfold ==
  ASSUME NEW n \in Nat, NEW edges \in Edges(n)
  PROVE  \A k \in 0 .. n :
           Waves(n, edges)[k] = IF k = 0 THEN FirstWave(n, edges)
                                ELSE NextWave(n, edges, Waves(n, edges)[k - 1])
<1> DEFINE X == WaveStates(n)
           start == FirstWave(n, edges)
           step == [w \in X |-> NextWave(n, edges, w)]
           Loop(f) == f = [k \in 0 .. n |-> IF k = 0 THEN start
                                            ELSE NextWave(n, edges, f[k - 1])]
<1>1. start \in X /\ step \in [X -> X]
  BY WavesAreStates
<1>2. \A w \in X : step[w] = NextWave(n, edges, w)
  OBVIOUS
<1> HIDE DEF X, start, step
<1>3. PICK f \in [0 .. n -> X] : Iterates(f, n, start, step)
  BY <1>1, RecursionUpTo
<1>4. ASSUME NEW k \in 0 .. n, k # 0
      PROVE  step[f[k - 1]] = NextWave(n, edges, f[k - 1])
  <2>1. f[k - 1] \in X
    BY <1>4
  <2> QED
    BY <1>2, <2>1
<1>5. Loop(f)
  <2>1. \A k \in 0 .. n :
          f[k] = IF k = 0 THEN start ELSE NextWave(n, edges, f[k - 1])
    BY <1>3, <1>4 DEF Iterates
  <2> QED
    BY <2>1
<1>6. Waves(n, edges) = CHOOSE g : Loop(g)
  BY DEF Waves, start
<1>7. Loop(Waves(n, edges))
  BY <1>5, <1>6
<1> QED
  BY <1>7 DEF start

\* A wave after the steps `done`.
WaveInv(n, edges, w, done) ==
  /\ w \in WaveStates(n) /\ done \subseteq 1 .. n
  /\ \A v \in done : Preds(edges, v) \subseteq done
  /\ \A v \in 1 .. n : w.degree[v] = Cardinality(Preds(edges, v) \ done)
  /\ w.level = ReadySteps(n, edges, done)

LEMMA WaveInvStarts ==
  ASSUME NEW n \in Nat, NEW edges \in Edges(n)
  PROVE  WaveInv(n, edges, FirstWave(n, edges), {})
<1> DEFINE w == FirstWave(n, edges)
<1>1. w \in WaveStates(n)
  BY WavesAreStates
<1>2. /\ \A v \in 1 .. n : w.degree[v] = Cardinality(Preds(edges, v))
      /\ w.level = {v \in 1 .. n : w.degree[v] = 0}
  BY DEF FirstWave, InDegree
<1> HIDE DEF w
<1>3. ASSUME NEW v \in 1 .. n
      PROVE  /\ w.degree[v] = Cardinality(Preds(edges, v) \ {})
             /\ w.degree[v] = 0 <=> Preds(edges, v) = {}
  <2>1. IsFiniteSet(Preds(edges, v)) /\ Preds(edges, v) \ {} = Preds(edges, v)
    BY PredsAreSteps
  <2> QED
    BY <1>2, <2>1, FS_EmptySet
<1>4. w.level = ReadySteps(n, edges, {})
  BY <1>2, <1>3 DEF ReadySteps
<1> QED
  BY <1>1, <1>3, <1>4 DEF WaveInv, w

LEMMA WaveInvStays ==
  ASSUME NEW n \in Nat, NEW edges \in Edges(n), NEW w, NEW done,
         WaveInv(n, edges, w, done)
  PROVE  WaveInv(n, edges, NextWave(n, edges, w), done \cup w.level)
<1> DEFINE x == NextWave(n, edges, w)
           more == done \cup w.level
<1>1. w \in WaveStates(n) /\ x \in WaveStates(n)
  BY WavesAreStates DEF WaveInv
<1>2. /\ \A v \in 1 .. n :
           x.degree[v] = w.degree[v] - Cardinality(Preds(edges, v) \cap w.level)
      /\ x.level = {v \in 1 .. n : w.degree[v] > 0 /\ x.degree[v] = 0}
  BY DEF NextWave
<1> HIDE DEF x
<1>3. /\ \A v \in 1 .. n : w.degree[v] = Cardinality(Preds(edges, v) \ done)
      /\ \A v : v \in w.level
           <=> v \in 1 .. n /\ v \notin done /\ Preds(edges, v) \subseteq done
      /\ done \subseteq 1 .. n
      /\ \A v \in done : Preds(edges, v) \subseteq done
  BY DEF WaveInv, ReadySteps
<1>4. ASSUME NEW v \in 1 .. n
      PROVE  /\ w.degree[v] \in Nat
             /\ w.degree[v] > 0 <=> ~ (Preds(edges, v) \subseteq done)
             /\ x.degree[v] = Cardinality(Preds(edges, v) \ more)
             /\ x.degree[v] = 0 <=> Preds(edges, v) \subseteq more
  <2> DEFINE A == Preds(edges, v) \ done
  <2>1. IsFiniteSet(A) /\ IsFiniteSet(Preds(edges, v))
    BY PredsAreSteps, FS_Difference
  <2>2. /\ A \ w.level = Preds(edges, v) \ more
        /\ A \cap w.level = Preds(edges, v) \cap w.level
        /\ A = {} <=> Preds(edges, v) \subseteq done
        /\ A \ w.level = {} <=> Preds(edges, v) \subseteq more
    BY <1>3
  <2>3. w.degree[v] = Cardinality(A)
    BY <1>3
  <2> HIDE DEF A
  <2>4. /\ IsFiniteSet(A \ w.level)
        /\ Cardinality(A \ w.level) = Cardinality(A) - Cardinality(A \cap w.level)
    BY <2>1, FS_Difference
  <2>5. /\ Cardinality(A) \in Nat /\ (Cardinality(A) = 0 <=> A = {})
        /\ Cardinality(A \ w.level) = 0 <=> A \ w.level = {}
    BY <2>1, <2>4, FS_CardinalityType, FS_EmptySet
  <2>6. w.degree[v] \in Nat /\ (w.degree[v] > 0 <=> A # {})
    BY <2>3, <2>5
  <2>7. x.degree[v] = Cardinality(A) - Cardinality(A \cap w.level)
    BY <1>2, <2>2, <2>3
  <2> QED
    BY <2>2, <2>4, <2>5, <2>6, <2>7
<1>5. x.level = ReadySteps(n, edges, more)
  <2>1. ASSUME NEW v \in 1 .. n
        PROVE  v \in x.level
                 <=> v \notin more /\ Preds(edges, v) \subseteq more
    BY <1>2, <1>3, <1>4
  <2>2. x.level \subseteq 1 .. n
    BY <1>2
  <2> QED
    BY <2>1, <2>2 DEF ReadySteps
<1>6. more \subseteq 1 .. n /\ \A v \in more : Preds(edges, v) \subseteq more
  BY <1>3
<1> HIDE DEF more
<1> QED
  BY <1>1, <1>4, <1>5, <1>6 DEF WaveInv, x, more

\* The steps of the first k waves.
InWaves(n, edges, k) == UNION {Waves(n, edges)[j].level : j \in 0 .. k - 1}

LEMMA WaveInvHolds ==
  ASSUME NEW n \in Nat, NEW edges \in Edges(n)
  PROVE  \A k \in 0 .. n :
           /\ WaveInv(n, edges, Waves(n, edges)[k], InWaves(n, edges, k))
           /\ InWaves(n, edges, k + 1)
                = InWaves(n, edges, k) \cup Waves(n, edges)[k].level
<1> DEFINE f == Waves(n, edges)
           D(k) == InWaves(n, edges, k)
           P == {k \in 0 .. n : WaveInv(n, edges, f[k], D(k))}
<1>1. ASSUME NEW k \in Nat
      PROVE  D(k + 1) = D(k) \cup f[k].level
  <2>1. \A j : j \in 0 .. (k + 1) - 1 <=> j \in 0 .. k - 1 \/ j = k
    OBVIOUS
  <2> QED
    BY <2>1 DEF InWaves
<1>2. D(0) = {}
  BY DEF InWaves
<1>3. f[0] = FirstWave(n, edges)
  BY WavesUnfold
<1>4. \A k \in 1 .. n : f[k] = NextWave(n, edges, f[k - 1])
  BY WavesUnfold
<1> HIDE DEF f, D
<1>5. 0 \in P
  BY <1>2, <1>3, WaveInvStarts
<1>6. ASSUME NEW k \in 0 .. n - 1, k \in P
      PROVE  k + 1 \in P
  <2>1. k + 1 \in 1 .. n /\ k \in Nat /\ (k + 1) - 1 = k
    OBVIOUS
  <2>2. f[k + 1] = NextWave(n, edges, f[k]) /\ D(k + 1) = D(k) \cup f[k].level
    BY <1>1, <1>4, <2>1
  <2>3. WaveInv(n, edges, NextWave(n, edges, f[k]), D(k) \cup f[k].level)
    BY <1>6, WaveInvStays
  <2>4. WaveInv(n, edges, f[k + 1], D(k + 1))
    BY <2>2, <2>3
  <2>5. k + 1 \in 0 .. n
    BY <2>1
  <2> QED
    BY <2>4, <2>5
<1> HIDE DEF P
<1>7. \A k \in 0 .. n : k \in P
  BY <1>5, <1>6, InductionUpTo
<1> QED
  BY <1>1, <1>7 DEF P, f, D

(***************************************************************************)
(* The while loop of topologicalLevelSort (dag-builder.ts:150) ends after  *)
(* as many waves as there are steps, at most, whatever the dependencies    *)
(* are: one of the waves 0 .. n is empty.                                  *)
(***************************************************************************)
THEOREM WavesEnd ==
  ASSUME NEW n \in Nat, NEW edges \in Edges(n)
  PROVE  \E k \in 0 .. n : Waves(n, edges)[k].level = {}
<1> DEFINE f == Waves(n, edges)
           D(k) == InWaves(n, edges, k)
           P == {k \in 0 .. n : IsFiniteSet(D(k)) /\ Cardinality(D(k)) >= k}
<1>1. SUFFICES ASSUME \A k \in 0 .. n : f[k].level # {}
               PROVE  FALSE
  OBVIOUS
<1>2. \A k \in 0 .. n : /\ WaveInv(n, edges, f[k], D(k))
                        /\ D(k + 1) = D(k) \cup f[k].level
  BY WaveInvHolds
<1> HIDE DEF f
<1>3. D(0) = {}
  BY DEF InWaves
<1> HIDE DEF D
<1>4. 0 \in P
  BY <1>3, FS_EmptySet
<1>5. IsFiniteSet(1 .. n) /\ Cardinality(1 .. n) = n
  BY FS_Interval
<1>6. ASSUME NEW k \in 0 .. n - 1, k \in P
      PROVE  k + 1 \in P
  <2>1. k \in 0 .. n /\ k + 1 \in 0 .. n
    OBVIOUS
  <2>2. PICK v \in f[k].level : TRUE
    BY <1>1, <2>1
  <2>3. v \notin D(k) /\ v \in D(k + 1)
    BY <1>2, <2>1, <2>2 DEF WaveInv, ReadySteps
  <2>4. D(k) \cup {v} \subseteq D(k + 1) /\ D(k + 1) \subseteq 1 .. n
    BY <1>2, <2>1, <2>3 DEF WaveInv
  <2>5. IsFiniteSet(D(k + 1))
    BY <1>5, <2>4, FS_Subset
  <2>6. IsFiniteSet(D(k)) /\ Cardinality(D(k)) >= k /\ Cardinality(D(k)) \in Nat
    BY <1>6, FS_CardinalityType
  <2>7. Cardinality(D(k) \cup {v}) = Cardinality(D(k)) + 1
    BY <2>3, <2>6, FS_AddElement
  <2>8. Cardinality(D(k) \cup {v}) <= Cardinality(D(k + 1))
    BY <2>4, <2>5, FS_Subset
  <2>9. Cardinality(D(k + 1)) \in Nat
    BY <2>5, FS_CardinalityType
  <2> QED
    BY <2>1, <2>5, <2>6, <2>7, <2>8, <2>9
<1> HIDE DEF P
<1>7. n \in P
  BY <1>4, <1>6, InductionUpTo
<1>8. /\ IsFiniteSet(D(n)) /\ Cardinality(D(n)) >= n /\ Cardinality(D(n)) \in Nat
      /\ D(n) \in SUBSET (1 .. n) /\ f[n].level = ReadySteps(n, edges, D(n))
  <2>1. IsFiniteSet(D(n)) /\ Cardinality(D(n)) >= n
    BY <1>7 DEF P
  <2>2. WaveInv(n, edges, f[n], D(n))
    BY <1>2
  <2> QED
    BY <2>1, <2>2, FS_CardinalityType DEF WaveInv
<1>9. Cardinality(D(n)) <= n
  BY <1>5, <1>8, FS_Subset
<1>10. Cardinality(D(n)) = Cardinality(1 .. n)
  BY <1>5, <1>8, <1>9
<1>11. D(n) = 1 .. n
  BY <1>5, <1>8, <1>10, FS_Subset
<1> QED
  BY <1>1, <1>8, <1>11 DEF ReadySteps

(***************************************************************************)
(* The waves of an accepted graph have every step, and each wave is what   *)
(* getReadySteps finds once the steps of the waves before it are done.     *)
(***************************************************************************)
THEOREM WavesAreReady ==
  ASSUME NEW n \in Nat, NEW edges \in Edges(n)
  PROVE  LET waves == TopologicalLevelSort(n, edges)
             Earlier(i) == UNION {waves[j] : j \in 1 .. i - 1}
         IN /\ \A i \in DOMAIN waves : waves[i] = ReadySteps(n, edges, Earlier(i))
            /\ Acyclic(n, edges) => Earlier(Len(waves) + 1) = 1 .. n
<1> DEFINE f == Waves(n, edges)
           D(k) == InWaves(n, edges, k)
           Ends == {k \in 0 .. n : f[k].level = {}}
           m == Min(Ends)
           waves == TopologicalLevelSort(n, edges)
           Earlier(i) == UNION {waves[j] : j \in 1 .. i - 1}
<1>1. m \in Ends
  <2>1. Ends \in SUBSET Nat /\ Ends # {}
    BY WavesEnd
  <2> HIDE DEF Ends
  <2>2. \E x \in Ends : \A y \in Ends : x <= y
    BY <2>1, LeastNatural
  <2> QED
    BY <2>2 DEF Min
<1>2. waves = [k \in 1 .. m |-> f[k - 1].level]
  BY DEF TopologicalLevelSort
<1>3. m \in 0 .. n /\ f[m].level = {}
  BY <1>1
<1>4. \A k \in 0 .. n : WaveInv(n, edges, f[k], D(k))
  BY WaveInvHolds
<1> HIDE DEF Ends, m, waves
<1>5. DOMAIN waves = 1 .. m /\ Len(waves) = m
  BY <1>2, <1>3
<1>6. ASSUME NEW i \in 1 .. m + 1
      PROVE  Earlier(i) = D(i - 1)
  <2>1. \A j \in 1 .. i - 1 : waves[j] = f[j - 1].level /\ j - 1 \in 0 .. (i - 1) - 1
    BY <1>2, <1>3
  <2>2. \A j \in 0 .. (i - 1) - 1 : waves[j + 1] = f[j].level /\ j + 1 \in 1 .. i - 1
    BY <1>2, <1>3
  <2> HIDE DEF f
  <2>3. ASSUME NEW x
        PROVE  x \in Earlier(i) <=> \E j \in 1 .. i - 1 : x \in waves[j]
    OBVIOUS
  <2>4. ASSUME NEW x
        PROVE  x \in D(i - 1) <=> \E j \in 0 .. (i - 1) - 1 : x \in f[j].level
    BY DEF InWaves, f
  <2> HIDE DEF D, Earlier
  <2>5. ASSUME NEW x \in Earlier(i)
        PROVE  x \in D(i - 1)
    BY <2>1, <2>3, <2>4
  <2>6. ASSUME NEW x \in D(i - 1)
        PROVE  x \in Earlier(i)
    BY <2>2, <2>3, <2>4
  <2> QED
    BY <2>5, <2>6
<1> HIDE DEF f, D, Earlier
<1>7. ASSUME NEW i \in DOMAIN waves
      PROVE  waves[i] = ReadySteps(n, edges, Earlier(i))
  <2>1. i \in 1 .. m /\ i \in 1 .. m + 1 /\ i - 1 \in 0 .. n
    BY <1>3, <1>5
  <2>2. waves[i] = f[i - 1].level
    BY <1>2, <2>1
  <2>3. Earlier(i) = D(i - 1)
    BY <1>6, <2>1
  <2>4. WaveInv(n, edges, f[i - 1], D(i - 1))
    BY <1>4, <2>1
  <2> QED
    BY <2>2, <2>3, <2>4 DEF WaveInv
\* What is in no wave has no step that depends on no other one of it.
<1>8. ASSUME Acyclic(n, edges)
      PROVE  Earlier(Len(waves) + 1) = 1 .. n
  <2>1. Earlier(m + 1) = D(m)
    <3>1. m + 1 \in 1 .. m + 1 /\ (m + 1) - 1 = m
      BY <1>3
    <3> QED
      BY <1>6, <3>1
  <2>2. D(m) \subseteq 1 .. n /\ ReadySteps(n, edges, D(m)) = {}
    BY <1>3, <1>4 DEF WaveInv
  <2> DEFINE S == (1 .. n) \ D(m)
  <2>3. ASSUME S # {}
        PROVE  FALSE
    <3>1. S \in (SUBSET (1 .. n)) \ {{}}
      BY <2>3
    <3>2. PICK v \in S : Preds(edges, v) \cap S = {}
      BY <1>8, <3>1 DEF Acyclic
    <3>3. Preds(edges, v) \subseteq 1 .. n
      BY PredsAreSteps
    <3>4. Preds(edges, v) \subseteq D(m)
      BY <3>2, <3>3
    <3> QED
      BY <2>2, <3>4 DEF ReadySteps
  <2>4. D(m) = 1 .. n
    BY <2>2, <2>3
  <2> QED
    BY <1>5, <2>1, <2>4
<1> QED
  BY <1>7, <1>8 DEF waves, Earlier

LEMMA DecomposeMakesEdges ==
  ASSUME NEW p \in Plans
  PROVE  /\ p.n \in Nat
         /\ Decompose(p.n, p.dependsOn, p.sequential) \in Edges(p.n)
<1> DEFINE n == p.n
           edges == Decompose(n, p.dependsOn, p.sequential)
<1>1. n \in Nat
  BY DEF Plans
<1> HIDE DEF n
<1>2. ASSUME NEW e \in edges
      PROVE  e \in (1 .. n) \X (1 .. n)
  <2>1. PICK s \in 1 .. n :
          e \in IF p.dependsOn[s] # NoList
                THEN {<<a, s>> : a \in (p.dependsOn[s] \cap 1 .. n) \ {s}}
                ELSE IF p.sequential /\ s > 1 THEN {<<s - 1, s>>} ELSE {}
    BY <1>2 DEF Decompose
  <2> QED
    BY <1>1, <2>1
<1> QED
  BY <1>1, <1>2 DEF Edges, n

LEMMA SortsAgreeAlways ==
  ASSUME focus = "plan" => input \in Plans
  PROVE  SortsAgree
<1> SUFFICES ASSUME focus = "plan"
             PROVE  SortsAgree
  BY DEF SortsAgree
<1> DEFINE n == input.n
           edges == Decompose(n, input.dependsOn, input.sequential)
           sorted == TopologicalSort(n, edges)
           waves == TopologicalLevelSort(n, edges)
           Earlier(i) == UNION {waves[j] : j \in 1 .. i - 1}
<1>1. n \in Nat /\ edges \in Edges(n)
  BY DecomposeMakesEdges
<1> HIDE DEF n, edges
<1>2. /\ Validates(n, edges) <=> Acyclic(n, edges)
      /\ Validates(n, edges) =>
           /\ ToSet(sorted) = 1 .. n /\ Len(sorted) = n
           /\ \A i, j \in 1 .. n : <<sorted[i], sorted[j]>> \in edges => i < j
  BY <1>1, ValidMeansAcyclic
<1>3. /\ \A i \in DOMAIN waves : waves[i] = ReadySteps(n, edges, Earlier(i))
      /\ Acyclic(n, edges) => Earlier(Len(waves) + 1) = 1 .. n
  BY <1>1, WavesAreReady
<1> HIDE DEF sorted, waves
<1> QED
  BY <1>2, <1>3 DEF SortsAgree, n, edges, sorted, waves

-----------------------------------------------------------------------------
(***************************************************************************)
(* The replay of the journal.  What was replayed and what is still planned *)
(* are together the rows that the query selected, in its order.            *)
(***************************************************************************)

Shown == replayed \o plan

JournalType ==
  /\ clock \in 0 .. MaxClock /\ rows \in Seq(Journal!Id)
  /\ plan \in Seq(Journal!Id) /\ replayed \in Seq(Journal!Id)
  /\ known \in 0 .. Len(rows)

ShownInv ==
  /\ IsInjective(Shown)
  /\ \A i, j \in DOMAIN Shown : i < j => Shown[i][1] <= Shown[j][1]
  /\ \A j \in DOMAIN Shown : Shown[j][1] >= from[1]
  /\ \A i \in 1 .. known : rows[i][1] > from[1] => rows[i] \in ToSet(Shown)

JournalInv ==
  /\ JournalType
  /\ replay = "idle" => replayed = <<>>
  /\ replay \in {"running", "finished"} => ShownInv
  /\ replay = "finished" => plan = <<>>

LEMMA IdsHaveTimes ==
  \A x \in Journal!Id : x[1] \in Nat /\ x[2] \in Nat
<1> SUFFICES ASSUME NEW x \in Journal!Id
             PROVE  x[1] \in Nat /\ x[2] \in Nat
  OBVIOUS
<1>1. x \in (0 .. MaxClock) \X Entropy
  BY DEF Journal!Id
<1>2. MaxClock \in Nat /\ Entropy \subseteq Nat
  BY HelpersAssumption DEF HelpersAssumption
<1>3. PICK t \in 0 .. MaxClock, r \in Entropy : x = <<t, r>>
  BY <1>1
<1>4. t \in Nat /\ r \in Nat /\ x[1] = t /\ x[2] = r
  BY <1>2, <1>3
<1> QED
  BY <1>4

\* A query returns what it selects, once and in the order of time.
LEMMA QueryIsInOrder ==
  ASSUME NEW S \in SUBSET Journal!Id, IsFiniteSet(S), NEW n \in {1, 2},
         NEW q \in Journal!InOrder(S, n)
  PROVE  /\ q \in Seq(Journal!Id) /\ IsInjective(q) /\ ToSet(q) = S
         /\ \A i, j \in DOMAIN q : i < j => q[i][1] <= q[j][1]
<1>1. Journal!Cardinality(S) = Cardinality(S)
  BY DEF Journal!Cardinality, Cardinality
<1> DEFINE c == Cardinality(S)
<1>2. /\ q \in [1 .. c -> S] /\ c \in Nat
      /\ \A i, j \in 1 .. c :
           i < j => q[i] # q[j] /\ ~ Journal!Before(q[j], q[i], n)
  BY <1>1, FS_CardinalityType DEF Journal!InOrder
<1> HIDE DEF c
<1>3. IsInjective(q)
  <2> SUFFICES ASSUME NEW i \in 1 .. c, NEW j \in 1 .. c, q[i] = q[j], i # j
               PROVE  FALSE
    BY <1>2 DEF IsInjective
  <2>1. i < j \/ j < i
    BY <1>2
  <2> QED
    BY <1>2, <2>1
<1>4. q \in Surjection(1 .. c, S)
  <2>1. q \in Injection(1 .. c, S)
    BY <1>2, <1>3 DEF Injection
  <2>2. Cardinality(1 .. c) = c
    BY <1>2, FS_Interval
  <2>3. Cardinality(1 .. c) = Cardinality(S)
    BY <2>2 DEF c
  <2> QED
    BY <2>1, <2>3, FS_Injection
<1>5. ToSet(q) = S
  <2>1. \A x \in S : \E i \in 1 .. c : q[i] = x
    BY <1>4 DEF Surjection
  <2>2. DOMAIN q = 1 .. c /\ \A i \in 1 .. c : q[i] \in S
    BY <1>2
  <2> QED
    BY <2>1, <2>2 DEF ToSet
<1>6. q \in Seq(Journal!Id)
  <2>1. q \in Seq(S)
    BY <1>2
  <2> QED
    BY <2>1, SeqMonotonic
<1>7. ASSUME NEW i \in DOMAIN q, NEW j \in DOMAIN q, i < j
      PROVE  q[i][1] <= q[j][1]
  <2>1. i \in 1 .. c /\ j \in 1 .. c /\ q[i] \in Journal!Id /\ q[j] \in Journal!Id
    BY <1>2
  <2>2. ~ Journal!Before(q[j], q[i], n)
    BY <1>2, <1>7, <2>1
  <2>3. ~ (q[j][1] < q[i][1])
    BY <2>2 DEF Journal!Before
  <2>4. q[i][1] \in Nat /\ q[j][1] \in Nat
    BY <2>1, IdsHaveTimes
  <2> QED
    BY <2>3, <2>4
<1> QED
  BY <1>3, <1>5, <1>6, <1>7

\* The rows that a replay from a start selects.
LEMMA ReplayStarts ==
  ASSUME JournalInv, replay = "idle", NEW S, S \subseteq ToSet(rows),
         NEW n \in {1, 2}, plan' \in Journal!InOrder(S, n),
         replay' = "running", known' = Len(rows), UNCHANGED <<clock, rows, replayed>>,
         from'[1] \in Nat,
         \A x \in S : x[1] >= from'[1],
         \A x \in ToSet(rows) : x[1] > from'[1] => x \in S
  PROVE  JournalInv'
<1>1. /\ clock \in 0 .. MaxClock /\ rows \in Seq(Journal!Id)
      /\ replayed = <<>>
  BY DEF JournalInv, JournalType
<1>2. IsFiniteSet(ToSet(rows)) /\ ToSet(rows) \subseteq Journal!Id
  <2>1. Len(rows) \in Nat /\ DOMAIN rows = 1 .. Len(rows)
    BY <1>1
  <2>2. rows \in Surjection(1 .. Len(rows), ToSet(rows))
    <3>1. rows \in [1 .. Len(rows) -> ToSet(rows)]
      BY <1>1, <2>1 DEF ToSet
    <3>2. \A x \in ToSet(rows) : \E i \in 1 .. Len(rows) : rows[i] = x
      BY <2>1 DEF ToSet
    <3> QED
      BY <3>1, <3>2 DEF Surjection
  <2>3. IsFiniteSet(1 .. Len(rows))
    BY <2>1, FS_Interval
  <2>4. ToSet(rows) \subseteq Journal!Id
    BY <1>1, <2>1, ElementOfSeq DEF ToSet
  <2> QED
    BY <2>2, <2>3, <2>4, FS_Surjection
<1>3. IsFiniteSet(S) /\ S \in SUBSET Journal!Id
  BY <1>2, FS_Subset
<1>4. /\ plan' \in Seq(Journal!Id) /\ IsInjective(plan') /\ ToSet(plan') = S
      /\ \A i, j \in DOMAIN plan' : i < j => plan'[i][1] <= plan'[j][1]
  BY <1>3, QueryIsInOrder
<1>5. Shown' = plan'
  <2>1. replayed' = <<>>
    BY <1>1
  <2> QED
    BY <1>4, <2>1, ConcatEmptySeq DEF Shown
<1>6. ASSUME NEW j \in DOMAIN plan'
      PROVE  plan'[j][1] >= from'[1]
  BY <1>4 DEF ToSet
<1>7. ASSUME NEW i \in 1 .. Len(rows), rows[i][1] > from'[1]
      PROVE  rows[i] \in ToSet(plan')
  <2>1. rows[i] \in ToSet(rows)
    BY <1>1 DEF ToSet
  <2> QED
    BY <1>4, <1>7, <2>1
<1>8. ShownInv'
  BY <1>4, <1>5, <1>6, <1>7 DEF ShownInv
<1>9. JournalType'
  <2>1. Len(rows) \in Nat /\ known' \in 0 .. Len(rows)
    BY <1>1
  <2> QED
    BY <1>1, <1>4, <2>1 DEF JournalType
<1> QED
  BY <1>8, <1>9 DEF JournalInv

LEMMA JournalInvInit == Journal!Init => JournalInv
<1> SUFFICES ASSUME Journal!Init
             PROVE  JournalType
  BY DEF JournalInv, Journal!Init
<1>1. MaxClock \in Nat
  BY HelpersAssumption DEF HelpersAssumption
<1> QED
  BY <1>1 DEF Journal!Init, JournalType

\* The handler gets the next row, and throws or not.
LEMMA HandlerKeepsShown ==
  ASSUME JournalType, plan # <<>>, replayed' = Append(replayed, Head(plan))
  PROVE  /\ replayed' \in Seq(Journal!Id)
         /\ Tail(plan) \in Seq(Journal!Id)
         /\ replayed' \o Tail(plan) = Shown
<1> DEFINE h == Head(plan)
           t == Tail(plan)
           q == replayed
           r == Append(q, h)
           left == r \o t
           right == q \o plan
<1>1. q \in Seq(Journal!Id) /\ plan \in Seq(Journal!Id)
  BY DEF JournalType
<1>2. /\ h \in Journal!Id /\ t \in Seq(Journal!Id) /\ h = plan[1]
      /\ Len(plan) \in Nat \ {0} /\ Len(t) = Len(plan) - 1
      /\ \A i \in 1 .. Len(t) : t[i] = plan[i + 1]
  BY <1>1, HeadTailProperties, EmptySeq
<1> HIDE DEF h, t, q
<1>3. /\ r \in Seq(Journal!Id) /\ Len(r) = Len(q) + 1 /\ r[Len(q) + 1] = h
      /\ \A j \in 1 .. Len(q) : r[j] = q[j]
  BY <1>1, <1>2, AppendIndexes
<1> HIDE DEF r
<1>4. /\ left \in Seq(Journal!Id) /\ Len(left) = Len(r) + Len(t)
      /\ \A i \in 1 .. Len(r) + Len(t) :
           left[i] = IF i <= Len(r) THEN r[i] ELSE t[i - Len(r)]
  BY <1>2, <1>3, ConcatProperties
<1>5. /\ right \in Seq(Journal!Id) /\ Len(right) = Len(q) + Len(plan)
      /\ \A i \in 1 .. Len(q) + Len(plan) :
           right[i] = IF i <= Len(q) THEN q[i] ELSE plan[i - Len(q)]
  BY <1>1, ConcatProperties
<1> HIDE DEF left, right
<1>6. Len(q) \in Nat /\ Len(plan) \in Nat /\ Len(left) = Len(right)
  BY <1>1, <1>2, <1>3, <1>4, <1>5
<1>7. ASSUME NEW i \in 1 .. Len(left)
      PROVE  left[i] = right[i]
  <2>1. CASE i <= Len(q)
    <3>1. left[i] = r[i] /\ r[i] = q[i]
      BY <1>3, <1>4, <1>6, <2>1
    <3>2. right[i] = q[i]
      BY <1>5, <1>6, <2>1
    <3> QED
      BY <3>1, <3>2
  <2>2. CASE i = Len(q) + 1
    <3>1. left[i] = h
      BY <1>3, <1>4, <1>6, <2>2
    <3>2. right[i] = plan[1]
      BY <1>5, <1>6, <2>2
    <3> QED
      BY <1>2, <3>1, <3>2
  <2>3. CASE i > Len(q) + 1
    <3> DEFINE j == i - (Len(q) + 1)
    <3>1. j \in 1 .. Len(t) /\ j + 1 = i - Len(q)
      BY <1>2, <1>3, <1>4, <1>6, <2>3
    <3>2. left[i] = t[j]
      BY <1>3, <1>4, <1>6, <2>3
    <3>3. right[i] = plan[j + 1]
      BY <1>4, <1>5, <1>6, <2>3, <3>1
    <3> HIDE DEF j
    <3> QED
      BY <1>2, <3>1, <3>2, <3>3
  <2> QED
    BY <1>6, <2>1, <2>2, <2>3
<1>8. left = right
  BY <1>4, <1>5, <1>6, <1>7, SeqEqual
<1> QED
  BY <1>2, <1>3, <1>8 DEF left, right, r, h, t, q, Shown

LEMMA JournalInvNext == JournalInv /\ Journal!Next => JournalInv'
<1> SUFFICES ASSUME JournalInv, Journal!Next
             PROVE  JournalInv'
  OBVIOUS
<1>0. JournalType
  BY DEF JournalInv
<1>1. ASSUME Journal!Tick
      PROVE  JournalInv'
  <2>1. UNCHANGED <<rows, replay, from, plan, replayed, known>>
    BY <1>1 DEF Journal!Tick
  <2>2. clock' \in 0 .. MaxClock
    BY <1>0, <1>1, HelpersAssumption DEF Journal!Tick, JournalType, HelpersAssumption
  <2>3. JournalType' /\ Shown' = Shown
    BY <1>0, <2>1, <2>2 DEF JournalType, Shown
  <2>4. ShownInv => ShownInv'
    BY <2>1, <2>3 DEF ShownInv
  <2> QED
    BY <2>1, <2>3, <2>4 DEF JournalInv
<1>2. ASSUME Journal!HandlerReturns
      PROVE  JournalInv'
  <2>1. /\ replay = "running" /\ plan # <<>>
        /\ replayed' = Append(replayed, Head(plan)) /\ plan' = Tail(plan)
        /\ UNCHANGED <<clock, rows, replay, from, known>>
    BY <1>2 DEF Journal!HandlerReturns
  <2>2. /\ replayed' \in Seq(Journal!Id) /\ plan' \in Seq(Journal!Id)
        /\ Shown' = Shown
    <3>1. replayed' \o Tail(plan) = Shown
      BY <1>0, <2>1, HandlerKeepsShown
    <3> QED
      BY <1>0, <2>1, <3>1, HandlerKeepsShown DEF Shown
  <2>3. ShownInv'
    BY <2>1, <2>2 DEF ShownInv, JournalInv
  <2> QED
    BY <1>0, <2>1, <2>2, <2>3 DEF JournalInv, JournalType
<1>3. ASSUME Journal!HandlerThrows
      PROVE  JournalInv'
  <2>1. /\ plan # <<>> /\ replayed' = Append(replayed, Head(plan))
        /\ replay' = "thrown" /\ UNCHANGED <<clock, rows, from, plan, known>>
    BY <1>3 DEF Journal!HandlerThrows
  <2>2. replayed' \in Seq(Journal!Id)
    BY <1>0, <2>1, HandlerKeepsShown
  <2> QED
    BY <1>0, <2>1, <2>2 DEF JournalInv, JournalType
<1>4. ASSUME Journal!Finish
      PROVE  JournalInv'
  <2>1. /\ replay = "running" /\ plan = <<>> /\ replay' = "finished"
        /\ UNCHANGED <<clock, rows, from, plan, replayed, known>>
    BY <1>4 DEF Journal!Finish
  <2>2. JournalType' /\ Shown' = Shown
    BY <1>0, <2>1 DEF JournalType, Shown
  <2>3. ShownInv'
    BY <2>1, <2>2 DEF ShownInv, JournalInv
  <2> QED
    BY <2>1, <2>2, <2>3 DEF JournalInv
<1>5. ASSUME NEW r \in Entropy, Journal!Persist(r)
      PROVE  JournalInv'
  <2>1. /\ rows' = Append(rows, <<clock, r>>)
        /\ UNCHANGED <<clock, replay, from, plan, replayed, known>>
    BY <1>5 DEF Journal!Persist
  <2>2. <<clock, r>> \in Journal!Id
    BY <1>0 DEF JournalType, Journal!Id
  <2>3. /\ rows' \in Seq(Journal!Id) /\ Len(rows') = Len(rows) + 1
        /\ \A i \in 1 .. Len(rows) : rows'[i] = rows[i]
    BY <1>0, <2>1, <2>2, AppendIndexes DEF JournalType
  <2>4. known \in 0 .. Len(rows) /\ Len(rows) \in Nat
    BY <1>0 DEF JournalType
  <2>5. JournalType' /\ Shown' = Shown
    BY <1>0, <2>1, <2>3, <2>4 DEF JournalType, Shown
  <2>6. \A i \in 1 .. known : rows'[i] = rows[i]
    BY <2>3, <2>4
  <2>7. ShownInv => ShownInv'
    BY <2>1, <2>5, <2>6 DEF ShownInv
  <2> QED
    BY <2>1, <2>5, <2>7 DEF JournalInv
<1>6. ASSUME NEW i \in DOMAIN rows, Journal!ReplayFromId(rows[i])
      PROVE  JournalInv'
  <2> DEFINE id == rows[i]
             S == {x \in Journal!ToSet(rows) : ~ Journal!Before(x, id, 2)}
  <2>1. /\ replay = "idle" /\ from' = id /\ plan' \in Journal!InOrder(S, 2)
        /\ replay' = "running" /\ known' = Len(rows)
        /\ UNCHANGED <<clock, rows, replayed>>
    BY <1>6 DEF Journal!ReplayFromId
  <2>2. Journal!ToSet(rows) = ToSet(rows)
    BY DEF Journal!ToSet, ToSet
  <2>3. rows \in Seq(Journal!Id) /\ id \in Journal!Id
    BY <1>0 DEF JournalType
  <2>4. id[1] \in Nat
    BY <2>3, IdsHaveTimes
  <2>5. S \subseteq ToSet(rows)
    BY <2>2
  <2>6. ASSUME NEW x \in ToSet(rows)
        PROVE  x[1] \in Nat
    <3>1. x \in Journal!Id
      BY <2>3 DEF ToSet
    <3> QED
      BY <3>1, IdsHaveTimes
  <2>7. ASSUME NEW x \in S
        PROVE  x[1] >= id[1]
    <3>1. ~ (x[1] < id[1])
      BY DEF Journal!Before
    <3> QED
      BY <2>4, <2>5, <2>6, <3>1
  <2>8. ASSUME NEW x \in ToSet(rows), x[1] > id[1]
        PROVE  x \in S
    <3>1. ~ (x[1] < id[1]) /\ x[1] # id[1]
      BY <2>4, <2>6, <2>8
    <3>2. ~ Journal!Before(x, id, 2)
      BY <3>1 DEF Journal!Before
    <3> QED
      BY <2>2, <3>2
  <2> HIDE DEF S, id
  <2> QED
    BY <2>1, <2>4, <2>5, <2>7, <2>8, ReplayStarts
<1>7. ASSUME NEW time \in 0 .. MaxClock, Journal!ReplayFromTime(time)
      PROVE  JournalInv'
  <2> DEFINE S == {x \in Journal!ToSet(rows) : x[1] >= time}
  <2>1. /\ replay = "idle" /\ from' = <<time>> /\ plan' \in Journal!InOrder(S, 1)
        /\ replay' = "running" /\ known' = Len(rows)
        /\ UNCHANGED <<clock, rows, replayed>>
    BY <1>7 DEF Journal!ReplayFromTime
  <2>2. Journal!ToSet(rows) = ToSet(rows)
    BY DEF Journal!ToSet, ToSet
  <2>3. from'[1] = time /\ time \in Nat
    BY <2>1
  <2>4. ASSUME NEW x \in ToSet(rows)
        PROVE  x[1] \in Nat
    <3>1. x \in Journal!Id
      BY <1>0 DEF JournalType, ToSet
    <3> QED
      BY <3>1, IdsHaveTimes
  <2>5. S \subseteq ToSet(rows) /\ \A x \in S : x[1] >= from'[1]
    BY <2>2, <2>3
  <2>6. \A x \in ToSet(rows) : x[1] > from'[1] => x \in S
    BY <2>2, <2>3, <2>4
  <2> HIDE DEF S
  <2> QED
    BY <2>1, <2>3, <2>5, <2>6, ReplayStarts
<1> QED
  BY <1>1, <1>2, <1>3, <1>4, <1>5, <1>6, <1>7 DEF Journal!Next

\* A finished replay has shown all.
LEMMA FinishedIsComplete == JournalInv => ReplayIsComplete
<1> SUFFICES ASSUME JournalInv, replay = "finished"
             PROVE  ReplayIsComplete
  BY DEF ReplayIsComplete, Journal!ReplayIsComplete
<1>1. plan = <<>> /\ ShownInv /\ replayed \in Seq(Journal!Id)
  BY DEF JournalInv, JournalType
<1>2. Shown = replayed
  BY <1>1, ConcatEmptySeq DEF Shown
<1>3. /\ IsInjective(replayed)
      /\ \A i, j \in DOMAIN replayed : i < j => replayed[i][1] <= replayed[j][1]
      /\ \A j \in DOMAIN replayed : replayed[j][1] >= from[1]
      /\ \A i \in 1 .. known : rows[i][1] > from[1] => rows[i] \in ToSet(replayed)
  BY <1>1, <1>2 DEF ShownInv
<1>4. ASSUME NEW i \in 1 .. known, rows[i][1] > from[1]
      PROVE  Journal!Cardinality({j \in DOMAIN replayed : replayed[j] = rows[i]}) = 1
  <2> DEFINE J == {j \in DOMAIN replayed : replayed[j] = rows[i]}
  <2>1. PICK k \in DOMAIN replayed : replayed[k] = rows[i]
    BY <1>3, <1>4 DEF ToSet
  <2>2. J = {k}
    BY <1>3, <2>1 DEF IsInjective
  <2> HIDE DEF J
  <2>3. Cardinality(J) = 1
    BY <2>2, FS_Singleton
  <2>4. Journal!Cardinality(J) = Cardinality(J)
    BY DEF Journal!Cardinality, Cardinality
  <2> QED
    BY <2>3, <2>4 DEF J
<1> QED
  BY <1>3, <1>4 DEF ReplayIsComplete, Journal!ReplayIsComplete

-----------------------------------------------------------------------------
(***************************************************************************)
(* The timer of cron triggers.  The interval began in the minute that was  *)
(* looked at last, so that it ends in a later one.                         *)
(***************************************************************************)

LEMMA ProductGrows ==
  ASSUME NEW P \in Nat \ {0}, NEW x \in Nat, NEW y \in Nat, x <= y
  PROVE  P * x <= P * y
OBVIOUS

LEMMA QuotientBounds ==
  ASSUME NEW P \in Nat \ {0}, NEW a \in Nat
  PROVE  a \div P \in Nat /\ P * (a \div P) <= a /\ a < P * (a \div P) + P
OBVIOUS

\* A minute later the minute is another one.
LEMMA LaterMinute ==
  ASSUME NEW P \in Nat \ {0}, NEW a \in Nat, NEW b \in Nat, a + P <= b
  PROVE  a \div P < b \div P
<1> DEFINE x == a \div P
           y == b \div P
<1>1. x \in Nat /\ y \in Nat /\ P * x <= a /\ b < P * y + P
  BY QuotientBounds
<1> HIDE DEF x, y
<1>2. P * x \in Nat /\ P * y \in Nat
  BY <1>1
<1>3. ASSUME y <= x
      PROVE  FALSE
  <2>1. P * y <= P * x
    BY <1>1, <1>3, ProductGrows
  <2> QED
    BY <1>1, <1>2, <2>1
<1> QED
  BY <1>1, <1>3

TimerInv ==
  /\ now \in Nat /\ due \in Nat /\ due - PartsPerMinute \in Nat
  /\ checked \in Seq(Nat)
  /\ \A i, j \in DOMAIN checked : i < j => checked[i] < checked[j]
  /\ \A i \in DOMAIN checked : checked[i] <= (due - PartsPerMinute) \div PartsPerMinute

LEMMA TimerInvInit == Runner!Init => TimerInv
<1> SUFFICES ASSUME Runner!Init
             PROVE  TimerInv
  OBVIOUS
<1>1. /\ PartsPerMinute \in Nat \ {0} /\ now \in 0 .. PartsPerMinute - 1
      /\ due = now + PartsPerMinute /\ checked = <<>>
  BY HelpersAssumption DEF HelpersAssumption, Runner!Init, Runner!Interval
<1>2. now \in Nat /\ due \in Nat /\ due - PartsPerMinute \in Nat
  BY <1>1
<1> QED
  BY <1>1, <1>2 DEF TimerInv

LEMMA TimerInvNext == TimerInv /\ Runner!Next => TimerInv'
<1> SUFFICES ASSUME TimerInv, Runner!Next
             PROVE  TimerInv'
  OBVIOUS
<1> DEFINE P == PartsPerMinute
           m == now \div P
           last == (due - P) \div P
<1>1. P \in Nat \ {0}
  BY HelpersAssumption DEF HelpersAssumption
<1>2. /\ now \in Nat /\ due \in Nat /\ due - P \in Nat /\ checked \in Seq(Nat)
      /\ \A i, j \in DOMAIN checked : i < j => checked[i] < checked[j]
      /\ \A i \in DOMAIN checked : checked[i] <= last
  BY DEF TimerInv
<1>3. ASSUME Runner!Tick
      PROVE  TimerInv'
  <2>1. now' = now + 1 /\ UNCHANGED <<due, checked>>
    BY <1>3 DEF Runner!Tick
  <2> QED
    BY <1>2, <2>1 DEF TimerInv
<1>4. ASSUME Runner!Callback
      PROVE  TimerInv'
  <2>1. /\ now >= due /\ now' = now /\ due' = now + P
        /\ checked' = Append(checked, m)
    BY <1>4 DEF Runner!Callback, Runner!Minute, Runner!Interval
  <2>2. last < m
    <3> DEFINE a == due - P
    <3>1. a \in Nat /\ a + P <= now
      BY <1>1, <1>2, <2>1
    <3> HIDE DEF a, P
    <3>2. a \div P < now \div P
      BY <1>1, <1>2, <3>1, LaterMinute
    <3> QED
      BY <3>2 DEF a
  <2>3. m \in Nat /\ last \in Nat
    BY <1>1, <1>2, QuotientBounds
  <2>4. due' - P = now
    BY <1>1, <1>2, <2>1
  <2>5. due' \in Nat /\ due' - P \in Nat /\ (due' - P) \div P = m
    BY <1>1, <1>2, <2>1, <2>4
  <2> HIDE DEF m, last
  <2>6. /\ checked' \in Seq(Nat) /\ Len(checked') = Len(checked) + 1
        /\ checked'[Len(checked) + 1] = m
        /\ \A j \in 1 .. Len(checked) : checked'[j] = checked[j]
    BY <1>2, <2>1, <2>3, AppendIndexes
  <2>7. /\ Len(checked) \in Nat /\ DOMAIN checked = 1 .. Len(checked)
        /\ DOMAIN checked' = 1 .. Len(checked) + 1
    BY <1>2, <2>6
  <2>8. \A i \in 1 .. Len(checked) : checked'[i] \in Nat /\ checked'[i] < m
    <3>1. \A i \in 1 .. Len(checked) : checked[i] \in Nat /\ checked[i] <= last
      BY <1>2, <2>7
    <3> QED
      BY <2>2, <2>3, <2>6, <3>1
  <2>9. ASSUME NEW i \in DOMAIN checked', NEW j \in DOMAIN checked', i < j
        PROVE  checked'[i] < checked'[j]
    <3>1. i \in 1 .. Len(checked)
      BY <2>7, <2>9
    <3>2. CASE j = Len(checked) + 1
      BY <2>6, <2>8, <3>1, <3>2
    <3>3. CASE j # Len(checked) + 1
      <4>1. j \in 1 .. Len(checked)
        BY <2>7, <3>3
      <4> QED
        BY <1>2, <2>6, <2>7, <2>9, <3>1, <4>1
    <3> QED
      BY <3>2, <3>3
  <2>10. ASSUME NEW i \in DOMAIN checked'
         PROVE  checked'[i] <= m
    <3>1. CASE i = Len(checked) + 1
      BY <2>3, <2>6, <3>1
    <3>2. CASE i # Len(checked) + 1
      <4>1. i \in 1 .. Len(checked)
        BY <2>7, <3>2
      <4> QED
        BY <2>3, <2>8, <4>1
    <3> QED
      BY <3>1, <3>2
  <2> QED
    BY <1>2, <2>1, <2>5, <2>6, <2>9, <2>10 DEF TimerInv
<1> QED
  BY <1>3, <1>4 DEF Runner!Next

LEMMA NoMinuteIsSeenTwice == TimerInv => NoMinuteTwice
<1> SUFFICES ASSUME TimerInv, NEW i \in DOMAIN checked, NEW j \in DOMAIN checked,
                    i # j
             PROVE  checked[i] # checked[j]
  BY DEF NoMinuteTwice, Runner!NoMinuteTwice
<1>1. /\ i \in Int /\ j \in Int /\ checked[i] \in Nat /\ checked[j] \in Nat
      /\ \A k, l \in DOMAIN checked : k < l => checked[k] < checked[l]
  BY DEF TimerInv
<1>2. i < j \/ j < i
  BY <1>1
<1> QED
  BY <1>1, <1>2

-----------------------------------------------------------------------------
(***************************************************************************)
(* The fields of a cron expression and the patterns of a subscription.     *)
(***************************************************************************)

LEMMA CronFieldsArePlain ==
  ASSUME focus = "cron" => input \in Cron
  PROVE  PlainFieldsAreStandard
<1> SUFFICES ASSUME focus = "cron", Plain(input.field, input.lo)
             PROVE  Runner!MatchesCronField(input.field, input.current) <=>
                      \E i \in DOMAIN input.field :
                        input.current \in Denotes(input.field[i], input.lo)
  BY DEF PlainFieldsAreStandard
<1> DEFINE field == input.field
           lo == input.lo
           v == input.current
<1>1. /\ field \in Fields /\ lo \in {0, 1} /\ v \in 0 .. Hi /\ v >= lo
  BY DEF Cron, Values
<1>2. \/ \E a \in Items : field = <<a>>
      \/ \E a, b \in Items : field = <<a, b>>
  BY <1>1 DEF Fields
<1>3. /\ \A i \in DOMAIN field : /\ field[i].kind = "range" => field[i].step = 0
                                 /\ field[i].kind = "step" => lo = 0
      /\ field[1].kind = "step" => Len(field) = 1
  BY DEF Plain
<1> HIDE DEF field, lo, v
<1>4. /\ 1 \in DOMAIN field /\ \A i \in DOMAIN field : field[i] \in Items
      /\ Len(field) = 1 => DOMAIN field = {1}
  <2>1. ASSUME NEW a \in Items, field = <<a>>
        PROVE  /\ 1 \in DOMAIN field /\ \A i \in DOMAIN field : field[i] \in Items
               /\ Len(field) = 1 => DOMAIN field = {1}
    BY <2>1
  <2>2. ASSUME NEW a \in Items, NEW b \in Items, field = <<a, b>>
        PROVE  /\ 1 \in DOMAIN field /\ \A i \in DOMAIN field : field[i] \in Items
               /\ Len(field) = 1 => DOMAIN field = {1}
    BY <2>2
  <2> QED
    BY <1>2, <2>1, <2>2
<1>5. ASSUME NEW item \in Items,
             item.kind = "range" => item.step = 0, item.kind = "step" => lo = 0
      PROVE  Runner!MatchesItem(item, v) <=> v \in Denotes(item, lo)
  <2>1. CASE item = Runner!Item("any", 0, 0, 0)
    <3>1. item.kind = "any"
      BY <2>1 DEF Runner!Item
    <3> QED
      BY <1>1, <3>1 DEF Denotes, Runner!MatchesItem
  <2>2. ASSUME NEW k \in 1 .. 3, item = Runner!Item("step", 0, 0, k)
        PROVE  Runner!MatchesItem(item, v) <=> v \in Denotes(item, lo)
    <3>1. item.kind = "step" /\ item.step = k /\ lo = 0
      BY <1>5, <2>2 DEF Runner!Item
    <3>2. v - 0 = v /\ v \in lo .. Hi
      BY <1>1
    <3> QED
      BY <3>1, <3>2 DEF Denotes, Runner!MatchesItem
  <2>3. ASSUME NEW w \in Values, item = Runner!Item("exact", w, w, 0)
        PROVE  Runner!MatchesItem(item, v) <=> v \in Denotes(item, lo)
    <3>1. item.kind = "exact" /\ item.from = w /\ item.to = w
      BY <2>3 DEF Runner!Item
    <3>2. v \in w .. w <=> v = w
      BY <1>1 DEF Values
    <3> QED
      BY <3>1, <3>2 DEF Denotes, Runner!MatchesItem
  <2>4. ASSUME NEW w \in Values, NEW x \in Values, NEW k \in {0, 2},
               item = Runner!Item("range", w, x, k)
        PROVE  Runner!MatchesItem(item, v) <=> v \in Denotes(item, lo)
    <3>1. item.kind = "range" /\ item.from = w /\ item.to = x /\ item.step = 0
      BY <1>5, <2>4 DEF Runner!Item
    <3> QED
      BY <3>1 DEF Denotes, Runner!MatchesItem
  <2> QED
    BY <2>1, <2>2, <2>3, <2>4 DEF Items
<1>6. CASE field[1].kind = "step"
  <2>1. DOMAIN field = {1}
    BY <1>3, <1>4, <1>6
  <2>2. Runner!MatchesCronField(field, v) <=> Runner!MatchesItem(field[1], v)
    BY <1>6 DEF Runner!MatchesCronField
  <2> QED
    BY <1>3, <1>4, <1>5, <2>1, <2>2 DEF field, lo, v
<1>7. CASE field[1].kind # "step"
  <2>1. Runner!MatchesCronField(field, v)
          <=> \E i \in DOMAIN field : Runner!MatchesItem(field[i], v)
    BY <1>7 DEF Runner!MatchesCronField
  <2>2. \A i \in DOMAIN field :
          Runner!MatchesItem(field[i], v) <=> v \in Denotes(field[i], lo)
    BY <1>3, <1>4, <1>5
  <2> QED
    BY <2>1, <2>2 DEF field, lo, v
<1> QED
  BY <1>6, <1>7

LEMMA PatternsMatchAtTheirEdges ==
  ASSUME focus = "pattern" => input \in Subscriptions
  PROVE  EdgeWildcards
<1> SUFFICES ASSUME focus = "pattern"
             PROVE  EdgeWildcards
  BY DEF EdgeWildcards
<1> DEFINE p == input.pattern
           t == input.type
           S == Segment \cup {Star}
<1>1. p \in Seq(S) /\ t \in Seq(S) /\ Len(p) \in Nat \ {0} /\ Len(t) \in Nat \ {0}
  <2>1. PICK m \in 1 .. MaxLength : p \in [1 .. m -> S]
    BY DEF Subscriptions, Names
  <2>2. PICK l \in 1 .. MaxLength : t \in [1 .. l -> Segment]
    BY DEF Subscriptions, Names
  <2>3. m \in Nat \ {0} /\ l \in Nat \ {0}
    BY <2>1, <2>2
  <2>4. p \in Seq(S) /\ Len(p) = m
    BY <2>1, <2>3
  <2>5. t \in Seq(Segment) /\ Len(t) = l
    BY <2>2, <2>3
  <2>6. t \in Seq(S)
    BY <2>5, SeqMonotonic
  <2> QED
    BY <2>3, <2>4, <2>5, <2>6
<1> HIDE DEF p, t, S
<1>2. DOMAIN p = 1 .. Len(p) /\ DOMAIN t = 1 .. Len(t)
  BY <1>1
<1>3. ASSUME Stars(p) = {}
      PROVE  Matches(p, t) <=> p = t
  <2>1. \A i \in 1 .. Len(p) : p[i] # Star
    BY <1>2, <1>3 DEF Stars
  <2>2. Last(p) # Star /\ Head(p) # Star /\ p # <<Star>>
    <3>1. 1 \in 1 .. Len(p) /\ Len(p) \in 1 .. Len(p) /\ Head(p) = p[1]
      BY <1>1
    <3> QED
      BY <2>1, <3>1 DEF Last
  <2> QED
    BY <2>2 DEF Matches
\* The pattern "*".
<1>4. ASSUME Stars(p) # {}, Len(p) = 1
      PROVE  Matches(p, t) /\ Glob(p, t)
  <2>1. Stars(p) = {1} /\ p[1] = Star
    BY <1>2, <1>4 DEF Stars
  <2>2. p = <<Star>>
    <3>1. Star \in S
      BY DEF S
    <3>2. <<Star>> \in Seq(S) /\ Len(<<Star>>) = 1 /\ <<Star>>[1] = Star
      BY <3>1
    <3>3. \A i \in 1 .. Len(p) : p[i] = <<Star>>[i]
      BY <1>4, <2>1
    <3> DEFINE w == <<Star>>
    <3>4. w \in Seq(S) /\ Len(w) = Len(p) /\ \A i \in 1 .. Len(p) : p[i] = w[i]
      BY <1>4, <3>2, <3>3
    <3> HIDE DEF w
    <3>5. p = w
      BY <1>1, <3>4, SeqEqual
    <3> QED
      BY <3>5 DEF w
  <2>3. Glob(p, t)
    BY <1>1, <1>4, <2>1 DEF Glob
  <2> QED
    BY <2>2, <2>3 DEF Matches
\* A pattern that ends with a wildcard.
<1>5. ASSUME Stars(p) = {Len(p)}, Len(p) > 1
      PROVE  Matches(p, t) <=> Glob(p, t)
  <2> DEFINE n == Len(p)
             f == Front(p)
  <2>1. /\ f \in Seq(S) /\ Len(f) = n - 1 /\ \A i \in 1 .. n - 1 : f[i] = p[i]
    <3>1. \A i \in 1 .. n - 1 : p[i] \in S
      BY <1>1, ElementOfSeq
    <3>2. /\ SubSeq(p, 1, n - 1) \in Seq(S) /\ Len(SubSeq(p, 1, n - 1)) = n - 1
          /\ \A i \in 1 .. n - 1 : SubSeq(p, 1, n - 1)[i] = p[i]
      BY <1>1, <1>5, <3>1, SubSeqProperties
    <3> QED
      BY <3>2 DEF Front
  <2>2. Last(p) = Star /\ p # <<Star>>
    BY <1>5 DEF Stars, Last
  <2> HIDE DEF n, f
  <2>3. n \in Nat /\ n > 1 /\ n = Len(p)
    BY <1>1, <1>5 DEF n
  <2>4. Glob(p, t) <=> /\ Len(t) >= n - 1
                       /\ \A j \in 1 .. n - 1 : t[j] = p[j]
    <3>1. \A i : i \in Stars(p) <=> i = n
      BY <1>5, <2>3
    <3>2. 0 .. n - n - 1 = {}
      BY <2>3
    <3> QED
      BY <2>3, <3>1, <3>2 DEF Glob
  <2>5. IsPrefix(f, t) <=> /\ Len(t) >= n - 1
                           /\ \A j \in 1 .. n - 1 : t[j] = f[j]
    <3> SUFFICES ASSUME n - 1 <= Len(t)
                 PROVE  SubSeq(f, 1, n - 1) = SubSeq(t, 1, n - 1)
                          <=> \A j \in 1 .. n - 1 : t[j] = f[j]
      BY <1>1, <2>1, <2>3 DEF IsPrefix
    <3> DEFINE a == SubSeq(f, 1, n - 1)
               b == SubSeq(t, 1, n - 1)
    <3>1. \A i \in 1 .. n - 1 : f[i] \in S /\ t[i] \in S
      BY <1>1, <2>1, <2>3, ElementOfSeq
    <3>2. /\ a \in Seq(S) /\ Len(a) = n - 1 /\ \A i \in 1 .. n - 1 : a[i] = f[i]
      BY <2>3, <3>1, SubSeqProperties
    <3>3. /\ b \in Seq(S) /\ Len(b) = n - 1 /\ \A i \in 1 .. n - 1 : b[i] = t[i]
      BY <2>3, <3>1, SubSeqProperties
    <3> HIDE DEF a, b
    <3>4. (\A i \in 1 .. n - 1 : a[i] = b[i]) => a = b
      BY <3>2, <3>3, SeqEqual
    <3>5. a = b <=> \A j \in 1 .. n - 1 : t[j] = f[j]
      BY <3>2, <3>3, <3>4
    <3> QED
      BY <3>5 DEF a, b
  <2>6. IsPrefix(f, t) <=> Glob(p, t)
    BY <2>1, <2>4, <2>5
  <2>7. p = t => Glob(p, t)
    BY <2>3, <2>4
  <2>8. Matches(p, t) <=> p = t \/ IsPrefix(f, t)
    BY <2>2, <2>3 DEF Matches, f
  <2> QED
    BY <2>6, <2>7, <2>8
\* A pattern that begins with one.
<1>6. ASSUME Stars(p) = {1}, Len(p) > 1
      PROVE  Matches(p, t) <=> Glob(p, t)
  <2> DEFINE n == Len(p)
             f == Tail(p)
             a == Reverse(f)
             b == Reverse(t)
  <2>1. /\ f \in Seq(S) /\ Len(f) = n - 1 /\ \A i \in 1 .. n - 1 : f[i] = p[i + 1]
        /\ Head(p) = p[1]
    <3>1. p # <<>>
      BY <1>6
    <3> QED
      BY <1>1, <3>1, HeadTailProperties
  <2>2. Last(p) # Star /\ Head(p) = Star /\ p # <<Star>>
    <3>1. Len(p) \in DOMAIN p /\ 1 \in DOMAIN p /\ Len(p) # 1
      <4>1. n \in Nat /\ n > 1
        BY <1>1, <1>6
      <4> HIDE DEF n
      <4>2. n \in 1 .. n /\ 1 \in 1 .. n /\ n # 1
        BY <4>1
      <4> QED
        BY <1>2, <4>2 DEF n
    <3>2. Len(p) \notin Stars(p) /\ 1 \in Stars(p)
      BY <1>6, <3>1
    <3>3. p[Len(p)] # Star /\ p[1] = Star
      BY <3>1, <3>2 DEF Stars
    <3> QED
      BY <1>6, <2>1, <3>3 DEF Last
  <2> HIDE DEF n, f
  <2>3. n \in Nat /\ n > 1 /\ n = Len(p)
    BY <1>1, <1>6 DEF n
  <2>4. Glob(p, t) <=> /\ Len(t) >= n - 1
                       /\ \A j \in 0 .. n - 2 : t[Len(t) - j] = p[n - j]
    <3>1. \A i : i \in Stars(p) <=> i = 1
      BY <1>6
    <3>2. 1 .. 1 - 1 = {} /\ n - 1 - 1 = n - 2
      BY <2>3
    <3> QED
      BY <2>3, <3>1, <3>2 DEF Glob
  <2>5. /\ a \in Seq(S) /\ Len(a) = n - 1
        /\ \A i \in 1 .. n - 1 : a[i] = p[n - i + 1]
    <3>1. ASSUME NEW i \in 1 .. n - 1
          PROVE  f[(n - 1 - i) + 1] = p[n - i + 1] /\ f[(n - 1 - i) + 1] \in S
      <4>1. (n - 1 - i) + 1 \in 1 .. n - 1 /\ ((n - 1 - i) + 1) + 1 = n - i + 1
        BY <2>3
      <4> QED
        BY <2>1, <4>1, ElementOfSeq
    <3>2. a = [i \in 1 .. n - 1 |-> f[(n - 1 - i) + 1]]
      BY <2>1 DEF Reverse
    <3> HIDE DEF a
    <3>3. a \in [1 .. n - 1 -> S] /\ n - 1 \in Nat
      BY <2>3, <3>1, <3>2
    <3>4. a \in Seq(S) /\ Len(a) = n - 1
      BY <3>3
    <3> QED
      BY <3>1, <3>2, <3>4
  <2>6. /\ b \in Seq(S) /\ Len(b) = Len(t)
        /\ \A i \in 1 .. Len(t) : b[i] = t[Len(t) - i + 1]
    <3>1. ASSUME NEW i \in 1 .. Len(t)
          PROVE  (Len(t) - i) + 1 \in 1 .. Len(t) /\ t[(Len(t) - i) + 1] \in S
      <4>1. (Len(t) - i) + 1 \in 1 .. Len(t)
        BY <1>1
      <4> QED
        BY <1>1, <4>1, ElementOfSeq
    <3>2. b = [i \in 1 .. Len(t) |-> t[(Len(t) - i) + 1]]
      BY DEF Reverse
    <3> HIDE DEF b
    <3>3. b \in [1 .. Len(t) -> S]
      BY <3>1, <3>2
    <3>4. b \in Seq(S) /\ Len(b) = Len(t)
      BY <1>1, <3>3
    <3> QED
      BY <1>1, <3>2, <3>4
  <2> HIDE DEF a, b
  <2>7. IsPrefix(a, b) <=> /\ Len(t) >= n - 1
                           /\ \A i \in 1 .. n - 1 : b[i] = a[i]
    <3> SUFFICES ASSUME n - 1 <= Len(t)
                 PROVE  SubSeq(a, 1, n - 1) = SubSeq(b, 1, n - 1)
                          <=> \A i \in 1 .. n - 1 : b[i] = a[i]
      BY <1>1, <2>3, <2>5, <2>6 DEF IsPrefix
    <3> DEFINE c == SubSeq(a, 1, n - 1)
               d == SubSeq(b, 1, n - 1)
    <3>1. \A i \in 1 .. n - 1 : a[i] \in S /\ b[i] \in S
      BY <1>1, <2>3, <2>5, <2>6, ElementOfSeq
    <3>2. /\ c \in Seq(S) /\ Len(c) = n - 1 /\ \A i \in 1 .. n - 1 : c[i] = a[i]
      BY <2>3, <3>1, SubSeqProperties
    <3>3. /\ d \in Seq(S) /\ Len(d) = n - 1 /\ \A i \in 1 .. n - 1 : d[i] = b[i]
      BY <2>3, <3>1, SubSeqProperties
    <3> HIDE DEF c, d
    <3>4. (\A i \in 1 .. n - 1 : c[i] = d[i]) => c = d
      BY <3>2, <3>3, SeqEqual
    <3>5. c = d <=> \A i \in 1 .. n - 1 : b[i] = a[i]
      BY <3>2, <3>3, <3>4
    <3> QED
      BY <3>5 DEF c, d
  <2>8. IsPrefix(a, b) <=> Glob(p, t)
    <3> SUFFICES ASSUME Len(t) >= n - 1
                 PROVE  (\A i \in 1 .. n - 1 : b[i] = a[i])
                          <=> \A j \in 0 .. n - 2 : t[Len(t) - j] = p[n - j]
      BY <2>4, <2>7
    <3>1. ASSUME NEW i \in 1 .. n - 1
          PROVE  /\ b[i] = t[Len(t) - (i - 1)] /\ a[i] = p[n - (i - 1)]
                 /\ i - 1 \in 0 .. n - 2
      <4>1. i \in 1 .. Len(t) /\ i - 1 \in 0 .. n - 2
        BY <1>1, <2>3
      <4>2. Len(t) - i + 1 = Len(t) - (i - 1) /\ n - i + 1 = n - (i - 1)
        BY <1>1, <2>3
      <4> QED
        BY <2>5, <2>6, <4>1, <4>2
    <3>2. ASSUME NEW j \in 0 .. n - 2
          PROVE  j + 1 \in 1 .. n - 1 /\ (j + 1) - 1 = j
      BY <2>3
    <3>3. ASSUME \A i \in 1 .. n - 1 : b[i] = a[i], NEW j \in 0 .. n - 2
          PROVE  t[Len(t) - j] = p[n - j]
      <4>1. b[j + 1] = a[j + 1]
        BY <3>2, <3>3
      <4>2. b[j + 1] = t[Len(t) - ((j + 1) - 1)] /\ a[j + 1] = p[n - ((j + 1) - 1)]
        BY <3>1, <3>2
      <4> QED
        BY <3>2, <4>1, <4>2
    <3> QED
      BY <3>1, <3>3
  <2>9. p = t => Glob(p, t)
    BY <2>3, <2>4
  <2>10. Matches(p, t) <=> p = t \/ IsPrefix(a, b)
    BY <2>2, <2>3 DEF Matches, IsSuffix, a, b, f
  <2> QED
    BY <2>8, <2>9, <2>10
<1>7. Len(p) = 1 \/ Len(p) > 1
  <2> DEFINE n == Len(p)
  <2>1. n \in Nat /\ n # 0
    BY <1>1
  <2> HIDE DEF n
  <2>2. n = 1 \/ n > 1
    BY <2>1
  <2> QED
    BY <2>2 DEF n
<1>8. Stars(p) \in {{1}, {Len(p)}} => (Matches(p, t) <=> Glob(p, t))
  <2>1. ASSUME Stars(p) = {1}
        PROVE  Matches(p, t) <=> Glob(p, t)
    <3>1. Stars(p) # {}
      BY <2>1
    <3> QED
      BY <1>4, <1>6, <1>7, <2>1, <3>1
  <2>2. ASSUME Stars(p) = {Len(p)}
        PROVE  Matches(p, t) <=> Glob(p, t)
    <3>1. Stars(p) # {}
      BY <2>2
    <3> QED
      BY <1>4, <1>5, <1>7, <2>2, <3>1
  <2> QED
    BY <2>1, <2>2
<1> QED
  BY <1>3, <1>8 DEF EdgeWildcards, p, t

-----------------------------------------------------------------------------
(***************************************************************************)
(* Sums of numbers.                                                        *)
(***************************************************************************)

LEMMA TotalUnfolds ==
  ASSUME NEW n \in Nat, NEW f \in [1 .. n -> Int]
  PROVE  /\ Total(f, n) \in Int
         /\ n = 0 => Total(f, n) = 0
         /\ \E g \in [0 .. n -> Int] :
              /\ g[0] = 0 /\ \A k \in 1 .. n : g[k] = g[k - 1] + f[k]
              /\ Total(f, n) = g[n]
<1> DEFINE steps == [k \in 1 .. n |-> [x \in Int |-> x + f[k]]]
           Sum(g) == g = [j \in 0 .. n |-> IF j = 0 THEN 0 ELSE g[j - 1] + f[j]]
<1>1. steps \in [1 .. n -> [Int -> Int]]
  <2>1. ASSUME NEW k \in 1 .. n
        PROVE  [x \in Int |-> x + f[k]] \in [Int -> Int]
    OBVIOUS
  <2> QED
    BY <2>1
<1>2. \A k \in 1 .. n : \A x \in Int : steps[k][x] = x + f[k]
  OBVIOUS
<1> HIDE DEF steps
<1>3. PICK g \in [0 .. n -> Int] : IteratesEach(g, n, 0, steps)
  <2> DEFINE X == Int
  <2>1. steps \in [1 .. n -> [X -> X]] /\ 0 \in X
    BY <1>1
  <2> HIDE DEF X
  <2>2. \E g \in [0 .. n -> X] : IteratesEach(g, n, 0, steps)
    BY <2>1, EachRecursionUpTo
  <2> QED
    BY <2>2 DEF X
<1>4. g[0] = 0 /\ \A k \in 1 .. n : g[k] = g[k - 1] + f[k]
  <2>1. ASSUME NEW k \in 1 .. n
        PROVE  g[k] = g[k - 1] + f[k]
    <3>1. g[k - 1] \in Int
      OBVIOUS
    <3>2. g[k] = steps[k][g[k - 1]]
      BY <1>3 DEF IteratesEach
    <3> QED
      BY <1>2, <3>1, <3>2
  <2> QED
    BY <1>3, <2>1 DEF IteratesEach
<1>5. Sum(g)
  BY <1>4
<1>6. Total(f, n) = (CHOOSE h : Sum(h))[n]
  BY DEF Total
<1> DEFINE h == CHOOSE h : Sum(h)
<1>7. Sum(h)
  BY <1>5
<1>8. /\ \A j \in 0 .. n : h[j] = IF j = 0 THEN 0 ELSE h[j - 1] + f[j]
      /\ Total(f, n) = h[n]
  BY <1>6, <1>7
<1> HIDE DEF h
<1>9. \A k \in 0 .. n : h[k] = g[k]
  <2> DEFINE P == {k \in 0 .. n : h[k] = g[k]}
  <2>1. 0 \in P
    BY <1>4, <1>8
  <2>2. \A k \in 0 .. n - 1 : k \in P => k + 1 \in P
    <3> SUFFICES ASSUME NEW k \in 0 .. n - 1, k \in P
                 PROVE  k + 1 \in P
      OBVIOUS
    <3>1. k + 1 \in 1 .. n /\ k + 1 \in 0 .. n /\ k + 1 # 0 /\ (k + 1) - 1 = k
      OBVIOUS
    <3>2. h[k + 1] = h[k] + f[k + 1] /\ g[k + 1] = g[k] + f[k + 1]
      BY <1>4, <1>8, <3>1
    <3> QED
      BY <3>1, <3>2
  <2> HIDE DEF P
  <2>3. \A k \in 0 .. n : k \in P
    BY <2>1, <2>2, InductionUpTo
  <2> QED
    BY <2>3 DEF P
<1>10. Total(f, n) = g[n] /\ g[n] \in Int
  BY <1>8, <1>9
<1> QED
  BY <1>4, <1>10

\* It depends on the numbers it adds only.
LEMMA TotalAgrees ==
  ASSUME NEW n \in Nat, NEW f \in [1 .. n -> Int], NEW m \in Nat, m >= n,
         NEW e \in [1 .. m -> Int], \A k \in 1 .. n : e[k] = f[k]
  PROVE  Total(e, n) = Total(f, n)
<1> DEFINE SumOf(g, a) == g = [j \in 0 .. n |-> IF j = 0 THEN 0 ELSE g[j - 1] + a[j]]
<1>1. \A g : SumOf(g, e) <=> SumOf(g, f)
  <2> SUFFICES ASSUME NEW g
               PROVE  SumOf(g, e) <=> SumOf(g, f)
    OBVIOUS
  <2>1. \A j \in 0 .. n : (IF j = 0 THEN 0 ELSE g[j - 1] + e[j])
                            = IF j = 0 THEN 0 ELSE g[j - 1] + f[j]
    OBVIOUS
  <2> QED
    BY <2>1
<1>2. /\ Total(e, n) = (CHOOSE g : SumOf(g, e))[n]
      /\ Total(f, n) = (CHOOSE g : SumOf(g, f))[n]
  BY DEF Total
<1> HIDE DEF SumOf
<1>3. (CHOOSE g : SumOf(g, e)) = (CHOOSE g : SumOf(g, f))
  BY <1>1
<1> QED
  BY <1>2, <1>3

LEMMA TotalGrows ==
  ASSUME NEW m \in Nat, NEW e \in [1 .. m -> Int], NEW n \in 0 .. m - 1
  PROVE  /\ Total(e, n) \in Int /\ Total(e, n + 1) \in Int
         /\ Total(e, n + 1) = Total(e, n) + e[n + 1]
         /\ n = 0 => Total(e, n) = 0
<1> DEFINE f == [k \in 1 .. n |-> e[k]]
           f1 == [k \in 1 .. n + 1 |-> e[k]]
<1>1. f \in [1 .. n -> Int] /\ \A k \in 1 .. n : e[k] = f[k]
  OBVIOUS
<1>2. f1 \in [1 .. n + 1 -> Int] /\ \A k \in 1 .. n + 1 : e[k] = f1[k]
  OBVIOUS
<1>3. n \in Nat /\ n + 1 \in Nat /\ m >= n /\ m >= n + 1
  OBVIOUS
<1> HIDE DEF f, f1
<1>4. Total(e, n) = Total(f, n)
  BY <1>1, <1>3, TotalAgrees
<1> DEFINE n1 == n + 1
<1>5. n1 \in Nat /\ m >= n1 /\ f1 \in [1 .. n1 -> Int] /\ \A k \in 1 .. n1 : e[k] = f1[k]
  BY <1>2, <1>3
<1> HIDE DEF n1
<1>6. Total(e, n1) = Total(f1, n1)
  BY <1>5, TotalAgrees
<1>7. PICK g \in [0 .. n1 -> Int] :
        /\ g[0] = 0 /\ \A k \in 1 .. n1 : g[k] = g[k - 1] + f1[k]
        /\ Total(f1, n1) = g[n1]
  BY <1>5, TotalUnfolds
<1>8. Total(f, n) \in Int /\ (n = 0 => Total(f, n) = 0)
  BY <1>1, <1>3, TotalUnfolds
<1>9. PICK h \in [0 .. n -> Int] :
        /\ h[0] = 0 /\ \A k \in 1 .. n : h[k] = h[k - 1] + f[k]
        /\ Total(f, n) = h[n]
  BY <1>1, <1>3, TotalUnfolds
<1>10. \A k \in 0 .. n : h[k] = g[k]
  <2> DEFINE P == {k \in 0 .. n : h[k] = g[k]}
  <2>1. 0 \in P
    BY <1>7, <1>9
  <2>2. \A k \in 0 .. n - 1 : k \in P => k + 1 \in P
    <3> SUFFICES ASSUME NEW k \in 0 .. n - 1, k \in P
                 PROVE  k + 1 \in P
      OBVIOUS
    <3>1. /\ k + 1 \in 1 .. n /\ k + 1 \in 1 .. n1 /\ k + 1 \in 0 .. n
          /\ (k + 1) - 1 = k
      BY DEF n1
    <3>2. h[k + 1] = h[k] + f[k + 1] /\ g[k + 1] = g[k] + f1[k + 1]
      BY <1>7, <1>9, <3>1
    <3>3. f[k + 1] = f1[k + 1]
      BY <1>1, <1>5, <3>1
    <3> QED
      BY <3>1, <3>2, <3>3
  <2> HIDE DEF P
  <2>3. \A k \in 0 .. n : k \in P
    BY <1>3, <2>1, <2>2, InductionUpTo
  <2> QED
    BY <2>3 DEF P
<1>11. g[n1] = g[n] + f1[n1] /\ g[n] = h[n] /\ f1[n1] = e[n1] /\ g[n1] \in Int
  <2>1. n1 \in 1 .. n1 /\ n1 - 1 = n /\ n \in 0 .. n /\ n1 \in 0 .. n1
    BY <1>3 DEF n1
  <2> QED
    BY <1>5, <1>7, <1>10, <2>1
<1> QED
  BY <1>4, <1>6, <1>7, <1>8, <1>9, <1>11 DEF n1

(***************************************************************************)
(* The context that is made from the memory.                               *)
(***************************************************************************)

LEMMA GreatestUpTo ==
  ASSUME NEW n \in Nat, NEW T \in SUBSET (0 .. n), T # {}
  PROVE  \E x \in T : \A y \in T : x >= y
<1> DEFINE U == {k \in 0 .. n : n - k \in T}
<1>1. U \in SUBSET Nat /\ U # {}
  <2>1. PICK x \in T : TRUE
    OBVIOUS
  <2>2. n - x \in 0 .. n /\ n - (n - x) = x
    OBVIOUS
  <2>3. n - x \in U
    BY <2>1, <2>2
  <2>4. 0 .. n \subseteq Nat
    OBVIOUS
  <2> QED
    BY <2>3, <2>4
<1>2. PICK u \in U : \A y \in U : u <= y
  <2> HIDE DEF U
  <2> QED
    BY <1>1, LeastNatural
<1>3. ASSUME NEW y \in T
      PROVE  n - u >= y
  <2>1. n - y \in 0 .. n /\ n - (n - y) = y
    OBVIOUS
  <2>2. n - y \in U
    BY <2>1
  <2> QED
    BY <1>2, <2>1, <2>2
<1> QED
  BY <1>2, <1>3

\* Records as the stores have them, and a store.
Remembered ==
  [kind : {"fact", "episode"}, vector : Int, keyword : Int, recency : Int,
   frequency : Int, importance : Int, decayed : BOOLEAN, time : Int, tokens : Nat]

LEMMA ScoresAreNumbers ==
  ASSUME NEW m \in Remembered
  PROVE  Score(m) \in Int
<1>1. /\ m.vector \in Int /\ m.keyword \in Int /\ m.recency \in Int
      /\ m.frequency \in Int /\ m.importance \in Int
  BY DEF Remembered
<1>2. Relevance(m) \in Int
  BY <1>1 DEF Relevance, Weights
<1> QED
  BY <1>2 DEF Score

Memory(n) == [1 .. n -> Remembered]

\* What the sort puts before what.
Order(records, P) == {x \in P \X P : Before(records, x[1], x[2])}

LEMMA BeforeIsOrder ==
  ASSUME NEW n \in Nat, NEW records \in Memory(n)
  PROVE  /\ \A i, j \in 1 .. n : i # j => Before(records, i, j) \/ Before(records, j, i)
         /\ \A i, j, k \in 1 .. n :
              Before(records, i, j) /\ Before(records, j, k) => Before(records, i, k)
         /\ \A i \in 1 .. n : ~ Before(records, i, i)
<1>1. \A i \in 1 .. n : Score(records[i]) \in Int
  <2> SUFFICES ASSUME NEW i \in 1 .. n
               PROVE  Score(records[i]) \in Int
    OBVIOUS
  <2>1. records[i] \in Remembered
    BY DEF Memory
  <2> QED
    BY <2>1, ScoresAreNumbers
<1> QED
  BY <1>1 DEF Before

LEMMA OrderIsTotal ==
  ASSUME NEW n \in Nat, NEW records \in Memory(n), NEW P \in SUBSET (1 .. n)
  PROVE  /\ IsOrder(Order(records, P), P)
         /\ \A x \in P : <<x, x>> \notin Order(records, P)
<1>1. \A x, y \in P : <<x, y>> \in Order(records, P) <=> Before(records, x, y)
  BY DEF Order
<1>2. \A x \in P : x \in 1 .. n
  OBVIOUS
<1> QED
  BY <1>1, <1>2, BeforeIsOrder DEF IsOrder

Sorts(q, records, P) ==
  /\ q \in [1 .. Cardinality(P) -> P]
  /\ \A i, j \in DOMAIN q : i < j => Before(records, q[i], q[j])

LEMMA SortedIsComplete ==
  ASSUME NEW n \in Nat, NEW records \in Memory(n), NEW P \in SUBSET (1 .. n)
  PROVE  /\ Cardinality(P) \in Nat
         /\ \E q : /\ Sorts(q, records, P) /\ ToSet(q) = P
                   /\ Sorted(records, P) = [k \in 1 .. Cardinality(P) |-> records[q[k]]]
<1> DEFINE R == Order(records, P)
           c == Cardinality(P)
<1>1. IsOrder(R, P) /\ (\A x \in P : <<x, x>> \notin R)
  BY OrderIsTotal
<1>2. \A x, y \in P : <<x, y>> \in R <=> Before(records, x, y)
  BY DEF Order
<1> HIDE DEF R
<1>3. IsFiniteSet(P) /\ c \in Nat
  <2>1. IsFiniteSet(1 .. n)
    BY FS_Interval
  <2> QED
    BY <2>1, FS_Subset, FS_CardinalityType
<1>4. \E q : Sorts(q, records, P)
  <2>1. PICK q \in [1 .. c -> P] : InOrder(q, R)
    BY <1>1, OrderExists
  <2>2. \A i, j \in DOMAIN q : i < j => Before(records, q[i], q[j])
    BY <1>2, <2>1 DEF InOrder
  <2> QED
    BY <2>1, <2>2 DEF Sorts
<1> DEFINE q == CHOOSE q \in [1 .. c -> P] :
                  \A i, j \in DOMAIN q : i < j => Before(records, q[i], q[j])
<1>5. Sorts(q, records, P)
  BY <1>4 DEF Sorts
<1>6. Sorted(records, P) = [k \in 1 .. c |-> records[q[k]]]
  BY DEF Sorted
<1> HIDE DEF q
<1>7. ToSet(q) = P
  <2>1. q \in Seq(P) /\ Len(q) = c /\ DOMAIN q = 1 .. c
    BY <1>3, <1>5 DEF Sorts
  <2>2. InOrder(q, R)
    BY <1>2, <1>5, <2>1 DEF InOrder, Sorts
  <2>3. IsInjective(q)
    BY <1>1, <2>1, <2>2, OrderIsInjective
  <2>4. Cardinality(ToSet(q)) = c
    BY <2>1, <2>3, InjectiveLength
  <2>5. ToSet(q) \in SUBSET P
    BY <2>1 DEF ToSet
  <2> QED
    BY <1>3, <2>4, <2>5, FS_Subset
<1> QED
  BY <1>3, <1>5, <1>6, <1>7

\* The candidates of a store that a search returns.
Good(records, P, query) ==
  {i \in Ranked(records, P, query.limit) : Score(records[i]) >= query.minScore}

\* What a search returns and what it shows of that.
LEMMA FoundIsBest ==
  ASSUME NEW n \in Nat, NEW records \in Memory(n), NEW P \in SUBSET (1 .. n),
         NEW query \in [from : Int, to : Int, limit : Nat, minScore : Int]
  PROVE  LET found == Found(records, P, query) IN
         /\ found \in Seq({records[i] : i \in P})
         /\ \A s \in 0 .. Len(found) : \A k \in 1 .. s : \A i \in P :
              \/ Score(found[k]) >= Score(records[i])
              \/ \E l \in 1 .. s : found[l] = records[i]
<1> DEFINE found == Found(records, P, query)
           good == Good(records, P, query)
           limit == query.limit
           least == query.minScore
           S == {records[i] : i \in P}
<1>1. good \in SUBSET P /\ good \in SUBSET (1 .. n)
  BY DEF Good, Ranked
<1>2. limit \in Nat /\ least \in Int
  OBVIOUS
<1>3. \A i \in P : /\ i \in good <=> /\ i \in Ranked(records, P, limit)
                                     /\ Score(records[i]) >= least
                   /\ Score(records[i]) \in Int
  <2>1. \A i \in P : i \in good <=> /\ i \in Ranked(records, P, limit)
                                    /\ Score(records[i]) >= least
    BY DEF Good, Ranked
  <2>2. \A i \in P : records[i] \in Remembered
    BY DEF Memory
  <2>3. \A i \in P : Score(records[i]) \in Int
    BY <2>2, ScoresAreNumbers
  <2> QED
    BY <2>1, <2>3
<1>4. found = Sorted(records, good)
  BY DEF Found, Good
<1> HIDE DEF found, good, limit, least
<1> DEFINE c == Cardinality(good)
<1>5. c \in Nat
  BY <1>1, SortedIsComplete
<1>6. PICK q : /\ Sorts(q, records, good) /\ ToSet(q) = good
               /\ found = [k \in 1 .. c |-> records[q[k]]]
  <2>1. good \in SUBSET (1 .. n)
    BY <1>1
  <2>2. \E q : /\ Sorts(q, records, good) /\ ToSet(q) = good
               /\ Sorted(records, good)
                    = [k \in 1 .. Cardinality(good) |-> records[q[k]]]
    BY <2>1, SortedIsComplete
  <2> QED
    BY <1>4, <2>2
<1> HIDE DEF c
<1>7. /\ DOMAIN q = 1 .. c /\ \A k \in 1 .. c : q[k] \in good /\ q[k] \in P
      /\ \A i, j \in 1 .. c : i < j => Before(records, q[i], q[j])
  BY <1>1, <1>6 DEF Sorts, c
<1>8. found \in Seq(S) /\ Len(found) = c /\ \A k \in 1 .. c : found[k] = records[q[k]]
  <2>1. \A k \in 1 .. c : records[q[k]] \in S
    BY <1>7
  <2> HIDE DEF S
  <2> QED
    BY <1>5, <1>6, <2>1
<1>9. ASSUME NEW s \in 0 .. c, NEW k \in 1 .. s, NEW i \in P,
             ~ (Score(found[k]) >= Score(records[i]))
      PROVE  \E l \in 1 .. s : found[l] = records[i]
  <2> DEFINE g == q[k]
  <2>1. k \in 1 .. c /\ g \in good /\ g \in P /\ found[k] = records[g]
    BY <1>5, <1>7, <1>8
  <2> HIDE DEF g
  <2>2. Score(records[i]) > Score(records[g])
    <3>1. Score(records[i]) \in Int /\ Score(records[g]) \in Int
      BY <1>3, <2>1
    <3>2. ~ (Score(records[g]) >= Score(records[i]))
      BY <1>9, <2>1
    <3> QED
      BY <3>1, <3>2
  <2>3. Before(records, i, g)
    BY <2>2 DEF Before
  <2>4. i \in Ranked(records, P, limit)
    <3> DEFINE A == {j \in P : Before(records, j, i)}
               B == {j \in P : Before(records, j, g)}
    <3>1. A \in SUBSET B
      <4>1. \A j \in P : j \in 1 .. n
        OBVIOUS
      <4>2. \A j \in 1 .. n : Before(records, j, i) => Before(records, j, g)
        BY <2>1, <2>3, <4>1, BeforeIsOrder
      <4> QED
        BY <4>1, <4>2
    <3>2. IsFiniteSet(B)
      <4>1. B \in SUBSET (1 .. n)
        OBVIOUS
      <4> HIDE DEF B
      <4>2. IsFiniteSet(1 .. n)
        BY FS_Interval
      <4> QED
        BY <4>1, <4>2, FS_Subset
    <3>3. Cardinality(B) < limit
      BY <1>3, <2>1 DEF Ranked
    <3> HIDE DEF A, B
    <3>4. Cardinality(A) <= Cardinality(B)
      BY <3>1, <3>2, FS_Subset
    <3>5. Cardinality(A) \in Nat /\ Cardinality(B) \in Nat
      BY <3>1, <3>2, FS_Subset, FS_CardinalityType
    <3>6. Cardinality(A) < limit
      BY <1>2, <3>3, <3>4, <3>5
    <3> QED
      BY <3>6 DEF Ranked, A
  <2>5. i \in good
    <3>1. Score(records[g]) >= least
      BY <1>3, <2>1
    <3> QED
      BY <1>2, <1>3, <2>1, <2>2, <2>4, <3>1
  <2>6. PICK l \in 1 .. c : q[l] = i
    BY <1>6, <1>7, <2>5 DEF ToSet
  <2>7. found[l] = records[i]
    BY <1>8, <2>6
  <2>8. l < k
    <3>1. CASE k < l
      <4>1. Before(records, g, i)
        BY <1>7, <2>1, <2>6, <3>1 DEF g
      <4>2. i \in 1 .. n /\ g \in 1 .. n
        BY <2>1
      <4> QED
        BY <2>3, <4>1, <4>2, BeforeIsOrder
    <3>2. CASE k = l
      BY <1>3, <2>1, <2>2, <2>6, <3>2 DEF g
    <3> QED
      BY <1>5, <2>1, <3>1, <3>2
  <2>9. l \in 1 .. s
    BY <1>5, <2>6, <2>8
  <2> QED
    BY <2>7, <2>9
<1>10. /\ found \in Seq(S)
       /\ \A s \in 0 .. Len(found) : \A k \in 1 .. s : \A i \in P :
            \/ Score(found[k]) >= Score(records[i])
            \/ \E l \in 1 .. s : found[l] = records[i]
  BY <1>8, <1>9
<1> QED
  BY <1>10 DEF found

\* What retrieveForContext makes of the records of one store.
LEMMA SectionFits ==
  ASSUME NEW records \in Seq(Remembered), NEW header \in Nat, NEW used \in Nat,
         NEW budget \in Int, used <= budget
  PROVE  LET part == Section(records, header, used, budget) IN
         /\ part.used \in Nat /\ part.used <= budget
         /\ used + Tokens(part.lines, Len(part.lines)) <= part.used
         /\ Tokens(part.lines, Len(part.lines)) \in Int
         /\ \E s \in 0 .. Len(records) :
              /\ part.lines = SubSeq(records, 1, s)
              /\ s < Len(records) => part.used + records[s + 1].tokens > budget
<1> DEFINE part == Section(records, header, used, budget)
           start == AddHeader(used, header, budget)
           n == Len(records)
           e == [i \in DOMAIN records |-> records[i].tokens]
<1>1. start \in Nat /\ used <= start /\ start <= budget
  BY DEF AddHeader
<1>2. n \in Nat /\ DOMAIN records = 1 .. n /\ \A i \in 1 .. n : records[i] \in Remembered
  OBVIOUS
<1>3. e \in [1 .. n -> Nat] /\ \A i \in 1 .. n : e[i] = records[i].tokens
  BY <1>2 DEF Remembered
<1>4. \A k : Tokens(records, k) = Total(e, k)
  BY DEF Tokens
<1> HIDE DEF start, n, e
<1>5. e \in [1 .. n -> Int]
  BY <1>3
<1>6. CASE records = <<>>
  <2>1. part = WithLines(<<>>, used) /\ n = 0
    BY <1>6 DEF Section, n
  <2>2. DOMAIN <<>> = 1 .. 0 /\ Len(<<>>) = 0 /\ SubSeq(records, 1, 0) = <<>>
    BY <1>6
  <2>3. Tokens(<<>>, 0) = 0
    <3> DEFINE f == [i \in DOMAIN <<>> |-> <<>>[i].tokens]
    <3>1. f \in [1 .. 0 -> Int] /\ Tokens(<<>>, 0) = Total(f, 0)
      BY DEF Tokens
    <3> HIDE DEF f
    <3> QED
      BY <3>1, TotalUnfolds
  <2>4. part.lines = <<>> /\ part.used = used
    <3>1. WithLines(<<>>, used) = [lines |-> <<>>, used |-> used + 0]
      BY <2>2, <2>3 DEF WithLines
    <3> HIDE DEF part
    <3> QED
      BY <2>1, <3>1
  <2> HIDE DEF part
  <2>5. Len(part.lines) = 0 /\ Tokens(part.lines, Len(part.lines)) = 0
    BY <2>2, <2>3, <2>4
  <2>6. 0 \in 0 .. Len(records) /\ ~ (0 < Len(records))
    BY <2>1 DEF n
  <2>7. part.lines = SubSeq(records, 1, 0)
    BY <2>2, <2>4
  <2>8. part.used \in Nat /\ part.used <= budget
    BY <2>4
  <2>9. \E s \in 0 .. Len(records) :
          /\ part.lines = SubSeq(records, 1, s)
          /\ s < Len(records) => part.used + records[s + 1].tokens > budget
    BY <2>6, <2>7
  <2> QED
    BY <2>4, <2>5, <2>8, <2>9 DEF part
<1>7. CASE records # <<>>
  <2> DEFINE T == {k \in 0 .. n : \A j \in 1 .. k : start + Tokens(records, j) <= budget}
             s == Fitting(records, start, budget)
             lines == SubSeq(records, 1, s)
  <2>1. s \in T /\ \A k \in T : s >= k
    <3>1. 0 \in T /\ T \in SUBSET (0 .. n)
      BY <1>2
    <3>2. s = Max(T)
      BY DEF Fitting, n
    <3> HIDE DEF T, s
    <3>3. \E x \in T : \A y \in T : x >= y
      BY <1>2, <3>1, GreatestUpTo
    <3> QED
      BY <3>2, <3>3 DEF Max
  <2>2. part = WithLines(lines, start)
    BY <1>7 DEF Section, start
  <2> HIDE DEF s
  <2>3. s \in 0 .. n /\ s \in Nat /\ n >= s
    BY <1>2, <2>1
  <2>4. lines \in Seq(Remembered) /\ Len(lines) = s /\ \A i \in 1 .. s : lines[i] = records[i]
    BY <2>3 DEF n
  <2> HIDE DEF lines
  <2>5. Tokens(lines, s) = Total(e, s) /\ Total(e, s) \in Int
    <3> DEFINE f == [i \in DOMAIN lines |-> lines[i].tokens]
    <3>1. DOMAIN lines = 1 .. s
      BY <2>4
    <3>2. \A i \in 1 .. s : lines[i].tokens = e[i] /\ e[i] \in Int
      BY <1>2, <1>3, <2>3, <2>4
    <3>3. f \in [1 .. s -> Int] /\ \A i \in 1 .. s : e[i] = f[i]
      BY <3>1, <3>2
    <3>4. Tokens(lines, s) = Total(f, s)
      BY DEF Tokens
    <3> HIDE DEF f
    <3>5. Total(e, s) = Total(f, s)
      BY <1>2, <1>5, <2>3, <3>3, TotalAgrees
    <3>6. Total(f, s) \in Int
      BY <2>3, <3>3, TotalUnfolds
    <3> QED
      BY <3>4, <3>5, <3>6
  <2>6. Total(e, s) >= 0
    <3> DEFINE P == {k \in 0 .. n : Total(e, k) \in Nat}
    <3>1. 0 \in P
      <4>1. CASE n = 0
        <5>1. Total(e, n) = 0
          BY <1>2, <1>5, <4>1, TotalUnfolds
        <5> QED
          BY <4>1, <5>1
      <4>2. CASE n # 0
        <5>1. 0 \in 0 .. n - 1
          BY <1>2, <4>2
        <5>2. Total(e, 0) = 0
          BY <1>2, <1>5, <5>1, TotalGrows
        <5> QED
          BY <1>2, <5>2
      <4> QED
        BY <4>1, <4>2
    <3>2. \A k \in 0 .. n - 1 : k \in P => k + 1 \in P
      <4> SUFFICES ASSUME NEW k \in 0 .. n - 1, k \in P
                   PROVE  k + 1 \in P
        OBVIOUS
      <4>1. Total(e, k + 1) = Total(e, k) + e[k + 1]
        BY <1>2, <1>5, TotalGrows
      <4>2. k + 1 \in 1 .. n /\ k + 1 \in 0 .. n
        BY <1>2
      <4>3. e[k + 1] \in Nat
        BY <1>3, <4>2
      <4> QED
        BY <4>1, <4>2, <4>3
    <3> HIDE DEF P
    <3>3. \A k \in 0 .. n : k \in P
      BY <1>2, <3>1, <3>2, InductionUpTo
    <3> QED
      BY <2>3, <3>3 DEF P
  <2>7. part.lines = lines /\ part.used = start + Total(e, s)
    BY <2>2, <2>4, <2>5 DEF WithLines
  <2>8. start + Total(e, s) <= budget
    <3>1. CASE s = 0
      <4>1. n # 0
        BY <1>2, <1>7 DEF n
      <4>2. 0 \in 0 .. n - 1
        BY <1>2, <4>1
      <4>3. Total(e, 0) = 0
        BY <1>2, <1>5, <4>2, TotalGrows
      <4> QED
        BY <1>1, <3>1, <4>3
    <3>2. CASE s # 0
      <4>1. s \in 1 .. s
        BY <2>3, <3>2
      <4>2. start + Tokens(records, s) <= budget
        BY <2>1, <4>1
      <4> QED
        BY <1>4, <4>2
    <3> QED
      BY <3>1, <3>2
  <2>9. ASSUME s < n
        PROVE  start + Total(e, s) + records[s + 1].tokens > budget
    <3>1. s \in 0 .. n - 1 /\ s + 1 \in 1 .. n /\ s + 1 \in 0 .. n
      BY <1>2, <2>3, <2>9
    <3>2. Total(e, s + 1) = Total(e, s) + e[s + 1] /\ Total(e, s + 1) \in Int
      BY <1>2, <1>5, <3>1, TotalGrows
    <3>3. s + 1 \notin T
      BY <2>1, <2>3
    <3>4. PICK j \in 1 .. s + 1 : ~ (start + Tokens(records, j) <= budget)
      BY <3>1, <3>3
    <3>5. j = s + 1
      <4>1. \A i \in 1 .. s : start + Tokens(records, i) <= budget
        BY <2>1
      <4>2. j \notin 1 .. s
        BY <3>4, <4>1
      <4> QED
        BY <2>3, <4>2
    <3>6. ~ (start + Total(e, s + 1) <= budget)
      BY <1>4, <3>4, <3>5
    <3>7. e[s + 1] = records[s + 1].tokens
      BY <1>3, <3>1
    <3>8. e[s + 1] \in Nat
      BY <1>3, <3>1
    <3> QED
      BY <1>1, <2>5, <3>2, <3>6, <3>7, <3>8
  <2> HIDE DEF part, T
  <2>10. /\ part.used \in Nat /\ part.used <= budget
         /\ used + Tokens(part.lines, Len(part.lines)) <= part.used
         /\ Tokens(part.lines, Len(part.lines)) \in Int
    BY <1>1, <2>4, <2>5, <2>6, <2>7, <2>8
  <2>11. /\ part.lines = SubSeq(records, 1, s)
         /\ s < Len(records) => part.used + records[s + 1].tokens > budget
    BY <2>7, <2>9 DEF lines, n
  <2>12. s \in 0 .. Len(records)
    BY <2>3 DEF n
  <2> QED
    BY <2>10, <2>11, <2>12 DEF part
<1> QED
  BY <1>6, <1>7

RecordsAt(records, P) == {records[i] : i \in P}

(***************************************************************************)
(* One half of the context (hybrid-retriever.ts:90-129), whatever          *)
(* candidates P are read of a store: its lines are candidates, they fit    *)
(* what is left of the budget, no candidate that is not shown scores       *)
(* higher than one that is, and one that was found is left out only when a *)
(* candidate no longer fits.  The code's candidates are the page.          *)
(***************************************************************************)
THEOREM StoreSectionFits ==
  ASSUME NEW n \in Nat, NEW records \in Memory(n), NEW P \in SUBSET (1 .. n),
         NEW query \in [from : Int, to : Int, limit : Nat, minScore : Int],
         NEW header \in Nat, NEW used \in Nat, NEW budget \in Int, used <= budget
  PROVE  LET found == Found(records, P, query)
             part == Section(found, header, used, budget)
             all == RecordsAt(records, P)
         IN
         /\ part.used \in Nat /\ part.used <= budget
         /\ used + Tokens(part.lines, Len(part.lines)) <= part.used
         /\ Tokens(part.lines, Len(part.lines)) \in Int
         /\ ToSet(part.lines) \subseteq all
         /\ \A m \in all \ ToSet(part.lines), x \in ToSet(part.lines) :
              Score(x) >= Score(m)
         /\ Len(part.lines) < Len(found) =>
              \E m \in all : part.used + m.tokens > budget
<1> DEFINE found == Found(records, P, query)
           part == Section(found, header, used, budget)
           all == RecordsAt(records, P)
<1>1. /\ found \in Seq(all)
      /\ \A s \in 0 .. Len(found) : \A k \in 1 .. s : \A i \in P :
           \/ Score(found[k]) >= Score(records[i])
           \/ \E l \in 1 .. s : found[l] = records[i]
  BY FoundIsBest DEF RecordsAt
<1>2. all \subseteq Remembered
  BY DEF Memory, RecordsAt
<1>3. \A m \in all : \E i \in P : m = records[i]
  BY DEF RecordsAt
<1> HIDE DEF found, all
<1>4. found \in Seq(Remembered)
  BY <1>1, <1>2, SeqMonotonic
<1>5. /\ part.used \in Nat /\ part.used <= budget
      /\ used + Tokens(part.lines, Len(part.lines)) <= part.used
      /\ Tokens(part.lines, Len(part.lines)) \in Int
      /\ \E s \in 0 .. Len(found) :
           /\ part.lines = SubSeq(found, 1, s)
           /\ s < Len(found) => part.used + found[s + 1].tokens > budget
  BY <1>4, SectionFits
<1> HIDE DEF part
<1>6. PICK s \in 0 .. Len(found) :
        /\ part.lines = SubSeq(found, 1, s)
        /\ s < Len(found) => part.used + found[s + 1].tokens > budget
  BY <1>5
<1>7. /\ Len(part.lines) = s /\ DOMAIN part.lines = 1 .. s
      /\ \A k \in 1 .. s : part.lines[k] = found[k] /\ k \in 1 .. Len(found)
  BY <1>1, <1>6
<1>8. ToSet(part.lines) \subseteq all
  <2>1. \A k \in 1 .. s : found[k] \in all
    BY <1>1, <1>7
  <2> QED
    BY <1>7, <2>1 DEF ToSet
<1>9. ASSUME NEW m \in all \ ToSet(part.lines), NEW x \in ToSet(part.lines)
      PROVE  Score(x) >= Score(m)
  <2>1. PICK k \in 1 .. s : x = found[k]
    BY <1>7 DEF ToSet
  <2>2. PICK i \in P : m = records[i]
    BY <1>3
  <2>3. ~ \E l \in 1 .. s : found[l] = records[i]
    BY <1>7, <2>2 DEF ToSet
  <2> QED
    BY <1>1, <2>1, <2>2, <2>3
<1>10. ASSUME Len(part.lines) < Len(found)
       PROVE  \E m \in all : part.used + m.tokens > budget
  <2>1. s + 1 \in 1 .. Len(found)
    BY <1>1, <1>7, <1>10
  <2>2. found[s + 1] \in all
    BY <1>1, <2>1
  <2> QED
    BY <1>6, <1>7, <1>10, <2>2
<1> QED
  BY <1>5, <1>8, <1>9, <1>10 DEF found, part, all

\* Sequences of bounded length, as the inputs are.
LEMMA WordsAreFunctions ==
  ASSUME NEW S, NEW n, NEW w \in Words(S, n)
  PROVE  \E m \in 0 .. n : w \in [1 .. m -> S]
BY DEF Words

LEMMA RecordsAreRemembered ==
  /\ FactRecords \subseteq Remembered
  /\ EpisodeRecords \subseteq Remembered
  /\ \A m \in EpisodeRecords : m.tokens <= 2
<1>1. ASSUME NEW m \in FactRecords
      PROVE  m \in Remembered
  <2>1. \E i \in {80, 95}, d \in BOOLEAN, t \in {2, 3} : m = Fact(i, d, t)
    BY <1>1 DEF FactRecords
  <2>2. PICK i \in {80, 95}, d \in BOOLEAN, t \in {2, 3} : m = Record("fact", i, d, 1, t)
    BY <2>1 DEF Fact
  <2> QED
    BY <2>2 DEF Record, Remembered
<1>2. ASSUME NEW m \in EpisodeRecords
      PROVE  m \in Remembered /\ m.tokens <= 2
  <2>1. \E d \in BOOLEAN, w \in {1, 2}, t \in {1, 2} : m = Episode(d, w, t)
    BY <1>2 DEF EpisodeRecords
  <2>2. PICK d \in BOOLEAN, w \in {1, 2}, t \in {1, 2} :
          m = Record("episode", 50, d, w, t)
    BY <2>1 DEF Episode
  <2> QED
    BY <2>2 DEF Record, Remembered
<1> QED
  BY <1>1, <1>2

LEMMA ContextsFit ==
  ASSUME focus = "context" => input \in Contexts
  PROVE  ContextFits
<1> SUFFICES ASSUME focus = "context"
             PROVE  ContextFits
  BY DEF ContextFits
<1> DEFINE query == [from |-> 1, to |-> 1, limit |-> input.limit, minScore |-> 1000]
           facts == input.facts
           episodes == input.episodes
           budget == input.budget
           InTime == {i \in Page(episodes) : InRange(episodes[i], query)}
           found == Search(query, episodes, facts)
           f == Section(found.semantic, 1, 0, budget)
           e == Section(found.episodic, 2, f.used, budget)
           context == RetrieveForContext(query, episodes, facts, Headers, budget)
<1>1. /\ facts \in Words(FactRecords, 3) /\ episodes \in Words(EpisodeRecords, 3)
      /\ input.limit \in {1, 2} /\ budget \in Nat
  BY HelpersAssumption DEF Contexts
<1>2. query \in [from : Int, to : Int, limit : Nat, minScore : Int]
  BY <1>1
<1>3. /\ context.facts = f.lines /\ context.episodes = e.lines /\ context.used = e.used
  BY DEF RetrieveForContext, Headers
<1>4. /\ found.semantic = Found(facts, Page(facts), query)
      /\ found.episodic = Found(episodes, InTime, query)
  BY DEF Search
<1>5. ContextFits <=>
        /\ context.used <= budget
        /\ Tokens(context.facts, Len(context.facts))
             + Tokens(context.episodes, Len(context.episodes)) <= context.used
        /\ ToSet(context.facts) \subseteq RecordsAt(facts, Page(facts))
        /\ \A m \in RecordsAt(facts, Page(facts)) \ ToSet(context.facts),
              x \in ToSet(context.facts) : Score(x) >= Score(m)
        /\ ToSet(context.episodes)
             \subseteq {y \in RecordsAt(episodes, Page(episodes)) : y.time = 1}
        /\ \A m \in {y \in RecordsAt(episodes, Page(episodes)) : y.time = 1}
                      \ ToSet(context.episodes),
              x \in ToSet(context.episodes) : Score(x) >= Score(m)
        /\ Len(context.episodes) < Len(found.episodic) => context.used + 2 > budget
  BY DEF ContextFits, RecordsAt
<1>6. \A m : InRange(m, query) <=> m.time = 1
  <2>1. query.from = 1 /\ query.to = 1
    OBVIOUS
  <2> QED
    BY <2>1 DEF InRange
<1> HIDE DEF query, context
<1>7. PICK nf \in 0 .. 3 : facts \in [1 .. nf -> FactRecords]
  BY <1>1, WordsAreFunctions
<1>8. PICK ne \in 0 .. 3 : episodes \in [1 .. ne -> EpisodeRecords]
  BY <1>1, WordsAreFunctions
<1>9. /\ nf \in Nat /\ facts \in Memory(nf) /\ DOMAIN facts = 1 .. nf
      /\ ne \in Nat /\ episodes \in Memory(ne) /\ DOMAIN episodes = 1 .. ne
  BY <1>7, <1>8, RecordsAreRemembered DEF Memory
<1> DEFINE allFacts == RecordsAt(facts, Page(facts))
           allEpisodes == RecordsAt(episodes, InTime)
           foundFacts == Found(facts, Page(facts), query)
           foundEpisodes == Found(episodes, InTime, query)
<1>10. InTime \in SUBSET (1 .. ne)
  BY <1>9 DEF Page
<1>11. /\ allEpisodes = {y \in RecordsAt(episodes, Page(episodes)) : y.time = 1}
       /\ \A m \in allEpisodes : m \in EpisodeRecords
  <2>2. allEpisodes = {y \in RecordsAt(episodes, Page(episodes)) : y.time = 1}
    BY <1>6 DEF RecordsAt
  <2>3. \A i \in 1 .. ne : episodes[i] \in EpisodeRecords
    BY <1>8
  <2>4. \A m \in allEpisodes : m \in EpisodeRecords
    BY <1>10, <2>3 DEF RecordsAt
  <2> QED
    BY <2>2, <2>4
<1> HIDE DEF facts, episodes, budget, InTime
<1>12. /\ f.used \in Nat /\ f.used <= budget
       /\ 0 + Tokens(f.lines, Len(f.lines)) <= f.used
       /\ Tokens(f.lines, Len(f.lines)) \in Int
       /\ ToSet(f.lines) \subseteq allFacts
       /\ \A m \in allFacts \ ToSet(f.lines), x \in ToSet(f.lines) : Score(x) >= Score(m)
  <2> DEFINE D == Page(facts)
             zero == 0
             one == 1
             part == Section(Found(facts, D, query), one, zero, budget)
  <2>1. D \in SUBSET (1 .. nf) /\ one \in Nat
        /\ zero \in Nat /\ zero <= budget /\ budget \in Int
    BY <1>1, <1>9 DEF Page
  <2>2. f = part
    BY <1>4
  <2> HIDE DEF D, zero, one
  <2>3. /\ part.used \in Nat /\ part.used <= budget
        /\ zero + Tokens(part.lines, Len(part.lines)) <= part.used
        /\ Tokens(part.lines, Len(part.lines)) \in Int
        /\ ToSet(part.lines) \subseteq RecordsAt(facts, D)
        /\ \A m \in RecordsAt(facts, D) \ ToSet(part.lines), x \in ToSet(part.lines) :
             Score(x) >= Score(m)
    BY <1>2, <1>9, <2>1, StoreSectionFits
  <2> HIDE DEF part, f
  <2> QED
    BY <2>2, <2>3 DEF D, zero
<1> DEFINE start == f.used
<1> HIDE DEF f, start
<1>13. /\ e.used \in Nat /\ e.used <= budget
       /\ start + Tokens(e.lines, Len(e.lines)) <= e.used
       /\ Tokens(e.lines, Len(e.lines)) \in Int
       /\ ToSet(e.lines) \subseteq allEpisodes
       /\ \A m \in allEpisodes \ ToSet(e.lines), x \in ToSet(e.lines) :
            Score(x) >= Score(m)
       /\ Len(e.lines) < Len(foundEpisodes) =>
            \E m \in allEpisodes : e.used + m.tokens > budget
  <2> DEFINE two == 2
             part == Section(Found(episodes, InTime, query), two, start, budget)
  <2>1. two \in Nat /\ start \in Nat /\ start <= budget /\ budget \in Int
    BY <1>1, <1>12 DEF start
  <2>2. e = part
    BY <1>4 DEF start
  <2> HIDE DEF two
  <2>3. /\ part.used \in Nat /\ part.used <= budget
        /\ start + Tokens(part.lines, Len(part.lines)) <= part.used
        /\ Tokens(part.lines, Len(part.lines)) \in Int
        /\ ToSet(part.lines) \subseteq allEpisodes
        /\ \A m \in allEpisodes \ ToSet(part.lines), x \in ToSet(part.lines) :
             Score(x) >= Score(m)
        /\ Len(part.lines) < Len(foundEpisodes) =>
             \E m \in allEpisodes : part.used + m.tokens > budget
    BY <1>2, <1>9, <1>10, <2>1, StoreSectionFits
  <2> HIDE DEF part, e, allEpisodes, foundEpisodes
  <2> QED
    BY <2>2, <2>3
<1> HIDE DEF e, allFacts, allEpisodes, foundEpisodes
<1>14. /\ Tokens(f.lines, Len(f.lines)) + Tokens(e.lines, Len(e.lines)) <= e.used
       /\ e.used <= budget
  BY <1>1, <1>12, <1>13 DEF start
<1>15. Len(e.lines) < Len(foundEpisodes) => e.used + 2 > budget
  <2> SUFFICES ASSUME Len(e.lines) < Len(foundEpisodes)
               PROVE  e.used + 2 > budget
    OBVIOUS
  <2>1. PICK m \in allEpisodes : e.used + m.tokens > budget
    BY <1>13
  <2>2. m.tokens \in Nat /\ m.tokens <= 2
    <3>1. m \in EpisodeRecords /\ m \in Remembered
      BY <1>11, RecordsAreRemembered
    <3> QED
      BY <3>1, RecordsAreRemembered DEF Remembered
  <2> QED
    BY <1>1, <1>13, <2>1, <2>2
<1> QED
  BY <1>3, <1>4, <1>5, <1>11, <1>12, <1>13, <1>14, <1>15
     DEF foundEpisodes, allFacts

(***************************************************************************)
(* The queries of the graph.  The breadth-first search that they are       *)
(* compared with, and the rows of the recursive query.                     *)
(***************************************************************************)

Rels(E) == [from : E, to : E, weight : Nat, active : BOOLEAN]
Trails(E) == {x \in [path : Seq(E), weight : Nat] : x.path # <<>>}

Ends(edges, e) == {e} \cup UNION {{r.from, r.to} : r \in edges}

LEMMA WiderStays ==
  ASSUME NEW edges, NEW e, NEW S \in SUBSET Ends(edges, e)
  PROVE  Wider(edges, S) \in SUBSET Ends(edges, e)
BY DEF Wider, Touching, Ends

Widens(edges, e, n, f) ==
  /\ f[0] = {e}
  /\ \A k \in 1 .. n : f[k] = Wider(edges, f[k - 1])
  /\ \A k \in 0 .. n : f[k] \in SUBSET Ends(edges, e)

LEMMA BallsUnfold ==
  ASSUME NEW edges, NEW e, NEW n \in Nat
  PROVE  Widens(edges, e, n, Balls(edges, e, n))
<1> DEFINE X == SUBSET Ends(edges, e)
           start == {e}
           step == [S \in X |-> Wider(edges, S)]
           Loop(f) == f = [k \in 0 .. n |-> IF k = 0 THEN start
                                            ELSE Wider(edges, f[k - 1])]
<1>1. start \in X
  BY DEF Ends
<1>2. step \in [X -> X]
  <2>1. ASSUME NEW S \in X
        PROVE  Wider(edges, S) \in X
    BY WiderStays
  <2> QED
    BY <2>1
<1>3. \A S \in X : step[S] = Wider(edges, S)
  OBVIOUS
<1> HIDE DEF X, step
<1>4. Balls(edges, e, n) = CHOOSE g : Loop(g)
  BY DEF Balls
<1> HIDE DEF start
<1>5. PICK f \in [0 .. n -> X] : Iterates(f, n, start, step)
  BY <1>1, <1>2, RecursionUpTo
<1>6. ASSUME NEW k \in 0 .. n, k # 0
      PROVE  f[k] = Wider(edges, f[k - 1])
  <2>1. f[k - 1] \in X /\ k \in 1 .. n
    BY <1>6
  <2> QED
    BY <1>3, <1>5, <2>1 DEF Iterates
<1>7. Loop(f)
  <2>1. f[0] = start
    BY <1>5 DEF Iterates
  <2>2. \A k \in 0 .. n : f[k] = IF k = 0 THEN start ELSE Wider(edges, f[k - 1])
    BY <1>6, <2>1
  <2> QED
    BY <2>2
<1> DEFINE g == Balls(edges, e, n)
<1>8. Loop(g)
  BY <1>4, <1>7
<1> HIDE DEF g
<1>9. g[0] = start /\ \A k \in 1 .. n : g[k] = Wider(edges, g[k - 1])
  <2>1. \A k \in 0 .. n : g[k] = IF k = 0 THEN start ELSE Wider(edges, g[k - 1])
    BY <1>8
  <2> QED
    BY <2>1
<1> DEFINE P == {k \in 0 .. n : g[k] \in X}
<1>10. 0 \in P
  BY <1>1, <1>9
<1>11. \A k \in 0 .. n - 1 : k \in P => k + 1 \in P
  <2> SUFFICES ASSUME NEW k \in 0 .. n - 1, k \in P
               PROVE  k + 1 \in P
    OBVIOUS
  <2>1. k + 1 \in 1 .. n /\ k + 1 \in 0 .. n /\ (k + 1) - 1 = k
    OBVIOUS
  <2>2. g[k + 1] = Wider(edges, g[k])
    BY <1>9, <2>1
  <2>3. Wider(edges, g[k]) \in X
    BY WiderStays DEF X
  <2> QED
    BY <2>1, <2>2, <2>3
<1> HIDE DEF P
<1>12. \A k \in 0 .. n : k \in P
  BY <1>10, <1>11, InductionUpTo
<1> QED
  BY <1>9, <1>12 DEF P, X, g, start, Widens

LEMMA BallStarts ==
  ASSUME NEW edges, NEW e
  PROVE  Ball(edges, e, 0) = {e}
<1> DEFINE n == 0
<1>1. n \in Nat
  OBVIOUS
<1> HIDE DEF n
<1>2. Widens(edges, e, n, Balls(edges, e, n))
  BY <1>1, BallsUnfold
<1> QED
  BY <1>2 DEF Widens, Ball, n

LEMMA BallGrows ==
  ASSUME NEW edges, NEW e, NEW n \in Nat
  PROVE  Ball(edges, e, n + 1) = Wider(edges, Ball(edges, e, n))
<1> DEFINE m == n + 1
           f == Balls(edges, e, n)
           g == Balls(edges, e, m)
<1>1. m \in Nat
  OBVIOUS
<1> HIDE DEF m
<1>2. Widens(edges, e, n, f) /\ Widens(edges, e, m, g)
  BY <1>1, BallsUnfold
<1> HIDE DEF f, g
<1> DEFINE P == {k \in 0 .. n : f[k] = g[k]}
<1>3. 0 \in P
  <2>1. f[0] = {e} /\ g[0] = {e}
    BY <1>2 DEF Widens
  <2>2. 0 \in 0 .. n
    OBVIOUS
  <2> QED
    BY <2>1, <2>2
<1>4. \A k \in 0 .. n - 1 : k \in P => k + 1 \in P
  <2> SUFFICES ASSUME NEW k \in 0 .. n - 1, k \in P
               PROVE  k + 1 \in P
    OBVIOUS
  <2>1. k + 1 \in 1 .. n /\ k + 1 \in 1 .. m /\ k + 1 \in 0 .. n /\ (k + 1) - 1 = k
    BY DEF m
  <2>2. f[k + 1] = Wider(edges, f[k]) /\ g[k + 1] = Wider(edges, g[k])
    BY <1>2, <2>1 DEF Widens
  <2> QED
    BY <2>1, <2>2
<1> HIDE DEF P
<1>5. \A k \in 0 .. n : k \in P
  BY <1>3, <1>4, InductionUpTo
<1>6. f[n] = g[n]
  BY <1>5 DEF P
<1>7. g[m] = Wider(edges, g[n])
  <2>1. m \in 1 .. m /\ m - 1 = n
    BY DEF m
  <2> QED
    BY <1>2, <2>1 DEF Widens
<1> QED
  BY <1>6, <1>7 DEF Ball, f, g, m

LEMMA BallIncreases ==
  ASSUME NEW edges, NEW e, NEW m \in Nat, NEW k \in 0 .. m
  PROVE  Ball(edges, e, k) \subseteq Ball(edges, e, m)
<1> DEFINE P == {j \in 0 .. m - k : Ball(edges, e, k) \subseteq Ball(edges, e, k + j)}
<1>1. 0 \in P
  <2>1. k + 0 = k /\ 0 \in 0 .. m - k
    OBVIOUS
  <2> QED
    BY <2>1
<1>2. \A j \in 0 .. (m - k) - 1 : j \in P => j + 1 \in P
  <2> SUFFICES ASSUME NEW j \in 0 .. (m - k) - 1, j \in P
               PROVE  j + 1 \in P
    OBVIOUS
  <2> DEFINE i == k + j
  <2>1. i \in Nat /\ k + (j + 1) = i + 1 /\ j + 1 \in 0 .. m - k
    OBVIOUS
  <2> HIDE DEF i
  <2>2. Ball(edges, e, i + 1) = Wider(edges, Ball(edges, e, i))
    BY <2>1, BallGrows
  <2>3. Ball(edges, e, i) \subseteq Ball(edges, e, i + 1)
    BY <2>2 DEF Wider
  <2>4. Ball(edges, e, k) \subseteq Ball(edges, e, i)
    BY DEF i
  <2> QED
    BY <2>1, <2>3, <2>4
<1>3. m - k \in Nat /\ k + (m - k) = m
  OBVIOUS
<1> DEFINE d == m - k
<1>4. d \in Nat /\ \A j \in 0 .. d - 1 : j \in P => j + 1 \in P
  BY <1>2, <1>3
<1> HIDE DEF P, d
<1>5. \A j \in 0 .. d : j \in P
  BY <1>1, <1>4, InductionUpTo
<1>6. d \in P
  BY <1>4, <1>5
<1> QED
  BY <1>3, <1>6 DEF P, d

-----------------------------------------------------------------------------
\* A row after one more edge.
Extends(edges, row, r, target, next) ==
  /\ Last(row.path) # target
  /\ r \in edges /\ r.active /\ Last(row.path) \in {r.from, r.to}
  /\ next = OtherEnd(r, Last(row.path)) /\ next \notin ToSet(row.path)
Longer(row, r, next) ==
  [path |-> Append(row.path, next), weight |-> row.weight + r.weight]

LEMMA StepsExtend ==
  ASSUME NEW edges, NEW S, NEW target, NEW x
  PROVE  x \in Steps(edges, S, target) <=>
           \E row \in S, r \in edges : \E next :
             Extends(edges, row, r, target, next) /\ x = Longer(row, r, next)
BY DEF Steps, Extended, EdgesAt, Active, Extends, Longer

LEMMA StepsTake ==
  ASSUME NEW edges, NEW S, NEW target, NEW row \in S, NEW r \in edges, NEW next,
         Extends(edges, row, r, target, next)
  PROVE  Longer(row, r, next) \in Steps(edges, S, target)
BY StepsExtend

LEMMA TrailEnds ==
  ASSUME NEW E, NEW row \in Trails(E)
  PROVE  /\ Len(row.path) \in Nat \ {0} /\ Last(row.path) = row.path[Len(row.path)]
         /\ Last(row.path) \in E /\ Last(row.path) \in ToSet(row.path)
         /\ ToSet(row.path) \subseteq E /\ row.path \in Seq(E) /\ row.weight \in Nat
<1>1. row.path \in Seq(E) /\ row.path # <<>> /\ row.weight \in Nat
  BY DEF Trails
<1> DEFINE p == row.path
<1> HIDE DEF p
<1>2. p \in Seq(E) /\ p # <<>>
  BY <1>1 DEF p
<1>3. Len(p) \in Nat \ {0} /\ DOMAIN p = 1 .. Len(p)
  BY <1>2
<1>4. Last(p) = p[Len(p)] /\ Len(p) \in DOMAIN p
  BY <1>3 DEF Last
<1>5. Last(p) \in E /\ Last(p) \in ToSet(p) /\ ToSet(p) \subseteq E
  BY <1>2, <1>3, <1>4 DEF ToSet
<1> QED
  BY <1>1, <1>3, <1>4, <1>5 DEF p

IsLonger(E, row, r, next, x) ==
  /\ x \in Trails(E) /\ next \in E
  /\ Len(x.path) = Len(row.path) + 1 /\ Last(x.path) = next
  /\ \A i \in 1 .. Len(row.path) : x.path[i] = row.path[i]
  /\ x.path[Len(row.path) + 1] = next
  /\ ToSet(x.path) = ToSet(row.path) \cup {next}
  /\ x.path = Append(row.path, next) /\ x.weight = row.weight + r.weight
  /\ {r.from, r.to} = {Last(row.path), next}

LEMMA LongerIsTrail ==
  ASSUME NEW E, NEW edges \in SUBSET Rels(E), NEW row \in Trails(E), NEW r \in edges,
         NEW target, NEW next, Extends(edges, row, r, target, next)
  PROVE  IsLonger(E, row, r, next, Longer(row, r, next))
<1> DEFINE x == Longer(row, r, next)
           p == row.path
           n == Len(p)
<1>1. /\ p \in Seq(E) /\ n \in Nat \ {0} /\ row.weight \in Nat
  BY TrailEnds
<1>2. next \in E /\ r.weight \in Nat /\ {r.from, r.to} = {Last(p), next}
  BY DEF Extends, OtherEnd, Rels
<1>3. x.path = Append(p, next) /\ x.weight = row.weight + r.weight
  BY DEF Longer
<1>4. x \in [path : Seq(E), weight : Nat]
  <2>1. Append(p, next) \in Seq(E) /\ row.weight + r.weight \in Nat
    BY <1>1, <1>2
  <2> QED
    BY <2>1 DEF Longer
<1> HIDE DEF x, p, n
<1>5. /\ x.path \in Seq(E) /\ Len(x.path) = n + 1 /\ x.path[n + 1] = next
      /\ \A i \in 1 .. n : x.path[i] = p[i]
  BY <1>1, <1>2, <1>3 DEF n
<1>6. ToSet(x.path) = ToSet(p) \cup {next}
  BY <1>1, <1>2, <1>3, AppendElements
<1>7. Last(x.path) = next /\ x.path # <<>>
  BY <1>1, <1>5 DEF Last
<1>8. x \in Trails(E)
  BY <1>4, <1>7 DEF Trails
<1> QED
  BY <1>2, <1>3, <1>5, <1>6, <1>7, <1>8 DEF x, p, n, IsLonger

LEMMA StepsAreTrails ==
  ASSUME NEW E, NEW edges \in SUBSET Rels(E), NEW S \in SUBSET Trails(E), NEW target
  PROVE  Steps(edges, S, target) \in SUBSET Trails(E)
<1> SUFFICES ASSUME NEW x \in Steps(edges, S, target)
             PROVE  x \in Trails(E)
  OBVIOUS
<1>1. PICK row \in S, r \in edges :
        \E next : Extends(edges, row, r, target, next) /\ x = Longer(row, r, next)
  BY StepsExtend
<1>2. PICK next : Extends(edges, row, r, target, next) /\ x = Longer(row, r, next)
  BY <1>1
<1>3. IsLonger(E, row, r, next, x)
  BY <1>2, LongerIsTrail
<1> QED
  BY <1>3 DEF IsLonger

Climbs(E, edges, e, target, n, f) ==
  /\ f[0] = {[path |-> <<e>>, weight |-> 0]}
  /\ \A k \in 1 .. n : f[k] = Steps(edges, f[k - 1], target)
  /\ \A k \in 0 .. n : f[k] \in SUBSET Trails(E)

LEMMA LevelsUnfold ==
  ASSUME NEW E, NEW edges \in SUBSET Rels(E), NEW e \in E, NEW target, NEW n \in Nat
  PROVE  Climbs(E, edges, e, target, n, Levels(edges, e, target, n))
<1> DEFINE X == SUBSET Trails(E)
           start == {[path |-> <<e>>, weight |-> 0]}
           step == [S \in X |-> Steps(edges, S, target)]
           Loop(f) == f = [k \in 0 .. n |-> IF k = 0 THEN start
                                            ELSE Steps(edges, f[k - 1], target)]
<1>1. start \in X
  BY DEF Trails
<1>2. step \in [X -> X]
  <2>1. ASSUME NEW S \in X
        PROVE  Steps(edges, S, target) \in X
    BY StepsAreTrails
  <2> QED
    BY <2>1
<1>3. \A S \in X : step[S] = Steps(edges, S, target)
  OBVIOUS
<1> HIDE DEF X, step
<1>4. Levels(edges, e, target, n) = CHOOSE g : Loop(g)
  BY DEF Levels
<1> HIDE DEF start
<1>5. PICK f \in [0 .. n -> X] : Iterates(f, n, start, step)
  BY <1>1, <1>2, RecursionUpTo
<1>6. ASSUME NEW k \in 0 .. n, k # 0
      PROVE  f[k] = Steps(edges, f[k - 1], target)
  <2>1. f[k - 1] \in X /\ k \in 1 .. n
    BY <1>6
  <2> QED
    BY <1>3, <1>5, <2>1 DEF Iterates
<1>7. Loop(f)
  <2>1. f[0] = start
    BY <1>5 DEF Iterates
  <2>2. \A k \in 0 .. n : f[k] = IF k = 0 THEN start ELSE Steps(edges, f[k - 1], target)
    BY <1>6, <2>1
  <2> QED
    BY <2>2
<1> DEFINE g == Levels(edges, e, target, n)
<1>8. Loop(g)
  BY <1>4, <1>7
<1> HIDE DEF g
<1>9. g[0] = start /\ \A k \in 1 .. n : g[k] = Steps(edges, g[k - 1], target)
  <2>1. \A k \in 0 .. n : g[k] = IF k = 0 THEN start ELSE Steps(edges, g[k - 1], target)
    BY <1>8
  <2> QED
    BY <2>1
<1> DEFINE P == {k \in 0 .. n : g[k] \in X}
<1>10. 0 \in P
  BY <1>1, <1>9
<1>11. \A k \in 0 .. n - 1 : k \in P => k + 1 \in P
  <2> SUFFICES ASSUME NEW k \in 0 .. n - 1, k \in P
               PROVE  k + 1 \in P
    OBVIOUS
  <2>1. k + 1 \in 1 .. n /\ k + 1 \in 0 .. n /\ (k + 1) - 1 = k
    OBVIOUS
  <2>2. g[k + 1] = Steps(edges, g[k], target)
    BY <1>9, <2>1
  <2>3. Steps(edges, g[k], target) \in X
    BY StepsAreTrails DEF X
  <2> QED
    BY <2>1, <2>2, <2>3
<1> HIDE DEF P
<1>12. \A k \in 0 .. n : k \in P
  BY <1>10, <1>11, InductionUpTo
<1> QED
  BY <1>9, <1>12 DEF P, X, g, start, Climbs

\* A row after k edges: it begins at the entity asked for, each next one is
\* joined to the one before it, and breadth finds the last one within k.
IsTrail(edges, e, row, k) ==
  /\ Len(row.path) = k + 1 /\ row.path[1] = e
  /\ Last(row.path) \in Ball(edges, e, k)
  /\ \A i \in 1 .. k : Between(edges, row.path[i], row.path[i + 1]) # {}

LEMMA RowsAreTrails ==
  ASSUME NEW E, NEW edges \in SUBSET Rels(E), NEW e \in E, NEW target,
         NEW n \in Nat, NEW f, Climbs(E, edges, e, target, n, f)
  PROVE  \A k \in 0 .. n : \A row \in f[k] : IsTrail(edges, e, row, k)
<1> DEFINE P == {k \in 0 .. n : \A row \in f[k] : IsTrail(edges, e, row, k)}
<1>1. 0 \in P
  <2> SUFFICES ASSUME NEW row \in f[0]
               PROVE  IsTrail(edges, e, row, 0)
    OBVIOUS
  <2>1. row.path = <<e>>
    BY DEF Climbs
  <2>2. Len(<<e>>) = 1 /\ <<e>>[1] = e /\ Last(<<e>>) = e
    BY DEF Last
  <2>3. e \in Ball(edges, e, 0)
    BY BallStarts
  <2> QED
    BY <2>1, <2>2, <2>3 DEF IsTrail
<1>2. \A k \in 0 .. n - 1 : k \in P => k + 1 \in P
  <2> SUFFICES ASSUME NEW k \in 0 .. n - 1, k \in P, NEW x \in f[k + 1]
               PROVE  IsTrail(edges, e, x, k + 1)
    <3>1. \A k \in 0 .. n - 1 : k + 1 \in 0 .. n
      OBVIOUS
    <3> QED
      BY <3>1
  <2>1. k \in Nat /\ k + 1 \in 1 .. n /\ (k + 1) - 1 = k /\ k \in 0 .. n
    OBVIOUS
  <2>2. x \in Steps(edges, f[k], target) /\ f[k] \in SUBSET Trails(E)
    BY <2>1 DEF Climbs
  <2>3. PICK row \in f[k], r \in edges :
          \E next : Extends(edges, row, r, target, next) /\ x = Longer(row, r, next)
    BY <2>2, StepsExtend
  <2>4. PICK next : Extends(edges, row, r, target, next) /\ x = Longer(row, r, next)
    BY <2>3
  <2>5. row \in Trails(E) /\ IsTrail(edges, e, row, k)
    BY <2>2
  <2>6. IsLonger(E, row, r, next, x)
    BY <2>4, <2>5, LongerIsTrail
  <2>7. /\ Len(row.path) = k + 1 /\ row.path[1] = e
        /\ Last(row.path) = row.path[k + 1] /\ Last(row.path) \in Ball(edges, e, k)
        /\ \A i \in 1 .. k : Between(edges, row.path[i], row.path[i + 1]) # {}
    BY <2>5, TrailEnds DEF IsTrail
  <2>8. next \in Ball(edges, e, k + 1)
    <3>1. r \in Touching(edges, Ball(edges, e, k))
      BY <2>4, <2>6, <2>7 DEF Touching, Extends, IsLonger
    <3>2. Ball(edges, e, k + 1) = Wider(edges, Ball(edges, e, k))
      BY <2>1, BallGrows
    <3>3. next \in {r.from, r.to}
      BY <2>6 DEF IsLonger
    <3> QED
      BY <3>1, <3>2, <3>3 DEF Wider
  <2>9. /\ Len(x.path) = (k + 1) + 1 /\ x.path[1] = e
        /\ \A i \in 1 .. k : x.path[i] = row.path[i] /\ x.path[i + 1] = row.path[i + 1]
        /\ x.path[k + 1] = Last(row.path) /\ x.path[(k + 1) + 1] = next
    BY <2>1, <2>6, <2>7 DEF IsLonger
  <2>10. r \in Between(edges, Last(row.path), next)
    BY <2>4, <2>6 DEF Between, Active, Extends, IsLonger
  <2>11. ASSUME NEW i \in 1 .. k + 1
         PROVE  Between(edges, x.path[i], x.path[i + 1]) # {}
    <3>1. CASE i = k + 1
      BY <2>9, <2>10, <3>1
    <3>2. CASE i # k + 1
      <4>1. i \in 1 .. k
        BY <2>1, <3>2
      <4> QED
        BY <2>7, <2>9, <4>1
    <3> QED
      BY <3>1, <3>2
  <2> QED
    BY <2>6, <2>8, <2>9, <2>11 DEF IsTrail, IsLonger
<1> HIDE DEF P
<1>3. \A k \in 0 .. n : k \in P
  BY <1>1, <1>2, InductionUpTo
<1> QED
  BY <1>3 DEF P

-----------------------------------------------------------------------------
\* What breadth finds after k edges and not before, a row ends at after k edges.
Nearer(edges, e, k) == IF k = 0 THEN {} ELSE Ball(edges, e, k - 1)
FoundBy(edges, e, k, S, b) ==
  \E row \in S : Last(row.path) = b /\ ToSet(row.path) \subseteq Ball(edges, e, k)

LEMMA RowsFindAll ==
  ASSUME NEW E, NEW edges \in SUBSET Rels(E), NEW e \in E, NEW target,
         NEW n \in Nat, NEW f, Climbs(E, edges, e, target, n, f)
  PROVE  \A k \in 0 .. n : target \notin Nearer(edges, e, k) =>
           \A b \in Ball(edges, e, k) \ Nearer(edges, e, k) :
             FoundBy(edges, e, k, f[k], b)
<1> DEFINE P == {k \in 0 .. n : target \notin Nearer(edges, e, k) =>
                   \A b \in Ball(edges, e, k) \ Nearer(edges, e, k) :
                     FoundBy(edges, e, k, f[k], b)}
<1>1. 0 \in P
  <2> SUFFICES ASSUME NEW b \in Ball(edges, e, 0)
               PROVE  FoundBy(edges, e, 0, f[0], b)
    OBVIOUS
  <2> DEFINE row == [path |-> <<e>>, weight |-> 0]
  <2>1. row \in f[0] /\ row.path = <<e>>
    BY DEF Climbs
  <2>2. Last(<<e>>) = e /\ ToSet(<<e>>) = {e}
    BY DEF Last, ToSet
  <2>3. Ball(edges, e, 0) = {e}
    BY BallStarts
  <2> HIDE DEF row
  <2> QED
    BY <2>1, <2>2, <2>3 DEF FoundBy
<1>2. \A k \in 0 .. n - 1 : k \in P => k + 1 \in P
  <2> SUFFICES ASSUME NEW k \in 0 .. n - 1, k \in P,
                      target \notin Nearer(edges, e, k + 1),
                      NEW b \in Ball(edges, e, k + 1) \ Nearer(edges, e, k + 1)
               PROVE  FoundBy(edges, e, k + 1, f[k + 1], b)
    <3>1. \A k \in 0 .. n - 1 : k + 1 \in 0 .. n
      OBVIOUS
    <3> QED
      BY <3>1
  <2>1. /\ k \in Nat /\ k + 1 \in 1 .. n /\ (k + 1) - 1 = k /\ k \in 0 .. n
        /\ k + 1 # 0 /\ k + 1 \in Nat /\ k \in 0 .. k + 1
    OBVIOUS
  <2>2. Nearer(edges, e, k + 1) = Ball(edges, e, k)
    BY <2>1 DEF Nearer
  <2>3. /\ Ball(edges, e, k + 1) = Wider(edges, Ball(edges, e, k))
        /\ Ball(edges, e, k) \subseteq Ball(edges, e, k + 1)
    BY <2>1, BallGrows, BallIncreases
  <2>4. PICK r \in edges : /\ r.active /\ b \in {r.from, r.to}
                           /\ {r.from, r.to} \cap Ball(edges, e, k) # {}
    BY <2>2, <2>3 DEF Wider, Touching
  <2>5. PICK c \in Ball(edges, e, k) : c \in {r.from, r.to}
    BY <2>4
  <2>6. c # b /\ OtherEnd(r, c) = b /\ c # target
    BY <2>2, <2>4, <2>5 DEF OtherEnd
  <2>7. c \notin Nearer(edges, e, k) /\ target \notin Nearer(edges, e, k)
    <3>1. CASE k = 0
      BY <3>1 DEF Nearer
    <3>2. CASE k # 0
      <4> DEFINE j == k - 1
      <4>1. j \in Nat /\ j + 1 = k /\ j \in 0 .. k
        BY <2>1, <3>2
      <4>2. Nearer(edges, e, k) = Ball(edges, e, j)
        BY <3>2 DEF Nearer
      <4> HIDE DEF j
      <4>3. Ball(edges, e, k) = Wider(edges, Ball(edges, e, j))
        BY <4>1, BallGrows
      <4>4. Ball(edges, e, j) \subseteq Ball(edges, e, k)
        BY <2>1, <4>1, BallIncreases
      <4>5. c \notin Ball(edges, e, j)
        <5> SUFFICES ASSUME c \in Ball(edges, e, j)
                     PROVE  FALSE
          OBVIOUS
        <5>1. r \in Touching(edges, Ball(edges, e, j))
          BY <2>4, <2>5 DEF Touching
        <5>2. b \in Ball(edges, e, k)
          BY <2>4, <4>3, <5>1 DEF Wider
        <5> QED
          BY <2>2, <5>2
      <4> QED
        BY <2>2, <4>2, <4>4, <4>5
    <3> QED
      BY <3>1, <3>2
  <2>8. FoundBy(edges, e, k, f[k], c)
    BY <2>7
  <2>9. PICK row \in f[k] : Last(row.path) = c /\ ToSet(row.path) \subseteq Ball(edges, e, k)
    BY <2>8 DEF FoundBy
  <2>10. Extends(edges, row, r, target, b)
    BY <2>2, <2>4, <2>5, <2>6, <2>9 DEF Extends
  <2> DEFINE x == Longer(row, r, b)
  <2>11. f[k + 1] = Steps(edges, f[k], target) /\ row \in Trails(E)
    BY <2>1 DEF Climbs
  <2>12. x \in f[k + 1]
    BY <2>10, <2>11, StepsTake
  <2>13. Last(x.path) = b /\ ToSet(x.path) = ToSet(row.path) \cup {b}
    <3>1. IsLonger(E, row, r, b, x)
      BY <2>10, <2>11, LongerIsTrail
    <3> QED
      BY <3>1 DEF IsLonger
  <2> HIDE DEF x
  <2> QED
    BY <2>3, <2>9, <2>12, <2>13 DEF FoundBy
<1> HIDE DEF P
<1>3. \A k \in 0 .. n : k \in P
  BY <1>1, <1>2, InductionUpTo
<1> QED
  BY <1>3 DEF P

\* Of the edges between two entities a path takes the lightest.
LEMMA LightestExists ==
  ASSUME NEW E, NEW edges \in SUBSET Rels(E), edges # {}
  PROVE  /\ Lightest(edges) \in edges
         /\ \A x \in edges : Lightest(edges).weight <= x.weight
<1> DEFINE T == {r.weight : r \in edges}
<1>1. T \in SUBSET Nat /\ T # {}
  BY DEF Rels
<1>2. PICK w \in T : \A y \in T : w <= y
  <2> HIDE DEF T
  <2> QED
    BY <1>1, LeastNatural
<1>3. PICK r \in edges : r.weight = w
  OBVIOUS
<1>4. \A x \in edges : r.weight <= x.weight
  BY <1>2, <1>3
<1> QED
  BY <1>4 DEF Lightest

AlongWeights(edges, path) ==
  [i \in 1 .. Len(path) - 1 |-> Along(edges, path)[i].weight]
PathWeight(edges, path) == Total(AlongWeights(edges, path), Len(path) - 1)
Joined(edges, path) ==
  \A i \in 1 .. Len(path) - 1 : Between(edges, path[i], path[i + 1]) # {}
LightestBetween(edges, a, b) == Lightest(Between(edges, a, b))

Joins(edges, a, b, l) ==
  /\ l \in edges /\ l.active /\ {l.from, l.to} = {a, b} /\ l.weight \in Nat
  /\ \A r \in Between(edges, a, b) : l.weight <= r.weight

LEMMA LightestJoins ==
  ASSUME NEW E, NEW edges \in SUBSET Rels(E), NEW a, NEW b, Between(edges, a, b) # {}
  PROVE  Joins(edges, a, b, LightestBetween(edges, a, b))
<1> DEFINE G == Between(edges, a, b)
<1>1. G \in SUBSET edges /\ G # {}
  BY DEF Between, Active
<1>2. G \in SUBSET Rels(E)
  BY <1>1
<1> HIDE DEF G
<1>3. Lightest(G) \in G /\ \A x \in G : Lightest(G).weight <= x.weight
  BY <1>1, <1>2, LightestExists
<1>4. LightestBetween(edges, a, b) = Lightest(G)
  BY DEF LightestBetween, G
<1>5. /\ Lightest(G) \in edges /\ Lightest(G).active
      /\ {Lightest(G).from, Lightest(G).to} = {a, b}
  BY <1>3 DEF G, Between, Active
<1>6. Lightest(G).weight \in Nat
  BY <1>2, <1>3 DEF Rels
<1> QED
  BY <1>3, <1>4, <1>5, <1>6 DEF G, Joins

LEMMA AlongIsLightest ==
  ASSUME NEW E, NEW edges \in SUBSET Rels(E), NEW path, Len(path) \in Nat,
         Joined(edges, path)
  PROVE  /\ AlongWeights(edges, path) \in [1 .. Len(path) - 1 -> Int]
         /\ \A i \in 1 .. Len(path) - 1 :
              /\ Along(edges, path)[i] = LightestBetween(edges, path[i], path[i + 1])
              /\ AlongWeights(edges, path)[i]
                   = LightestBetween(edges, path[i], path[i + 1]).weight
<1>1. ASSUME NEW i \in 1 .. Len(path) - 1
      PROVE  /\ Along(edges, path)[i] = LightestBetween(edges, path[i], path[i + 1])
             /\ AlongWeights(edges, path)[i] = Along(edges, path)[i].weight
             /\ Along(edges, path)[i].weight \in Int
  <2>1. Along(edges, path)[i] = LightestBetween(edges, path[i], path[i + 1])
    BY DEF Along, LightestBetween
  <2>2. Between(edges, path[i], path[i + 1]) # {}
    BY DEF Joined
  <2>3. LightestBetween(edges, path[i], path[i + 1]).weight \in Nat
    <3>1. Joins(edges, path[i], path[i + 1],
                LightestBetween(edges, path[i], path[i + 1]))
      BY <2>2, LightestJoins
    <3> QED
      BY <3>1 DEF Joins
  <2> QED
    BY <2>1, <2>3 DEF AlongWeights
<1>2. AlongWeights(edges, path) \in [1 .. Len(path) - 1 -> Int]
  BY <1>1 DEF AlongWeights
<1> QED
  BY <1>1, <1>2

GrowsBy(edges, p, q, more) ==
  /\ PathWeight(edges, p) \in Int
  /\ PathWeight(edges, q) = PathWeight(edges, p) + more

LEMMA PathWeightGrows ==
  ASSUME NEW E, NEW edges \in SUBSET Rels(E), NEW row \in Trails(E), NEW r, NEW next,
         NEW x, IsLonger(E, row, r, next, x), Joined(edges, row.path),
         Joined(edges, x.path)
  PROVE  GrowsBy(edges, row.path, x.path,
                 LightestBetween(edges, Last(row.path), next).weight)
<1> DEFINE p == row.path
           q == x.path
           m == Len(p)
           k == Len(p) - 1
           f == AlongWeights(edges, p)
           e == AlongWeights(edges, q)
<1>1. /\ m \in Nat \ {0} /\ Len(q) = m + 1 /\ Last(p) = p[m] /\ q[m + 1] = next
      /\ \A i \in 1 .. m : q[i] = p[i]
  BY TrailEnds DEF IsLonger
<1>2. Joined(edges, p) /\ Joined(edges, q)
  OBVIOUS
<1> HIDE DEF p, q
<1>3. /\ f \in [1 .. Len(p) - 1 -> Int]
      /\ \A i \in 1 .. Len(p) - 1 : f[i] = LightestBetween(edges, p[i], p[i + 1]).weight
  <2>1. Len(p) \in Nat
    BY <1>1
  <2> QED
    BY <1>2, <2>1, AlongIsLightest
<1>4. /\ e \in [1 .. Len(q) - 1 -> Int]
      /\ \A i \in 1 .. Len(q) - 1 : e[i] = LightestBetween(edges, q[i], q[i + 1]).weight
  <2>1. Len(q) \in Nat
    BY <1>1
  <2> QED
    BY <1>2, <2>1, AlongIsLightest
<1> HIDE DEF e, f
<1>5. k \in Nat /\ m = k + 1 /\ Len(q) - 1 = m
  BY <1>1
<1>6. Len(p) - 1 = k /\ m \in Nat
  BY <1>1
<1> HIDE DEF k, m
<1>7. f \in [1 .. k -> Int] /\ e \in [1 .. m -> Int] /\ m >= k /\ k \in 0 .. m - 1
  <2>1. f \in [1 .. k -> Int] /\ e \in [1 .. m -> Int]
    BY <1>3, <1>4, <1>5, <1>6
  <2>2. m >= k /\ k \in 0 .. m - 1
    BY <1>5, <1>6
  <2> QED
    BY <2>1, <2>2
<1>8. \A i \in 1 .. k : e[i] = f[i]
  <2> SUFFICES ASSUME NEW i \in 1 .. k
               PROVE  e[i] = f[i]
    OBVIOUS
  <2>1. i \in 1 .. m /\ i + 1 \in 1 .. m /\ i \in 1 .. Len(p) - 1 /\ i \in 1 .. Len(q) - 1
    BY <1>5, <1>6
  <2>2. q[i] = p[i] /\ q[i + 1] = p[i + 1]
    BY <1>1, <2>1
  <2> QED
    BY <1>3, <1>4, <2>1, <2>2
<1>9. Total(e, k) = Total(f, k)
  BY <1>5, <1>6, <1>7, <1>8, TotalAgrees
<1>10. /\ Total(e, k) \in Int
       /\ Total(e, k + 1) = Total(e, k) + e[k + 1]
  BY <1>5, <1>6, <1>7, TotalGrows
<1>11. e[m] = LightestBetween(edges, Last(p), next).weight
  <2>1. m \in 1 .. Len(q) - 1 /\ m \in 1 .. m
    BY <1>5, <1>6
  <2> QED
    BY <1>1, <1>4, <2>1
<1>12. PathWeight(edges, p) = Total(f, k) /\ PathWeight(edges, q) = Total(e, m)
  BY <1>5, <1>6 DEF PathWeight, e, f
<1> QED
  BY <1>5, <1>9, <1>10, <1>11, <1>12 DEF p, q, GrowsBy

HasLightest(edges, S, row) ==
  \E x \in S : /\ x.path = row.path /\ x.weight = PathWeight(edges, row.path)
               /\ x.weight <= row.weight

LEMMA TrailsAreJoined ==
  ASSUME NEW edges, NEW e, NEW row, NEW k \in Nat, IsTrail(edges, e, row, k)
  PROVE  Joined(edges, row.path)
<1>1. Len(row.path) - 1 = k
  BY DEF IsTrail
<1> QED
  BY <1>1 DEF IsTrail, Joined

LEMMA RowsHaveLightest ==
  ASSUME NEW E, NEW edges \in SUBSET Rels(E), NEW e \in E, NEW target,
         NEW n \in Nat, NEW f, Climbs(E, edges, e, target, n, f)
  PROVE  \A k \in 0 .. n : \A row \in f[k] : HasLightest(edges, f[k], row)
<1> DEFINE P == {k \in 0 .. n : \A row \in f[k] : HasLightest(edges, f[k], row)}
<1>1. 0 \in P
  <2> SUFFICES ASSUME NEW row \in f[0]
               PROVE  HasLightest(edges, f[0], row)
    OBVIOUS
  <2>1. row.path = <<e>> /\ row.weight = 0
    BY DEF Climbs
  <2> DEFINE a == AlongWeights(edges, row.path)
             z == 0
  <2>2. Len(row.path) - 1 = z /\ z \in Nat
    BY <2>1
  <2>3. a \in [1 .. z -> Int]
    <3>1. a = [i \in 1 .. z |-> Along(edges, row.path)[i].weight]
      BY <2>2 DEF AlongWeights
    <3>2. \A i \in 1 .. z : Along(edges, row.path)[i].weight \in Int
      OBVIOUS
    <3> HIDE DEF a, z
    <3> QED
      BY <3>1, <3>2
  <2> HIDE DEF a, z
  <2>4. z = 0 => Total(a, z) = 0
    BY <2>2, <2>3, TotalUnfolds
  <2>5. PathWeight(edges, row.path) = Total(a, z) /\ z = 0
    BY <2>2 DEF PathWeight, a, z
  <2>6. PathWeight(edges, row.path) = 0
    BY <2>4, <2>5
  <2> QED
    BY <2>1, <2>6 DEF HasLightest
<1>2. \A k \in 0 .. n - 1 : k \in P => k + 1 \in P
  <2> SUFFICES ASSUME NEW k \in 0 .. n - 1, k \in P, NEW x \in f[k + 1]
               PROVE  HasLightest(edges, f[k + 1], x)
    <3>1. \A k \in 0 .. n - 1 : k + 1 \in 0 .. n
      OBVIOUS
    <3> QED
      BY <3>1
  <2>1. /\ k \in Nat /\ k + 1 \in 1 .. n /\ (k + 1) - 1 = k /\ k \in 0 .. n
        /\ k + 1 \in Nat /\ k + 1 \in 0 .. n
    OBVIOUS
  <2>2. /\ f[k + 1] = Steps(edges, f[k], target) /\ f[k] \in SUBSET Trails(E)
    BY <2>1 DEF Climbs
  <2>3. PICK row \in f[k], r \in edges :
          \E next : Extends(edges, row, r, target, next) /\ x = Longer(row, r, next)
    BY <2>2, StepsExtend
  <2>4. PICK next : Extends(edges, row, r, target, next) /\ x = Longer(row, r, next)
    BY <2>3
  <2>5. row \in Trails(E) /\ HasLightest(edges, f[k], row)
    BY <2>2
  <2>6. IsLonger(E, row, r, next, x)
    BY <2>4, <2>5, LongerIsTrail
  <2>7. IsTrail(edges, e, row, k) /\ IsTrail(edges, e, x, k + 1)
    BY <2>1, RowsAreTrails
  <2>8. Joined(edges, row.path) /\ Joined(edges, x.path)
    BY <2>1, <2>7, TrailsAreJoined
  <2> DEFINE l == LightestBetween(edges, Last(row.path), next)
  <2>9. /\ PathWeight(edges, row.path) \in Int
        /\ PathWeight(edges, x.path) = PathWeight(edges, row.path) + l.weight
    <3>1. row \in Trails(E)
      BY <2>5
    <3>2. GrowsBy(edges, row.path, x.path, l.weight)
      BY <3>1, <2>6, <2>8, PathWeightGrows
    <3> HIDE DEF l
    <3> QED
      BY <3>2 DEF GrowsBy
  <2>10. r \in Between(edges, Last(row.path), next)
    BY <2>4, <2>6 DEF Between, Active, Extends, IsLonger
  <2>11. /\ l \in edges /\ l.active /\ {l.from, l.to} = {Last(row.path), next}
         /\ l.weight \in Nat /\ l.weight <= r.weight
    <3>1. Between(edges, Last(row.path), next) # {}
      BY <2>10
    <3>2. Joins(edges, Last(row.path), next, l)
      BY <3>1, LightestJoins
    <3> HIDE DEF l
    <3> QED
      BY <2>10, <3>2 DEF Joins
  <2> HIDE DEF l
  <2>12. PICK y \in f[k] : /\ y.path = row.path /\ y.weight = PathWeight(edges, row.path)
                           /\ y.weight <= row.weight
    BY <2>5 DEF HasLightest
  <2>13. Extends(edges, y, l, target, next)
    <3>1. Last(row.path) \in ToSet(row.path)
      BY <2>5, TrailEnds
    <3>2. next \notin ToSet(row.path) /\ Last(row.path) # target
      BY <2>4 DEF Extends
    <3>3. next # Last(row.path)
      BY <3>1, <3>2
    <3>4. Last(row.path) \in {l.from, l.to} /\ next = OtherEnd(l, Last(row.path))
      BY <2>11, <3>3 DEF OtherEnd
    <3> QED
      BY <2>11, <2>12, <3>2, <3>4 DEF Extends
  <2> DEFINE v == Longer(y, l, next)
  <2>14. v \in f[k + 1]
    <3>1. l \in edges
      BY <2>11
    <3> QED
      BY <2>2, <2>13, <3>1, StepsTake
  <2>15. v.path = x.path /\ v.weight = y.weight + l.weight
    BY <2>4, <2>12 DEF Longer
  <2>16. x.weight = row.weight + r.weight /\ row.weight \in Nat /\ r.weight \in Nat
    <3>1. r.weight \in Nat
      BY DEF Rels
    <3> QED
      BY <2>5, <2>6, <3>1, TrailEnds DEF IsLonger
  <2> HIDE DEF v
  <2>17. v.weight = PathWeight(edges, x.path) /\ v.weight <= x.weight
    BY <2>9, <2>11, <2>12, <2>15, <2>16
  <2> QED
    BY <2>14, <2>15, <2>17 DEF HasLightest
<1> HIDE DEF P
<1>3. \A k \in 0 .. n : k \in P
  BY <1>1, <1>2, InductionUpTo
<1> QED
  BY <1>3 DEF P

LEMMA NearestExists ==
  ASSUME NEW edges, NEW e, NEW n \in Nat, NEW b \in Ball(edges, e, n)
  PROVE  \E k \in 0 .. n : b \in Ball(edges, e, k) \ Nearer(edges, e, k)
<1> DEFINE T == {k \in 0 .. n : b \in Ball(edges, e, k)}
<1>1. T \in SUBSET Nat /\ n \in T
  OBVIOUS
<1>2. PICK k \in T : \A j \in T : k <= j
  <2> HIDE DEF T
  <2>1. T # {}
    BY <1>1
  <2> QED
    BY <1>1, <2>1, LeastNatural
<1>3. k \in 0 .. n /\ b \in Ball(edges, e, k)
  OBVIOUS
<1>4. b \notin Nearer(edges, e, k)
  <2>1. CASE k = 0
    BY <2>1 DEF Nearer
  <2>2. CASE k # 0
    <3>1. k - 1 \in 0 .. n /\ ~ k <= k - 1
      BY <1>3, <2>2
    <3>2. k - 1 \notin T
      BY <1>2, <3>1
    <3>3. b \notin Ball(edges, e, k - 1)
      BY <3>1, <3>2
    <3> QED
      BY <2>2, <3>3 DEF Nearer
  <2> QED
    BY <2>1, <2>2
<1> QED
  BY <1>3, <1>4

LEMMA BallInside ==
  ASSUME NEW E, NEW edges \in SUBSET Rels(E), NEW e \in E, NEW n \in Nat
  PROVE  Ball(edges, e, n) \subseteq E
<1>1. Widens(edges, e, n, Balls(edges, e, n))
  BY BallsUnfold
<1>2. Ends(edges, e) \subseteq E
  BY DEF Ends, Rels
<1> QED
  BY <1>1, <1>2 DEF Widens, Ball

\* A row of the query, after k edges.
RowAt(edges, e, target, n, k, row) ==
  k \in 0 .. n /\ row \in Levels(edges, e, target, n)[k]

\* What is known of it.
Holds(E, edges, e, target, n, k, row) ==
  /\ row \in Trails(E) /\ IsTrail(edges, e, row, k)
  /\ \E x : /\ RowAt(edges, e, target, n, k, x) /\ x.path = row.path
            /\ x.weight = PathWeight(edges, row.path) /\ x.weight <= row.weight

LEMMA RowsHold ==
  ASSUME NEW E, NEW edges \in SUBSET Rels(E), NEW e \in E, NEW target, NEW n \in Nat,
         NEW k, NEW row, RowAt(edges, e, target, n, k, row)
  PROVE  Holds(E, edges, e, target, n, k, row)
<1> DEFINE f == Levels(edges, e, target, n)
<1>1. Climbs(E, edges, e, target, n, f)
  BY LevelsUnfold
<1>2. k \in 0 .. n /\ row \in f[k]
  BY DEF RowAt
<1> HIDE DEF f
<1>3. \A j \in 0 .. n : \A x \in f[j] : IsTrail(edges, e, x, j)
  BY <1>1, RowsAreTrails
<1>4. \A j \in 0 .. n : \A x \in f[j] : HasLightest(edges, f[j], x)
  BY <1>1, RowsHaveLightest
<1>5. row \in Trails(E)
  BY <1>1, <1>2 DEF Climbs
<1>6. IsTrail(edges, e, row, k) /\ HasLightest(edges, f[k], row)
  BY <1>2, <1>3, <1>4
<1>7. PICK x \in f[k] : /\ x.path = row.path /\ x.weight = PathWeight(edges, row.path)
                        /\ x.weight <= row.weight
  BY <1>6 DEF HasLightest
<1>8. RowAt(edges, e, target, n, k, x)
  BY <1>2 DEF RowAt, f
<1> QED
  BY <1>5, <1>6, <1>7, <1>8 DEF Holds

LEMMA RowsReach ==
  ASSUME NEW E, NEW edges \in SUBSET Rels(E), NEW e \in E, NEW target, NEW n \in Nat,
         NEW k \in 0 .. n, target \notin Nearer(edges, e, k),
         NEW b \in Ball(edges, e, k), b \notin Nearer(edges, e, k)
  PROVE  \E row : RowAt(edges, e, target, n, k, row) /\ Last(row.path) = b
<1> DEFINE f == Levels(edges, e, target, n)
<1>1. Climbs(E, edges, e, target, n, f)
  BY LevelsUnfold
<1> HIDE DEF f
<1>2. \A j \in 0 .. n : target \notin Nearer(edges, e, j) =>
        \A c \in Ball(edges, e, j) \ Nearer(edges, e, j) :
          FoundBy(edges, e, j, f[j], c)
  BY <1>1, RowsFindAll
<1>3. FoundBy(edges, e, k, f[k], b)
  BY <1>2
<1> QED
  BY <1>3 DEF FoundBy, RowAt, f

LEMMA RowsUnfold ==
  ASSUME NEW edges, NEW e, NEW target, NEW n, NEW row
  PROVE  row \in Rows(edges, e, target, n)
           <=> \E k : RowAt(edges, e, target, n, k, row)
BY DEF Rows, RowAt

LEMMA RowsEndInBall ==
  ASSUME NEW E, NEW edges \in SUBSET Rels(E), NEW e \in E, NEW target, NEW n \in Nat,
         NEW row \in Rows(edges, e, target, n)
  PROVE  Last(row.path) \in Ball(edges, e, n)
<1>1. PICK k : RowAt(edges, e, target, n, k, row)
  BY RowsUnfold
<1>2. Holds(E, edges, e, target, n, k, row)
  BY <1>1, RowsHold
<1>3. k \in 0 .. n /\ Last(row.path) \in Ball(edges, e, k)
  BY <1>1, <1>2 DEF RowAt, Holds, IsTrail
<1>4. Ball(edges, e, k) \subseteq Ball(edges, e, n)
  BY <1>3, BallIncreases
<1> QED
  BY <1>3, <1>4

\* The neighbours are what breadth finds.
LEMMA NeighborsAreBall ==
  ASSUME NEW E, NEW edges \in SUBSET Rels(E), NEW e \in E, Nowhere \notin E,
         NEW n \in Nat
  PROVE  {Last(row.path) : row \in Rows(edges, e, Nowhere, n)} = Ball(edges, e, n)
<1>1. ASSUME NEW row \in Rows(edges, e, Nowhere, n)
      PROVE  Last(row.path) \in Ball(edges, e, n)
  BY <1>1, RowsEndInBall
<1>2. ASSUME NEW b \in Ball(edges, e, n)
      PROVE  \E row \in Rows(edges, e, Nowhere, n) : Last(row.path) = b
  <2>1. PICK k \in 0 .. n : b \in Ball(edges, e, k) \ Nearer(edges, e, k)
    BY NearestExists
  <2>2. Nowhere \notin Nearer(edges, e, k)
    <3>1. CASE k = 0
      BY <3>1 DEF Nearer
    <3>2. CASE k # 0
      <4> DEFINE j == k - 1
      <4>1. j \in Nat
        BY <3>2
      <4>2. Nearer(edges, e, k) = Ball(edges, e, j)
        BY <3>2 DEF Nearer
      <4> HIDE DEF j
      <4>3. Ball(edges, e, j) \subseteq E
        BY <4>1, BallInside
      <4> QED
        BY <4>2, <4>3
    <3> QED
      BY <3>1, <3>2
  <2>3. \E row : RowAt(edges, e, Nowhere, n, k, row) /\ Last(row.path) = b
    BY <2>1, <2>2, RowsReach
  <2> QED
    BY <2>3, RowsUnfold
<1> QED
  BY <1>1, <1>2

-----------------------------------------------------------------------------
\* The rows that end where a path was asked for.
Arrivals(edges, e, b, n) == {row \in Rows(edges, e, b, n) : Last(row.path) = b}

LEMMA ArrivalExists ==
  ASSUME NEW E, NEW edges \in SUBSET Rels(E), NEW e \in E, NEW b, NEW n \in Nat,
         NEW m \in 0 .. n, b \in Ball(edges, e, m)
  PROVE  \E x \in Arrivals(edges, e, b, n) : Len(x.path) <= m + 1
<1>1. m \in Nat /\ b \in Ball(edges, e, m)
  OBVIOUS
<1>2. PICK k \in 0 .. m : b \in Ball(edges, e, k) \ Nearer(edges, e, k)
  BY <1>1, NearestExists
<1>3. k \in 0 .. n
  OBVIOUS
<1>4. \E x : RowAt(edges, e, b, n, k, x) /\ Last(x.path) = b
  BY <1>2, <1>3, RowsReach
<1>5. PICK x : RowAt(edges, e, b, n, k, x) /\ Last(x.path) = b
  BY <1>4
<1>6. Holds(E, edges, e, b, n, k, x)
  BY <1>5, RowsHold
<1>7. Len(x.path) = k + 1
  BY <1>6 DEF Holds, IsTrail
<1>8. x \in Rows(edges, e, b, n)
  BY <1>5, RowsUnfold
<1>9. x \in Arrivals(edges, e, b, n)
  BY <1>5, <1>8 DEF Arrivals
<1>10. Len(x.path) <= m + 1
  BY <1>2, <1>7
<1> QED
  BY <1>9, <1>10

LEMMA BestExists ==
  ASSUME NEW E, NEW S \in SUBSET Trails(E), S # {}
  PROVE  \E best \in S : \A x \in S : ComesFirst(best, x)
<1> DEFINE T == {Len(x.path) : x \in S}
<1>1. \A x \in S : Len(x.path) \in Nat /\ x.weight \in Nat
  BY TrailEnds
<1>2. PICK l \in T : \A y \in T : l <= y
  <2>1. T \in SUBSET Nat /\ T # {}
    BY <1>1
  <2> HIDE DEF T
  <2> QED
    BY <2>1, LeastNatural
<1> DEFINE U == {x.weight : x \in {y \in S : Len(y.path) = l}}
<1>3. PICK w \in U : \A y \in U : w <= y
  <2>1. U \in SUBSET Nat /\ U # {}
    BY <1>1
  <2> HIDE DEF U
  <2> QED
    BY <2>1, LeastNatural
<1>4. PICK best \in S : Len(best.path) = l /\ best.weight = w
  OBVIOUS
<1>5. ASSUME NEW x \in S
      PROVE  ComesFirst(best, x)
  <2>1. l <= Len(x.path) /\ Len(x.path) \in Nat /\ l \in Nat
    BY <1>1, <1>2, <1>4
  <2>2. Len(x.path) = l => w <= x.weight
    BY <1>3
  <2> QED
    BY <1>4, <2>1, <2>2 DEF ComesFirst
<1> QED
  BY <1>5

\* A best row is of the least length, and as light as its path can be.
IsBest(E, edges, e, b, best) ==
  /\ best \in Trails(E) /\ best.path[1] = e /\ Last(best.path) = b
  /\ Len(best.path) \in Nat /\ Len(best.path) - 1 \in Nat \ {0}
  /\ Joined(edges, best.path)
  /\ b \notin Ball(edges, e, (Len(best.path) - 1) - 1)
  /\ best.weight = PathWeight(edges, best.path)

LEMMA BestIsBest ==
  ASSUME NEW E, NEW edges \in SUBSET Rels(E), NEW e \in E, NEW b, b # e, NEW n \in Nat,
         NEW best \in Arrivals(edges, e, b, n),
         \A x \in Arrivals(edges, e, b, n) : ComesFirst(best, x)
  PROVE  IsBest(E, edges, e, b, best)
<1>1. best \in Rows(edges, e, b, n) /\ Last(best.path) = b
  BY DEF Arrivals
<1>2. PICK k : RowAt(edges, e, b, n, k, best)
  BY <1>1, RowsUnfold
<1>3. Holds(E, edges, e, b, n, k, best)
  BY <1>2, RowsHold
<1>4. k \in 0 .. n /\ k \in Nat
  BY <1>2 DEF RowAt
<1>5. /\ best \in Trails(E) /\ IsTrail(edges, e, best, k)
      /\ Len(best.path) = k + 1 /\ best.path[1] = e
  BY <1>3 DEF Holds, IsTrail
<1>6. Joined(edges, best.path)
  BY <1>4, <1>5, TrailsAreJoined
<1>7. k # 0
  <2>1. Last(best.path) = best.path[Len(best.path)]
    BY <1>5, TrailEnds
  <2> QED
    BY <1>1, <1>5, <2>1
<1> DEFINE m == k - 1
<1>8. m \in 0 .. n /\ (Len(best.path) - 1) - 1 = m /\ Len(best.path) = m + 2
  BY <1>4, <1>5, <1>7
<1> HIDE DEF m
<1>9. b \notin Ball(edges, e, m)
  <2> SUFFICES ASSUME b \in Ball(edges, e, m)
               PROVE  FALSE
    OBVIOUS
  <2>1. PICK x \in Arrivals(edges, e, b, n) : Len(x.path) <= m + 1
    BY <1>8, ArrivalExists
  <2>2. ComesFirst(best, x)
    BY <2>1
  <2>3. Len(x.path) \in Nat
    <3>1. x \in Rows(edges, e, b, n)
      BY DEF Arrivals
    <3>2. PICK j : RowAt(edges, e, b, n, j, x)
      BY <3>1, RowsUnfold
    <3>3. Holds(E, edges, e, b, n, j, x)
      BY <3>2, RowsHold
    <3> QED
      BY <3>3, TrailEnds DEF Holds
  <2> QED
    BY <1>8, <2>1, <2>2, <2>3 DEF ComesFirst
<1>10. best.weight = PathWeight(edges, best.path)
  <2>1. PICK x : /\ RowAt(edges, e, b, n, k, x) /\ x.path = best.path
                 /\ x.weight = PathWeight(edges, best.path) /\ x.weight <= best.weight
    BY <1>3 DEF Holds
  <2>2. x \in Rows(edges, e, b, n)
    BY <2>1, RowsUnfold
  <2>3. x \in Arrivals(edges, e, b, n)
    BY <1>1, <2>1, <2>2 DEF Arrivals
  <2>4. ComesFirst(best, x)
    BY <2>3
  <2>5. Len(best.path) \in Nat /\ best.weight \in Nat
    BY <1>5, TrailEnds
  <2>6. x.weight \in Nat
    <3>1. Holds(E, edges, e, b, n, k, x)
      BY <2>1, RowsHold
    <3> QED
      BY <3>1, TrailEnds DEF Holds
  <2>7. best.weight <= x.weight
    BY <2>1, <2>4, <2>5 DEF ComesFirst
  <2> QED
    BY <2>1, <2>5, <2>6, <2>7
<1> QED
  BY <1>1, <1>4, <1>5, <1>6, <1>7, <1>8, <1>9, <1>10 DEF IsBest

\* What QueriesAgree says of one path that was asked for.
PathAgrees(edges, a, b, n, found) ==
  /\ b \notin Ball(edges, a, n) <=> found = NoPath
  /\ b \in Ball(edges, a, n) /\ a # b =>
       /\ found.path[1] = a /\ Last(found.path) = b
       /\ b \notin Ball(edges, a, (Len(found.path) - 1) - 1)
       /\ \A i \in 1 .. Len(found.path) - 1 :
            {found.relationships[i].from, found.relationships[i].to}
              = {found.path[i], found.path[i + 1]}
       /\ found.weight =
            Total([i \in 1 .. Len(found.path) - 1 |-> found.relationships[i].weight],
                  Len(found.path) - 1)

(***************************************************************************)
(* findPath (graph-traversal.ts:155-251), for any entities and any set of  *)
(* relationships: a path is found exactly when breadth reaches its end     *)
(* within the depth; it is a shortest one, its relationships join it, and  *)
(* its weight is theirs.                                                   *)
(***************************************************************************)
THEOREM PathsAgree ==
  ASSUME NEW E, NEW edges \in SUBSET Rels(E), NEW a \in E, NEW b \in E,
         NEW depth, NEW n \in Nat, n = Bounded(depth)
  PROVE  PathAgrees(edges, a, b, n, FindPath(edges, a, b, depth))
<1> DEFINE found == FindPath(edges, a, b, depth)
           arrivals == Arrivals(edges, a, b, n)
           best == CHOOSE row \in arrivals : \A x \in arrivals : ComesFirst(row, x)
<1>1. /\ a = b => found = [path |-> <<a>>, relationships |-> <<>>, weight |-> 0]
      /\ a # b /\ arrivals = {} => found = NoPath
      /\ a # b /\ arrivals # {} =>
           found = [path |-> best.path, relationships |-> Along(edges, best.path),
                    weight |-> best.weight]
  BY DEF FindPath, Arrivals
<1> HIDE DEF found
<1>2. CASE a = b
  <2>1. Ball(edges, a, 0) = {a} /\ 0 \in 0 .. n
    BY BallStarts
  <2>2. Ball(edges, a, 0) \subseteq Ball(edges, a, n)
    BY <2>1, BallIncreases
  <2>3. found.path = <<a>> /\ NoPath.path = <<>> /\ <<a>> # <<>>
    BY <1>1, <1>2 DEF NoPath
  <2>4. found # NoPath
    BY <2>3
  <2> QED
    BY <1>2, <2>1, <2>2, <2>4 DEF PathAgrees, found
<1>3. CASE a # b /\ arrivals = {}
  <2>1. b \notin Ball(edges, a, n)
    <3> SUFFICES ASSUME b \in Ball(edges, a, n)
                 PROVE  FALSE
      OBVIOUS
    <3>1. n \in 0 .. n
      OBVIOUS
    <3>2. \E x \in arrivals : Len(x.path) <= n + 1
      BY <3>1, ArrivalExists
    <3> QED
      BY <1>3, <3>2
  <2> QED
    BY <1>1, <1>3, <2>1 DEF PathAgrees, found
<1>4. CASE a # b /\ arrivals # {}
  <2>1. arrivals \in SUBSET Trails(E)
    <3> SUFFICES ASSUME NEW x \in arrivals
                 PROVE  x \in Trails(E)
      OBVIOUS
    <3>1. x \in Rows(edges, a, b, n)
      BY DEF Arrivals
    <3>2. PICK k : RowAt(edges, a, b, n, k, x)
      BY <3>1, RowsUnfold
    <3>3. Holds(E, edges, a, b, n, k, x)
      BY <3>2, RowsHold
    <3> QED
      BY <3>3 DEF Holds
  <2> HIDE DEF arrivals
  <2>2. \E row \in arrivals : \A x \in arrivals : ComesFirst(row, x)
    BY <1>4, <2>1, BestExists
  <2>3. best \in arrivals /\ \A x \in arrivals : ComesFirst(best, x)
    BY <2>2
  <2>4. /\ found.path = best.path /\ found.relationships = Along(edges, best.path)
        /\ found.weight = best.weight
    BY <1>1, <1>4
  <2> HIDE DEF best
  <2>5. IsBest(E, edges, a, b, best)
    BY <1>4, <2>3, BestIsBest DEF arrivals
  <2>6. b \in Ball(edges, a, n)
    <3>1. best \in Rows(edges, a, b, n) /\ Last(best.path) = b
      BY <2>3 DEF arrivals, Arrivals
    <3> QED
      BY <3>1, RowsEndInBall
  <2>7. found # NoPath
    <3>1. NoPath.path = <<>>
      BY DEF NoPath
    <3>2. best.path # <<>>
      BY <2>5 DEF IsBest, Trails
    <3> QED
      BY <2>4, <3>1, <3>2
  <2> DEFINE p == best.path
             m == Len(p) - 1
  <2>8. /\ found.path = p /\ Len(p) \in Nat /\ Joined(edges, p)
        /\ found.relationships = Along(edges, p)
        /\ found.weight = PathWeight(edges, p) /\ p[1] = a /\ Last(p) = b
        /\ b \notin Ball(edges, a, (Len(p) - 1) - 1)
    BY <2>4, <2>5 DEF IsBest
  <2> HIDE DEF p
  <2>9. ASSUME NEW i \in 1 .. Len(p) - 1
        PROVE  {found.relationships[i].from, found.relationships[i].to}
                 = {p[i], p[i + 1]}
    <3>1. Along(edges, p)[i] = LightestBetween(edges, p[i], p[i + 1])
      BY DEF Along, LightestBetween
    <3>2. Between(edges, p[i], p[i + 1]) # {}
      BY <2>8 DEF Joined
    <3>3. Joins(edges, p[i], p[i + 1], LightestBetween(edges, p[i], p[i + 1]))
      BY <3>2, LightestJoins
    <3> QED
      BY <2>8, <3>1, <3>3 DEF Joins
  <2>10. found.weight = Total([i \in 1 .. m |-> found.relationships[i].weight], m)
    BY <2>8 DEF PathWeight, AlongWeights
  <2> QED
    BY <2>6, <2>7, <2>8, <2>9, <2>10 DEF PathAgrees, found
<1> QED
  BY <1>2, <1>3, <1>4

LEMMA GraphIsTyped ==
  ASSUME NEW query \in Queries
  PROVE  /\ query.edges \in SUBSET Rels(1 .. 4) /\ query.depth \in Nat
         /\ Bounded(query.depth) \in Nat
<1>1. query.edges \in SUBSET Graph /\ query.depth \in Depths
  BY DEF Queries
<1>2. Graph \subseteq Rels(1 .. 4)
  BY DEF Graph, Edge, Rels
<1>3. Depths \subseteq Nat
  BY HelpersAssumption
<1>4. query.edges \subseteq Rels(1 .. 4)
  BY <1>1, <1>2
<1> QED
  BY <1>1, <1>3, <1>4 DEF Bounded, DepthCap

(***************************************************************************)
(* getNeighbors (graph-traversal.ts:55-127), for any entities and any set  *)
(* of relationships: it finds the entities that breadth finds.             *)
(***************************************************************************)
THEOREM NeighborsAgree ==
  ASSUME NEW E, NEW edges \in SUBSET Rels(E), NEW a \in E, Nowhere \notin E,
         NEW depth \in Nat
  PROVE  Neighbors(edges, a, depth).entities = Ball(edges, a, Bounded(depth))
<1> DEFINE n == Bounded(depth)
<1>1. n \in Nat /\ (depth <= 0 => n = 0)
  BY DEF Bounded, DepthCap
<1>2. /\ depth <= 0 => Neighbors(edges, a, depth).entities = {a}
      /\ ~ depth <= 0 => Neighbors(edges, a, depth).entities
                           = {Last(row.path) : row \in Rows(edges, a, Nowhere, n)}
  BY DEF Neighbors
<1> HIDE DEF n
<1>3. {Last(row.path) : row \in Rows(edges, a, Nowhere, n)} = Ball(edges, a, n)
  BY <1>1, NeighborsAreBall
<1>4. Ball(edges, a, 0) = {a}
  BY BallStarts
<1> QED
  BY <1>1, <1>2, <1>3, <1>4 DEF n

LEMMA QueriesAreRight ==
  ASSUME focus = "query" => input \in Queries
  PROVE  QueriesAgree
<1> SUFFICES ASSUME focus = "query", NEW a \in 1 .. 4, NEW b \in 1 .. 4
             PROVE  /\ Neighbors(input.edges, a, input.depth).entities
                         = Ball(input.edges, a, Bounded(input.depth))
                    /\ PathAgrees(input.edges, a, b, Bounded(input.depth),
                                  FindPath(input.edges, a, b, input.depth))
  BY DEF QueriesAgree, PathAgrees
<1> DEFINE E == 1 .. 4
           edges == input.edges
           depth == input.depth
           n == Bounded(depth)
<1>1. edges \in SUBSET Rels(E) /\ depth \in Nat /\ n \in Nat
  BY GraphIsTyped
<1>2. Nowhere \notin E /\ a \in E /\ b \in E
  BY DEF Nowhere
<1> HIDE DEF E, edges, depth
<1>3. Neighbors(edges, a, depth).entities = Ball(edges, a, n)
  BY <1>1, <1>2, NeighborsAgree
<1>4. n = Bounded(depth)
  OBVIOUS
<1> HIDE DEF n
<1>5. PathAgrees(edges, a, b, n, FindPath(edges, a, b, depth))
  BY <1>1, <1>2, <1>4, PathsAgree
<1> QED
  BY <1>3, <1>5 DEF n, edges, depth

-----------------------------------------------------------------------------
LEMMA PastIsExact ==
  ASSUME NEW m \in Nat, NEW changed \in [1 .. m -> Int], NEW timestamp \in Int,
         \A i, j \in 1 .. m : i < j => changed[i] < changed[j]
  PROVE  EntityAtTime(changed, timestamp)
           = Cardinality({k \in DOMAIN changed : changed[k] <= timestamp})
<1> DEFINE later == {k \in DOMAIN changed : changed[k] > timestamp}
           times == {changed[k] : k \in later}
           before == {k \in DOMAIN changed : changed[k] <= timestamp}
<1>1. DOMAIN changed = 1 .. m /\ Len(changed) = m
  <2>1. changed \in Seq(Int)
    OBVIOUS
  <2> QED
    BY <2>1
<1>2. /\ later = {} => EntityAtTime(changed, timestamp) = Len(changed)
      /\ later # {} => EntityAtTime(changed, timestamp)
                         = Max({k \in later : changed[k] = Min(times)}) - 1
  BY DEF EntityAtTime
<1>3. CASE later = {}
  <2>1. before = 1 .. m
    BY <1>1, <1>3
  <2>2. Cardinality(1 .. m) = m
    BY FS_Interval
  <2> QED
    BY <1>1, <1>2, <1>3, <2>1, <2>2
<1>4. CASE later # {}
  <2>1. later \in SUBSET Nat
    BY <1>1
  <2>2. PICK l \in later : \A k \in later : l <= k
    <3> HIDE DEF later
    <3> QED
      BY <1>4, <2>1, LeastNatural
  <2>3. /\ l \in 1 .. m /\ changed[l] > timestamp
        /\ \A k \in later : k \in 1 .. m /\ changed[k] \in Int
    BY <1>1
  <2>4. \A k \in later : changed[l] <= changed[k] /\ (changed[k] = changed[l] => k = l)
    <3> SUFFICES ASSUME NEW k \in later
                 PROVE  changed[l] <= changed[k] /\ (changed[k] = changed[l] => k = l)
      OBVIOUS
    <3>1. l <= k /\ k \in 1 .. m /\ changed[l] \in Int /\ changed[k] \in Int
      BY <2>2, <2>3
    <3>2. k = l \/ l < k
      BY <2>3, <3>1
    <3> QED
      BY <2>3, <3>1, <3>2
  <2>5. before = 1 .. l - 1
    <3>1. ASSUME NEW k \in 1 .. m
          PROVE  changed[k] <= timestamp <=> k < l
      <4>1. changed[k] \in Int /\ changed[l] \in Int
        BY <2>3
      <4>2. k < l => ~ changed[k] > timestamp
        BY <1>1, <2>2, <2>3
      <4>3. l < k => changed[l] < changed[k]
        BY <2>3
      <4> QED
        BY <2>3, <4>1, <4>2, <4>3
    <3>2. \A k \in 1 .. l - 1 : k \in 1 .. m /\ k < l
      BY <2>3
    <3>3. \A k \in 1 .. m : k < l => k \in 1 .. l - 1
      BY <2>3
    <3> QED
      BY <1>1, <3>1, <3>2, <3>3
  <2>6. Cardinality(1 .. l - 1) = l - 1
    <3>1. 1 \in Int /\ l - 1 \in Int
      BY <2>3
    <3>2. Cardinality(1 .. l - 1) = IF 1 > l - 1 THEN 0 ELSE (l - 1) - 1 + 1
      BY <3>1, FS_Interval
    <3> QED
      BY <2>3, <3>2
  <2>7. Min(times) = changed[l]
    <3>1. changed[l] \in times /\ \A y \in times : changed[l] <= y /\ y \in Int
      BY <2>2, <2>3, <2>4
    <3> HIDE DEF times
    <3>2. \A x \in times : (\A y \in times : x <= y) => x = changed[l]
      BY <3>1
    <3>3. Min(times) \in times /\ \A y \in times : Min(times) <= y
      BY <3>1 DEF Min
    <3> QED
      BY <3>2, <3>3
  <2>8. {k \in later : changed[k] = changed[l]} = {l}
    BY <2>2, <2>4
  <2>9. Max({l}) = l
    <3>1. Max({l}) \in {l}
      BY <2>3 DEF Max
    <3> QED
      BY <3>1
  <2> HIDE DEF later, times, before
  <2>10. EntityAtTime(changed, timestamp) = l - 1
    BY <1>2, <1>4, <2>7, <2>8, <2>9
  <2> QED
    BY <2>5, <2>6, <2>10 DEF before
<1> QED
  BY <1>3, <1>4

LEMMA PastIsRight ==
  ASSUME focus = "history" => input \in Histories
  PROVE  AtTimeIsExact
<1> SUFFICES ASSUME focus = "history", IsInjective(input.changed)
             PROVE  EntityAtTime(input.changed, input.timestamp) = VersionAt(input)
  BY DEF AtTimeIsExact
<1>1. /\ input.changed \in Words(1 .. 3, MaxChanges) /\ input.timestamp \in 0 .. 3
      /\ \A i, j \in DOMAIN input.changed :
           i < j => input.changed[i] <= input.changed[j]
  BY DEF Histories
<1> DEFINE changed == input.changed
<1>2. PICK m \in 0 .. MaxChanges : changed \in [1 .. m -> 1 .. 3]
  BY <1>1 DEF Words
<1>3. DOMAIN changed = 1 .. m /\ m \in Nat /\ changed \in [1 .. m -> Int]
  BY <1>2
<1>4. input.timestamp \in Int
  BY <1>1
<1>5. /\ IsInjective(changed)
      /\ \A i, j \in DOMAIN changed : i < j => changed[i] <= changed[j]
  BY <1>1
<1> HIDE DEF changed
<1>6. ASSUME NEW i \in 1 .. m, NEW j \in 1 .. m, i < j
      PROVE  changed[i] < changed[j]
  <2>1. i # j
    BY <1>6
  <2>2. changed[i] # changed[j]
    BY <1>3, <1>5, <2>1 DEF IsInjective
  <2>3. changed[i] <= changed[j] /\ changed[i] \in Int /\ changed[j] \in Int
    BY <1>3, <1>5, <1>6
  <2> QED
    BY <2>2, <2>3
<1>7. EntityAtTime(changed, input.timestamp)
        = Cardinality({k \in DOMAIN changed : changed[k] <= input.timestamp})
  BY <1>3, <1>4, <1>6, PastIsExact
<1> QED
  BY <1>7 DEF VersionAt, changed

-----------------------------------------------------------------------------
(***************************************************************************)
(* The bodies of responses.  The scan for an object, in states that it can *)
(* be in: outside of strings, in a string, after an escape.                *)
(***************************************************************************)

Chars == {Open, Close, Quote, Escape, Other}
Bare(d) == [depth |-> d, inString |-> FALSE, escaped |-> FALSE]
Within(d) == [depth |-> d, inString |-> TRUE, escaped |-> FALSE]
Escaping(d) == [depth |-> d, inString |-> TRUE, escaped |-> TRUE]
ScanStates == UNION {{Bare(d), Within(d), Escaping(d)} : d \in Int}

LEMMA ScanSteps ==
  ASSUME NEW d \in Int
  PROVE  /\ Scanned(Bare(d), Open) = Bare(d + 1)
         /\ Scanned(Bare(d), Close) = Bare(d - 1)
         /\ Scanned(Bare(d), Quote) = Within(d)
         /\ \A c \in {Escape, Other} : Scanned(Bare(d), c) = Bare(d)
         /\ Scanned(Within(d), Quote) = Bare(d)
         /\ Scanned(Within(d), Escape) = Escaping(d)
         /\ \A c \in {Open, Close, Other} : Scanned(Within(d), c) = Within(d)
         /\ \A c \in Chars : Scanned(Escaping(d), c) = Within(d)
<1>1. /\ Open # Close /\ Open # Quote /\ Open # Escape /\ Open # Other
      /\ Close # Quote /\ Close # Escape /\ Close # Other
      /\ Quote # Escape /\ Quote # Other /\ Escape # Other
  BY DEF Open, Close, Quote, Escape, Other
<1>2. Scanned(Bare(d), Open) = Bare(d + 1)
  BY <1>1 DEF Scanned, Bare
<1>3. Scanned(Bare(d), Close) = Bare(d - 1)
  BY <1>1 DEF Scanned, Bare
<1>4. Scanned(Bare(d), Quote) = Within(d)
  BY <1>1 DEF Scanned, Bare, Within
<1>5. \A c \in {Escape, Other} : Scanned(Bare(d), c) = Bare(d)
  BY <1>1 DEF Scanned, Bare
<1>6. Scanned(Within(d), Quote) = Bare(d)
  BY <1>1 DEF Scanned, Bare, Within
<1>7. Scanned(Within(d), Escape) = Escaping(d)
  BY <1>1 DEF Scanned, Within, Escaping
<1>8. \A c \in {Open, Close, Other} : Scanned(Within(d), c) = Within(d)
  BY <1>1 DEF Scanned, Within
<1>9. \A c \in Chars : Scanned(Escaping(d), c) = Within(d)
  BY <1>1 DEF Scanned, Within, Escaping
<1> QED
  BY <1>2, <1>3, <1>4, <1>5, <1>6, <1>7, <1>8, <1>9

LEMMA ScanStays ==
  ASSUME NEW s \in ScanStates, NEW c \in Chars
  PROVE  Scanned(s, c) \in ScanStates
<1>1. PICK d \in Int : s \in {Bare(d), Within(d), Escaping(d)}
  BY DEF ScanStates
<1>2. \A e \in Int : {Bare(e), Within(e), Escaping(e)} \subseteq ScanStates
  BY DEF ScanStates
<1>3. d + 1 \in Int /\ d - 1 \in Int
  OBVIOUS
<1>4. Scanned(s, c) \in {Bare(d + 1), Bare(d - 1), Bare(d), Within(d), Escaping(d)}
  BY <1>1, ScanSteps DEF Chars
<1> QED
  BY <1>2, <1>3, <1>4

\* What the recursion of Scans says.
ScansAre(text, n, f) ==
  /\ f[0] = Outside
  /\ \A i \in 1 .. n : f[i] = Scanned(f[i - 1], text[i])

LEMMA ScansUnfold ==
  ASSUME NEW text \in Seq(Chars)
  PROVE  ScansAre(text, Len(text), Scans(text))
<1> DEFINE n == Len(text)
           X == ScanStates
           steps == [i \in 1 .. n |-> [s \in X |-> Scanned(s, text[i])]]
           Loop(f) == f = [i \in 0 .. n |-> IF i = 0 THEN Outside
                                            ELSE Scanned(f[i - 1], text[i])]
<1>1. n \in Nat /\ \A i \in 1 .. n : text[i] \in Chars
  OBVIOUS
<1> HIDE DEF n
<1>2. Outside \in X
  <2>1. Outside = Bare(0) /\ 0 \in Int
    BY DEF Outside, Bare
  <2> QED
    BY <2>1 DEF ScanStates
<1>3. steps \in [1 .. n -> [X -> X]]
  <2>1. ASSUME NEW i \in 1 .. n
        PROVE  [s \in X |-> Scanned(s, text[i])] \in [X -> X]
    BY <1>1, ScanStays
  <2> QED
    BY <2>1
<1>4. \A i \in 1 .. n : \A s \in X : steps[i][s] = Scanned(s, text[i])
  OBVIOUS
<1> HIDE DEF X, steps
<1>5. PICK f \in [0 .. n -> X] : IteratesEach(f, n, Outside, steps)
  BY <1>1, <1>2, <1>3, EachRecursionUpTo
<1>6. ASSUME NEW i \in 1 .. n
      PROVE  f[i] = Scanned(f[i - 1], text[i])
  <2>1. f[i - 1] \in X
    BY <1>1
  <2> QED
    BY <1>4, <1>5, <2>1 DEF IteratesEach
<1>7. Loop(f)
  <2>1. \A i \in 0 .. n : f[i] = IF i = 0 THEN Outside ELSE Scanned(f[i - 1], text[i])
    BY <1>1, <1>5, <1>6 DEF IteratesEach
  <2> QED
    BY <2>1
<1>8. Scans(text) = CHOOSE g : Loop(g)
  BY DEF Scans, n
<1>9. Loop(Scans(text))
  BY <1>7, <1>8
<1> DEFINE g == Scans(text)
<1>10. \A i \in 0 .. n : g[i] = IF i = 0 THEN Outside ELSE Scanned(g[i - 1], text[i])
  BY <1>9
<1> HIDE DEF g
<1>11. g[0] = Outside /\ \A i \in 1 .. n : g[i] = Scanned(g[i - 1], text[i])
  BY <1>1, <1>10
<1> QED
  BY <1>11 DEF ScansAre, n, g

-----------------------------------------------------------------------------
\* The scan goes over a text from one state to another without an end in it.
Run(text, s, t, f) ==
  /\ f[0] = s /\ f[Len(text)] = t
  /\ \A i \in 1 .. Len(text) :
       f[i] = Scanned(f[i - 1], text[i]) /\ ~Closes(f[i - 1], text[i])
Runs(text, s, t) == \E f : Run(text, s, t, f)

LEMMA RunsJoin ==
  ASSUME NEW u \in Seq(Chars), NEW v \in Seq(Chars), NEW s, NEW t, NEW r,
         Runs(u, s, t), Runs(v, t, r)
  PROVE  Runs(u \o v, s, r)
<1>1. PICK f : Run(u, s, t, f)
  BY DEF Runs
<1>2. PICK g : Run(v, t, r, g)
  BY DEF Runs
<1> DEFINE w == u \o v
           m == Len(u)
           n == Len(v)
           h == [i \in 0 .. m + n |-> IF i <= m THEN f[i] ELSE g[i - m]]
<1>3. /\ m \in Nat /\ n \in Nat /\ Len(w) = m + n
      /\ \A i \in 1 .. m + n : w[i] = IF i <= m THEN u[i] ELSE v[i - m]
  OBVIOUS
<1> HIDE DEF w
<1>4. /\ f[0] = s /\ f[m] = t
      /\ \A i \in 1 .. m : f[i] = Scanned(f[i - 1], u[i]) /\ ~Closes(f[i - 1], u[i])
  BY <1>1 DEF Run
<1>5. /\ g[0] = t /\ g[n] = r
      /\ \A i \in 1 .. n : g[i] = Scanned(g[i - 1], v[i]) /\ ~Closes(g[i - 1], v[i])
  BY <1>2 DEF Run
<1> HIDE DEF m, n
<1>6. h[0] = s /\ h[m + n] = r
  <2>1. CASE n = 0
    BY <1>3, <1>4, <1>5, <2>1
  <2>2. CASE n # 0
    <3>1. 0 <= m /\ ~ m + n <= m /\ (m + n) - m = n
      BY <1>3, <2>2
    <3>2. 0 \in 0 .. m + n /\ m + n \in 0 .. m + n
      BY <1>3
    <3> QED
      BY <1>4, <1>5, <3>1, <3>2
  <2> QED
    BY <2>1, <2>2
<1>7. ASSUME NEW i \in 1 .. m + n
      PROVE  h[i] = Scanned(h[i - 1], w[i]) /\ ~Closes(h[i - 1], w[i])
  <2>1. i \in 0 .. m + n /\ i - 1 \in 0 .. m + n
    BY <1>3
  <2>2. CASE i <= m
    <3>1. h[i] = f[i] /\ h[i - 1] = f[i - 1] /\ w[i] = u[i] /\ i \in 1 .. m
      BY <1>3, <2>1, <2>2
    <3> QED
      BY <1>4, <3>1
  <2>3. CASE i > m
    <3> DEFINE j == i - m
    <3>1. j \in 1 .. n /\ h[i] = g[j] /\ w[i] = v[j]
      BY <1>3, <2>1, <2>3
    <3>2. h[i - 1] = g[j - 1]
      <4>1. CASE i - 1 <= m
        <5>1. i - 1 = m /\ j - 1 = 0
          BY <1>3, <2>3, <4>1
        <5> QED
          BY <1>4, <1>5, <2>1, <4>1, <5>1
      <4>2. CASE ~ i - 1 <= m
        <5>1. (i - 1) - m = j - 1
          BY <1>3
        <5> QED
          BY <2>1, <4>2, <5>1
      <4> QED
        BY <4>1, <4>2
    <3> HIDE DEF h, j
    <3> QED
      BY <1>5, <3>1, <3>2
  <2> QED
    BY <1>3, <2>2, <2>3
<1> HIDE DEF h
<1>8. Run(w, s, r, h)
  BY <1>3, <1>6, <1>7 DEF Run
<1> QED
  BY <1>8 DEF Runs, w

\* One character, where it is no end.
LEMMA CharRuns ==
  ASSUME NEW c \in Chars, NEW s, NEW t, Scanned(s, c) = t, ~Closes(s, c)
  PROVE  Runs(<<c>>, s, t)
<1> DEFINE f == [i \in {0, 1} |-> IF i = 0 THEN s ELSE t]
<1>1. f[0] = s /\ f[1] = t
  OBVIOUS
<1> HIDE DEF f
<1>2. Len(<<c>>) = 1 /\ <<c>>[1] = c
  OBVIOUS
<1>3. \A i \in 1 .. Len(<<c>>) : i = 1 /\ i - 1 = 0
  BY <1>2
<1>4. Run(<<c>>, s, t, f)
  BY <1>1, <1>2, <1>3 DEF Run
<1> QED
  BY <1>4 DEF Runs

LEMMA NothingRuns ==
  ASSUME NEW s
  PROVE  Runs(<<>>, s, s)
<1> DEFINE f == [i \in {0} |-> s]
<1>1. f[0] = s /\ Len(<<>>) = 0
  OBVIOUS
<1> HIDE DEF f
<1>2. Run(<<>>, s, s, f)
  BY <1>1 DEF Run
<1> QED
  BY <1>2 DEF Runs

-----------------------------------------------------------------------------
\* What glueing makes of words.
GluesAre(words, n, f) ==
  /\ f[0] = <<>>
  /\ \A k \in 1 .. n : f[k] = f[k - 1] \o words[k]

\* A set of texts that is closed under concatenation holds what glueing makes.
LEMMA GlueUnfolds ==
  ASSUME NEW X, <<>> \in X, \A a, b \in X : a \o b \in X,
         NEW n \in Nat, NEW words \in [1 .. n -> X]
  PROVE  /\ GluesAre(words, n, Glued(words))
         /\ Glued(words) \in [0 .. n -> X]
         /\ Glue(words) = Glued(words)[n] /\ Glue(words) \in X
<1> DEFINE start == <<>>
           steps == [k \in 1 .. n |-> [a \in X |-> a \o words[k]]]
           Loop(f) == f = [k \in 0 .. n |-> IF k = 0 THEN start
                                            ELSE f[k - 1] \o words[k]]
<1>1. start \in X
  OBVIOUS
<1>2. steps \in [1 .. n -> [X -> X]]
  <2>1. ASSUME NEW k \in 1 .. n
        PROVE  [a \in X |-> a \o words[k]] \in [X -> X]
    OBVIOUS
  <2> QED
    BY <2>1
<1>3. \A k \in 1 .. n : \A a \in X : steps[k][a] = a \o words[k]
  OBVIOUS
<1> HIDE DEF steps
<1>4. Len(words) = n
  <2>1. words \in Seq(X)
    OBVIOUS
  <2> QED
    OBVIOUS
<1>5. Glued(words) = CHOOSE g : Loop(g)
  BY <1>4 DEF Glued
<1> HIDE DEF start
<1>6. PICK f \in [0 .. n -> X] : IteratesEach(f, n, start, steps)
  BY <1>1, <1>2, EachRecursionUpTo
<1>7. ASSUME NEW k \in 1 .. n
      PROVE  f[k] = f[k - 1] \o words[k]
  <2>1. f[k - 1] \in X
    OBVIOUS
  <2> QED
    BY <1>3, <1>6, <2>1 DEF IteratesEach
<1>8. Loop(f)
  <2>1. \A k \in 0 .. n : f[k] = IF k = 0 THEN start ELSE f[k - 1] \o words[k]
    <3>1. f[0] = start
      BY <1>6 DEF IteratesEach
    <3>2. \A k \in 0 .. n : k # 0 => k \in 1 .. n
      OBVIOUS
    <3> QED
      BY <1>7, <3>1, <3>2
  <2> QED
    BY <2>1
<1> DEFINE g == Glued(words)
<1>9. Loop(g)
  BY <1>5, <1>8
<1> HIDE DEF g
<1>10. /\ g[0] = start /\ \A k \in 1 .. n : g[k] = g[k - 1] \o words[k]
       /\ DOMAIN g = 0 .. n
  <2>1. DOMAIN g = 0 .. n
    BY <1>9
  <2>2. \A k \in 0 .. n : g[k] = IF k = 0 THEN start ELSE g[k - 1] \o words[k]
    BY <1>9
  <2> QED
    BY <2>1, <2>2
<1> DEFINE P == {k \in 0 .. n : g[k] \in X}
<1>11. 0 \in P
  BY <1>1, <1>10
<1>12. \A k \in 0 .. n - 1 : k \in P => k + 1 \in P
  <2> SUFFICES ASSUME NEW k \in 0 .. n - 1, k \in P
               PROVE  k + 1 \in P
    OBVIOUS
  <2>1. k + 1 \in 1 .. n /\ k + 1 \in 0 .. n /\ (k + 1) - 1 = k
    OBVIOUS
  <2>2. g[k + 1] = g[k] \o words[k + 1]
    BY <1>10, <2>1
  <2>3. g[k] \in X /\ words[k + 1] \in X
    BY <2>1
  <2> QED
    BY <2>1, <2>2, <2>3
<1> HIDE DEF P
<1>13. \A k \in 0 .. n : k \in P
  BY <1>11, <1>12, InductionUpTo
<1>14. \A k \in 0 .. n : g[k] \in X
  BY <1>13 DEF P
<1>15. g = [k \in 0 .. n |-> g[k]]
  BY <1>9
<1>16. g \in [0 .. n -> X] /\ g[n] \in X
  BY <1>14, <1>15
<1>17. Glue(words) = g[n]
  BY <1>4 DEF Glue, g
<1> QED
  BY <1>10, <1>16, <1>17 DEF GluesAre, g, start

-----------------------------------------------------------------------------
\* Texts that the scan goes over and is where it was: inside of a string, and
\* inside of an object at any depth.
InString == {w \in Seq(Chars) : \A d \in Int : Runs(w, Within(d), Within(d))}
Balanced == {w \in Seq(Chars) : \A d \in Nat \ {0} : Runs(w, Bare(d), Bare(d))}

LEMMA TextsJoin ==
  /\ <<>> \in InString /\ \A a, b \in InString : a \o b \in InString
  /\ <<>> \in Balanced /\ \A a, b \in Balanced : a \o b \in Balanced
<1>1. <<>> \in Seq(Chars) /\ \A a, b \in Seq(Chars) : a \o b \in Seq(Chars)
  OBVIOUS
<1>2. <<>> \in InString /\ <<>> \in Balanced
  BY <1>1, NothingRuns DEF InString, Balanced
<1>3. ASSUME NEW a \in InString, NEW b \in InString
      PROVE  a \o b \in InString
  <2>1. ASSUME NEW d \in Int
        PROVE  Runs(a \o b, Within(d), Within(d))
    BY RunsJoin DEF InString
  <2> QED
    BY <1>1, <2>1 DEF InString
<1>4. ASSUME NEW a \in Balanced, NEW b \in Balanced
      PROVE  a \o b \in Balanced
  <2>1. ASSUME NEW d \in Nat \ {0}
        PROVE  Runs(a \o b, Bare(d), Bare(d))
    BY RunsJoin DEF Balanced
  <2> QED
    BY <1>1, <2>1 DEF Balanced
<1> QED
  BY <1>2, <1>3, <1>4

\* A character that is neither a quotation mark nor an escape is one of a string.
LEMMA PlainInString ==
  ASSUME NEW c \in {Open, Close, Other}
  PROVE  <<c>> \in InString
<1>1. c \in Chars /\ <<c>> \in Seq(Chars)
  BY DEF Chars
<1>2. ASSUME NEW d \in Int
      PROVE  Runs(<<c>>, Within(d), Within(d))
  <2> DEFINE s == Within(d)
  <2>1. Scanned(s, c) = s
    BY ScanSteps
  <2>2. ~Closes(s, c)
    BY DEF Closes, Within
  <2> HIDE DEF s
  <2> QED
    BY <1>1, <2>1, <2>2, CharRuns DEF s
<1> QED
  BY <1>1, <1>2 DEF InString

\* And so is any character after an escape.
LEMMA EscapedInString ==
  ASSUME NEW c \in Chars
  PROVE  <<Escape>> \o <<c>> \in InString
<1>1. Escape \in Chars /\ <<Escape>> \in Seq(Chars) /\ <<c>> \in Seq(Chars)
  BY DEF Chars
<1>2. ASSUME NEW d \in Int
      PROVE  Runs(<<Escape>> \o <<c>>, Within(d), Within(d))
  <2> DEFINE s == Within(d)
             t == Escaping(d)
  <2>1. Scanned(s, Escape) = t /\ Scanned(t, c) = s
    BY ScanSteps
  <2>2. ~Closes(s, Escape) /\ ~Closes(t, c)
    BY DEF Closes, Within, Escaping
  <2> HIDE DEF s, t
  <2>3. Runs(<<Escape>>, s, t)
    BY <1>1, <2>1, <2>2, CharRuns
  <2>4. Runs(<<c>>, t, s)
    BY <2>1, <2>2, CharRuns
  <2>5. Runs(<<Escape>> \o <<c>>, s, s)
    BY <1>1, <2>3, <2>4, RunsJoin
  <2> QED
    BY <2>5 DEF s
<1> QED
  BY <1>1, <1>2 DEF InString

\* A string is balanced, whatever is in it.
LEMMA QuotedIsBalanced ==
  ASSUME NEW w \in InString
  PROVE  <<Quote>> \o w \o <<Quote>> \in Balanced
<1>1. Quote \in Chars /\ <<Quote>> \in Seq(Chars) /\ w \in Seq(Chars)
  BY DEF Chars, InString
<1> DEFINE q == <<Quote>>
<1>2. q \o w \in Seq(Chars) /\ q \o w \o q \in Seq(Chars)
  BY <1>1
<1>3. ASSUME NEW d \in Nat \ {0}
      PROVE  Runs(q \o w \o q, Bare(d), Bare(d))
  <2> DEFINE s == Bare(d)
             t == Within(d)
  <2>1. d \in Int
    OBVIOUS
  <2>2. Scanned(s, Quote) = t /\ Scanned(t, Quote) = s
    BY <2>1, ScanSteps
  <2>3. ~Closes(s, Quote) /\ ~Closes(t, Quote)
    BY DEF Closes, Quote, Close
  <2>4. Runs(w, t, t)
    BY <2>1 DEF InString
  <2> HIDE DEF s, t
  <2>5. Runs(q, s, t) /\ Runs(q, t, s)
    BY <1>1, <2>2, <2>3, CharRuns
  <2> HIDE DEF q
  <2>6. Runs(q \o w, s, t)
    BY <1>1, <2>4, <2>5, RunsJoin DEF q
  <2>7. Runs(q \o w \o q, s, s)
    BY <1>1, <1>2, <2>5, <2>6, RunsJoin DEF q
  <2> QED
    BY <2>7 DEF s
<1> QED
  BY <1>2, <1>3 DEF Balanced

LEMMA OtherIsBalanced == <<Other>> \in Balanced
<1>1. Other \in Chars /\ <<Other>> \in Seq(Chars)
  BY DEF Chars
<1>2. ASSUME NEW d \in Nat \ {0}
      PROVE  Runs(<<Other>>, Bare(d), Bare(d))
  <2> DEFINE s == Bare(d)
  <2>1. d \in Int
    OBVIOUS
  <2>2. Scanned(s, Other) = s
    BY <2>1, ScanSteps
  <2>3. ~Closes(s, Other)
    BY DEF Closes, Other, Close
  <2> HIDE DEF s
  <2> QED
    BY <1>1, <2>2, <2>3, CharRuns DEF s
<1> QED
  BY <1>1, <1>2 DEF Balanced

\* An object within another one, and the beginning of an object.
LEMMA BracedIsBalanced ==
  ASSUME NEW w \in Balanced
  PROVE  /\ <<Open>> \o w \o <<Close>> \in Balanced
         /\ Runs(<<Open>> \o w, Outside, Bare(1))
<1> DEFINE o == <<Open>>
           c == <<Close>>
<1>1. /\ Open \in Chars /\ o \in Seq(Chars) /\ Close \in Chars /\ c \in Seq(Chars)
      /\ w \in Seq(Chars)
  BY DEF Chars, Balanced
<1>2. o \o w \in Seq(Chars) /\ o \o w \o c \in Seq(Chars)
  BY <1>1
<1>3. ASSUME NEW d \in Nat
      PROVE  Runs(o \o w, Bare(d), Bare(d + 1))
  <2> DEFINE s == Bare(d)
             t == Bare(d + 1)
  <2>1. d \in Int /\ d + 1 \in Nat \ {0}
    OBVIOUS
  <2>2. Scanned(s, Open) = t
    BY <2>1, ScanSteps
  <2>3. ~Closes(s, Open)
    BY DEF Closes, Open, Close
  <2>4. Runs(w, t, t)
    BY <2>1 DEF Balanced
  <2> HIDE DEF s, t
  <2>5. Runs(o, s, t)
    BY <1>1, <2>2, <2>3, CharRuns
  <2> HIDE DEF o
  <2>6. Runs(o \o w, s, t)
    BY <1>1, <2>4, <2>5, RunsJoin
  <2> QED
    BY <2>6 DEF s, t
<1>4. ASSUME NEW d \in Nat \ {0}
      PROVE  Runs(o \o w \o c, Bare(d), Bare(d))
  <2> DEFINE s == Bare(d)
             t == Bare(d + 1)
  <2>1. d \in Nat /\ d + 1 \in Int /\ (d + 1) - 1 = d
    OBVIOUS
  <2>2. Scanned(t, Close) = s
    BY <2>1, ScanSteps
  <2>3. ~Closes(t, Close)
    BY DEF Closes, Bare
  <2>4. Runs(o \o w, s, t)
    BY <1>3, <2>1
  <2> HIDE DEF s, t
  <2>5. Runs(c, t, s)
    BY <1>1, <2>2, <2>3, CharRuns
  <2> DEFINE u == o \o w
  <2>6. u \in Seq(Chars) /\ Runs(u, s, t)
    BY <1>2, <2>4
  <2> HIDE DEF u, c
  <2>7. Runs(u \o c, s, s)
    BY <1>1, <2>5, <2>6, RunsJoin
  <2> QED
    BY <2>7 DEF s, u
<1>5. Outside = Bare(0) /\ 0 \in Nat /\ 0 + 1 = 1
  BY DEF Outside, Bare
<1>6. Runs(o \o w, Bare(0), Bare(1))
  BY <1>3, <1>5
<1> QED
  BY <1>2, <1>4, <1>5, <1>6 DEF Balanced

-----------------------------------------------------------------------------
\* The end of the object that a text begins with is found: u is all of it but
\* the brace that closes it.
LEMMA EndIsFound ==
  ASSUME NEW u, Len(u) \in Nat, Runs(u, Outside, Bare(1)),
         NEW text \in Seq(Chars), Len(text) > Len(u),
         \A i \in 1 .. Len(u) : text[i] = u[i], text[Len(u) + 1] = Close
  PROVE  LET ends == {i \in DOMAIN text : Closes(Scans(text)[i - 1], text[i])}
         IN ends # {} /\ Min(ends) = Len(u) + 1
<1> DEFINE m == Len(u)
           n == Len(text)
           f == Scans(text)
           ends == {i \in DOMAIN text : Closes(f[i - 1], text[i])}
<1>1. PICK h : Run(u, Outside, Bare(1), h)
  BY DEF Runs
<1>2. /\ m \in Nat /\ n \in Nat /\ n > m /\ DOMAIN text = 1 .. n
      /\ \A i \in 1 .. m : text[i] = u[i]
      /\ text[m + 1] = Close
  OBVIOUS
<1>3. ScansAre(text, n, f)
  BY ScansUnfold
<1>4. /\ h[0] = Outside /\ h[m] = Bare(1)
      /\ \A i \in 1 .. m : h[i] = Scanned(h[i - 1], u[i]) /\ ~Closes(h[i - 1], u[i])
  BY <1>1 DEF Run
<1> HIDE DEF f, m, n
<1>5. f[0] = Outside /\ \A i \in 1 .. m : f[i] = Scanned(f[i - 1], u[i])
  <2>1. \A i \in 1 .. m : i \in 1 .. n /\ text[i] = u[i]
    BY <1>2
  <2> QED
    BY <1>3, <2>1 DEF ScansAre
<1> DEFINE P == {i \in 0 .. m : f[i] = h[i]}
<1>6. 0 \in P
  BY <1>2, <1>4, <1>5
<1>7. \A i \in 0 .. m - 1 : i \in P => i + 1 \in P
  <2> SUFFICES ASSUME NEW i \in 0 .. m - 1, i \in P
               PROVE  i + 1 \in P
    OBVIOUS
  <2>1. i + 1 \in 1 .. m /\ i + 1 \in 0 .. m /\ (i + 1) - 1 = i
    BY <1>2
  <2> QED
    BY <1>4, <1>5, <2>1
<1> HIDE DEF P
<1>8. \A i \in 0 .. m : i \in P
  BY <1>2, <1>6, <1>7, InductionUpTo
<1>9. \A i \in 0 .. m : f[i] = h[i]
  BY <1>8 DEF P
<1>10. f[m] = Bare(1)
  BY <1>2, <1>4, <1>9
<1> DEFINE e == m + 1
<1>11. e \in ends /\ e \in Int
  <2>1. Closes(Bare(1), Close)
    BY DEF Closes, Bare
  <2>2. m + 1 \in DOMAIN text /\ (m + 1) - 1 = m /\ text[m + 1] = Close
    BY <1>2
  <2> QED
    BY <1>10, <2>1, <2>2
<1>12. \A i \in ends : e <= i
  <2> SUFFICES ASSUME NEW i \in ends, ~ e <= i
               PROVE  FALSE
    OBVIOUS
  <2>1. i \in 1 .. m /\ i - 1 \in 0 .. m
    BY <1>2
  <2>2. Closes(f[i - 1], text[i])
    OBVIOUS
  <2>3. f[i - 1] = h[i - 1] /\ text[i] = u[i] /\ ~Closes(h[i - 1], u[i])
    BY <1>2, <1>4, <1>9, <2>1
  <2> QED
    BY <2>2, <2>3
<1>13. ends \subseteq Int
  BY <1>2
<1> HIDE DEF ends, e
<1>14. Min(ends) \in ends /\ \A y \in ends : Min(ends) <= y
  BY <1>11, <1>12 DEF Min
<1>15. Min(ends) = e
  <2>1. Min(ends) \in Int /\ Min(ends) <= e /\ e <= Min(ends)
    BY <1>11, <1>12, <1>13, <1>14
  <2> QED
    BY <1>11, <2>1
<1> QED
  BY <1>11, <1>15 DEF ends, e, f, m

-----------------------------------------------------------------------------
\* Where the elements of three sequences are in one.
InThree(S, a, b, c, w) ==
  /\ w \in Seq(S) /\ Len(w) = Len(a) + Len(b) + Len(c)
  /\ \A i \in 1 .. Len(a) : w[i] = a[i]
  /\ \A i \in 1 .. Len(b) : w[Len(a) + i] = b[i]
  /\ \A i \in 1 .. Len(c) : w[Len(a) + Len(b) + i] = c[i]

LEMMA ThreeJoin ==
  ASSUME NEW S, NEW a \in Seq(S), NEW b \in Seq(S), NEW c \in Seq(S)
  PROVE  InThree(S, a, b, c, a \o b \o c)
<1> DEFINE v == a \o b
           w == v \o c
           l == Len(a)
           m == Len(b)
           n == Len(c)
<1>1. /\ l \in Nat /\ m \in Nat /\ n \in Nat
      /\ v \in Seq(S) /\ Len(v) = l + m
      /\ \A i \in 1 .. l + m : v[i] = IF i <= l THEN a[i] ELSE b[i - l]
  OBVIOUS
<1> HIDE DEF v
<1>2. /\ w \in Seq(S) /\ Len(w) = (l + m) + n
      /\ \A i \in 1 .. (l + m) + n : w[i] = IF i <= l + m THEN v[i] ELSE c[i - (l + m)]
  <2> HIDE DEF w, l, m, n
  <2>1. v \in Seq(S) /\ c \in Seq(S)
    BY <1>1
  <2>2. /\ v \o c \in Seq(S) /\ Len(v \o c) = Len(v) + Len(c)
        /\ \A i \in 1 .. Len(v) + Len(c) :
             (v \o c)[i] = IF i <= Len(v) THEN v[i] ELSE c[i - Len(v)]
    BY <2>1, ConcatProperties
  <2>3. Len(v) = l + m /\ Len(c) = n /\ v \o c = w
    BY <1>1 DEF n, w
  <2> QED
    BY <2>2, <2>3
<1> HIDE DEF w, l, m, n
<1>3. \A i \in 1 .. l : w[i] = a[i]
  BY <1>1, <1>2
<1>4. ASSUME NEW i \in 1 .. m
      PROVE  w[l + i] = b[i]
  <2>1. l + i \in 1 .. l + m /\ l + i \in 1 .. (l + m) + n /\ l + i <= l + m
        /\ ~ l + i <= l /\ (l + i) - l = i
    BY <1>1
  <2> QED
    BY <1>1, <1>2, <2>1
<1>5. ASSUME NEW i \in 1 .. n
      PROVE  w[(l + m) + i] = c[i]
  <2>1. /\ (l + m) + i \in 1 .. (l + m) + n /\ ~ (l + m) + i <= l + m
        /\ ((l + m) + i) - (l + m) = i
    BY <1>1
  <2> QED
    BY <1>1, <1>2, <2>1
<1> QED
  BY <1>2, <1>3, <1>4, <1>5 DEF InThree, v, w, l, m, n

\* A text without a brace that opens an object, and the objects.
Unopened(text) == \A i \in DOMAIN text : text[i] # Open
Enclosed == {<<Open>> \o w \o <<Close>> : w \in Balanced}

(***************************************************************************)
(* extractFirstJsonObject (openai.provider.ts:259-293) finds the object,   *)
(* however deep it is nested and whatever its strings hold, whatever is    *)
(* before it that has no brace, and whatever comes after it.               *)
(***************************************************************************)
THEOREM ObjectIsFound ==
  ASSUME NEW prefix \in Seq(Chars), Unopened(prefix),
         NEW object \in Enclosed, NEW suffix \in Seq(Chars)
  PROVE  FirstObject(prefix \o object \o suffix) = object
<1>0. PICK inner \in Balanced : object = <<Open>> \o inner \o <<Close>>
  BY DEF Enclosed
<1> DEFINE body == prefix \o object \o suffix
           p == Len(prefix)
           k == Len(inner)
           z == Len(suffix)
           u == <<Open>> \o inner
           open == <<Open>>
           close == <<Close>>
<1>1. /\ inner \in Seq(Chars) /\ p \in Nat /\ k \in Nat /\ z \in Nat
      /\ DOMAIN prefix = 1 .. p
  BY DEF Balanced
<1>2. /\ open \in Seq(Chars) /\ Len(open) = 1 /\ open[1] = Open
      /\ close \in Seq(Chars) /\ Len(close) = 1 /\ close[1] = Close
  BY DEF Chars
<1> HIDE DEF open, close
<1>3. InThree(Chars, open, inner, close, object)
  BY <1>0, <1>1, <1>2, ThreeJoin DEF open, close
<1>4. /\ Len(u) = k + 1 /\ \A i \in 1 .. k + 1 : u[i] = IF i = 1 THEN Open ELSE inner[i - 1]
  <2>1. u = open \o inner
    BY DEF open
  <2> HIDE DEF u
  <2>2. /\ Len(open \o inner) = Len(open) + Len(inner)
        /\ \A i \in 1 .. Len(open) + Len(inner) :
             (open \o inner)[i] = IF i <= Len(open) THEN open[i]
                                  ELSE inner[i - Len(open)]
    BY <1>1, <1>2, ConcatProperties
  <2>3. /\ Len(u) = 1 + k
        /\ \A i \in 1 .. 1 + k : u[i] = IF i <= 1 THEN open[i] ELSE inner[i - 1]
    BY <1>2, <2>1, <2>2
  <2>4. \A i \in 1 .. k + 1 : i \in 1 .. 1 + k /\ (i <= 1 <=> i = 1)
    BY <1>1
  <2> QED
    BY <1>1, <1>2, <2>3, <2>4
<1>5. Runs(u, Outside, Bare(1))
  BY BracedIsBalanced
<1> HIDE DEF u, k
<1>6. /\ object \in Seq(Chars) /\ Len(object) = k + 2
      /\ \A i \in 1 .. k + 1 : object[i] = u[i]
      /\ object[1] = Open /\ object[k + 2] = Close
  <2>1. /\ object \in Seq(Chars) /\ Len(object) = 1 + k + 1
        /\ \A i \in 1 .. 1 : object[i] = open[i]
        /\ \A i \in 1 .. k : object[1 + i] = inner[i]
        /\ \A i \in 1 .. 1 : object[1 + k + i] = close[i]
    BY <1>2, <1>3 DEF InThree, k
  <2>2. 1 \in 1 .. 1 /\ 1 + k + 1 = k + 2
    BY <1>1
  <2>3. object[1] = Open
    BY <1>2, <2>1, <2>2
  <2>4. object[k + 2] = Close
    <3>1. object[1 + k + 1] = close[1]
      BY <2>1, <2>2
    <3> QED
      BY <1>2, <2>2, <3>1
  <2>5. ASSUME NEW i \in 1 .. k + 1
        PROVE  object[i] = u[i]
    <3>1. CASE i = 1
      BY <1>1, <1>4, <2>3, <3>1
    <3>2. CASE i # 1
      <4>1. i - 1 \in 1 .. k /\ 1 + (i - 1) = i
        BY <1>1, <3>2
      <4>2. object[i] = inner[i - 1]
        BY <2>1, <4>1
      <4> QED
        BY <1>4, <3>2, <4>2
    <3> QED
      BY <3>1, <3>2
  <2>6. Len(object) = k + 2
    BY <2>1, <2>2
  <2> QED
    BY <2>1, <2>3, <2>4, <2>5, <2>6
<1>7. InThree(Chars, prefix, object, suffix, body)
  BY <1>6, ThreeJoin
<1> DEFINE n == Len(body)
<1> HIDE DEF body, p, z
<1>8. /\ body \in Seq(Chars) /\ n = p + (k + 2) + z /\ DOMAIN body = 1 .. n /\ n \in Nat
      /\ \A i \in 1 .. p : body[i] = prefix[i]
      /\ \A i \in 1 .. k + 2 : body[p + i] = object[i]
  <2>1. /\ body \in Seq(Chars) /\ n = p + Len(object) + z
        /\ \A i \in 1 .. p : body[i] = prefix[i]
        /\ \A i \in 1 .. Len(object) : body[p + i] = object[i]
    BY <1>7 DEF InThree, p, z
  <2>2. n \in Nat /\ DOMAIN body = 1 .. n
    BY <2>1
  <2> QED
    BY <1>6, <2>1, <2>2
<1> DEFINE starts == {i \in DOMAIN body : body[i] = Open}
           b == p + 1
<1> HIDE DEF n
<1>9. Min(starts) = b /\ starts # {} /\ b \in Int
  <2>1. b \in starts
    <3>1. 1 \in 1 .. k + 2 /\ p + 1 \in 1 .. n
      BY <1>1, <1>8
    <3>2. body[p + 1] = object[1]
      BY <1>8, <3>1
    <3> QED
      BY <1>6, <1>8, <3>1, <3>2
  <2>2. \A i \in starts : i \in Int /\ b <= i
    <3> SUFFICES ASSUME NEW i \in starts
                 PROVE  i \in Int /\ b <= i
      OBVIOUS
    <3>1. i \in 1 .. n /\ body[i] = Open
      BY <1>8
    <3>2. i \notin 1 .. p
      BY <1>1, <1>8, <3>1 DEF Unopened
    <3> QED
      BY <1>1, <3>1, <3>2
  <2>3. b \in Int
    BY <1>1
  <2> HIDE DEF starts, b
  <2>4. Min(starts) \in starts /\ \A y \in starts : Min(starts) <= y
    BY <2>1, <2>2 DEF Min
  <2>5. Min(starts) \in Int /\ Min(starts) <= b /\ b <= Min(starts)
    BY <2>1, <2>2, <2>4
  <2> QED
    BY <2>1, <2>3, <2>5
<1> DEFINE text == SubSeq(body, b, n)
<1>10. /\ text \in Seq(Chars) /\ Len(text) = (k + 2) + z
       /\ \A i \in 1 .. (k + 2) + z : text[i] = body[p + i]
  <2>1. \A i \in b .. n : body[i] \in Chars
    BY <1>1, <1>8
  <2>2. b \in Int /\ n \in Int /\ b <= n /\ n - b + 1 = (k + 2) + z
    BY <1>1, <1>8
  <2> HIDE DEF b
  <2>3. /\ text \in Seq(Chars) /\ Len(text) = n - b + 1
        /\ \A i \in 1 .. n - b + 1 : text[i] = body[b + i - 1]
    BY <2>1, <2>2, SubSeqProperties
  <2>4. \A i \in 1 .. (k + 2) + z : b + i - 1 = p + i
    BY <1>1, <1>8 DEF b
  <2> HIDE DEF text
  <2> QED
    BY <2>2, <2>3, <2>4
<1> HIDE DEF text, b, starts
<1>11. \A i \in 1 .. k + 2 : text[i] = object[i]
  <2>1. \A i \in 1 .. k + 2 : i \in 1 .. (k + 2) + z
    BY <1>1
  <2> QED
    BY <1>8, <1>10, <2>1
<1> DEFINE ends == {i \in DOMAIN text : Closes(Scans(text)[i - 1], text[i])}
           e == k + 2
<1>12. ends # {} /\ Min(ends) = e
  <2>1. Len(u) \in Nat /\ Len(text) > Len(u) /\ Len(u) + 1 = k + 2
    BY <1>1, <1>4, <1>10
  <2>2. \A i \in 1 .. Len(u) : text[i] = u[i]
    <3>1. Len(u) = k + 1 /\ \A i \in 1 .. k + 1 : i \in 1 .. k + 2
      BY <1>1, <1>4
    <3> QED
      BY <1>6, <1>11, <3>1
  <2>3. text[Len(u) + 1] = Close
    <3>1. k + 2 \in 1 .. k + 2
      BY <1>1
    <3> QED
      BY <1>6, <1>11, <2>1, <3>1
  <2>4. ends # {} /\ Min(ends) = Len(u) + 1
    BY <1>5, <1>10, <2>1, <2>2, <2>3, EndIsFound
  <2> QED
    BY <2>1, <2>4
<1> HIDE DEF ends
<1>13. FirstObject(body) = SubSeq(text, 1, e)
  <2>1. FirstObject(body)
          = LET t == SubSeq(body, Min(starts), Len(body))
                es == {i \in DOMAIN t : Closes(Scans(t)[i - 1], t[i])}
            IN IF starts = {} \/ es = {} THEN None ELSE SubSeq(t, 1, Min(es))
    BY DEF FirstObject, starts
  <2>2. SubSeq(body, Min(starts), Len(body)) = text
    BY <1>9 DEF text, n
  <2>3. FirstObject(body)
          = IF starts = {} \/ ends = {} THEN None ELSE SubSeq(text, 1, Min(ends))
    BY <2>1, <2>2 DEF ends
  <2> QED
    BY <1>9, <1>12, <2>3
<1> DEFINE found == SubSeq(text, 1, e)
<1>14. /\ found \in Seq(Chars) /\ Len(found) = e
       /\ \A i \in 1 .. e : found[i] = text[i]
  <2>1. \A i \in 1 .. e : text[i] \in Chars
    <3>1. \A i \in 1 .. e : i \in 1 .. Len(text)
      BY <1>1, <1>10
    <3> QED
      BY <1>10, <3>1
  <2>2. 1 \in Int /\ e \in Int /\ 1 <= e
    BY <1>1
  <2> HIDE DEF e
  <2>3. /\ found \in Seq(Chars) /\ Len(found) = e - 1 + 1
        /\ \A i \in 1 .. e - 1 + 1 : found[i] = text[1 + i - 1]
    BY <2>1, <2>2, SubSeqProperties
  <2>4. e - 1 + 1 = e /\ \A i \in 1 .. e : 1 + i - 1 = i
    BY <2>2
  <2> HIDE DEF found
  <2> QED
    BY <2>3, <2>4
<1> HIDE DEF found
<1>15. found = object
  <2>1. Len(found) = Len(object) /\ \A i \in 1 .. Len(found) : found[i] = object[i]
    BY <1>6, <1>11, <1>14
  <2> QED
    BY <1>6, <1>14, <2>1, SeqEqual
<1> QED
  BY <1>13, <1>15 DEF body, found

-----------------------------------------------------------------------------
\* The texts that TLC enumerates are of this kind.
LEMMA PairJoins ==
  ASSUME NEW a \in Chars, NEW b \in Chars
  PROVE  <<a>> \o <<b>> = <<a, b>>
<1> DEFINE l == <<a>> \o <<b>>
           r == <<a, b>>
<1>1. l \in Seq(Chars) /\ r \in Seq(Chars) /\ Len(l) = 2 /\ Len(r) = 2
  OBVIOUS
<1>2. l[1] = a /\ l[2] = b /\ r[1] = a /\ r[2] = b
  OBVIOUS
<1> HIDE DEF l, r
<1>3. \A i \in 1 .. Len(l) : l[i] = r[i]
  <2>1. \A i \in 1 .. Len(l) : i = 1 \/ i = 2
    BY <1>1
  <2> QED
    BY <1>2, <2>1
<1>4. l = r
  BY <1>1, <1>3, SeqEqual
<1> QED
  BY <1>4 DEF l, r

LEMMA GlueInString ==
  ASSUME NEW S \in SUBSET InString, NEW n, NEW w \in Words(S, n)
  PROVE  Glue(w) \in InString
<1>1. PICK m \in 0 .. n : w \in [1 .. m -> S]
  BY WordsAreFunctions
<1>2. m \in Nat /\ w \in [1 .. m -> InString]
  BY <1>1
<1> QED
  BY <1>2, TextsJoin, GlueUnfolds

LEMMA GlueIsBalanced ==
  ASSUME NEW S \in SUBSET Balanced, NEW n, NEW w \in Words(S, n)
  PROVE  Glue(w) \in Balanced
<1>1. PICK m \in 0 .. n : w \in [1 .. m -> S]
  BY WordsAreFunctions
<1>2. m \in Nat /\ w \in [1 .. m -> Balanced]
  BY <1>1
<1> QED
  BY <1>2, TextsJoin, GlueUnfolds

Units == {<<Other>>, <<Open>>, <<Close>>, <<Escape, Quote>>, <<Escape, Escape>>}

LEMMA QuotedTexts == InQuotes \in SUBSET Balanced
<1>1. Units \in SUBSET InString
  <2>1. <<Other>> \in InString /\ <<Open>> \in InString /\ <<Close>> \in InString
    BY PlainInString
  <2>2. Quote \in Chars /\ Escape \in Chars
    BY DEF Chars
  <2>3. <<Escape>> \o <<Quote>> \in InString /\ <<Escape>> \o <<Escape>> \in InString
    BY <2>2, EscapedInString
  <2>4. <<Escape, Quote>> \in InString /\ <<Escape, Escape>> \in InString
    BY <2>2, <2>3, PairJoins
  <2> QED
    BY <2>1, <2>4 DEF Units
<1>2. ASSUME NEW x \in InQuotes
      PROVE  x \in Balanced
  <2>1. PICK w \in Words(Units, 2) : x = <<Quote>> \o Glue(w) \o <<Quote>>
    BY DEF InQuotes, Units
  <2>2. Glue(w) \in InString
    BY <1>1, GlueInString
  <2> QED
    BY <2>1, <2>2, QuotedIsBalanced
<1> QED
  BY <1>2

LEMMA EnclosedIsBalanced == Enclosed \in SUBSET Balanced
BY BracedIsBalanced DEF Enclosed

LEMMA ObjectsAreEnclosed == Objects \in SUBSET Enclosed
<1>1. Flat \in SUBSET Enclosed
  <2> SUFFICES ASSUME NEW x \in Flat
               PROVE  x \in Enclosed
    OBVIOUS
  <2>1. PICK w \in Words(InQuotes, 1) : x = <<Open>> \o Glue(w) \o <<Close>>
    BY DEF Flat, Braced
  <2>2. Glue(w) \in Balanced
    BY QuotedTexts, GlueIsBalanced
  <2> QED
    BY <2>1, <2>2 DEF Enclosed
<1>2. ASSUME NEW y \in Flat
      PROVE  Glue(<<y, <<Other>>>>) \in Balanced
  <2> DEFINE o == <<Other>>
             two == 2
             w == <<y, o>>
  <2>1. y \in Balanced /\ o \in Balanced
    BY <1>1, EnclosedIsBalanced, OtherIsBalanced
  <2> HIDE DEF o
  <2>2. w \in [1 .. two -> Balanced] /\ two \in Nat
    BY <2>1
  <2> HIDE DEF two, w
  <2>3. Glue(w) \in Balanced
    BY <2>2, TextsJoin, GlueUnfolds
  <2> QED
    BY <2>3 DEF w, o
<1>3. ASSUME NEW x \in Braced({<<y, <<Other>>>> : y \in Flat})
      PROVE  x \in Enclosed
  <2>1. PICK y \in Flat : x = <<Open>> \o Glue(<<y, <<Other>>>>) \o <<Close>>
    BY DEF Braced
  <2> QED
    BY <1>2, <2>1 DEF Enclosed
<1> QED
  BY <1>1, <1>3 DEF Objects

LEMMA ObjectsAreFound ==
  ASSUME NEW text \in Texts
  PROVE  FirstObject(text.prefix \o text.object \o text.suffix) = text.object
<1>1. /\ text.prefix \in Words({Close, Quote, Other}, 2) /\ text.object \in Objects
      /\ text.suffix \in Words({Open, Close, Quote}, 2)
  BY DEF Texts
<1> DEFINE p == text.prefix
           s == text.suffix
           o == text.object
           A == {Close, Quote, Other}
           B == {Open, Close, Quote}
<1>2. A \subseteq Chars /\ B \subseteq Chars /\ Open \notin A
  BY DEF Chars, Open, Close, Quote, Other
<1>3. p \in Words(A, 2) /\ s \in Words(B, 2) /\ o \in Objects
  BY <1>1
<1> HIDE DEF p, s, o, A, B
<1>4. PICK m \in 0 .. 2 : p \in [1 .. m -> A]
  BY <1>3, WordsAreFunctions
<1>5. PICK n \in 0 .. 2 : s \in [1 .. n -> B]
  BY <1>3, WordsAreFunctions
<1>6. p \in Seq(Chars) /\ s \in Seq(Chars) /\ \A i \in DOMAIN p : p[i] # Open
  BY <1>2, <1>4, <1>5
<1>7. Unopened(p)
  BY <1>6 DEF Unopened
<1>8. FirstObject(p \o o \o s) = o
  BY <1>3, <1>6, <1>7, ObjectsAreEnclosed, ObjectIsFound
<1> QED
  BY <1>8 DEF p, s, o

-----------------------------------------------------------------------------
(***************************************************************************)
(* The lines of an event stream, with texts of any letters, and what there *)
(* is of the stream when some of them have been read.                      *)
(***************************************************************************)
StreamLines(S) ==
  {l \in [data : {TRUE},
          kind : {"content", "tool", "error", "unnamed", "noise", "done"},
          text : Seq(S), usage : Int] : l.kind = "tool" => l.text = <<>>}
StreamParts(S) ==
  [over : BOOLEAN, error : BOOLEAN, any : BOOLEAN, tool : BOOLEAN,
   text : Seq(S), usage : Int]

LEMMA ReadStays ==
  ASSUME NEW S, NEW part \in StreamParts(S), NEW line \in StreamLines(S)
  PROVE  Read(part, line) \in StreamParts(S)
<1>1. /\ line.data /\ line.text \in Seq(S) /\ line.usage \in Int
      /\ part.over \in BOOLEAN /\ part.error \in BOOLEAN /\ part.any \in BOOLEAN
      /\ part.tool \in BOOLEAN /\ part.text \in Seq(S) /\ part.usage \in Int
  BY DEF StreamLines, StreamParts
<1>2. CASE Passed(part, line)
  BY <1>2 DEF Read
<1>3. CASE ~Passed(part, line) /\ line.kind = "done"
  <2>1. Read(part, line) = [part EXCEPT !.over = TRUE]
    BY <1>3 DEF Read
  <2> QED
    BY <2>1 DEF StreamParts
<1>4. CASE ~Passed(part, line) /\ line.kind = "error"
  <2>1. Read(part, line) = [part EXCEPT !.over = TRUE, !.error = TRUE, !.any = TRUE]
    BY <1>4 DEF Read
  <2> QED
    BY <2>1 DEF StreamParts
<1>5. CASE ~Passed(part, line) /\ line.kind # "done" /\ line.kind # "error"
  <2> DEFINE text == part.text \o line.text
             tool == part.tool \/ (line.kind = "tool" /\ line.text = <<>>)
             usage == IF line.usage = Estimated THEN part.usage ELSE line.usage
  <2>1. Read(part, line) = [part EXCEPT !.any = TRUE, !.text = text, !.tool = tool,
                                        !.usage = usage]
    BY <1>5 DEF Read
  <2>2. text \in Seq(S) /\ tool \in BOOLEAN /\ usage \in Int
    BY <1>1
  <2> HIDE DEF text, tool, usage
  <2> QED
    BY <2>1, <2>2 DEF StreamParts
<1> QED
  BY <1>2, <1>3, <1>4, <1>5

PartsAre(lines, n, f) ==
  /\ f[0] = NothingRead
  /\ \A i \in 1 .. n : f[i] = Read(f[i - 1], lines[i])

LEMMA PartsUnfold ==
  ASSUME NEW S, NEW n \in Nat, NEW lines \in [1 .. n -> StreamLines(S)]
  PROVE  /\ PartsAre(lines, n, Parts(lines))
         /\ \A i \in 0 .. n : Parts(lines)[i] \in StreamParts(S)
<1> DEFINE X == StreamParts(S)
           steps == [i \in 1 .. n |-> [p \in X |-> Read(p, lines[i])]]
           Loop(f) == f = [i \in 0 .. n |-> IF i = 0 THEN NothingRead
                                            ELSE Read(f[i - 1], lines[i])]
<1>1. NothingRead \in X
  BY DEF NothingRead, Estimated, StreamParts
<1>2. steps \in [1 .. n -> [X -> X]]
  <2>1. ASSUME NEW i \in 1 .. n
        PROVE  [p \in X |-> Read(p, lines[i])] \in [X -> X]
    BY ReadStays
  <2> QED
    BY <2>1
<1>3. \A i \in 1 .. n : \A p \in X : steps[i][p] = Read(p, lines[i])
  OBVIOUS
<1>4. Len(lines) = n
  <2>1. lines \in Seq(StreamLines(S))
    OBVIOUS
  <2> QED
    OBVIOUS
<1> HIDE DEF X, steps
<1>5. PICK f \in [0 .. n -> X] : IteratesEach(f, n, NothingRead, steps)
  BY <1>1, <1>2, EachRecursionUpTo
<1>6. ASSUME NEW i \in 1 .. n
      PROVE  f[i] = Read(f[i - 1], lines[i])
  <2>1. f[i - 1] \in X
    OBVIOUS
  <2> QED
    BY <1>3, <1>5, <2>1 DEF IteratesEach
<1>7. Loop(f)
  <2>1. \A i \in 0 .. n : f[i] = IF i = 0 THEN NothingRead ELSE Read(f[i - 1], lines[i])
    BY <1>5, <1>6 DEF IteratesEach
  <2> QED
    BY <2>1
<1>8. Parts(lines) = CHOOSE g : Loop(g)
  BY <1>4 DEF Parts
<1> DEFINE g == Parts(lines)
<1>9. Loop(g)
  BY <1>7, <1>8
<1> HIDE DEF g
<1>10. \A i \in 0 .. n : g[i] = IF i = 0 THEN NothingRead ELSE Read(g[i - 1], lines[i])
  BY <1>9
<1>11. g[0] = NothingRead /\ \A i \in 1 .. n : g[i] = Read(g[i - 1], lines[i])
  BY <1>10
<1> DEFINE P == {i \in 0 .. n : g[i] \in X}
<1>12. 0 \in P
  BY <1>1, <1>11
<1>13. \A i \in 0 .. n - 1 : i \in P => i + 1 \in P
  <2> SUFFICES ASSUME NEW i \in 0 .. n - 1, i \in P
               PROVE  i + 1 \in P
    OBVIOUS
  <2>1. i + 1 \in 1 .. n /\ i + 1 \in 0 .. n /\ (i + 1) - 1 = i
    OBVIOUS
  <2>2. g[i + 1] = Read(g[i], lines[i + 1]) /\ g[i] \in X
        /\ lines[i + 1] \in StreamLines(S)
    BY <1>11, <2>1
  <2>3. Read(g[i], lines[i + 1]) \in X
    BY <2>2, ReadStays DEF X
  <2> QED
    BY <2>1, <2>2, <2>3
<1> HIDE DEF P
<1>14. \A i \in 0 .. n : i \in P
  BY <1>12, <1>13, InductionUpTo
<1>15. \A i \in 0 .. n : g[i] \in X
  BY <1>14 DEF P
<1> QED
  BY <1>11, <1>15 DEF PartsAre, g, X

-----------------------------------------------------------------------------
(***************************************************************************)
(* What a part has of what the first k lines say.  When an error is said   *)
(* in them, the rest does not matter.                                      *)
(***************************************************************************)
SaidBy(lines, k) == {i \in Said(lines) : i <= k}
CountedBy(lines, k) == {i \in SaidBy(lines, k) : lines[i].usage # Estimated}
CountOf(lines, k, usage) ==
  IF CountedBy(lines, k) = {} THEN usage = Estimated
  ELSE \E i \in CountedBy(lines, k) :
         usage = lines[i].usage /\ \A j \in CountedBy(lines, k) : j <= i

HasErrorOf(lines, k, part) ==
  /\ part.error <=> \E i \in SaidBy(lines, k) : lines[i].kind = "error"
  /\ part.error => part.over
HasTextOf(lines, k, glued, part) ==
  /\ part.over <=> \E i \in 1 .. k : lines[i].kind = "done"
  /\ part.any <=> SaidBy(lines, k) # {}
  /\ part.tool <=> \E i \in SaidBy(lines, k) : lines[i].kind = "tool"
  /\ part.text = glued
  /\ CountOf(lines, k, part.usage)
Has(lines, k, glued, part) ==
  /\ HasErrorOf(lines, k, part)
  /\ ~part.error => HasTextOf(lines, k, glued, part)

\* A line that says nothing changes nothing.
LEMMA UnsaidChangesNothing ==
  ASSUME NEW n \in Nat, NEW lines, NEW k \in 0 .. n - 1,
         Said(lines) \subseteq 1 .. n, k + 1 \notin Said(lines)
  PROVE  SaidBy(lines, k + 1) = SaidBy(lines, k)
BY DEF SaidBy

LEMMA SaidIsAdded ==
  ASSUME NEW n \in Nat, NEW lines, NEW k \in 0 .. n - 1,
         Said(lines) \subseteq 1 .. n, k + 1 \in Said(lines)
  PROVE  /\ SaidBy(lines, k + 1) = SaidBy(lines, k) \cup {k + 1}
         /\ \A i \in SaidBy(lines, k) : i \in Int /\ i <= k
BY DEF SaidBy

LEMMA CountIsAdded ==
  ASSUME NEW lines, NEW k \in Nat, NEW usage, CountOf(lines, k, usage),
         SaidBy(lines, k + 1) = SaidBy(lines, k) \cup {k + 1},
         \A i \in SaidBy(lines, k) : i \in Int /\ i <= k
  PROVE  CountOf(lines, k + 1, IF lines[k + 1].usage = Estimated THEN usage
                               ELSE lines[k + 1].usage)
<1> DEFINE c == CountedBy(lines, k)
           d == CountedBy(lines, k + 1)
           new == IF lines[k + 1].usage = Estimated THEN usage ELSE lines[k + 1].usage
<1>1. CASE lines[k + 1].usage = Estimated
  <2>1. d = c
    BY <1>1 DEF CountedBy
  <2>2. new = usage
    BY <1>1
  <2> HIDE DEF new
  <2>3. CountOf(lines, k + 1, new)
    BY <2>1, <2>2 DEF CountOf
  <2> QED
    BY <2>3 DEF new
<1>2. CASE lines[k + 1].usage # Estimated
  <2>1. k + 1 \in d /\ \A j \in d : j <= k + 1
    BY <1>2 DEF CountedBy
  <2>2. new = lines[k + 1].usage
    BY <1>2
  <2> HIDE DEF new, c
  <2>3. CountOf(lines, k + 1, new)
    BY <2>1, <2>2 DEF CountOf
  <2> QED
    BY <2>3 DEF new
<1> QED
  BY <1>1, <1>2

-----------------------------------------------------------------------------
\* What one line adds.
LEMMA LineIsRead ==
  ASSUME NEW S, NEW n \in Nat, NEW lines \in [1 .. n -> StreamLines(S)],
         NEW k \in 0 .. n - 1,
         NEW part \in StreamParts(S), NEW glued, Has(lines, k, glued, part),
         Said(lines) =
           {i \in 1 .. n : lines[i].kind # "noise"
                           /\ \A j \in 1 .. i : lines[j].kind # "done"}
  PROVE  \A next : next = (IF k + 1 \in Said(lines) THEN glued \o lines[k + 1].text
                           ELSE glued)
                   => Has(lines, k + 1, next, Read(part, lines[k + 1]))
<1> DEFINE line == lines[k + 1]
           read == Read(part, line)
           m == k + 1
<1> TAKE next
<1> HAVE next = (IF k + 1 \in Said(lines) THEN glued \o lines[k + 1].text ELSE glued)
<1>1. /\ m \in 1 .. n /\ k \in Nat /\ line \in StreamLines(S)
      /\ \A i \in 1 .. m : i \in 1 .. k \/ i = m
      /\ \A i \in 1 .. k : i \in 1 .. m
      /\ m \in 1 .. m
  OBVIOUS
<1>2. /\ line.data /\ line.text \in Seq(S) /\ line.usage \in Int
      /\ line.kind \in {"content", "tool", "error", "unnamed", "noise", "done"}
      /\ line.kind = "tool" => line.text = <<>>
      /\ part.over \in BOOLEAN /\ part.error \in BOOLEAN /\ part.any \in BOOLEAN
      /\ part.tool \in BOOLEAN /\ part.text \in Seq(S) /\ part.usage \in Int
  BY <1>1 DEF StreamLines, StreamParts
<1>3. Said(lines) \subseteq 1 .. n
  OBVIOUS
<1>4. m \in Said(lines) <=> line.kind # "noise" /\ line.kind # "done"
                            /\ \A j \in 1 .. k : lines[j].kind # "done"
  BY <1>1
<1>5. next = IF m \in Said(lines) THEN glued \o line.text ELSE glued
  OBVIOUS
<1> HIDE DEF line, m
<1>6. m \notin Said(lines) => SaidBy(lines, m) = SaidBy(lines, k)
  BY <1>3, UnsaidChangesNothing DEF m
<1>7. m \in Said(lines) =>
        /\ SaidBy(lines, m) = SaidBy(lines, k) \cup {m}
        /\ \A i \in SaidBy(lines, k) : i \in Int /\ i <= k
  BY <1>3, SaidIsAdded DEF m
<1>8. line = lines[m]
  BY DEF line, m
<1>9. HasErrorOf(lines, k, part)
  BY DEF Has
<1>10. CASE part.error
  <2>1. read = part
    BY <1>9, <1>10 DEF HasErrorOf, Read, Passed
  <2>2. \E i \in SaidBy(lines, m) : lines[i].kind = "error"
    BY <1>6, <1>7, <1>9, <1>10 DEF HasErrorOf
  <2> HIDE DEF read
  <2>3. HasErrorOf(lines, m, read)
    BY <1>9, <1>10, <2>1, <2>2 DEF HasErrorOf
  <2>4. read.error
    BY <1>10, <2>1
  <2> QED
    BY <2>3, <2>4 DEF Has, read, m, line
<1>11. CASE ~part.error /\ m \notin Said(lines)
  <2>1. HasTextOf(lines, k, glued, part)
    BY <1>11 DEF Has
  <2>2. next = glued /\ SaidBy(lines, m) = SaidBy(lines, k)
    BY <1>5, <1>6, <1>11
  <2>3. CountOf(lines, m, part.usage)
    BY <2>1, <2>2 DEF HasTextOf, CountOf, CountedBy
  <2>4. read \in StreamParts(S) /\ read.error = part.error /\ read.any = part.any
        /\ read.tool = part.tool /\ read.text = part.text /\ read.usage = part.usage
        /\ (read.over <=> part.over \/ line.kind = "done")
    <3>1. part.over \/ line.kind = "noise" \/ line.kind = "done"
      BY <1>4, <1>11, <2>1 DEF HasTextOf
    <3>2. CASE Passed(part, line)
      <4>1. read = part
        BY <3>2 DEF Read
      <4>2. line.kind = "done" => part.over
        BY <1>2, <3>2 DEF Passed
      <4> HIDE DEF read
      <4> QED
        BY <4>1, <4>2
    <3>3. CASE ~Passed(part, line)
      <4>1. line.kind = "done"
        BY <3>1, <3>3 DEF Passed
      <4>2. read = [part EXCEPT !.over = TRUE]
        BY <3>3, <4>1 DEF Read
      <4> HIDE DEF read
      <4> QED
        BY <4>1, <4>2 DEF StreamParts
    <3> QED
      BY <3>2, <3>3
  <2>5. (part.over \/ line.kind = "done") <=> \E i \in 1 .. m : lines[i].kind = "done"
    BY <1>1, <1>8, <2>1 DEF HasTextOf
  <2> HIDE DEF read
  <2>6. HasTextOf(lines, m, next, read)
    BY <2>1, <2>2, <2>3, <2>4, <2>5 DEF HasTextOf
  <2>7. HasErrorOf(lines, m, read)
    BY <1>9, <1>11, <2>2, <2>4 DEF HasErrorOf
  <2> QED
    BY <2>6, <2>7 DEF Has, read, m, line
<1>12. CASE ~part.error /\ m \in Said(lines)
  <2>1. HasTextOf(lines, k, glued, part)
    BY <1>12 DEF Has
  <2>2. /\ line.kind # "noise" /\ line.kind # "done"
        /\ \A j \in 1 .. k : lines[j].kind # "done"
    BY <1>4, <1>12
  <2>3. ~part.over /\ ~Passed(part, line)
    BY <1>2, <2>1, <2>2 DEF HasTextOf, Passed
  <2>4. SaidBy(lines, m) = SaidBy(lines, k) \cup {m}
    BY <1>7, <1>12
  <2>5. ~\E i \in SaidBy(lines, k) : lines[i].kind = "error"
    BY <1>9, <1>12 DEF HasErrorOf
  <2>6. CASE line.kind = "error"
    <3>1. read = [part EXCEPT !.over = TRUE, !.error = TRUE, !.any = TRUE]
      BY <2>3, <2>6 DEF Read
    <3>2. read.error /\ read.over
      BY <3>1 DEF StreamParts
    <3>3. \E i \in SaidBy(lines, m) : lines[i].kind = "error"
      BY <1>8, <2>4, <2>6
    <3> HIDE DEF read
    <3>4. HasErrorOf(lines, m, read)
      BY <3>2, <3>3 DEF HasErrorOf
    <3> QED
      BY <3>2, <3>4 DEF Has, read, m, line
  <2>7. CASE line.kind # "error"
    <3> DEFINE text == part.text \o line.text
               tool == part.tool \/ (line.kind = "tool" /\ line.text = <<>>)
               usage == IF line.usage = Estimated THEN part.usage ELSE line.usage
    <3>1. read = [part EXCEPT !.any = TRUE, !.text = text, !.tool = tool,
                              !.usage = usage]
      BY <2>2, <2>3, <2>7 DEF Read
    <3>2. tool <=> part.tool \/ line.kind = "tool"
      BY <1>2
    <3>3. text = next
      BY <1>5, <1>12, <2>1 DEF HasTextOf
    <3>4. CountOf(lines, m, usage)
      <4>1. CountOf(lines, k, part.usage)
        BY <2>1 DEF HasTextOf
      <4>2. \A i \in SaidBy(lines, k) : i \in Int /\ i <= k
        BY <1>7, <1>12
      <4> DEFINE old == part.usage
      <4>3. CountOf(lines, k, old)
        BY <4>1
      <4> HIDE DEF old, usage
      <4>4. CountOf(lines, k + 1, IF lines[k + 1].usage = Estimated THEN old
                                  ELSE lines[k + 1].usage)
        BY <1>1, <2>4, <4>2, <4>3, CountIsAdded DEF m
      <4>5. usage = IF lines[k + 1].usage = Estimated THEN old ELSE lines[k + 1].usage
        BY DEF usage, old, line
      <4> QED
        BY <4>4, <4>5 DEF m
    <3> HIDE DEF text, tool, usage
    <3>5. /\ read.any = TRUE /\ read.text = text /\ read.tool = tool
          /\ read.usage = usage /\ read.error = part.error /\ read.over = part.over
      BY <3>1 DEF StreamParts
    <3> HIDE DEF read
    <3>6. HasErrorOf(lines, m, read)
      <4>1. ~read.error
        BY <1>12, <3>5
      <4>2. ~\E i \in SaidBy(lines, m) : lines[i].kind = "error"
        BY <1>8, <2>4, <2>5, <2>7
      <4> QED
        BY <4>1, <4>2 DEF HasErrorOf
    <3>7. HasTextOf(lines, m, next, read)
      <4>1. read.over <=> \E i \in 1 .. m : lines[i].kind = "done"
        BY <1>1, <1>8, <2>2, <2>3, <3>5
      <4>2. read.any <=> SaidBy(lines, m) # {}
        BY <2>4, <3>5
      <4>3. read.tool <=> \E i \in SaidBy(lines, m) : lines[i].kind = "tool"
        <5>1. part.tool <=> \E i \in SaidBy(lines, k) : lines[i].kind = "tool"
          BY <2>1 DEF HasTextOf
        <5> QED
          BY <1>8, <2>4, <3>2, <3>5, <5>1
      <4>4. read.text = next /\ CountOf(lines, m, read.usage)
        BY <3>3, <3>4, <3>5
      <4> QED
        BY <4>1, <4>2, <4>3, <4>4 DEF HasTextOf
    <3> QED
      BY <3>6, <3>7 DEF Has, read, m, line
  <2> QED
    BY <2>6, <2>7
<1> QED
  BY <1>2, <1>10, <1>11, <1>12

-----------------------------------------------------------------------------
\* The text that the lines say, glued.
LEMMA SaidTextUnfolds ==
  ASSUME NEW S, NEW n \in Nat, NEW lines \in [1 .. n -> StreamLines(S)]
  PROVE  \E g : /\ g[0] = <<>> /\ g[n] = SaidText(lines)
                /\ \A k \in 1 .. n :
                     g[k] = IF k \in Said(lines) THEN g[k - 1] \o lines[k].text
                            ELSE g[k - 1]
<1> DEFINE X == Seq(S)
           words == [i \in 1 .. n |-> IF i \in Said(lines) THEN lines[i].text ELSE <<>>]
           g == Glued(words)
<1>1. <<>> \in X /\ \A a, b \in X : a \o b \in X
  OBVIOUS
<1>2. words \in [1 .. n -> X]
  <2>1. \A i \in 1 .. n : lines[i].text \in X
    BY DEF StreamLines
  <2> QED
    BY <1>1, <2>1
<1>3. SaidText(lines) = Glue(words)
  <2>1. DOMAIN lines = 1 .. n
    OBVIOUS
  <2> QED
    BY <2>1 DEF SaidText
<1>4. \A i \in 1 .. n : words[i] = IF i \in Said(lines) THEN lines[i].text ELSE <<>>
  OBVIOUS
<1> HIDE DEF words, X
<1>5. GluesAre(words, n, g) /\ g \in [0 .. n -> X] /\ Glue(words) = g[n]
  BY <1>1, <1>2, GlueUnfolds
<1> HIDE DEF g
<1>6. ASSUME NEW k \in 1 .. n
      PROVE  g[k] = IF k \in Said(lines) THEN g[k - 1] \o lines[k].text ELSE g[k - 1]
  <2>1. g[k] = g[k - 1] \o words[k]
    BY <1>5 DEF GluesAre
  <2>2. g[k - 1] \in Seq(S)
    BY <1>5 DEF X
  <2>3. g[k - 1] \o <<>> = g[k - 1]
    BY <2>2
  <2> QED
    BY <1>4, <2>1, <2>3
<1> QED
  BY <1>3, <1>5, <1>6 DEF GluesAre

\* What the answer to a stream has to be.
Silent(lines) ==
  \/ Said(lines) = {}
  \/ \E i \in Said(lines) : lines[i].kind = "error"
  \/ SaidText(lines) = <<>> /\ \E i \in Said(lines) : lines[i].kind = "tool"
Answers(lines, response) ==
  IF Silent(lines) THEN "error" \in DOMAIN response
  ELSE /\ response.text = SaidText(lines)
       /\ Counted(lines) # {} => response.tokens = lines[Max(Counted(lines))].usage

(***************************************************************************)
(* parseEventStream (openai.provider.ts:193-257) reads a stream of any     *)
(* number of lines of data, with texts of any length, for what is said in  *)
(* it before [DONE]: all of the text, the last count of tokens, and an     *)
(* error wherever there is one with a message.  A chunk whose error has no *)
(* message is read like any other.                                         *)
(***************************************************************************)
THEOREM StreamIsRead ==
  ASSUME NEW S, NEW n \in Nat, NEW lines \in [1 .. n -> StreamLines(S)]
  PROVE  Answers(lines, ParseEventStream(lines))
<1> DEFINE p == Parts(lines)
           last == p[n]
<1>1. Len(lines) = n /\ DOMAIN lines = 1 .. n
  <2>1. lines \in Seq(StreamLines(S))
    OBVIOUS
  <2> QED
    OBVIOUS
<1>2. Said(lines) = {i \in 1 .. n : lines[i].kind # "noise"
                                    /\ \A j \in 1 .. i : lines[j].kind # "done"}
  BY <1>1 DEF Said
<1>3. /\ p[0] = NothingRead /\ \A i \in 1 .. n : p[i] = Read(p[i - 1], lines[i])
      /\ \A i \in 0 .. n : p[i] \in StreamParts(S)
  BY PartsUnfold DEF PartsAre
<1>4. PICK g : /\ g[0] = <<>> /\ g[n] = SaidText(lines)
               /\ \A k \in 1 .. n :
                    g[k] = IF k \in Said(lines) THEN g[k - 1] \o lines[k].text
                           ELSE g[k - 1]
  BY SaidTextUnfolds
<1> HIDE DEF p
<1> DEFINE P == {k \in 0 .. n : Has(lines, k, g[k], p[k])}
<1>5. 0 \in P
  <2>1. SaidBy(lines, 0) = {}
    BY <1>2 DEF SaidBy
  <2>2. Has(lines, 0, <<>>, NothingRead)
    BY <2>1 DEF Has, HasErrorOf, HasTextOf, CountOf, CountedBy, NothingRead
  <2> QED
    BY <1>3, <1>4, <2>2
<1>6. \A k \in 0 .. n - 1 : k \in P => k + 1 \in P
  <2> SUFFICES ASSUME NEW k \in 0 .. n - 1, k \in P
               PROVE  k + 1 \in P
    OBVIOUS
  <2> DEFINE part == p[k]
             glued == g[k]
  <2>1. k + 1 \in 1 .. n /\ k + 1 \in 0 .. n /\ k \in 0 .. n /\ (k + 1) - 1 = k
    OBVIOUS
  <2>2. part \in StreamParts(S) /\ Has(lines, k, glued, part)
    BY <1>3, <2>1
  <2>3. p[k + 1] = Read(part, lines[k + 1])
    BY <1>3, <2>1
  <2>4. g[k + 1] = IF k + 1 \in Said(lines) THEN glued \o lines[k + 1].text ELSE glued
    BY <1>4, <2>1
  <2> HIDE DEF part, glued
  <2>5. \A next : next = (IF k + 1 \in Said(lines) THEN glued \o lines[k + 1].text
                          ELSE glued)
                  => Has(lines, k + 1, next, Read(part, lines[k + 1]))
    BY <1>2, <2>2, LineIsRead
  <2>6. Has(lines, k + 1, g[k + 1], p[k + 1])
    BY <2>3, <2>4, <2>5
  <2> QED
    BY <2>1, <2>6
<1> HIDE DEF P
<1>7. \A k \in 0 .. n : k \in P
  BY <1>5, <1>6, InductionUpTo
<1>8. /\ Has(lines, n, SaidText(lines), last) /\ last \in StreamParts(S)
  BY <1>3, <1>4, <1>7 DEF P
<1>9. SaidBy(lines, n) = Said(lines) /\ CountedBy(lines, n) = Counted(lines)
  <2>1. SaidBy(lines, n) = Said(lines)
    BY <1>2 DEF SaidBy
  <2> QED
    BY <2>1 DEF CountedBy, Counted, Unsaid
<1> DEFINE answer == ParseEventStream(lines)
<1>10. answer =
         CASE last.error -> Fails("PROVIDER_REQUEST_ERROR")
           [] ~last.error /\ ~last.any -> Fails("PROVIDER_RESPONSE_PARSE_ERROR")
           [] ~last.error /\ last.any /\ last.text = <<>> /\ last.tool ->
                Fails("PROVIDER_TOOL_CALL_RESPONSE_UNSUPPORTED")
           [] OTHER -> [text |-> last.text,
                        tokens |-> ExtractUsage(last.usage, last.text)]
  BY <1>1 DEF ParseEventStream, p
<1> HIDE DEF last, answer
<1>11. last.error <=> \E i \in Said(lines) : lines[i].kind = "error"
  BY <1>8, <1>9 DEF Has, HasErrorOf
<1>12. ~last.error =>
         /\ last.any <=> Said(lines) # {}
         /\ last.tool <=> \E i \in Said(lines) : lines[i].kind = "tool"
         /\ last.text = SaidText(lines)
         /\ CountOf(lines, n, last.usage)
  BY <1>8, <1>9 DEF Has, HasTextOf
<1>13. \A code : "error" \in DOMAIN Fails(code)
  BY DEF Fails
<1>14. CASE Silent(lines)
  <2>1. \/ last.error
        \/ ~last.error /\ ~last.any
        \/ ~last.error /\ last.any /\ last.text = <<>> /\ last.tool
    BY <1>11, <1>12, <1>14 DEF Silent
  <2>2. \E code : answer = Fails(code)
    BY <1>10, <2>1
  <2> QED
    BY <1>13, <1>14, <2>2 DEF Answers, answer
<1>15. CASE ~Silent(lines)
  <2>1. /\ ~last.error /\ last.any /\ ~(last.text = <<>> /\ last.tool)
        /\ last.text = SaidText(lines)
    BY <1>11, <1>12, <1>15 DEF Silent
  <2>2. answer = [text |-> last.text, tokens |-> ExtractUsage(last.usage, last.text)]
    BY <1>10, <2>1
  <2>3. answer.text = SaidText(lines)
        /\ answer.tokens = ExtractUsage(last.usage, last.text)
    BY <2>1, <2>2
  <2>4. ASSUME Counted(lines) # {}
        PROVE  answer.tokens = lines[Max(Counted(lines))].usage
    <3>1. PICK i \in Counted(lines) :
            last.usage = lines[i].usage /\ \A j \in Counted(lines) : j <= i
      BY <1>9, <1>12, <2>1, <2>4 DEF CountOf
    <3>2. Counted(lines) \subseteq Int
      BY <1>2 DEF Counted
    <3> DEFINE c == Counted(lines)
    <3>3. i \in c /\ c \subseteq Int /\ \A j \in c : j <= i
      BY <3>1, <3>2
    <3> HIDE DEF c
    <3>4. Max(c) \in c /\ \A y \in c : Max(c) >= y
      BY <3>3 DEF Max
    <3>5. Max(c) = i
      <4>1. Max(c) \in Int /\ i \in Int /\ Max(c) <= i /\ i <= Max(c)
        BY <3>3, <3>4
      <4> QED
        BY <4>1
    <3>6. last.usage # Estimated
      BY <3>1 DEF Counted, Unsaid
    <3>7. ExtractUsage(last.usage, last.text) = last.usage
      BY <3>6 DEF ExtractUsage
    <3> QED
      BY <2>3, <3>1, <3>5, <3>7 DEF c
  <2> HIDE DEF last
  <2> QED
    BY <1>15, <2>3, <2>4 DEF Answers, answer
<1> QED
  BY <1>14, <1>15

LEMMA StreamsAreRead ==
  ASSUME NEW lines \in Streams
  PROVE  Answers(lines, Generate([kind |-> "ok", lines |-> lines]))
<1> DEFINE S == {"a", "b"}
           answer == Generate([kind |-> "ok", lines |-> lines])
<1>1. DataLines \subseteq StreamLines(S)
  <2>1. /\ <<>> \in Seq(S) /\ <<"a">> \in Seq(S) /\ <<"b">> \in Seq(S)
        /\ Unsaid \in Int
    BY DEF Unsaid, Estimated
  <2> HIDE DEF S
  <2> QED
    BY <2>1 DEF DataLines, StreamLines, Line
<1> HIDE DEF S
<1>2. PICK n \in 0 .. MaxLines : lines \in [1 .. n -> DataLines]
  BY WordsAreFunctions DEF Streams
<1>3. n \in Nat /\ lines \in [1 .. n -> StreamLines(S)]
  BY <1>1, <1>2
<1>4. lines \in Seq(StreamLines(S)) /\ DOMAIN lines = 1 .. n /\ Len(lines) = n
  BY <1>3
<1>5. answer = ParseCompletionBody(lines)
  BY DEF Generate
<1> HIDE DEF answer
<1>6. CASE n = 0
  <2>1. lines = <<>>
    BY <1>4, <1>6
  <2>2. answer = Fails("PROVIDER_EMPTY_RESPONSE")
    BY <1>5, <2>1 DEF ParseCompletionBody
  <2>3. "error" \in DOMAIN answer
    BY <2>2 DEF Fails
  <2>4. Silent(lines)
    BY <1>4, <1>6 DEF Silent, Said
  <2> QED
    BY <2>3, <2>4 DEF Answers, answer
<1>7. CASE n # 0
  <2>1. lines # <<>> /\ 1 \in 1 .. n /\ Head(lines) = lines[1]
    BY <1>3, <1>4, <1>7
  <2>2. \A i \in 1 .. n : lines[i].data
    BY <1>3 DEF StreamLines
  <2>3. ~IsObject(Head(lines))
    BY <2>1, <2>2 DEF IsObject
  <2>4. {i \in DOMAIN lines : lines[i].data} # {}
    BY <1>4, <2>1, <2>2
  <2>5. answer = ParseEventStream(lines)
    BY <1>5, <2>1, <2>3, <2>4 DEF ParseCompletionBody
  <2>6. Answers(lines, ParseEventStream(lines))
    BY <1>3, StreamIsRead
  <2> QED
    BY <2>5, <2>6 DEF answer
<1> QED
  BY <1>6, <1>7

LEMMA BodiesAreReadAlways ==
  ASSUME focus = "body" => input \in Texts, focus = "stream" => input \in Streams
  PROVE  BodiesAreRead
<1>1. focus = "body" =>
        FirstObject(input.prefix \o input.object \o input.suffix) = input.object
  BY ObjectsAreFound
<1>2. focus = "stream" =>
        Answers(input, Generate([kind |-> "ok", lines |-> input]))
  BY StreamsAreRead
<1> QED
  BY <1>1, <1>2 DEF BodiesAreRead, Answers, Silent

(***************************************************************************)
(* All of them.  An input is one of those that TLC enumerates, for any     *)
(* value of the constants; it never changes.                               *)
(***************************************************************************)

InputInv ==
  /\ focus = "plan" => input \in Plans
  /\ focus = "pattern" => input \in Subscriptions
  /\ focus = "cron" => input \in Cron
  /\ focus = "query" => input \in Queries
  /\ focus = "history" => input \in Histories
  /\ focus = "context" => input \in Contexts
  /\ focus = "body" => input \in Texts
  /\ focus = "stream" => input \in Streams

HelperInv == InputInv /\ TimerInv /\ JournalInv

LEMMA HelperInvHolds == AllSpec => []HelperInv
<1>1. AllInit => HelperInv
  <2> SUFFICES ASSUME AllInit
               PROVE  HelperInv
    OBVIOUS
  <2>1. InputInv
    BY DEF AllInit, InputInv
  <2>2. TimerInv /\ JournalInv
    BY TimerInvInit, JournalInvInit DEF AllInit
  <2> QED
    BY <2>1, <2>2 DEF HelperInv
<1>2. HelperInv /\ [AllNext]_<<focus, input, timerVars, journalVars>> => HelperInv'
  <2> SUFFICES ASSUME HelperInv, [AllNext]_<<focus, input, timerVars, journalVars>>
               PROVE  HelperInv'
    OBVIOUS
  <2>1. UNCHANGED <<focus, input>>
    BY DEF AllNext
  <2>2. InputInv'
    BY <2>1 DEF HelperInv, InputInv
  <2>3. UNCHANGED timerVars => TimerInv'
    BY DEF HelperInv, TimerInv, timerVars
  <2>4. UNCHANGED journalVars => JournalInv'
    BY DEF HelperInv, JournalInv, JournalType, ShownInv, Shown, journalVars
  <2>5. Runner!Next => TimerInv'
    BY TimerInvNext DEF HelperInv
  <2>6. Journal!Next => JournalInv'
    BY JournalInvNext DEF HelperInv
  <2>7. TimerInv' /\ JournalInv'
    BY <2>3, <2>4, <2>5, <2>6 DEF AllNext
  <2> QED
    BY <2>2, <2>7 DEF HelperInv
<1> QED
  BY <1>1, <1>2, PTL DEF AllSpec

(***************************************************************************)
(* The algorithms of dag-builder.ts on whatever plan decompose makes of a  *)
(* model's answer, however many steps it has: validateDAG accepts it       *)
(* exactly when it has no cycle, and then the list and the waves that are  *)
(* made of it are what the executor needs.                                 *)
(***************************************************************************)
THEOREM PlansSort == AllSpec => []SortsAgree
<1>1. HelperInv => SortsAgree
  BY SortsAgreeAlways DEF HelperInv, InputInv
<1> QED
  BY <1>1, HelperInvHolds, PTL

(***************************************************************************)
(* What makes a trigger fire: a subscription with a wildcard at its edge   *)
(* gets the events that it reads as, a plain field of a cron expression    *)
(* matches the values that it stands for, and the timer of cron-runner.ts  *)
(* looks at no minute twice, however late its callbacks are.               *)
(***************************************************************************)
THEOREM TriggersFireAsWritten == AllSpec => []TriggersMatchAsWritten
<1>1. HelperInv => TriggersMatchAsWritten
  BY PatternsMatchAtTheirEdges, CronFieldsArePlain, NoMinuteIsSeenTwice
     DEF HelperInv, InputInv, TriggersMatchAsWritten
<1> QED
  BY <1>1, HelperInvHolds, PTL

(***************************************************************************)
(* A replay of the journal (event-journal.ts:101) that finished has shown  *)
(* its handler every row of a later millisecond than its start that there  *)
(* was when it began, once and in order, whatever was emitted meanwhile.   *)
(***************************************************************************)
THEOREM ReplayShowsAll == AllSpec => []ReplayIsComplete
<1>1. HelperInv => ReplayIsComplete
  BY FinishedIsComplete DEF HelperInv
<1> QED
  BY <1>1, HelperInvHolds, PTL

(***************************************************************************)
(* The context of a task (hybrid-retriever.ts:86-129) never costs more     *)
(* than the budget, and no record that is left out of a half of it would   *)
(* score higher than one that is in it; episodes are only left out when    *)
(* there is no room for another.                                           *)
(***************************************************************************)
THEOREM ContextsStayInBudget == AllSpec => []ContextFits
<1>1. HelperInv => ContextFits
  BY ContextsFit DEF HelperInv, InputInv
<1> QED
  BY <1>1, HelperInvHolds, PTL

(***************************************************************************)
(* The queries of the graph (graph-traversal.ts): the recursive query,     *)
(* which enumerates paths, finds the neighbours and the shortest paths     *)
(* that a search by breadth finds, and getEntityAtTime the version that an *)
(* entity had.                                                             *)
(***************************************************************************)
THEOREM GraphAnswersRightly == AllSpec => []GraphAnswersAgree
<1>1. HelperInv => GraphAnswersAgree
  BY QueriesAreRight, PastIsRight DEF HelperInv, InputInv, GraphAnswersAgree
<1> QED
  BY <1>1, HelperInvHolds, PTL

(***************************************************************************)
(* What a provider's response is read as (openai.provider.ts:120-313): the *)
(* first object in a body is found, whatever its strings hold, and a       *)
(* stream answers with all that it says before [DONE] and with the last    *)
(* count of tokens, or with an error if one with a message is in it or if  *)
(* no chunk is.                                                            *)
(***************************************************************************)
THEOREM BodiesAreReadRightly == AllSpec => []BodiesAreRead
<1>1. HelperInv => BodiesAreRead
  BY BodiesAreReadAlways DEF HelperInv, InputInv
<1> QED
  BY <1>1, HelperInvHolds, PTL
=============================================================================
