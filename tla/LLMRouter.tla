----------------------------- MODULE LLMRouter -----------------------------
(***************************************************************************)
(* The LLM router: generate (llm-router/src/llm-router.ts), the response   *)
(* cache (cache/response-cache.ts), the route (router/route-selector.ts)   *)
(* and the budget tracker.  Any number of calls of generate run at once;   *)
(* each waits for the event bus before it chooses its route, for every     *)
(* provider it tries, and for the event bus before it fills the cache.     *)
(* Every answer costs one unit.                                            *)
(***************************************************************************)
EXTENDS Integers, FiniteSets, Sequences, SequencesExt

CONSTANTS Call,      \* the calls of generate
          Request,   \* the requests they make
          Provider,  \* the providers that may be registered
          Messages,  \* request.messages of each
          Given,     \* its other fields (see Field), None where one is left out
          None,
          MayExpire  \* may a cache entry reach the end of its time to live?

\* The fields of a request that may be left out, and what the key of the cache
\* takes for one that is.
Field == {"provider", "model", "temperature", "maxTokens"}

Preset == [provider |-> "default", model |-> "default",
           temperature |-> "0.7", maxTokens |-> "4096"]

Asked(r) == Given[r].provider

\* Mutant of GenerateKey: the provider that is asked for is not part of it.
KeyWithoutProvider(r) ==
  <<Messages[r], [f \in Field |-> IF f = "provider" \/ Given[r][f] = None
                                  THEN Preset[f] ELSE Given[r][f]]>>

\* ResponseCache.generateKey: the hash of the messages and the fields.
GenerateKey(r) ==
  <<Messages[r], [f \in Field |-> IF Given[r][f] = None THEN Preset[f]
                                  ELSE Given[r][f]]>>

Key == {GenerateKey(r) : r \in Request}

VARIABLES providers, \* providers, in the order of their registration
          default,   \* defaultProviderName
          cache,     \* the cached response for each key
          cost,      \* totalCostUsd of the budget tracker
          pc,        \* what each call does
          request,   \* its request
          route,     \* the providers that it has not tried yet
          result     \* what it answers

vars == <<providers, default, cache, cost, pc, request, route, result>>

NoResponse == [provider |-> None, request |-> None, costUsd |-> 0, cached |-> FALSE]

Init ==
  /\ providers = <<>>
  /\ default = None
  /\ cache = [k \in Key |-> NoResponse]
  /\ cost = 0
  /\ pc = [c \in Call |-> "idle"]
  /\ request = [c \in Call |-> None]
  /\ route = [c \in Call |-> <<>>]
  /\ result = [c \in Call |-> NoResponse]

\* RouteSelector.select: the target and then the others, if it is registered.
Route(target) ==
  IF target \in ToSet(providers)
  THEN LET i == CHOOSE i \in DOMAIN providers : providers[i] = target IN
       <<target>> \o RemoveAt(providers, i)
  ELSE providers

RegisterProvider(p, isDefault) ==
  /\ providers' = IF p \in ToSet(providers) THEN providers
                  ELSE Append(providers, p)
  /\ default' = IF isDefault \/ default = None THEN p ELSE default
  /\ UNCHANGED <<cache, cost, pc, request, route, result>>
-----------------------------------------------------------------------------
\* generate up to its first await: an entry is found, or there is none, or
\* it has expired and is deleted.
Hit(c, r) ==
  /\ pc[c] = "idle"
  /\ cache[GenerateKey(r)] # NoResponse
  /\ request' = [request EXCEPT ![c] = r]
  /\ result' = [result EXCEPT ![c] = [cache[GenerateKey(r)] EXCEPT !.cached = TRUE]]
  /\ pc' = [pc EXCEPT ![c] = "hit"]
  /\ UNCHANGED <<providers, default, cache, cost, route>>

Miss(c, r) ==
  /\ pc[c] = "idle"
  /\ cache[GenerateKey(r)] = NoResponse \/ MayExpire
  /\ cache' = [cache EXCEPT ![GenerateKey(r)] = NoResponse]
  /\ request' = [request EXCEPT ![c] = r]
  /\ pc' = [pc EXCEPT ![c] = "starting"]
  /\ UNCHANGED <<providers, default, cost, route, result>>

\* After the event: the target is that of this moment.
ChooseRoute(c) ==
  LET target == IF Asked(request[c]) # None THEN Asked(request[c]) ELSE default IN
  /\ pc[c] = "starting"
  /\ IF target = None
     THEN pc' = [pc EXCEPT ![c] = "threw"] /\ UNCHANGED route
     ELSE /\ route' = [route EXCEPT ![c] = Route(target)]
          /\ pc' = [pc EXCEPT ![c] = "trying"]
  /\ UNCHANGED <<providers, default, cache, cost, request, result>>

\* The next provider of the route and the answer is billed.
ProviderAnswers(c) ==
  LET p == Head(route[c]) IN
  /\ pc[c] = "trying" /\ route[c] # <<>>
  /\ cost' = cost + 1
  /\ result' = [result EXCEPT ![c] =
       [provider |-> p, request |-> request[c], costUsd |-> 1, cached |-> FALSE]]
  /\ pc' = [pc EXCEPT ![c] = "answered"]
  /\ UNCHANGED <<providers, default, cache, request, route>>

ProviderFails(c) ==
  /\ pc[c] = "trying" /\ route[c] # <<>>
  /\ route' = [route EXCEPT ![c] = Tail(@)]
  /\ UNCHANGED <<providers, default, cache, cost, pc, request, result>>

\* Mutant of AllFailed: it counts on a provider to have failed.
AllFailedIfAny(c) ==
  /\ pc[c] = "trying" /\ route[c] = <<>>
  /\ providers # <<>>
  /\ pc' = [pc EXCEPT ![c] = "threw"]
  /\ UNCHANGED <<providers, default, cache, cost, request, route, result>>

AllFailed(c) ==
  /\ pc[c] = "trying" /\ route[c] = <<>>
  /\ pc' = [pc EXCEPT ![c] = "threw"]
  /\ UNCHANGED <<providers, default, cache, cost, request, route, result>>

\* After the events that follow an answer: the cache is filled.
StoreAndReturn(c) ==
  /\ pc[c] = "answered"
  /\ cache' = [cache EXCEPT ![GenerateKey(request[c])] = result[c]]
  /\ pc' = [pc EXCEPT ![c] = "returned"]
  /\ UNCHANGED <<providers, default, cost, request, route, result>>

\* After the event that follows a hit.
ReturnHit(c) ==
  /\ pc[c] = "hit"
  /\ pc' = [pc EXCEPT ![c] = "returned"]
  /\ UNCHANGED <<providers, default, cache, cost, request, route, result>>

Progress(c) ==
  \/ ChooseRoute(c) \/ ProviderAnswers(c) \/ ProviderFails(c) \/ AllFailed(c)
  \/ StoreAndReturn(c) \/ ReturnHit(c)

UnderWay(c) == pc[c] \notin {"idle", "returned", "threw"}

Next ==
  \/ \E p \in Provider, d \in BOOLEAN : RegisterProvider(p, d)
  \/ \E c \in Call, r \in Request : Hit(c, r) \/ Miss(c, r)
  \/ \E c \in Call : Progress(c)

Spec == Init /\ [][Next]_vars

\* The providers answer or fail, and the event bus returns.  The clients of
\* anthropic and google abort a request after a minute; openai.provider.ts:85
\* sets no limit, so that for it fairness rests on fetch ending every request
\* by its own defaults.  The calls are finitely many: fairness to one of them
\* after the other is fairness to each.
FairSpec == Spec /\ WF_vars(\E c \in Call : Progress(c))
-----------------------------------------------------------------------------
Responses ==
  [provider : Provider \cup {None}, request : Request \cup {None},
   costUsd : {0, 1}, cached : BOOLEAN]

\* The type invariant: the domain of every variable of the router.
TypeOK ==
  /\ ToSet(providers) \subseteq Provider /\ IsInjective(providers)
  /\ default \in Provider \cup {None}
  /\ cache \in [Key -> Responses]
  /\ cost \in Nat
  /\ pc \in [Call -> {"idle", "hit", "starting", "trying", "answered",
                      "returned", "threw"}]
  /\ request \in [Call -> Request \cup {None}]
  /\ \A c \in Call : ToSet(route[c]) \subseteq Provider
  /\ result \in [Call -> Responses]

\* Two requests with the same messages, and with the same fields but for one
\* that only one of them leaves out, where the other gives its preset.
Alike(q, r) ==
  /\ Messages[q] = Messages[r]
  /\ \A f \in Field : \/ Given[q][f] = Given[r][f]
                      \/ {Given[q][f], Given[r][f]} = {None, Preset[f]}

(***************************************************************************)
(* However the calls interleave, fall back and hit the cache, a call       *)
(* returns an answer to its own request or to one that is alike: a         *)
(* difference in the messages, the provider that is asked for, the model   *)
(* or a limit is never lost on the way, except between a field left out    *)
(* and its preset (which the OpenAI client does not send, so that there    *)
(* the model may have decided otherwise).                                  *)
(***************************************************************************)
AnswersMatchRequests ==
  \A c \in Call :
    pc[c] = "returned" =>
      result[c].request \in Request /\ Alike(result[c].request, request[c])

\* Another provider than the one a request names answers only after that
\* one has failed, or when it was not registered as the route was chosen.
AskedComesFirst ==
  \A c \in Call :
    pc[c] = "answered" =>
      \/ result[c].provider = Asked(request[c])
      \/ Asked(request[c]) \notin ToSet(route[c])
=============================================================================
