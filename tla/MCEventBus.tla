---------------------------- MODULE MCEventBus -----------------------------
(* Instances of EventBus for TLC. *)
EXTENDS EventBus, TLC

CONSTANTS e1, e2, h1, h2

TwoEmissions == {e1, e2}
TwoHandlers == {h1, h2}
TwoPatterns == {<<"*">>, <<"kernel", "*">>}
Types == (e1 :> <<"kernel", "task">>) @@ (e2 :> <<"memory", "fact">>)
=============================================================================
