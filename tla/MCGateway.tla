----------------------------- MODULE MCGateway ------------------------------
(* Instances of Gateway, and with it of AgentKernel, for TLC. *)
EXTENDS Gateway, TLC

CONSTANTS t1, t2, p1, p2

TwoTasks == {t1, t2}
Mixed == (t1 :> 10) @@ (t2 :> 20)
TwoProcs == {p1, p2}
=============================================================================
