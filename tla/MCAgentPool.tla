---------------------------- MODULE MCAgentPool ----------------------------
(* Instances of AgentPool for TLC. *)
EXTENDS AgentPool, TLC

CONSTANTS d1, d2, d3, d4, coder, writer

Delegations == {d1, d2, d3, d4}
OneCoder == {d1}
TwoRoles == {coder, writer}
ThreeCoders == [d \in Delegations |-> IF d = d4 THEN writer ELSE coder]
OneEach == (coder :> 1) @@ (writer :> 1)
OnlyCoder == {coder}

\* Specs of the role that is not known at first (with no instance its
\* delegations stay in the queue, ahead of others) and of the one that is.
SomeSpecs ==
  [type : {writer}, maxInstances : {0, 1}]
    \cup [type : {coder}, maxInstances : {1, 2}]
=============================================================================
