---------------------------- MODULE MCHarnessChains ----------------------------
(* Small instances of HarnessChains for TLC.                                 *)
EXTENDS HarnessChains, TLC

CONSTANTS t1, t2

Delegated == (t1 :> Nobody) @@ (t2 :> t1)
Alone == [t \in Tasks |-> Nobody]
SameAgentOf == [t \in Tasks |-> "a"]
=============================================================================
