---------------------------- MODULE MCWorkflowRuns ----------------------------
(* Small instances of WorkflowRuns for TLC.                                 *)
EXTENDS WorkflowRuns, TLC

CONSTANTS w1, w2, p1, p2

(* One worker in each of two processes.                                     *)
Apart == (w1 :> p1) @@ (w2 :> p2)

(* The two processes may be exchanged, each with its worker.                *)
Same == [x \in {w1, w2, p1, p2} |-> x]
Exchange == (w1 :> w2) @@ (w2 :> w1) @@ (p1 :> p2) @@ (p2 :> p1)
Symmetry == {x @@ y : x \in {Same, Exchange}, y \in Permutations(Runs)}

Edge(source, port, target) == [source |-> source, port |-> port, target |-> target]

(* A step that runs when the one before it fails, and is skipped otherwise; *)
(* and a step that waits for the start and for a failure, as "all".         *)
Rescue == [edges |-> {Edge("start", Ok, "deploy"), Edge("deploy", FailedPort, "tell")},
           all |-> {}]
Join == [edges |-> Rescue.edges \cup {Edge("start", Ok, "tell")}, all |-> {"tell"}]
Shapes == {Rescue, Join}

(* One step after the start.                                                *)
OneStep == {[edges |-> {Edge("start", Ok, "deploy")}, all |-> {}]}
=============================================================================
