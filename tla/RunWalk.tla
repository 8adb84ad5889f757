-------------------------------- MODULE RunWalk --------------------------------
(***************************************************************************)
(* What the workflow engine promises of a run: that it is walked as if one *)
(* interpreter did it alone, on the rows as they are, with no claims, no   *)
(* leases, nothing read before it is used, and no crash but the loss of an *)
(* answer. A step starts when nothing else goes on and an edge leads to    *)
(* it; it is called while it is on, and not again if no end of the last    *)
(* call is on record and it must not act twice; it ends by an answer to a call that is out; and the run is  *)
(* closed for a reason it has, with all its steps.                         *)
(*                                                                         *)
(* WorkflowRuns implements this specification: see Walk there. The promise *)
(* is that of the docstrings of walk.py, of Store.write, and of            *)
(* Engine._process: "Do one thing with the run".                           *)
(***************************************************************************)
EXTENDS Integers

CONSTANTS Runs, Nodes, Trigger, Graphs, Failable, Deciding, Unrepeatable, Retries
CONSTANT Callers

VARIABLES
    graph,      \* the edges, and the nodes that wait for all of theirs
    status,     \* of each run
    cancel,     \* whether its cancel was accepted
    steps,      \* its steps
    late,       \* the runs whose deadline has passed
    asked,      \* the steps of each run that had not started when its cancel came
    calls       \* the calls that each caller has out, one at most

vars == <<graph, status, cancel, steps, late, asked, calls>>

Ok == 0
FailedPort == 1
NoPort == -1

Over == {"succeeded", "failed", "skipped", "cancelled"}
Open(r) == status[r] \in {"queued", "running"}
NoStep == [status |-> "absent", port |-> NoPort, attempt |-> 0, called |-> FALSE]

Init ==
    /\ graph \in Graphs
    /\ status = [r \in Runs |-> "absent"]
    /\ cancel = [r \in Runs |-> FALSE]
    /\ steps = [r \in Runs |-> [n \in Nodes |-> NoStep]]
    /\ late = {}
    /\ asked = [r \in Runs |-> {}]
    /\ calls = [c \in Callers |-> {}]

-----------------------------------------------------------------------------
(* What is known of an edge of r once its source is over.                   *)
Into(n) == {e \in graph.edges : e.target = n}
Decided(e, r) == steps[r][e.source].status \in Over
Taken(e, r) == Decided(e, r) /\ steps[r][e.source].port = e.port
Lost(e, r) == Decided(e, r) /\ steps[r][e.source].port # e.port

Is(r, n, s) == steps[r][n].status = s

(* An edge leads to n, and to an "all" join nothing may still lead.         *)
Reached(r, n) ==
    /\ Is(r, n, "pending")
    /\ \E e \in Into(n) : Taken(e, r)
    /\ n \in graph.all => \A e \in Into(n) : Decided(e, r)

(* Nothing leads to n any more, but from S.                                 *)
OutOfReach(r, n, S) ==
    /\ Is(r, n, "pending") /\ Into(n) # {}
    /\ \A e \in Into(n) : Lost(e, r) \/ e.source \in S

(* Nothing goes on, and what cannot be reached any more is skipped.         *)
Still(r) ==
    \A n \in Nodes : ~Is(r, n, "running") /\ ~OutOfReach(r, n, {})

(* The failures of r that nothing handles.                                  *)
Unhandled(r) ==
    {n \in Nodes : /\ Is(r, n, "failed")
                   /\ ~\E e \in graph.edges : e.source = n /\ Taken(e, r)}

(* The run goes on: it is started, in time, and no failure ends it.         *)
Going(r) == status[r] = "running" /\ r \notin late /\ Unhandled(r) = {}

-----------------------------------------------------------------------------
(* The requests, and the clock.                                             *)
Create(r) ==
    /\ status[r] = "absent"
    /\ status' = [status EXCEPT ![r] = "queued"]
    /\ UNCHANGED <<graph, cancel, steps, late, asked, calls>>

Ask(r) ==
    /\ Open(r) /\ ~cancel[r]
    /\ cancel' = [cancel EXCEPT ![r] = TRUE]
    /\ asked' = [asked EXCEPT ![r] = {n \in Nodes : Is(r, n, "absent") \/ Is(r, n, "pending")}]
    /\ UNCHANGED <<graph, status, steps, late, calls>>

PassDeadline(r) ==
    /\ Open(r) /\ r \notin late
    /\ late' = late \cup {r}
    /\ UNCHANGED <<graph, status, cancel, steps, asked, calls>>

(* The run begins at its trigger. What no edge leads to is skipped.         *)
FirstRow(n) ==
    IF n = Trigger THEN [NoStep EXCEPT !.status = "succeeded", !.port = Ok]
    ELSE [NoStep EXCEPT !.status = IF Into(n) = {} THEN "skipped" ELSE "pending"]

Begin(r) ==
    /\ status[r] = "queued"
    /\ status' = [status EXCEPT ![r] = "running"]
    /\ steps' = [steps EXCEPT ![r] = [n \in Nodes |-> FirstRow(n)]]
    /\ UNCHANGED <<graph, cancel, late, asked, calls>>

-----------------------------------------------------------------------------
(* Only the row of n changes, and the calls that are out.                   *)
Step(r, n, row) ==
    /\ steps' = [steps EXCEPT ![r][n] = row]
    /\ UNCHANGED <<graph, status, cancel, late, asked>>

Ended(row, s, port) == [row EXCEPT !.status = s, !.port = port, !.called = FALSE]

On(r, n) == status[r] = "running" /\ Is(r, n, "running")

Start(r, n) ==
    /\ Going(r) /\ Still(r) /\ Reached(r, n)
    /\ Step(r, n, [steps[r][n] EXCEPT !.status = "running", !.attempt = 1])
    /\ UNCHANGED calls

(* Never a step that waited when the cancel came, and never again one that  *)
(* must not act twice, if no end of the last call is on record.             *)
Call(r, n, c) ==
    /\ Going(r) /\ Is(r, n, "running") /\ n \notin asked[r]
    /\ n \in Unrepeatable => ~steps[r][n].called
    /\ Step(r, n, [steps[r][n] EXCEPT !.called = TRUE])
    /\ calls[c] = {} /\ calls' = [calls EXCEPT ![c] = {<<r, n>>}]

(* The answer to a call of n counts though the deadline has passed.         *)
Answer(r, n) ==
    \E c \in Callers : <<r, n>> \in calls[c] /\ calls' = [calls EXCEPT ![c] = {}]

Succeed(r, n) ==
    /\ On(r, n) /\ steps[r][n].called /\ Answer(r, n)
    /\ \E port \in IF n \in Deciding THEN {Ok, FailedPort} ELSE {Ok} :
           Step(r, n, Ended(steps[r][n], "succeeded", port))

GoOn(r, n) ==
    /\ On(r, n) /\ steps[r][n].called /\ Answer(r, n)
    /\ Step(r, n, [steps[r][n] EXCEPT !.called = FALSE])

(* Before its call or by an answer it is tried again, or it fails, as does  *)
(* a step that cannot even be started.                                      *)
Retry(r, n) ==
    /\ On(r, n) /\ steps[r][n].attempt <= Retries
    /\ Step(r, n, [steps[r][n] EXCEPT !.attempt = @ + 1, !.called = FALSE])
    /\ UNCHANGED calls \/ Answer(r, n)

Fail(r, n) ==
    /\ Step(r, n, Ended(steps[r][n], "failed",
                        IF n \in Failable THEN FailedPort ELSE NoPort))
    /\ \/ On(r, n) /\ (UNCHANGED calls \/ Answer(r, n))
       \/ Going(r) /\ Still(r) /\ Reached(r, n) /\ UNCHANGED calls

Skip(r) ==
    /\ Going(r) /\ \A n \in Nodes : ~Is(r, n, "running")
    /\ \E S \in SUBSET Nodes :
           /\ \A n \in S : OutOfReach(r, n, S)
           /\ steps' = [steps EXCEPT ![r] = [n \in Nodes |->
                            IF n \in S THEN Ended(@[n], "skipped", NoPort) ELSE @[n]]]
    /\ UNCHANGED <<graph, status, cancel, late, asked, calls>>

(* Answers that never come, or that nobody may record any more.             *)
Lose ==
    /\ \E C \in SUBSET Callers :
           calls' = [c \in Callers |-> IF c \in C THEN {} ELSE calls[c]]
    /\ UNCHANGED <<graph, status, cancel, steps, late, asked>>

-----------------------------------------------------------------------------
(* The reasons to close a run.                                              *)
Cancelled(r) == Open(r) /\ cancel[r]
TimedOut(r) == status[r] = "running" /\ r \in late
Failed(r) == \/ status[r] = "queued"
             \/ status[r] = "running" /\ r \notin late /\ Unhandled(r) # {}
Succeeded(r) == Going(r) /\ Still(r) /\ \A n \in Nodes : ~Reached(r, n)

Close(r) ==
    /\ \E s \in {"cancelled", "timed_out", "failed", "succeeded"} :
           /\ \/ s = "cancelled" /\ Cancelled(r)
              \/ s = "timed_out" /\ TimedOut(r)
              \/ s = "failed" /\ Failed(r)
              \/ s = "succeeded" /\ Succeeded(r)
           /\ status' = [status EXCEPT ![r] = s]
    /\ steps' = [steps EXCEPT ![r] = [n \in Nodes |->
                     IF Is(r, n, "pending") \/ Is(r, n, "running")
                     THEN Ended(@[n], "cancelled", NoPort) ELSE @[n]]]
    /\ UNCHANGED <<graph, cancel, late, asked, calls>>

Next ==
    \/ \E r \in Runs :
           \/ Create(r) \/ Ask(r) \/ PassDeadline(r) \/ Begin(r) \/ Skip(r) \/ Close(r)
           \/ \E n \in Nodes : \/ Start(r, n) \/ Succeed(r, n) \/ GoOn(r, n)
                               \/ Retry(r, n) \/ Fail(r, n)
                               \/ \E c \in Callers : Call(r, n, c)
    \/ Lose

Spec == Init /\ [][Next]_vars
===============================================================================
