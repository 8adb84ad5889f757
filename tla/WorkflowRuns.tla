----------------------------- MODULE WorkflowRuns -----------------------------
(***************************************************************************)
(* The runs of one workflow: how imbi-api makes and cancels them, how the  *)
(* workers of imbi-workflows claim them, do one thing with them under a    *)
(* lease, and release them. apps/workflows/src/imbi/workflows engine.py    *)
(* and store.py, libraries/common/src/imbi/common/workflows walk.py, and   *)
(* apps/api/src/imbi/api/workflows/runs.py.                                *)
(*                                                                         *)
(* The actors are the workers (ten coroutines per process by default, one  *)
(* worker_id per process) and the requests to imbi-api. A step is one      *)
(* transaction, save for the claim: its query reads from a snapshot and    *)
(* locks a row later.                                                      *)
(*                                                                         *)
(* Abstracted: what a step does, of which its outcome is left; parameters  *)
(* and outputs; time, of which is left whether due_at and the deadline of  *)
(* a run and the expires_at of a lease have passed. All runs have one      *)
(* concurrency key. Agent tasks, notices and history are left out.         *)
(***************************************************************************)
EXTENDS Integers, Sequences, FiniteSets

CONSTANTS
    Runs,           \* run ids
    Workers,        \* the coroutines of Engine._worker
    Processes,      \* the worker_ids
    Home,           \* the process of each worker
    Nodes,          \* the nodes of the graph
    Trigger,        \* the node that starts the runs
    Graphs,         \* the graphs a version may have: their edges and "all" joins
    Failable,       \* the nodes whose type has a Failed port
    Deciding,       \* the nodes that choose a port
    Unrepeatable,   \* the nodes with a side effect that is not idempotent
    Retries,        \* retries of a step
    Faults          \* which of FaultKinds the environment may show

(* "crash": a process dies. "lapse": a claim outlasts its lease. "raise":   *)
(* a pass or a release raises. "overlap": transactions that make runs       *)
(* overlap.                                                                 *)
FaultKinds == {"crash", "lapse", "raise", "overlap"}

Ok == 0
FailedPort == 1
NoPort == -1
Ports == {Ok, FailedPort}

ASSUME ConstantsAssumption ==
    /\ Home \in [Workers -> Processes]
    /\ Trigger \in Nodes
    /\ \A g \in Graphs :
           /\ g.edges \subseteq [source : Nodes, port : Ports, target : Nodes \ {Trigger}]
           /\ g.all \subseteq Nodes
    /\ Failable \subseteq Nodes /\ Deciding \subseteq Nodes \ Failable
    /\ Unrepeatable \subseteq Nodes
    /\ Retries \in Nat
    /\ Faults \subseteq FaultKinds

None == "none"
ASSUME NoneAssumption == None \notin Runs \cup Processes

VARIABLES
    graph,      \* the pinned version
    active,     \* whether the workflow is active
    created,    \* the runs in the order of (created_at, id)
    run,        \* the row of each run
    steps,      \* its step rows
    lease,      \* its lease
    late,       \* the runs whose deadline has passed
    worker,     \* what each worker does, and what it has read
    asked       \* the steps of each run that had not started when its cancel came

vars == <<graph, active, created, run, steps, lease, late, worker, asked>>

Open == {"queued", "running"}
Closed == {"succeeded", "failed", "cancelled", "timed_out"}
Waiting == {"absent", "pending"}
Terminal == {"succeeded", "failed", "skipped", "cancelled"}

RunRow == [status : {"absent", "writing"} \cup Open \cup Closed,
           cancel : BOOLEAN, due : BOOLEAN]
StepRow == [status : Waiting \cup {"running"} \cup Terminal, port : Ports \cup {NoPort},
            attempt : 0 .. Retries + 1, called : BOOLEAN]
NoLease == [holder |-> None, expired |-> FALSE]
NoRow == [status |-> "absent", cancel |-> FALSE, due |-> FALSE]
ClaimedRow == [status : {"absent"} \cup Open \cup Closed, cancel : BOOLEAN]
NoStep == [status |-> "absent", port |-> NoPort, attempt |-> 0, called |-> FALSE]
NoSteps == [n \in Nodes |-> NoStep]

(* found: what the claim's query found. row, steps: the rows as claimed and *)
(* loaded. node: the step that is called. due: when the run is due next.    *)
Idle == [phase |-> "idle", found |-> {}, run |-> None,
         row |-> [status |-> "absent", cancel |-> FALSE],
         steps |-> NoSteps, node |-> Trigger, due |-> "none"]

TypeOK ==
    /\ graph \in Graphs /\ active \in BOOLEAN
    /\ created \in Seq(Runs)
    /\ run \in [Runs -> RunRow]
    /\ steps \in [Runs -> [Nodes -> StepRow]]
    /\ lease \in [Runs -> [holder : Processes \cup {None}, expired : BOOLEAN]]
    /\ late \subseteq Runs
    /\ worker \in [Workers ->
           [phase : {"idle", "found", "claimed", "loaded", "calling", "releasing"},
            found : SUBSET Runs, run : Runs \cup {None}, row : ClaimedRow,
            steps : [Nodes -> StepRow], node : Nodes, due : {"now", "later", "none"}]]
    /\ asked \in [Runs -> SUBSET Nodes]

Init ==
    /\ graph \in Graphs /\ active = TRUE
    /\ created = <<>>
    /\ run = [r \in Runs |-> NoRow]
    /\ steps = [r \in Runs |-> NoSteps]
    /\ lease = [r \in Runs |-> NoLease]
    /\ late = {}
    /\ worker = [w \in Workers |-> Idle]
    /\ asked = [r \in Runs |-> {}]

-----------------------------------------------------------------------------
(* The walk: which steps can run, and which cannot run any more.            *)
Into(n) == {e \in graph.edges : e.target = n}

(* An edge whose source has not finished waits; else it is active when the  *)
(* source took its port.                                                    *)
Active(e, s) == s[e.source].status \in Terminal /\ s[e.source].port = e.port
Dead(e, s) == s[e.source].status \in Terminal /\ s[e.source].port # e.port

(* A skip reaches every step after it in one pass. The graph has no cycle.  *)
Skipped(s) ==
    LET skip[n \in Nodes] ==
            /\ s[n].status = "pending" /\ Into(n) # {}
            /\ \A e \in Into(n) : Dead(e, s) \/ skip[e.source]
    IN  {n \in Nodes : skip[n]}

(* Mutant: an "all" join is ready at its first active edge.                 *)
ReadyAtFirstEdge(s) ==
    {n \in Nodes : s[n].status = "pending" /\ \E e \in Into(n) : Active(e, s)}

Ready(s) ==
    {n \in Nodes :
        /\ s[n].status = "pending"
        /\ \E e \in Into(n) : Active(e, s)
        /\ n \in graph.all =>
               \A e \in Into(n) : Active(e, s) \/ Dead(e, s) \/ e.source \in Skipped(s)}

-----------------------------------------------------------------------------
(* RunStore.create: created_at is when its transaction begins, and the row  *)
(* is there when it commits.                                                *)
BeginCreate(r) ==
    /\ active /\ run[r].status = "absent"
    /\ "overlap" \notin Faults => \A o \in Runs : run[o].status # "writing"
    /\ created' = Append(created, r)
    /\ run' = [run EXCEPT ![r].status = "writing"]
    /\ UNCHANGED <<graph, active, steps, lease, late, worker, asked>>

CommitCreate(r) ==
    /\ run[r].status = "writing"
    /\ run' = [run EXCEPT ![r].status = "queued", ![r].due = TRUE]
    /\ UNCHANGED <<graph, active, created, steps, lease, late, worker, asked>>

(* RunStore.cancel: of a run that is not closed.                            *)
Cancel(r) ==
    /\ run[r].status \in Open /\ ~run[r].cancel
    /\ run' = [run EXCEPT ![r].cancel = TRUE, ![r].due = TRUE]
    /\ asked' = [asked EXCEPT ![r] = {n \in Nodes : steps[r][n].status \in Waiting}]
    /\ UNCHANGED <<graph, active, created, steps, lease, late, worker>>

-----------------------------------------------------------------------------
(* The claim.                                                               *)
Before(o, r) ==
    \E i, j \in DOMAIN created : i < j /\ created[i] = o /\ created[j] = r

(* Mutant: the older runs that are still queued are not looked at.          *)
BlockedByRunning(r) == \E o \in Runs \ {r} : run[o].status = "running"

Blocked(r) ==
    \E o \in Runs \ {r} : \/ run[o].status = "running"
                          \/ run[o].status = "queued" /\ Before(o, r)

(* Mutant: an expiry that is not looked at.                                 *)
LeasedForEver(r) == lease[r].holder # None

Leased(r) == lease[r].holder # None /\ ~lease[r].expired

Claimable(r) ==
    /\ run[r].status \in Open /\ run[r].due /\ ~Leased(r)
    /\ run[r].status = "running" \/ run[r].cancel \/ ~Blocked(r)

(* The snapshot of the SELECT.                                              *)
Look(w) ==
    LET found == {r \in Runs : Claimable(r)}
    IN  /\ worker[w].phase = "idle" /\ found # {}
        /\ worker' = [worker EXCEPT ![w] = [Idle EXCEPT !.phase = "found", !.found = found]]
        /\ UNCHANGED <<graph, active, created, run, steps, lease, late, asked>>

(* It locks one of the rows found, looks at that row again if it was        *)
(* updated in between, and at no other; the lease is written over what is   *)
(* there. Rows that are locked are skipped.                                 *)
StillClaimable(w) == {r \in worker[w].found : run[r].status \in Open /\ run[r].due}

Take(w, r) ==
    /\ worker[w].phase = "found" /\ r \in StillClaimable(w)
    /\ lease' = [lease EXCEPT ![r] = [holder |-> Home[w], expired |-> FALSE]]
    /\ worker' = [worker EXCEPT ![w] = [Idle EXCEPT !.phase = "claimed", !.run = r,
             !.row = [status |-> run[r].status, cancel |-> run[r].cancel]]]
    /\ UNCHANGED <<graph, active, created, run, steps, late, asked>>

TakeNothing(w) ==
    /\ worker[w].phase = "found"
    /\ worker' = [worker EXCEPT ![w] = Idle]
    /\ UNCHANGED <<graph, active, created, run, steps, lease, late, asked>>

Load(w) ==
    /\ worker[w].phase = "claimed"
    /\ worker' = [worker EXCEPT ![w].phase = "loaded", ![w].steps = steps[worker[w].run]]
    /\ UNCHANGED <<graph, active, created, run, steps, lease, late, asked>>

-----------------------------------------------------------------------------
(* Store.write: a transaction under the lease. Whether the lease has        *)
(* expired is not asked, only whether another process took it.              *)

(* Mutant: a write without a look at the lease.                             *)
HoldsAnyway(w) == TRUE

Holds(w) == lease[worker[w].run].holder = Home[w]

LeaseLost(w) ==
    /\ worker[w].phase \in {"loaded", "calling"} /\ ~Holds(w)
    /\ worker' = [worker EXCEPT ![w] = Idle]
    /\ UNCHANGED <<graph, active, created, run, steps, lease, late, asked>>

(* The pass of w ends, with the run due again at due.                       *)
Leave(w, due) ==
    worker' = [worker EXCEPT ![w] = [Idle EXCEPT !.phase = "releasing",
                                                !.run = worker[w].run, !.due = due]]

(* Its call of n goes out.                                                  *)
GoOut(w, n) ==
    worker' = [worker EXCEPT ![w] =
                   [Idle EXCEPT !.phase = "calling", !.run = worker[w].run, !.node = n,
                                !.steps = [NoSteps EXCEPT ![n] = worker[w].steps[n]]]]

(* The step rows of the run of w: new, and the others as they are.          *)
Rows(w, new) ==
    steps' = [steps EXCEPT ![worker[w].run] =
                  [n \in Nodes |-> IF n \in DOMAIN new THEN new[n] ELSE @[n]]]

(* _finish: the row n of a step that ends.                                  *)
EndedRow(w, n, status, port) ==
    [steps[worker[w].run][n] EXCEPT !.status = status, !.port = port, !.called = FALSE]

EndSteps(w, ended, status, port) ==
    Rows(w, [n \in ended |-> EndedRow(w, n, status, port)])

(* Mutant: the steps that did not start are left as they are.               *)
RunningSteps(s) == {n \in Nodes : s[n].status = "running"}

(* _close_in: the steps that were read as open are cancelled.               *)
OpenSteps(s) == {n \in Nodes : s[n].status \in {"pending", "running"}}

Close(w, read, status) ==
    /\ EndSteps(w, OpenSteps(read), "cancelled", NoPort)
    /\ run' = [run EXCEPT ![worker[w].run].status = status]
    /\ Leave(w, "none")
    /\ UNCHANGED <<graph, created, lease, late, asked>>

-----------------------------------------------------------------------------
(* _process: one thing with the run, decided on the rows as they were read. *)
Pass(w) == worker[w].phase = "loaded" /\ Holds(w)
Queued(w) == Pass(w) /\ ~worker[w].row.cancel /\ worker[w].row.status = "queued"
Going(w) == Pass(w) /\ ~worker[w].row.cancel /\ worker[w].row.status = "running"

CloseCancelled(w) ==
    Pass(w) /\ worker[w].row.cancel /\ Close(w, worker[w].steps, "cancelled") /\ UNCHANGED active

(* _activator_allowed: the workflow is paused and the run fails. It has no  *)
(* steps yet.                                                               *)
Refuse(w) ==
    /\ Queued(w)
    /\ Close(w, NoSteps, "failed")
    /\ active' = FALSE

(* _start: the rows that are there already are kept.                        *)
Start(w) ==
    LET r == worker[w].run
    IN  /\ Queued(w)
        /\ Rows(w, [n \in {m \in Nodes : steps[r][m].status = "absent"} |->
                        IF n = Trigger
                        THEN [NoStep EXCEPT !.status = "succeeded", !.port = Ok]
                        ELSE [NoStep EXCEPT !.status = IF Into(n) = {} THEN "skipped"
                                                                       ELSE "pending"]])
        /\ run' = [run EXCEPT ![r].status = "running"]
        /\ Leave(w, "now")
        /\ UNCHANGED <<graph, active, created, lease, late, asked>>

TimeOut(w) ==
    Going(w) /\ worker[w].run \in late /\ Close(w, worker[w].steps, "timed_out") /\ UNCHANGED active

(* A failure whose port has no edge fails the run at once.                  *)
Unwired(s) ==
    {n \in Nodes : s[n].status = "failed"
                   /\ ~\E e \in graph.edges : e.source = n /\ e.port = s[n].port}

Fail(w) ==
    /\ Going(w) /\ worker[w].run \notin late /\ Unwired(worker[w].steps) # {}
    /\ Close(w, worker[w].steps, "failed") /\ UNCHANGED active

OnTime(w) == Going(w) /\ worker[w].run \notin late /\ Unwired(worker[w].steps) = {}

(* A step that is not running is started, skipped, or the last one is done. *)
Between(w) == OnTime(w) /\ \A n \in Nodes : worker[w].steps[n].status # "running"

Skip(w) ==
    /\ Between(w) /\ Skipped(worker[w].steps) # {}
    /\ EndSteps(w, Skipped(worker[w].steps), "skipped", NoPort)
    /\ Leave(w, "now")
    /\ UNCHANGED <<graph, active, created, run, lease, late, asked>>

Succeed(w) ==
    /\ Between(w) /\ Skipped(worker[w].steps) = {} /\ Ready(worker[w].steps) = {}
    /\ Close(w, worker[w].steps, "succeeded") /\ UNCHANGED active

Startable(w) ==
    {n \in Ready(worker[w].steps) : Between(w) /\ Skipped(worker[w].steps) = {}}

(* Mutant: the step is called in the pass that starts it.                   *)
StartStepAndCall(w, n) ==
    /\ n \in Startable(w)
    /\ Rows(w, [m \in {n} |-> [steps[worker[w].run][m] EXCEPT
                                    !.status = "running", !.attempt = 1, !.called = TRUE]])
    /\ GoOut(w, n)
    /\ UNCHANGED <<graph, active, created, run, lease, late, asked>>

StartStep(w, n) ==
    /\ n \in Startable(w)
    /\ Rows(w, [m \in {n} |-> [steps[worker[w].run][m] EXCEPT
                                    !.status = "running", !.attempt = 1]])
    /\ Leave(w, "now")
    /\ UNCHANGED <<graph, active, created, run, lease, late, asked>>

(* _fail: by its Failed port if its type has one.                           *)
FailStep(w, n) ==
    /\ EndSteps(w, {n}, "failed", IF n \in Failable THEN FailedPort ELSE NoPort)
    /\ Leave(w, "now")
    /\ UNCHANGED <<graph, active, created, run, lease, late, asked>>

BadParams(w, n) == n \in Startable(w) /\ FailStep(w, n)

-----------------------------------------------------------------------------
(* _call. The step as it was read says whether a call was cut short.        *)
Calls(w, n) == OnTime(w) /\ worker[w].steps[n].status = "running"

(* Mutant: a call that was cut short is made again, whatever it had done.   *)
NeverCutShort(w, n) == FALSE

CutShort(w, n) == worker[w].steps[n].called /\ n \in Unrepeatable

OutcomeUnknown(w, n) == Calls(w, n) /\ CutShort(w, n) /\ FailStep(w, n)

Call(w, n) ==
    /\ Calls(w, n) /\ ~CutShort(w, n)
    /\ Rows(w, [m \in {n} |-> [steps[worker[w].run][m] EXCEPT !.called = TRUE]])
    /\ GoOut(w, n)
    /\ UNCHANGED <<graph, active, created, run, lease, late, asked>>

(* Mutant: one retry too many.                                              *)
MayRetryOnceMore(row) == row.attempt <= Retries + 1

MayRetry(row) == row.attempt <= Retries

(* _error: another attempt after a backoff, or the step fails.              *)
Error(w, n, retry) ==
    LET row == worker[w].steps[n]
    IN  IF retry /\ MayRetry(row)
        THEN /\ Rows(w, [m \in {n} |-> [steps[worker[w].run][m] EXCEPT
                                             !.attempt = row.attempt + 1, !.called = FALSE]])
             /\ Leave(w, "later")
             /\ UNCHANGED <<graph, active, created, run, lease, late, asked>>
        ELSE FailStep(w, n)

(* The time of the step is over before the call.                            *)
StepTimeOut(w, n) == Calls(w, n) /\ ~CutShort(w, n) /\ Error(w, n, TRUE)

Called(w) == worker[w].phase = "calling" /\ Holds(w)

CallFails(w) == Called(w) /\ \E retry \in BOOLEAN : Error(w, worker[w].node, retry)

(* The step goes on: it is called again when its run is due.                *)
CallAgain(w) ==
    /\ Called(w)
    /\ Rows(w, [n \in {worker[w].node} |->
                    [steps[worker[w].run][n] EXCEPT !.called = FALSE]])
    /\ Leave(w, "later")
    /\ UNCHANGED <<graph, active, created, run, lease, late, asked>>

CallEnds(w) ==
    LET n == worker[w].node
    IN  /\ Called(w)
        /\ \/ \E port \in IF n \in Deciding THEN Ports ELSE {Ok} :
                  EndSteps(w, {n}, "succeeded", port)
           \/ n \in Failable /\ EndSteps(w, {n}, "failed", FailedPort)
        /\ Leave(w, "now")
        /\ UNCHANGED <<graph, active, created, run, lease, late, asked>>

-----------------------------------------------------------------------------
(* release: of a lease another process took nothing is dropped, and due_at  *)
(* stays. Otherwise due_at is written over what is there.                   *)
Release(w) ==
    LET r == worker[w].run
    IN  /\ worker[w].phase = "releasing"
        /\ IF Holds(w)
           THEN /\ lease' = [lease EXCEPT ![r] = NoLease]
                /\ run' = [run EXCEPT ![r].due = CASE worker[w].due = "now" -> TRUE
                                                   [] worker[w].due = "later" -> FALSE
                                                   [] worker[w].due = "none" -> @]
           ELSE UNCHANGED <<lease, run>>
        /\ worker' = [worker EXCEPT ![w] = Idle]
        /\ UNCHANGED <<graph, active, created, steps, late, asked>>

(* A pass that raises is released with a backoff; a release that raises     *)
(* leaves the lease.                                                        *)
Raise(w) ==
    /\ "raise" \in Faults
    /\ \/ worker[w].phase \in {"claimed", "loaded", "calling"} /\ Leave(w, "later")
       \/ worker[w].phase = "releasing" /\ worker' = [worker EXCEPT ![w] = Idle]
    /\ UNCHANGED <<graph, active, created, run, steps, lease, late, asked>>

Crash(p) ==
    /\ "crash" \in Faults
    /\ \E w \in Workers : Home[w] = p /\ worker[w].phase # "idle"
    /\ worker' = [w \in Workers |-> IF Home[w] = p THEN Idle ELSE worker[w]]
    /\ UNCHANGED <<graph, active, created, run, steps, lease, late, asked>>

(* Time passes: expires_at of a lease that nobody will release, or, under   *)
(* "lapse", of any; the due_at of a run; its deadline.                      *)
Abandoned(r) == \A w \in Workers : worker[w].run # r \/ Home[w] # lease[r].holder

Lapse(r) ==
    /\ Leased(r) /\ ("lapse" \in Faults \/ Abandoned(r))
    /\ lease' = [lease EXCEPT ![r].expired = TRUE]
    /\ UNCHANGED <<graph, active, created, run, steps, late, worker, asked>>

ComeDue(r) ==
    /\ run[r].status \in Open /\ ~run[r].due
    /\ run' = [run EXCEPT ![r].due = TRUE]
    /\ UNCHANGED <<graph, active, created, steps, lease, late, worker, asked>>

PassDeadline(r) ==
    /\ run[r].status \in Open /\ r \notin late
    /\ late' = late \cup {r}
    /\ UNCHANGED <<graph, active, created, run, steps, lease, worker, asked>>

-----------------------------------------------------------------------------
(* What one worker does with a run it has claimed.                          *)
Decide(w) ==
    \/ CloseCancelled(w) \/ Refuse(w) \/ Start(w) \/ TimeOut(w) \/ Fail(w)
    \/ Skip(w) \/ Succeed(w)
    \/ \E n \in Nodes : \/ StartStep(w, n) \/ BadParams(w, n)
                        \/ OutcomeUnknown(w, n) \/ StepTimeOut(w, n) \/ Call(w, n)

Answer(w) == CallFails(w) \/ CallAgain(w) \/ CallEnds(w)

Next ==
    \/ \E r \in Runs : \/ BeginCreate(r) \/ CommitCreate(r) \/ Cancel(r)
                       \/ Lapse(r) \/ ComeDue(r) \/ PassDeadline(r)
    \/ \E w \in Workers : \/ Look(w) \/ TakeNothing(w) \/ Load(w) \/ LeaseLost(w)
                          \/ Decide(w) \/ Answer(w) \/ Release(w) \/ Raise(w)
                          \/ \E r \in Runs : Take(w, r)
    \/ \E p \in Processes : Crash(p)

Spec == Init /\ [][Next]_vars

(* A worker goes on, unless it waits for a run or for a lock.               *)
Work(w) ==
    \/ Look(w) \/ Load(w) \/ LeaseLost(w) \/ Decide(w) \/ Answer(w) \/ Release(w)
    \/ \E r \in Runs : Take(w, r)
    \/ TakeNothing(w) /\ StillClaimable(w) = {}

Fault ==
    \/ \E p \in Processes : Crash(p)
    \/ \E w \in Workers : Raise(w) \/ (TakeNothing(w) /\ StillClaimable(w) # {})
    \/ \E r \in Runs : Lapse(r) /\ ~Abandoned(r)

(* Postgres answers, time passes, a call is cut off, and in the end crashes *)
(* and overruns stop. The target owes no answer that ends a step.           *)
FairSpec ==
    /\ Spec
    /\ <>[][~Fault]_vars
    /\ \A w \in Workers : WF_vars(Work(w))
    /\ \A r \in Runs : /\ WF_vars(CommitCreate(r) \/ Lapse(r) \/ ComeDue(r))
                       /\ WF_vars(PassDeadline(r))

-----------------------------------------------------------------------------
(* "A queued run starts only when no other run of the same workflow with    *)
(* the same concurrency key is running": never are two running at once.     *)
OneRunningPerKey ==
    \A r, o \in Runs : run[r].status = "running" /\ run[o].status = "running" => r = o

(* "A worker whose lease expired and was taken by another worker writes     *)
(* nothing": a step that is over stays as it was recorded, and so does a    *)
(* run.                                                                     *)
OverStaysOver ==
    [][\A r \in Runs :
           /\ run[r].status \in Closed => run'[r].status = run[r].status
           /\ \A n \in Nodes : steps[r][n].status \in Terminal
                  => /\ steps'[r][n].status = steps[r][n].status
                     /\ steps'[r][n].port = steps[r][n].port]_vars

(* "The engine stops the run before its next step": no step is called that  *)
(* had not started when the cancel was accepted, though a pass that is on   *)
(* its way may still start one.                                             *)
CancelStopsNextStep ==
    [][\A r \in Runs : \A n \in asked[r] : ~steps'[r][n].called]_vars

(* A step ran because an edge led to it, and for an "all" join because none *)
(* could still; one that was skipped could not be reached.                  *)
StepsFollowEdges ==
    \A r \in Runs : \A n \in Nodes \ {Trigger} :
        LET s == steps[r]
        IN  /\ s[n].status \in {"running", "succeeded", "failed"} =>
                   /\ \E e \in Into(n) : Active(e, s)
                   /\ n \in graph.all => \A e \in Into(n) : Active(e, s) \/ Dead(e, s)
            /\ s[n].status = "skipped" => \A e \in Into(n) : Dead(e, s)

(* A run that is closed has no open step, and one that succeeded no failure *)
(* that nothing handles.                                                    *)
ClosedIsSettled ==
    \A r \in Runs : run[r].status \in Closed =>
        /\ \A n \in Nodes : steps[r][n].status \in Terminal \cup {"absent"}
        /\ run[r].status = "succeeded" => Unwired(steps[r]) = {}

(* Every run is closed in the end: crashes, leases and failures delay it,   *)
(* and a step that goes on for ever is cut off by the deadline.             *)
RunsClose == \A r \in Runs : run[r].status = "queued" ~> run[r].status \in Closed

-----------------------------------------------------------------------------
(* RunWalk is what a run promises: claims, leases and what each worker has  *)
(* read are gone, save the call it has out, and a run is there once its row *)
(* is.                                                                      *)
Walk == INSTANCE RunWalk WITH
    status <- [r \in Runs |-> IF run[r].status = "writing" THEN "absent" ELSE run[r].status],
    cancel <- [r \in Runs |-> run[r].cancel],
    calls <- [w \in Workers |-> IF worker[w].phase = "calling"
                                THEN {<<worker[w].run, worker[w].node>>} ELSE {}],
    Callers <- Workers

(* "Do one thing with the run": whoever crashes, overruns its lease or      *)
(* raises, the runs are walked as one interpreter would walk them alone.    *)
WalkSpec == Walk!Spec
=============================================================================
