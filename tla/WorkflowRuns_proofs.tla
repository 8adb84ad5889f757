-------------------------- MODULE WorkflowRuns_proofs --------------------------
(***************************************************************************)
(* Theorems of WorkflowRuns, for any number of runs, workers and processes, *)
(* any graphs, and any faults unless a theorem says otherwise.             *)
(***************************************************************************)
EXTENDS WorkflowRuns, TLAPS

(* A worker with a run has one of the runs.                                 *)
TypeInv ==
    /\ TypeOK
    /\ \A w \in Workers : worker[w].phase \notin {"idle", "found"} => worker[w].run \in Runs

WorkerRow ==
    [phase : {"idle", "found", "claimed", "loaded", "calling", "releasing"},
     found : SUBSET Runs, run : Runs \cup {None}, row : ClaimedRow,
     steps : [Nodes -> StepRow], node : Nodes, due : {"now", "later", "none"}]

LEMMA NoStepsTyped == NoStep \in StepRow /\ NoSteps \in [Nodes -> StepRow]
<1>1. NoStep \in StepRow
  BY ConstantsAssumption DEF NoStep, StepRow, Waiting, NoPort
<1> QED BY <1>1 DEF NoSteps

LEMMA IdleTyped == Idle \in WorkerRow
BY NoStepsTyped, ConstantsAssumption DEF Idle, WorkerRow, ClaimedRow

(* What Leave and GoOut make of a worker.                                   *)
LEMMA LeaveTyped ==
    ASSUME TypeInv, NEW w \in Workers, worker[w].phase \notin {"idle", "found"},
           NEW due \in {"now", "later", "none"}, Leave(w, due)
    PROVE  /\ worker' \in [Workers -> WorkerRow]
           /\ worker'[w].phase = "releasing" /\ worker'[w].run = worker[w].run
           /\ \A v \in Workers \ {w} : worker'[v] = worker[v]
<1> DEFINE new == [Idle EXCEPT !.phase = "releasing", !.run = worker[w].run, !.due = due]
<1>1. worker \in [Workers -> WorkerRow]
  BY DEF TypeInv, TypeOK, WorkerRow
<1>2. new \in WorkerRow /\ new.phase = "releasing" /\ new.run = worker[w].run
  BY IdleTyped DEF TypeInv, WorkerRow, Idle
<1>3. worker' = [worker EXCEPT ![w] = new]
  BY DEF Leave
<1> HIDE DEF new
<1> QED BY <1>1, <1>2, <1>3

LEMMA GoOutTyped ==
    ASSUME TypeInv, NEW w \in Workers, worker[w].phase \notin {"idle", "found"},
           NEW n \in Nodes, GoOut(w, n)
    PROVE  /\ worker' \in [Workers -> WorkerRow]
           /\ worker'[w].phase = "calling" /\ worker'[w].run = worker[w].run
           /\ worker'[w].node = n /\ worker'[w].steps[n] = worker[w].steps[n]
           /\ \A v \in Workers \ {w} : worker'[v] = worker[v]
<1> DEFINE read == [NoSteps EXCEPT ![n] = worker[w].steps[n]]
           new == [Idle EXCEPT !.phase = "calling", !.run = worker[w].run, !.node = n,
                               !.steps = read]
<1>1. worker \in [Workers -> WorkerRow]
  BY DEF TypeInv, TypeOK, WorkerRow
<1>2. read \in [Nodes -> StepRow] /\ read[n] = worker[w].steps[n]
  BY <1>1, NoStepsTyped DEF WorkerRow
<1>3. /\ new \in WorkerRow /\ new.phase = "calling" /\ new.run = worker[w].run
      /\ new.node = n /\ new.steps = read
  <2> HIDE DEF read
  <2> QED BY <1>2, IdleTyped DEF TypeInv, WorkerRow, Idle
<1>4. worker' = [worker EXCEPT ![w] = new]
  BY DEF GoOut
<1> HIDE DEF new, read
<1> QED BY <1>1, <1>2, <1>3, <1>4

(* New rows for some steps of the run of w.                                 *)
LEMMA RowsTyped ==
    ASSUME TypeInv, NEW w \in Workers, worker[w].run \in Runs, NEW new,
           \A n \in DOMAIN new \cap Nodes : new[n] \in StepRow, Rows(w, new)
    PROVE  /\ steps' \in [Runs -> [Nodes -> StepRow]]
           /\ \A r \in Runs \ {worker[w].run} : steps'[r] = steps[r]
           /\ \A n \in Nodes : steps'[worker[w].run][n] =
                  IF n \in DOMAIN new THEN new[n] ELSE steps[worker[w].run][n]
<1> DEFINE r == worker[w].run
           rows == [n \in Nodes |-> IF n \in DOMAIN new THEN new[n] ELSE steps[r][n]]
<1>1. steps \in [Runs -> [Nodes -> StepRow]]
  BY DEF TypeInv, TypeOK
<1>2. rows \in [Nodes -> StepRow]
  BY <1>1
<1>3. steps' = [steps EXCEPT ![r] = rows]
  BY <1>1 DEF Rows
<1>4. \A n \in Nodes : rows[n] = IF n \in DOMAIN new THEN new[n] ELSE steps[r][n]
  OBVIOUS
<1> HIDE DEF rows
<1> QED BY <1>1, <1>2, <1>3, <1>4

(* The steps in ended end so, and no other changes.                         *)
LEMMA EndStepsTyped ==
    ASSUME TypeInv, NEW w \in Workers, worker[w].run \in Runs, NEW ended \in SUBSET Nodes,
           NEW status \in Terminal, NEW port \in Ports \cup {NoPort},
           EndSteps(w, ended, status, port)
    PROVE  /\ steps' \in [Runs -> [Nodes -> StepRow]]
           /\ \A r \in Runs \ {worker[w].run} : steps'[r] = steps[r]
           /\ \A n \in Nodes \ ended : steps'[worker[w].run][n] = steps[worker[w].run][n]
<1> DEFINE new == [n \in ended |-> EndedRow(w, n, status, port)]
<1>1. ASSUME NEW n \in ended PROVE new[n] \in StepRow
  <2>1. steps[worker[w].run][n] \in StepRow
    BY DEF TypeInv, TypeOK
  <2> QED BY <2>1 DEF EndedRow, StepRow
<1>2. Rows(w, new) /\ DOMAIN new = ended
  BY DEF EndSteps
<1> HIDE DEF new
<1>3. \A n \in DOMAIN new \cap Nodes : new[n] \in StepRow
  BY <1>1, <1>2
<1> QED BY <1>2, <1>3, RowsTyped

-----------------------------------------------------------------------------
(* What w has read of its run, which is up to date as long as w holds the   *)
(* lease; and the row of the step that it calls.                            *)
Fresh(w) ==
    /\ worker[w].phase \in {"claimed", "loaded"} => worker[w].row.status \in Open
    /\ Holds(w) =>
           /\ worker[w].phase \in {"claimed", "loaded"} =>
                  worker[w].row.status = run[worker[w].run].status
           /\ worker[w].phase = "loaded" => worker[w].steps = steps[worker[w].run]
           /\ worker[w].phase = "calling" =>
                  steps[worker[w].run][worker[w].node].status = "running"

(* What is over of the run r stays so in a step.                            *)
Stays(r) ==
    /\ run[r].status \in Closed => run'[r].status = run[r].status
    /\ \A n \in Nodes : steps[r][n].status \in Terminal
           => /\ steps'[r][n].status = steps[r][n].status
              /\ steps'[r][n].port = steps[r][n].port

(* A write of w is under its lease, and of its own run. It overwrites       *)
(* nothing that is over if w has read what is there.                        *)
Write(w) ==
    LET r == worker[w].run
    IN  /\ worker[w].phase \in {"loaded", "calling"} /\ r \in Runs /\ Holds(w)
        /\ UNCHANGED <<graph, created, lease, late, asked>> /\ active' \in BOOLEAN
        /\ run' \in [Runs -> RunRow] /\ steps' \in [Runs -> [Nodes -> StepRow]]
        /\ \A o \in Runs \ {r} : run'[o] = run[o] /\ steps'[o] = steps[o]
        /\ worker' \in [Workers -> WorkerRow]
        /\ \A v \in Workers \ {w} : worker'[v] = worker[v]
        /\ worker'[w].run = r /\ worker'[w].phase \in {"calling", "releasing"}
        /\ Fresh(w) => Stays(r)
        /\ Fresh(w) /\ worker'[w].phase = "calling"
               => steps'[r][worker'[w].node].status = "running"

(* Another status of one run.                                               *)
LEMMA StatusTyped ==
    ASSUME TypeInv, NEW r \in Runs, NEW status \in {"writing"} \cup Open \cup Closed,
           run' = [run EXCEPT ![r].status = status]
    PROVE  /\ run' \in [Runs -> RunRow] /\ run'[r].status = status
           /\ \A o \in Runs \ {r} : run'[o] = run[o]
<1> DEFINE new == [run[r] EXCEPT !.status = status]
<1>1. run \in [Runs -> RunRow]
  BY DEF TypeInv, TypeOK
<1>2. run[r] \in RunRow
  BY <1>1
<1>3. new \in RunRow /\ new.status = status
  BY <1>2 DEF RunRow
<1>4. run' = [run EXCEPT ![r] = new]
  OBVIOUS
<1> HIDE DEF new
<1> QED BY <1>1, <1>3, <1>4

LEMMA CloseWrites ==
    ASSUME TypeInv, NEW w \in Workers, Pass(w), NEW read \in [Nodes -> StepRow],
           NEW status \in Closed, Close(w, read, status), active' \in BOOLEAN,
           Fresh(w) => \A n \in Nodes : read[n].status \in {"pending", "running"}
                           => steps[worker[w].run][n].status \notin Terminal
    PROVE  Write(w)
<1> DEFINE r == worker[w].run
<1>1. r \in Runs /\ worker[w].phase = "loaded" /\ Holds(w)
  BY DEF TypeInv, Pass
<1>2. /\ steps' \in [Runs -> [Nodes -> StepRow]]
      /\ \A o \in Runs \ {r} : steps'[o] = steps[o]
      /\ \A n \in Nodes \ OpenSteps(read) : steps'[r][n] = steps[r][n]
  <2>1. OpenSteps(read) \in SUBSET Nodes /\ "cancelled" \in Terminal
        /\ NoPort \in Ports \cup {NoPort} /\ EndSteps(w, OpenSteps(read), "cancelled", NoPort)
    BY DEF OpenSteps, Terminal, Close
  <2> QED BY <1>1, <2>1, EndStepsTyped
<1>3. /\ run' \in [Runs -> RunRow] /\ \A o \in Runs \ {r} : run'[o] = run[o]
  <2>1. run' = [run EXCEPT ![r].status = status]
    BY DEF Close
  <2> HIDE DEF r
  <2> QED BY <1>1, <2>1, StatusTyped
<1>4. /\ worker' \in [Workers -> WorkerRow]
      /\ worker'[w].phase = "releasing" /\ worker'[w].run = r
      /\ \A v \in Workers \ {w} : worker'[v] = worker[v]
  BY <1>1, LeaveTyped DEF Close
<1>5. UNCHANGED <<graph, created, lease, late, asked>>
  BY DEF Close
<1>6. ASSUME Fresh(w) PROVE Stays(r)
  <2>1. run[r].status \notin Closed
    BY <1>1, <1>6 DEF Fresh, Open, Closed
  <2>2. \A n \in Nodes : steps[r][n].status \in Terminal => n \notin OpenSteps(read)
    BY <1>6 DEF OpenSteps
  <2> QED BY <1>2, <2>1, <2>2 DEF Stays
<1> QED BY <1>1, <1>2, <1>3, <1>4, <1>5, <1>6 DEF Write

(* A write to the rows of some steps that are not over.                     *)
LEMMA StepsWrite ==
    ASSUME TypeInv, NEW w \in Workers, worker[w].phase \in {"loaded", "calling"}, Holds(w),
           NEW ended \in SUBSET Nodes,
           steps' \in [Runs -> [Nodes -> StepRow]],
           \A o \in Runs \ {worker[w].run} : steps'[o] = steps[o],
           \A n \in Nodes \ ended : steps'[worker[w].run][n] = steps[worker[w].run][n],
           Fresh(w) => \A n \in ended : steps[worker[w].run][n].status \notin Terminal,
           UNCHANGED <<graph, active, created, run, lease, late, asked>>,
           NEW due \in {"now", "later", "none"}, Leave(w, due)
    PROVE  Write(w)
<1> DEFINE r == worker[w].run
<1>1. r \in Runs
  BY DEF TypeInv
<1>2. /\ worker' \in [Workers -> WorkerRow]
      /\ worker'[w].phase = "releasing" /\ worker'[w].run = r
      /\ \A v \in Workers \ {w} : worker'[v] = worker[v]
  BY LeaveTyped
<1>3. /\ run' \in [Runs -> RunRow] /\ \A o \in Runs : run'[o] = run[o]
      /\ active' \in BOOLEAN
  BY DEF TypeInv, TypeOK
<1>4. Fresh(w) => Stays(r)
  BY <1>1, <1>3 DEF Stays
<1> QED BY <1>1, <1>2, <1>3, <1>4 DEF Write

LEMMA FailStepWrites ==
    ASSUME TypeInv, NEW w \in Workers, worker[w].phase \in {"loaded", "calling"}, Holds(w),
           NEW n \in Nodes, FailStep(w, n),
           Fresh(w) => steps[worker[w].run][n].status \notin Terminal
    PROVE  Write(w)
<1> DEFINE port == IF n \in Failable THEN FailedPort ELSE NoPort
<1>1. /\ worker[w].run \in Runs /\ {n} \in SUBSET Nodes /\ "failed" \in Terminal
      /\ port \in Ports \cup {NoPort} /\ EndSteps(w, {n}, "failed", port)
  BY DEF TypeInv, Terminal, Ports, FailStep
<1>2. /\ steps' \in [Runs -> [Nodes -> StepRow]]
      /\ \A o \in Runs \ {worker[w].run} : steps'[o] = steps[o]
      /\ \A m \in Nodes \ {n} : steps'[worker[w].run][m] = steps[worker[w].run][m]
  <2> HIDE DEF port
  <2> QED BY <1>1, EndStepsTyped
<1>3. UNCHANGED <<graph, active, created, run, lease, late, asked>> /\ Leave(w, "now")
  BY DEF FailStep
<1> QED BY <1>1, <1>2, <1>3, StepsWrite

(* The same, with the rows at hand.                                         *)
LEMMA RowsWrite ==
    ASSUME TypeInv, NEW w \in Workers, worker[w].phase \in {"loaded", "calling"}, Holds(w),
           NEW ended \in SUBSET Nodes, NEW new \in [ended -> StepRow], Rows(w, new),
           Fresh(w) => \A n \in ended : steps[worker[w].run][n].status \notin Terminal,
           UNCHANGED <<graph, active, created, run, lease, late, asked>>,
           NEW due \in {"now", "later", "none"}, Leave(w, due)
    PROVE  Write(w)
<1>1. worker[w].run \in Runs /\ DOMAIN new = ended
      /\ \A n \in DOMAIN new \cap Nodes : new[n] \in StepRow
  BY DEF TypeInv
<1>2. /\ steps' \in [Runs -> [Nodes -> StepRow]]
      /\ \A o \in Runs \ {worker[w].run} : steps'[o] = steps[o]
      /\ \A m \in Nodes \ ended : steps'[worker[w].run][m] = steps[worker[w].run][m]
  BY <1>1, RowsTyped
<1> QED BY <1>2, StepsWrite

LEMMA ErrorWrites ==
    ASSUME TypeInv, NEW w \in Workers, worker[w].phase \in {"loaded", "calling"}, Holds(w),
           NEW n \in Nodes, NEW retry \in BOOLEAN, Error(w, n, retry),
           Fresh(w) => steps[worker[w].run][n].status \notin Terminal
    PROVE  Write(w)
<1> DEFINE row == worker[w].steps[n]
<1>1. CASE retry /\ MayRetry(row)
  <2> DEFINE new == [m \in {n} |-> [steps[worker[w].run][m] EXCEPT
                                         !.attempt = row.attempt + 1, !.called = FALSE]]
  <2>1. steps[worker[w].run][n] \in StepRow /\ row \in StepRow
    <3>1. worker[w].run \in Runs /\ worker[w].steps \in [Nodes -> StepRow]
      BY DEF TypeInv, TypeOK
    <3> QED BY <3>1 DEF TypeInv, TypeOK
  <2>2. row.attempt + 1 \in 0 .. Retries + 1
    <3> HIDE DEF row
    <3> QED BY <1>1, <2>1, ConstantsAssumption DEF MayRetry, StepRow
  <2>3. new \in [{n} -> StepRow]
    BY <2>1, <2>2 DEF StepRow
  <2>4. /\ Rows(w, new) /\ Leave(w, "later")
        /\ UNCHANGED <<graph, active, created, run, lease, late, asked>>
    BY <1>1 DEF Error
  <2> HIDE DEF new
  <2> QED BY <2>3, <2>4, RowsWrite
<1>2. CASE ~(retry /\ MayRetry(row))
  BY <1>2, FailStepWrites DEF Error
<1> QED BY <1>1, <1>2

LEMMA StartWrites ==
    ASSUME TypeInv, NEW w \in Workers, Start(w)
    PROVE  Write(w)
<1> DEFINE r == worker[w].run
           fresh == {m \in Nodes : steps[r][m].status = "absent"}
           new == [n \in fresh |->
                      IF n = Trigger
                      THEN [NoStep EXCEPT !.status = "succeeded", !.port = Ok]
                      ELSE [NoStep EXCEPT !.status = IF Into(n) = {} THEN "skipped"
                                                                     ELSE "pending"]]
<1>1. r \in Runs /\ Pass(w) /\ worker[w].phase = "loaded" /\ Holds(w)
  BY DEF TypeInv, Start, Queued, Pass
<1>2. new \in [fresh -> StepRow]
  BY NoStepsTyped DEF NoStep, StepRow, Terminal, Waiting, Ports
<1>3. /\ steps' \in [Runs -> [Nodes -> StepRow]]
      /\ \A o \in Runs \ {r} : steps'[o] = steps[o]
      /\ \A n \in Nodes \ fresh : steps'[r][n] = steps[r][n]
  <2>1. Rows(w, new) /\ DOMAIN new = fresh
    BY DEF Start
  <2>2. \A n \in DOMAIN new \cap Nodes : new[n] \in StepRow
    BY <1>2
  <2> HIDE DEF new, fresh
  <2> QED BY <1>1, <2>1, <2>2, RowsTyped
<1>4. /\ run' \in [Runs -> RunRow] /\ run'[r].status = "running"
      /\ \A o \in Runs \ {r} : run'[o] = run[o]
  <2>1. run' = [run EXCEPT ![r].status = "running"] /\ "running" \in Open
    BY DEF Start, Open
  <2> HIDE DEF r
  <2> QED BY <1>1, <2>1, StatusTyped
<1>5. /\ worker' \in [Workers -> WorkerRow]
      /\ worker'[w].phase = "releasing" /\ worker'[w].run = r
      /\ \A v \in Workers \ {w} : worker'[v] = worker[v]
  BY <1>1, LeaveTyped DEF Start
<1>6. UNCHANGED <<graph, created, lease, late, asked>> /\ active' \in BOOLEAN
  BY DEF Start, TypeInv, TypeOK
<1>7. ASSUME Fresh(w) PROVE Stays(r)
  <2>1. run[r].status \notin Closed
    BY <1>1, <1>7 DEF Fresh, Open, Closed
  <2>2. \A n \in Nodes : steps[r][n].status \in Terminal => n \notin fresh
    BY DEF Terminal
  <2> QED BY <1>3, <2>1, <2>2 DEF Stays
<1> QED BY <1>1, <1>3, <1>4, <1>5, <1>6, <1>7 DEF Write

LEMMA CallWrites ==
    ASSUME TypeInv, NEW w \in Workers, NEW n \in Nodes, Call(w, n)
    PROVE  Write(w)
<1> DEFINE r == worker[w].run
           new == [m \in {n} |-> [steps[worker[w].run][m] EXCEPT !.called = TRUE]]
<1>1. /\ r \in Runs /\ worker[w].phase = "loaded" /\ Holds(w)
      /\ worker[w].steps[n].status = "running" /\ Rows(w, new) /\ GoOut(w, n)
      /\ UNCHANGED <<graph, active, created, run, lease, late, asked>>
  BY DEF TypeInv, Call, Calls, OnTime, Going, Pass
<1>2. /\ DOMAIN new = {n} /\ new[n] \in StepRow
      /\ new[n].status = steps[r][n].status /\ new[n].port = steps[r][n].port
  <2>1. steps[r][n] \in StepRow
    BY <1>1 DEF TypeInv, TypeOK
  <2> QED BY <2>1 DEF StepRow
<1>3. /\ steps' \in [Runs -> [Nodes -> StepRow]]
      /\ \A o \in Runs \ {r} : steps'[o] = steps[o]
      /\ \A m \in Nodes : /\ steps'[r][m].status = steps[r][m].status
                          /\ steps'[r][m].port = steps[r][m].port
  <2>1. \A m \in DOMAIN new \cap Nodes : new[m] \in StepRow
    BY <1>2
  <2>2. /\ steps' \in [Runs -> [Nodes -> StepRow]]
        /\ \A o \in Runs \ {r} : steps'[o] = steps[o]
        /\ \A m \in Nodes : steps'[r][m] = IF m \in DOMAIN new THEN new[m] ELSE steps[r][m]
    <3> HIDE DEF new
    <3> QED BY <1>1, <2>1, RowsTyped
  <2> HIDE DEF new
  <2> QED BY <1>2, <2>2
<1>4. /\ worker' \in [Workers -> WorkerRow]
      /\ worker'[w].phase = "calling" /\ worker'[w].run = r /\ worker'[w].node = n
      /\ \A v \in Workers \ {w} : worker'[v] = worker[v]
  BY <1>1, GoOutTyped
<1>5. /\ run' \in [Runs -> RunRow] /\ \A o \in Runs : run'[o] = run[o]
      /\ active' \in BOOLEAN
  BY <1>1 DEF TypeInv, TypeOK
<1>6. Fresh(w) => Stays(r) /\ steps'[r][n].status = "running"
  BY <1>1, <1>3, <1>5 DEF Fresh, Stays
<1> HIDE DEF new
<1> QED BY <1>1, <1>3, <1>4, <1>5, <1>6 DEF Write

(* The recursion of Skipped has a solution, whatever the graph: the largest *)
(* set of pending steps each of which has only dead edges and edges from    *)
(* that set. So what is skipped was pending and could not be reached.       *)
LEMMA SkippedIs ==
    ASSUME TypeInv, NEW s, NEW n \in Nodes
    PROVE  n \in Skipped(s) <=>
               /\ s[n].status = "pending" /\ Into(n) # {}
               /\ \A e \in Into(n) : Dead(e, s) \/ e.source \in Skipped(s)
<1> DEFINE Over(S) == {m \in Nodes : /\ s[m].status = "pending" /\ Into(m) # {}
                                     /\ \A e \in Into(m) : Dead(e, s) \/ e.source \in S}
           top == UNION {S \in SUBSET Nodes : S \subseteq Over(S)}
           Body(f) == [m \in Nodes |->
                          /\ s[m].status = "pending" /\ Into(m) # {}
                          /\ \A e \in Into(m) : Dead(e, s) \/ f[e.source]]
           skip == CHOOSE f : f = Body(f)
<1>1. \A S, T \in SUBSET Nodes : S \subseteq T => Over(S) \subseteq Over(T)
  OBVIOUS
<1>2. top \in SUBSET Nodes /\ \A S \in SUBSET Nodes : Over(S) \in SUBSET Nodes
  OBVIOUS
<1>3. top = Over(top)
  <2> HIDE DEF Over
  <2>1. top \subseteq Over(top)
    BY <1>1, <1>2
  <2>2. Over(top) \subseteq Over(Over(top))
    BY <1>1, <1>2, <2>1
  <2> QED BY <1>2, <2>1, <2>2
<1>4. \A m \in Nodes : \A e \in Into(m) : e.source \in Nodes
  BY ConstantsAssumption DEF Into, TypeInv, TypeOK
<1>5. \E f : f = Body(f)
  <2> DEFINE f == [m \in Nodes |-> IF m \in top THEN TRUE ELSE FALSE]
  <2>1. ASSUME NEW m \in Nodes PROVE f[m] = Body(f)[m]
    <3> HIDE DEF top
    <3> DEFINE over == /\ s[m].status = "pending" /\ Into(m) # {}
                       /\ \A e \in Into(m) : Dead(e, s) \/ e.source \in top
    <3>1. (m \in top) <=> over
      BY <1>3
    <3>2. \A k \in Nodes : f[k] = IF k \in top THEN TRUE ELSE FALSE
      OBVIOUS
    <3>3. Body(f)[m] = /\ s[m].status = "pending" /\ Into(m) # {}
                       /\ \A e \in Into(m) : Dead(e, s) \/ f[e.source]
      OBVIOUS
    <3> HIDE DEF f, Body
    <3>4. Body(f)[m] = over
      BY <1>4, <3>2, <3>3, Zenon
    <3>5. over \in BOOLEAN /\ f[m] \in BOOLEAN
      <4>1. over \in BOOLEAN
        OBVIOUS
      <4>2. f[m] = TRUE \/ f[m] = FALSE
        BY <3>2, Zenon
      <4> QED BY <4>1, <4>2
    <3>6. f[m] <=> over
      BY <3>1, <3>2, Zenon
    <3> HIDE DEF over, top
    <3>7. f[m] = over
      BY <3>5, <3>6, SMT
    <3> QED BY <3>4, <3>7
  <2> HIDE DEF top
  <2>2. f = Body(f)
    BY <2>1
  <2> QED BY <2>2
<1>6. skip = Body(skip)
  <2> HIDE DEF Body
  <2> QED BY <1>5
<1>7. \A m \in Nodes : skip[m] <=> m \in Skipped(s)
  BY DEF Skipped
<1>8. skip[n] = /\ s[n].status = "pending" /\ Into(n) # {}
                /\ \A e \in Into(n) : Dead(e, s) \/ skip[e.source]
  <2> HIDE DEF skip
  <2> QED BY <1>6, Zenon
<1> HIDE DEF skip
<1> QED BY <1>4, <1>7, <1>8

LEMMA SkippedArePending ==
    ASSUME TypeInv, NEW s, NEW n \in Skipped(s)
    PROVE  /\ n \in Nodes /\ s[n].status = "pending"
           /\ \A e \in Into(n) : Dead(e, s) \/ e.source \in Skipped(s)
<1>1. n \in Nodes
  BY DEF Skipped
<1> QED BY <1>1, SkippedIs

LEMMA SkipWrites ==
    ASSUME TypeInv, NEW w \in Workers, Skip(w)
    PROVE  Write(w)
<1> DEFINE r == worker[w].run
           ended == Skipped(worker[w].steps)
<1>1. /\ r \in Runs /\ worker[w].phase = "loaded" /\ Holds(w)
      /\ EndSteps(w, ended, "skipped", NoPort) /\ Leave(w, "now")
      /\ UNCHANGED <<graph, active, created, run, lease, late, asked>>
  BY DEF TypeInv, Skip, Between, OnTime, Going, Pass
<1>2. ended \in SUBSET Nodes /\ \A n \in ended : worker[w].steps[n].status = "pending"
  BY SkippedArePending
<1>3. "skipped" \in Terminal /\ NoPort \in Ports \cup {NoPort}
  BY DEF Terminal
<1> HIDE DEF ended
<1>4. /\ steps' \in [Runs -> [Nodes -> StepRow]]
      /\ \A o \in Runs \ {r} : steps'[o] = steps[o]
      /\ \A n \in Nodes \ ended : steps'[r][n] = steps[r][n]
  BY <1>1, <1>2, <1>3, EndStepsTyped
<1>5. Fresh(w) => \A n \in ended : steps[r][n].status \notin Terminal
  BY <1>1, <1>2 DEF Fresh, Terminal
<1> QED BY <1>1, <1>2, <1>4, <1>5, StepsWrite

LEMMA StartStepWrites ==
    ASSUME TypeInv, NEW w \in Workers, NEW n \in Nodes, StartStep(w, n)
    PROVE  Write(w)
<1> DEFINE new == [m \in {n} |-> [steps[worker[w].run][m] EXCEPT
                                      !.status = "running", !.attempt = 1]]
<1>1. /\ worker[w].run \in Runs /\ worker[w].phase = "loaded" /\ Holds(w)
      /\ Rows(w, new) /\ Leave(w, "now")
      /\ UNCHANGED <<graph, active, created, run, lease, late, asked>>
  BY DEF TypeInv, StartStep, Startable, Between, OnTime, Going, Pass
<1>2. new \in [{n} -> StepRow]
  <2>1. steps[worker[w].run][n] \in StepRow
    BY <1>1 DEF TypeInv, TypeOK
  <2>2. 1 \in 0 .. Retries + 1
    BY ConstantsAssumption
  <2> QED BY <2>1, <2>2 DEF StepRow
<1>3. worker[w].steps[n].status = "pending"
  BY DEF StartStep, Startable, Ready
<1>4. Fresh(w) => \A m \in {n} : steps[worker[w].run][m].status \notin Terminal
  BY <1>1, <1>3 DEF Fresh, Terminal
<1> HIDE DEF new
<1> QED BY <1>1, <1>2, <1>4, RowsWrite

LEMMA AnswerWrites ==
    ASSUME TypeInv, NEW w \in Workers, Answer(w)
    PROVE  Write(w)
<1> DEFINE r == worker[w].run
           n == worker[w].node
<1>1. r \in Runs /\ n \in Nodes /\ worker[w].phase = "calling" /\ Holds(w)
  BY DEF TypeInv, TypeOK, Answer, CallFails, CallAgain, CallEnds, Called
<1>2. Fresh(w) => steps[r][n].status \notin Terminal
  BY <1>1 DEF Fresh, Terminal
<1>3. CASE CallFails(w)
  <2>1. PICK retry \in BOOLEAN : Error(w, n, retry)
    BY <1>3 DEF CallFails
  <2> HIDE DEF n
  <2> QED BY <1>1, <1>2, <2>1, ErrorWrites
<1>4. CASE CallAgain(w)
  <2> DEFINE new == [m \in {n} |-> [steps[r][m] EXCEPT !.called = FALSE]]
  <2>1. new \in [{n} -> StepRow]
    <3>1. steps[r][n] \in StepRow
      BY <1>1 DEF TypeInv, TypeOK
    <3> QED BY <3>1 DEF StepRow
  <2>2. /\ Rows(w, new) /\ Leave(w, "later")
        /\ UNCHANGED <<graph, active, created, run, lease, late, asked>>
    BY <1>4 DEF CallAgain
  <2> HIDE DEF new, n
  <2> QED BY <1>1, <1>2, <2>1, <2>2, RowsWrite
<1>5. CASE CallEnds(w)
  <2>1. PICK status \in Terminal, port \in Ports \cup {NoPort} :
            EndSteps(w, {n}, status, port)
    BY <1>5 DEF CallEnds, Terminal, Ports
  <2>2. /\ Leave(w, "now")
        /\ UNCHANGED <<graph, active, created, run, lease, late, asked>>
    BY <1>5 DEF CallEnds
  <2> HIDE DEF n
  <2>3. /\ steps' \in [Runs -> [Nodes -> StepRow]]
        /\ \A o \in Runs \ {r} : steps'[o] = steps[o]
        /\ \A m \in Nodes \ {n} : steps'[r][m] = steps[r][m]
    BY <1>1, <2>1, EndStepsTyped
  <2>4. Fresh(w) => \A m \in {n} : steps[r][m].status \notin Terminal
    BY <1>2
  <2>5. {n} \in SUBSET Nodes
    BY <1>1
  <2> QED BY <1>1, <2>2, <2>3, <2>4, <2>5, StepsWrite
<1> QED BY <1>3, <1>4, <1>5 DEF Answer

LEMMA DecideWrites ==
    ASSUME TypeInv, NEW w \in Workers, Decide(w)
    PROVE  Write(w)
<1>1. /\ worker[w].run \in Runs /\ worker[w].phase = "loaded" /\ Holds(w) /\ Pass(w)
      /\ worker[w].steps \in [Nodes -> StepRow]
  <2>1. Pass(w)
    BY DEF Decide, CloseCancelled, Refuse, Start, TimeOut, Fail, Skip, Succeed, StartStep,
           BadParams, OutcomeUnknown, StepTimeOut, Call, Startable, Calls, Between, OnTime,
           Queued, Going
  <2> QED BY <2>1 DEF Pass, TypeInv, TypeOK
<1>2. ASSUME NEW status \in Closed, Close(w, worker[w].steps, status), active' \in BOOLEAN
      PROVE  Write(w)
  <2>1. Fresh(w) => \A n \in Nodes : worker[w].steps[n].status \in {"pending", "running"}
                        => steps[worker[w].run][n].status \notin Terminal
    BY <1>1 DEF Fresh, Terminal
  <2> QED BY <1>1, <1>2, <2>1, CloseWrites
<1>3. active \in BOOLEAN
  BY DEF TypeInv, TypeOK
<1>4. CASE CloseCancelled(w) \/ TimeOut(w) \/ Fail(w) \/ Succeed(w)
  BY <1>2, <1>3, <1>4 DEF CloseCancelled, TimeOut, Fail, Succeed, Closed
<1>5. CASE Refuse(w)
  <2>1. /\ Close(w, NoSteps, "failed") /\ "failed" \in Closed /\ active' \in BOOLEAN
    BY <1>5 DEF Refuse, Closed
  <2>2. NoSteps \in [Nodes -> StepRow] /\ \A n \in Nodes : NoSteps[n].status = "absent"
    BY NoStepsTyped DEF NoSteps, NoStep
  <2> QED BY <1>1, <2>1, <2>2, CloseWrites
<1>6. CASE \E n \in Nodes : BadParams(w, n) \/ OutcomeUnknown(w, n)
  <2>1. PICK n \in Nodes : BadParams(w, n) \/ OutcomeUnknown(w, n)
    BY <1>6
  <2>2. worker[w].steps[n].status \in {"pending", "running"} /\ FailStep(w, n)
    BY <2>1 DEF BadParams, Startable, Ready, OutcomeUnknown, Calls
  <2>3. Fresh(w) => steps[worker[w].run][n].status \notin Terminal
    BY <1>1, <2>2 DEF Fresh, Terminal
  <2> QED BY <1>1, <2>2, <2>3, FailStepWrites
<1>7. CASE \E n \in Nodes : StepTimeOut(w, n)
  <2>1. PICK n \in Nodes : StepTimeOut(w, n)
    BY <1>7
  <2>2. worker[w].steps[n].status = "running" /\ Error(w, n, TRUE)
    BY <2>1 DEF StepTimeOut, Calls
  <2>3. Fresh(w) => steps[worker[w].run][n].status \notin Terminal
    BY <1>1, <2>2 DEF Fresh, Terminal
  <2> QED BY <1>1, <2>2, <2>3, ErrorWrites
<1> QED BY <1>4, <1>5, <1>6, <1>7, StartWrites, SkipWrites, StartStepWrites, CallWrites
        DEF Decide

-----------------------------------------------------------------------------
(* Every variable keeps its type, whatever the faults.                      *)

(* The columns of one run but its status.                                   *)
LEMMA RunColumnsTyped ==
    ASSUME TypeInv, NEW r \in Runs, NEW cancel \in BOOLEAN, NEW due \in BOOLEAN,
           run' = [run EXCEPT ![r].cancel = cancel, ![r].due = due]
    PROVE  /\ run' \in [Runs -> RunRow] /\ \A o \in Runs : run'[o].status = run[o].status
           /\ \A o \in Runs \ {r} : run'[o] = run[o]
<1>1. run \in [Runs -> RunRow] /\ run[r] \in RunRow
  BY DEF TypeInv, TypeOK
<1>2. [run[r] EXCEPT !.cancel = cancel, !.due = due] \in RunRow
  BY <1>1 DEF RunRow
<1>3. run' = [run EXCEPT ![r] = [run[r] EXCEPT !.cancel = cancel, !.due = due]]
  BY <1>1 DEF RunRow
<1> QED BY <1>1, <1>2, <1>3 DEF RunRow

(* Another row of one worker.                                               *)
LEMMA WorkerTyped ==
    ASSUME TypeInv, NEW w \in Workers, NEW new \in WorkerRow,
           new.phase \notin {"idle", "found"} => new.run \in Runs,
           worker' = [worker EXCEPT ![w] = new],
           UNCHANGED <<graph, active, created, run, steps, late, asked>>,
           lease' \in [Runs -> [holder : Processes \cup {None}, expired : BOOLEAN]]
    PROVE  TypeInv'
<1>1. worker \in [Workers -> WorkerRow]
  BY DEF TypeInv, TypeOK, WorkerRow
<1>2. worker' \in [Workers -> WorkerRow]
  BY <1>1
<1>3. \A v \in Workers : worker'[v].phase \notin {"idle", "found"} => worker'[v].run \in Runs
  BY <1>1 DEF TypeInv
<1> QED BY <1>2, <1>3 DEF TypeInv, TypeOK, WorkerRow

LEMMA RequestsTyped ==
    ASSUME TypeInv, NEW r \in Runs,
           \/ BeginCreate(r) \/ CommitCreate(r) \/ Cancel(r)
           \/ Lapse(r) \/ ComeDue(r) \/ PassDeadline(r)
    PROVE  TypeInv'
<1>1. CASE BeginCreate(r)
  <2>1. run' \in [Runs -> RunRow]
    <3>1. run' = [run EXCEPT ![r].status = "writing"] /\ "writing" \in {"writing"} \cup Open \cup Closed
      BY <1>1 DEF BeginCreate
    <3> QED BY <3>1, StatusTyped
  <2>2. created' \in Seq(Runs)
    BY <1>1 DEF BeginCreate, TypeInv, TypeOK
  <2> QED BY <1>1, <2>1, <2>2 DEF BeginCreate, TypeInv, TypeOK
<1>2. CASE CommitCreate(r)
  <2>1. run \in [Runs -> RunRow] /\ run[r] \in RunRow
    BY DEF TypeInv, TypeOK
  <2>2. [run[r] EXCEPT !.status = "queued", !.due = TRUE] \in RunRow
    BY <2>1 DEF RunRow, Open
  <2>3. run' = [run EXCEPT ![r] = [run[r] EXCEPT !.status = "queued", !.due = TRUE]]
    BY <1>2, <2>1 DEF CommitCreate, RunRow
  <2>4. run' \in [Runs -> RunRow]
    BY <2>1, <2>2, <2>3
  <2> QED BY <1>2, <2>4 DEF CommitCreate, TypeInv, TypeOK
<1>3. CASE Cancel(r)
  <2>1. run' \in [Runs -> RunRow]
    BY <1>3, RunColumnsTyped DEF Cancel
  <2>2. asked' \in [Runs -> SUBSET Nodes]
    BY <1>3 DEF Cancel, TypeInv, TypeOK
  <2> QED BY <1>3, <2>1, <2>2 DEF Cancel, TypeInv, TypeOK
<1>4. CASE Lapse(r)
  BY <1>4 DEF Lapse, TypeInv, TypeOK
<1>5. CASE ComeDue(r)
  <2>1. run \in [Runs -> RunRow] /\ run[r] \in RunRow
    BY DEF TypeInv, TypeOK
  <2>2. [run[r] EXCEPT !.due = TRUE] \in RunRow
    BY <2>1 DEF RunRow
  <2>3. run' \in [Runs -> RunRow]
    BY <1>5, <2>1, <2>2 DEF ComeDue
  <2> QED BY <1>5, <2>3 DEF ComeDue, TypeInv, TypeOK
<1>6. CASE PassDeadline(r)
  BY <1>6 DEF PassDeadline, TypeInv, TypeOK
<1> QED BY <1>1, <1>2, <1>3, <1>4, <1>5, <1>6

LEMMA ClaimTyped ==
    ASSUME TypeInv, NEW w \in Workers,
           Look(w) \/ TakeNothing(w) \/ LeaseLost(w) \/ \E r \in Runs : Take(w, r)
    PROVE  TypeInv'
<1>1. lease \in [Runs -> [holder : Processes \cup {None}, expired : BOOLEAN]]
  BY DEF TypeInv, TypeOK
<1>2. CASE Look(w)
  <2> DEFINE new == [Idle EXCEPT !.phase = "found", !.found = {r \in Runs : Claimable(r)}]
  <2>1. new \in WorkerRow /\ new.phase = "found"
    BY IdleTyped DEF WorkerRow
  <2>2. worker' = [worker EXCEPT ![w] = new]
    BY <1>2 DEF Look
  <2> HIDE DEF new
  <2> QED BY <1>1, <1>2, <2>1, <2>2, WorkerTyped DEF Look
<1>3. CASE TakeNothing(w) \/ LeaseLost(w)
  <2>1. Idle \in WorkerRow /\ Idle.phase = "idle"
    BY IdleTyped DEF Idle
  <2> QED BY <1>1, <1>3, <2>1, WorkerTyped DEF TakeNothing, LeaseLost
<1>4. CASE \E r \in Runs : Take(w, r)
  <2>1. PICK r \in Runs : Take(w, r)
    BY <1>4
  <2> DEFINE new == [Idle EXCEPT !.phase = "claimed", !.run = r,
                         !.row = [status |-> run[r].status, cancel |-> run[r].cancel]]
  <2>2. run[r] \in RunRow /\ run[r].status \in Open
    BY <2>1 DEF TypeInv, TypeOK, Take, StillClaimable
  <2>3. new \in WorkerRow /\ new.run = r
    BY <2>2, IdleTyped DEF WorkerRow, ClaimedRow, RunRow, Idle
  <2>4. worker' = [worker EXCEPT ![w] = new]
    BY <2>1 DEF Take
  <2>5. lease' \in [Runs -> [holder : Processes \cup {None}, expired : BOOLEAN]]
    BY <1>1, <2>1, ConstantsAssumption DEF Take
  <2> HIDE DEF new
  <2> QED BY <2>1, <2>3, <2>4, <2>5, WorkerTyped DEF Take
<1> QED BY <1>2, <1>3, <1>4

LEMMA PassTyped ==
    ASSUME TypeInv, NEW w \in Workers,
           Load(w) \/ Decide(w) \/ Answer(w) \/ Release(w) \/ Raise(w)
    PROVE  TypeInv'
<1>1. lease \in [Runs -> [holder : Processes \cup {None}, expired : BOOLEAN]]
  BY DEF TypeInv, TypeOK
<1>2. CASE Load(w)
  <2> DEFINE new == [worker[w] EXCEPT !.phase = "loaded", !.steps = steps[worker[w].run]]
  <2>1. worker[w].run \in Runs /\ worker[w] \in WorkerRow
    BY <1>2 DEF Load, TypeInv, TypeOK, WorkerRow
  <2>2. steps[worker[w].run] \in [Nodes -> StepRow]
    BY <2>1 DEF TypeInv, TypeOK
  <2>3. new \in WorkerRow /\ new.run \in Runs
    BY <2>1, <2>2 DEF WorkerRow
  <2>4. worker' = [worker EXCEPT ![w] = new]
    BY <1>2 DEF Load, TypeInv, TypeOK
  <2> HIDE DEF new
  <2> QED BY <1>1, <1>2, <2>3, <2>4, WorkerTyped DEF Load
<1>3. CASE Decide(w) \/ Answer(w)
  <2>1. Write(w)
    BY <1>3, DecideWrites, AnswerWrites
  <2>2. TypeOK'
    BY <2>1 DEF Write, TypeInv, TypeOK, WorkerRow
  <2>3. \A v \in Workers : worker'[v].phase \notin {"idle", "found"} => worker'[v].run \in Runs
    BY <2>1 DEF Write, TypeInv
  <2> QED BY <2>2, <2>3 DEF TypeInv
<1>4. CASE Release(w)
  <2>1. Idle \in WorkerRow /\ Idle.phase = "idle" /\ worker' = [worker EXCEPT ![w] = Idle]
    BY <1>4, IdleTyped DEF Idle, Release
  <2>2. lease' \in [Runs -> [holder : Processes \cup {None}, expired : BOOLEAN]]
    <3>1. NoLease \in [holder : Processes \cup {None}, expired : BOOLEAN]
      BY DEF NoLease
    <3>2. lease' = lease \/ lease' = [lease EXCEPT ![worker[w].run] = NoLease]
      BY <1>4 DEF Release
    <3> QED BY <1>1, <3>1, <3>2
  <2>3. run' \in [Runs -> RunRow]
    <3>1. CASE Holds(w)
      <4>1. worker[w].run \in Runs /\ worker[w].due \in {"now", "later", "none"}
        BY <1>4 DEF Release, TypeInv, TypeOK
      <4>2. run \in [Runs -> RunRow] /\ run[worker[w].run] \in RunRow
        BY <4>1 DEF TypeInv, TypeOK
      <4>3. PICK due \in BOOLEAN : run' = [run EXCEPT ![worker[w].run].due = due]
        <5>1. run[worker[w].run].due \in BOOLEAN
          BY <4>2 DEF RunRow
        <5> QED BY <1>4, <3>1, <4>1, <5>1 DEF Release
      <4>4. [run[worker[w].run] EXCEPT !.due = due] \in RunRow
        BY <4>2 DEF RunRow
      <4> QED BY <4>1, <4>2, <4>3, <4>4
    <3>2. CASE ~Holds(w)
      BY <1>4, <3>2 DEF Release, TypeInv, TypeOK
    <3> QED BY <3>1, <3>2
  <2>4. worker' \in [Workers -> WorkerRow]
    BY <2>1 DEF TypeInv, TypeOK, WorkerRow
  <2>5. \A v \in Workers : worker'[v].phase \notin {"idle", "found"} => worker'[v].run \in Runs
    BY <2>1 DEF TypeInv, TypeOK
  <2> QED BY <1>4, <2>2, <2>3, <2>4, <2>5 DEF Release, TypeInv, TypeOK, WorkerRow
<1>5. CASE Raise(w)
  <2>1. CASE worker[w].phase \in {"claimed", "loaded", "calling"} /\ Leave(w, "later")
    <3>1. /\ worker' \in [Workers -> WorkerRow] /\ worker'[w].run = worker[w].run
          /\ \A v \in Workers \ {w} : worker'[v] = worker[v]
      BY <2>1, LeaveTyped
    <3> QED BY <1>5, <2>1, <3>1 DEF Raise, TypeInv, TypeOK, WorkerRow
  <2>2. CASE worker[w].phase = "releasing" /\ worker' = [worker EXCEPT ![w] = Idle]
    <3>1. Idle \in WorkerRow /\ Idle.phase = "idle"
      BY IdleTyped DEF Idle
    <3> QED BY <1>1, <1>5, <2>2, <3>1, WorkerTyped DEF Raise
  <2> QED BY <1>5, <2>1, <2>2 DEF Raise
<1> QED BY <1>2, <1>3, <1>4, <1>5

LEMMA CrashTyped ==
    ASSUME TypeInv, NEW p \in Processes, Crash(p)
    PROVE  TypeInv'
<1>1. worker \in [Workers -> WorkerRow] /\ Idle \in WorkerRow /\ Idle.phase = "idle"
  BY IdleTyped DEF TypeInv, TypeOK, WorkerRow, Idle
<1>2. /\ worker' = [w \in Workers |-> IF Home[w] = p THEN Idle ELSE worker[w]]
      /\ UNCHANGED <<graph, active, created, run, steps, lease, late, asked>>
  BY DEF Crash
<1>3. worker' \in [Workers -> WorkerRow]
  BY <1>1, <1>2
<1>4. \A w \in Workers : worker'[w].phase \notin {"idle", "found"} => worker'[w].run \in Runs
  BY <1>1, <1>2 DEF TypeInv
<1> QED BY <1>2, <1>3, <1>4 DEF TypeInv, TypeOK, WorkerRow

LEMMA TypeStep == TypeInv /\ [Next]_vars => TypeInv'
<1> SUFFICES ASSUME TypeInv, [Next]_vars PROVE TypeInv'
  OBVIOUS
<1>1. CASE UNCHANGED vars
  BY <1>1 DEF vars, TypeInv, TypeOK
<1>2. CASE Next
  BY <1>2, RequestsTyped, ClaimTyped, PassTyped, CrashTyped DEF Next
<1> QED BY <1>1, <1>2

LEMMA TypeInit == Init => TypeInv
<1> SUFFICES ASSUME Init PROVE TypeInv
  OBVIOUS
<1>1. NoRow \in RunRow /\ Idle \in WorkerRow /\ Idle.phase = "idle"
  BY IdleTyped DEF NoRow, RunRow, Idle
<1>2. run \in [Runs -> RunRow] /\ steps \in [Runs -> [Nodes -> StepRow]]
  BY <1>1, NoStepsTyped DEF Init
<1>3. /\ worker \in [Workers -> WorkerRow]
      /\ \A w \in Workers : worker[w].phase = "idle"
  BY <1>1 DEF Init
<1> QED BY <1>2, <1>3 DEF Init, TypeInv, TypeOK, WorkerRow, NoLease

(* Whatever requests, workers and faults do, the rows and what the workers  *)
(* hold of them keep their types; no attempt goes past the retries.         *)
THEOREM Typing == Spec => []TypeOK
<1>1. TypeInv => TypeOK
  BY DEF TypeInv
<1> QED BY <1>1, TypeInit, TypeStep, PTL DEF Spec

-----------------------------------------------------------------------------
(* What is over stays over as long as no process takes a run that one of    *)
(* its own workers still has. Then the check of a write, that the lease     *)
(* names the process, tells the worker that took it from those that were    *)
(* overtaken, and who passes it has read what is there.                     *)
OwnRunsApart ==
    \A v, w \in Workers :
        Home[v] = Home[w] /\ worker[v].run = worker[w].run /\ worker[v].run # None => v = w

(* It is so when each process has one worker.                               *)
LEMMA AloneIsApart ==
    ASSUME \A v, w \in Workers : Home[v] = Home[w] => v = w
    PROVE  OwnRunsApart
BY DEF OwnRunsApart

(* A worker gets another run by a claim only.                               *)
LEMMA RunKept ==
    ASSUME TypeInv, [Next]_vars, NEW w \in Workers, \A r \in Runs : ~Take(w, r)
    PROVE  worker'[w].run \in {worker[w].run, None}
<1>1. worker \in [Workers -> WorkerRow] /\ Idle.run = None
  BY DEF TypeInv, TypeOK, WorkerRow, Idle
<1>2. CASE \E v \in Workers : Decide(v) \/ Answer(v)
  BY <1>2, DecideWrites, AnswerWrites DEF Write
<1>3. CASE \E v \in Workers : Raise(v)
  <2>1. PICK v \in Workers : Raise(v)
    BY <1>3
  <2>2. CASE worker[v].phase \in {"claimed", "loaded", "calling"} /\ Leave(v, "later")
    BY <2>2, LeaveTyped
  <2>3. CASE worker' = [worker EXCEPT ![v] = Idle]
    BY <1>1, <2>3
  <2> QED BY <2>1, <2>2, <2>3 DEF Raise
<1>4. CASE \E v \in Workers : \/ Look(v) \/ TakeNothing(v) \/ Load(v) \/ LeaseLost(v)
                             \/ Release(v)
  <2>1. PICK v \in Workers : \/ Look(v) \/ TakeNothing(v) \/ Load(v) \/ LeaseLost(v)
                           \/ Release(v)
    BY <1>4
  <2>2. CASE Look(v)
    <3>1. worker' = [worker EXCEPT ![v] = [Idle EXCEPT !.phase = "found",
                                                       !.found = {r \in Runs : Claimable(r)}]]
      BY <2>2 DEF Look
    <3> QED BY <1>1, <3>1 DEF Idle
  <2>3. CASE Load(v)
    BY <1>1, <2>3 DEF Load, WorkerRow
  <2>4. CASE TakeNothing(v) \/ LeaseLost(v) \/ Release(v)
    BY <1>1, <2>4 DEF TakeNothing, LeaseLost, Release
  <2> QED BY <2>1, <2>2, <2>3, <2>4
<1>5. CASE \E v \in Workers, r \in Runs : Take(v, r)
  BY <1>1, <1>5 DEF Take
<1>6. CASE \E p \in Processes : Crash(p)
  BY <1>1, <1>6 DEF Crash
<1>7. CASE worker' = worker
  BY <1>7
<1>8. CASE \E r \in Runs : \/ BeginCreate(r) \/ CommitCreate(r) \/ Cancel(r)
                          \/ Lapse(r) \/ ComeDue(r) \/ PassDeadline(r)
  BY <1>7, <1>8 DEF BeginCreate, CommitCreate, Cancel, Lapse, ComeDue, PassDeadline
<1> QED BY <1>2, <1>3, <1>4, <1>5, <1>6, <1>7, <1>8 DEF Next, vars

(* And one thing only takes it away: a claim of a run that another worker   *)
(* of the same process still has. All workers of a process share one        *)
(* worker_id (engine_lifespan), and only then is it too coarse a name for   *)
(* the holder of a lease.                                                   *)
THEOREM OnlyAClaimOfItsOwn ==
    Spec => [][OwnRunsApart /\ ~OwnRunsApart' =>
                   \E v, w \in Workers : /\ v # w /\ Home[v] = Home[w]
                                         /\ worker[v].run \in Runs
                                         /\ Take(w, worker[v].run)]_vars
<1>1. ASSUME TypeInv, [Next]_vars, OwnRunsApart, ~OwnRunsApart'
      PROVE  \E v, w \in Workers : /\ v # w /\ Home[v] = Home[w]
                                    /\ worker[v].run \in Runs
                                    /\ Take(w, worker[v].run)
  <2>1. PICK v \in Workers, w \in Workers :
            /\ v # w /\ Home[v] = Home[w]
            /\ worker'[v].run = worker'[w].run /\ worker'[v].run # None
    BY <1>1 DEF OwnRunsApart
  <2>2. \A u \in Workers : worker'[u].run \in {worker[u].run, None}
                           \/ \E r \in Runs : Take(u, r)
    BY <1>1, RunKept
  <2>3. ~(worker[v].run = worker[w].run /\ worker[v].run # None)
    BY <1>1, <2>1 DEF OwnRunsApart
  <2>4. ASSUME NEW a \in Workers, NEW b \in Workers, a # b, NEW r \in Runs, Take(b, r),
               worker'[a].run = worker'[b].run
        PROVE  worker[a].run = r
    <3>1. worker' = [worker EXCEPT ![b] = [Idle EXCEPT !.phase = "claimed", !.run = r,
              !.row = [status |-> run[r].status, cancel |-> run[r].cancel]]]
      BY <2>4 DEF Take
    <3>2. worker'[a] = worker[a] /\ worker'[b].run = r
      BY <1>1, <2>4, <3>1 DEF TypeInv, TypeOK, Idle
    <3> QED BY <2>4, <3>2
  <2> QED BY <2>1, <2>2, <2>3, <2>4
<1>2. TypeInv /\ [Next]_vars =>
          [OwnRunsApart /\ ~OwnRunsApart' =>
               \E v, w \in Workers : /\ v # w /\ Home[v] = Home[w]
                                     /\ worker[v].run \in Runs
                                     /\ Take(w, worker[v].run)]_vars
  BY <1>1
<1> QED BY <1>2, TypeInit, TypeStep, PTL DEF Spec

FreshInv == TypeInv /\ \A w \in Workers : Fresh(w)

(* A step that v does not take leaves it as fresh as it was, unless it gives *)
(* v a lease or writes to the run v holds.                                  *)
LEMMA FreshKept ==
    ASSUME TypeInv, NEW v \in Workers, Fresh(v), worker'[v] = worker[v],
           LET r == worker[v].run
           IN  r \in Runs /\ lease'[r].holder = Home[v] =>
                   /\ Holds(v) /\ steps'[r] = steps[r]
                   /\ run[r].status \in Open => run'[r].status = run[r].status
    PROVE  Fresh(v)'
<1>1. CASE worker[v].phase \in {"idle", "found"}
  BY <1>1 DEF Fresh
<1>2. CASE worker[v].phase \notin {"idle", "found"}
  <2>1. worker[v].run \in Runs
    BY <1>2 DEF TypeInv
  <2>2. CASE lease'[worker[v].run].holder = Home[v]
    BY <2>1, <2>2 DEF Fresh, Holds
  <2>3. CASE lease'[worker[v].run].holder # Home[v]
    BY <2>3 DEF Fresh, Holds
  <2> QED BY <2>2, <2>3
<1> QED BY <1>1, <1>2

LEMMA FreshRequests ==
    ASSUME FreshInv, NEW r \in Runs,
           \/ BeginCreate(r) \/ CommitCreate(r) \/ Cancel(r)
           \/ Lapse(r) \/ ComeDue(r) \/ PassDeadline(r)
    PROVE  \A v \in Workers : Fresh(v)'
<1>1. worker' = worker /\ steps' = steps /\ \A o \in Runs : lease'[o].holder = lease[o].holder
  <2>1. lease \in [Runs -> [holder : Processes \cup {None}, expired : BOOLEAN]]
    BY DEF FreshInv, TypeInv, TypeOK
  <2> QED BY <2>1 DEF BeginCreate, CommitCreate, Cancel, Lapse, ComeDue, PassDeadline
<1>2. \A o \in Runs : run[o].status \in Open => run'[o].status = run[o].status
  <2>1. run \in [Runs -> RunRow]
    BY DEF FreshInv, TypeInv, TypeOK
  <2> QED BY <2>1 DEF BeginCreate, CommitCreate, Cancel, Lapse, ComeDue, PassDeadline,
                      RunRow, Open
<1> QED BY <1>1, <1>2, FreshKept DEF FreshInv, Holds

LEMMA FreshClaims ==
    ASSUME OwnRunsApart', FreshInv, NEW w \in Workers,
           \/ Look(w) \/ TakeNothing(w) \/ Load(w) \/ LeaseLost(w)
           \/ \E r \in Runs : Take(w, r)
    PROVE  \A v \in Workers : Fresh(v)'
<1>1. /\ run' = run /\ steps' = steps
      /\ worker \in [Workers -> WorkerRow] /\ \A v \in Workers \ {w} : worker'[v] = worker[v]
  BY DEF Look, TakeNothing, Load, LeaseLost, Take, FreshInv, TypeInv, TypeOK, WorkerRow
<1>2. CASE \E r \in Runs : Take(w, r)
  <2>1. PICK r \in Runs : Take(w, r)
    BY <1>2
  <2>2. /\ run[r].status \in Open /\ \A o \in Runs \ {r} : lease'[o] = lease[o]
        /\ lease'[r].holder = Home[w]
    BY <2>1 DEF Take, StillClaimable, FreshInv, TypeInv, TypeOK
  <2>3. ASSUME NEW v \in Workers \ {w} PROVE Fresh(v)'
    <3>1. worker'[w] = [Idle EXCEPT !.phase = "claimed", !.run = r,
                            !.row = [status |-> run[r].status, cancel |-> run[r].cancel]]
      BY <1>1, <2>1 DEF Take
    <3>2. worker'[v] = worker[v] /\ worker'[w].run = r /\ r # None
      BY <1>1, <3>1, NoneAssumption DEF Idle
    <3>3. Home[v] # Home[w] \/ worker[v].run # r
      BY <3>2 DEF OwnRunsApart
    <3> QED BY <1>1, <2>2, <3>3, FreshKept DEF FreshInv, Holds
  <2>4. Fresh(w)'
    <3>1. worker'[w] = [Idle EXCEPT !.phase = "claimed", !.run = r,
                            !.row = [status |-> run[r].status, cancel |-> run[r].cancel]]
      BY <1>1, <2>1 DEF Take
    <3>2. /\ worker'[w].phase = "claimed" /\ worker'[w].run = r
          /\ worker'[w].row.status = run[r].status
      BY <3>1 DEF Idle
    <3> QED BY <1>1, <2>2, <3>2 DEF Fresh
  <2> QED BY <2>3, <2>4
<1>3. CASE Look(w) \/ TakeNothing(w) \/ Load(w) \/ LeaseLost(w)
  <2>1. lease' = lease
    BY <1>3 DEF Look, TakeNothing, Load, LeaseLost
  <2>2. ASSUME NEW v \in Workers \ {w} PROVE Fresh(v)'
    BY <1>1, <2>1, FreshKept DEF FreshInv, Holds
  <2>3. CASE Load(w)
    <3>1. /\ worker[w].phase = "claimed" /\ worker'[w].phase = "loaded"
          /\ worker'[w].run = worker[w].run /\ worker'[w].row = worker[w].row
          /\ worker'[w].steps = steps[worker[w].run]
      BY <1>1, <2>3 DEF Load, WorkerRow
    <3>2. Fresh(w)'
      BY <1>1, <2>1, <3>1 DEF Fresh, FreshInv, Holds
    <3> QED BY <2>2, <3>2
  <2>4. CASE Look(w) \/ TakeNothing(w) \/ LeaseLost(w)
    <3>1. worker'[w].phase \in {"idle", "found"}
      <4>1. CASE Look(w)
        <5>1. worker'[w] = [Idle EXCEPT !.phase = "found", !.found = {r \in Runs : Claimable(r)}]
          BY <1>1, <4>1 DEF Look
        <5> QED BY <5>1 DEF Idle
      <4>2. CASE TakeNothing(w) \/ LeaseLost(w)
        <5>1. worker'[w] = Idle
          BY <1>1, <4>2 DEF TakeNothing, LeaseLost
        <5> QED BY <5>1 DEF Idle
      <4> QED BY <2>4, <4>1, <4>2
    <3>2. Fresh(w)'
      BY <3>1 DEF Fresh
    <3> QED BY <2>2, <3>2
  <2> QED BY <1>3, <2>3, <2>4
<1> QED BY <1>2, <1>3

LEMMA FreshWrites ==
    ASSUME OwnRunsApart, FreshInv, NEW w \in Workers, Write(w)
    PROVE  \A v \in Workers : Fresh(v)'
<1>1. ASSUME NEW v \in Workers \ {w} PROVE Fresh(v)'
  <2>1. worker[v].run \in Runs /\ worker[v].run = worker[w].run => Home[v] # Home[w]
    BY NoneAssumption DEF OwnRunsApart
  <2>2. worker'[v] = worker[v] /\ lease' = lease
    BY DEF Write
  <2>3. CASE worker[v].run \in Runs \ {worker[w].run}
    BY <2>2, <2>3, FreshKept DEF Write, FreshInv, Holds
  <2>4. CASE worker[v].run \notin Runs \ {worker[w].run}
    BY <2>1, <2>2, <2>4, FreshKept DEF Write, FreshInv, Holds
  <2> QED BY <2>3, <2>4
<1>2. Fresh(w)'
  BY DEF Write, Fresh, FreshInv
<1> QED BY <1>1, <1>2

LEMMA FreshEnds ==
    ASSUME FreshInv, NEW w \in Workers, Release(w) \/ Raise(w)
    PROVE  \A v \in Workers : Fresh(v)'
<1>1. worker \in [Workers -> WorkerRow] /\ run \in [Runs -> RunRow]
      /\ lease \in [Runs -> [holder : Processes \cup {None}, expired : BOOLEAN]]
  BY DEF FreshInv, TypeInv, TypeOK, WorkerRow
<1>2. /\ worker'[w].phase \in {"idle", "releasing"}
      /\ \A v \in Workers \ {w} : worker'[v] = worker[v]
  <2>1. CASE Raise(w) /\ worker[w].phase # "releasing"
    <3>1. worker[w].phase \notin {"idle", "found"} /\ Leave(w, "later")
      BY <2>1 DEF Raise
    <3> QED BY <3>1, LeaveTyped DEF FreshInv
  <2>2. CASE worker' = [worker EXCEPT ![w] = Idle]
    BY <1>1, <2>2 DEF Idle
  <2> QED BY <2>1, <2>2 DEF Release, Raise
<1>3. steps' = steps /\ \A o \in Runs : run'[o].status = run[o].status
  BY <1>1 DEF Release, Raise, RunRow
<1>4. \A v \in Workers, o \in Runs :
          lease'[o].holder = Home[v] => lease[o].holder = Home[v]
  <2>1. \A v \in Workers : Home[v] # None
    BY ConstantsAssumption, NoneAssumption
  <2> QED BY <1>1, <2>1 DEF Release, Raise, NoLease
<1>5. ASSUME NEW v \in Workers \ {w} PROVE Fresh(v)'
  BY <1>2, <1>3, <1>4, FreshKept DEF FreshInv, Holds
<1>6. Fresh(w)'
  BY <1>2 DEF Fresh
<1> QED BY <1>5, <1>6

LEMMA FreshCrash ==
    ASSUME FreshInv, NEW p \in Processes, Crash(p)
    PROVE  \A v \in Workers : Fresh(v)'
<1>1. UNCHANGED <<run, steps, lease>>
  BY DEF Crash
<1>2. \A v \in Workers : worker'[v] = worker[v] \/ worker'[v].phase = "idle"
  BY DEF Crash, Idle
<1>3. ASSUME NEW v \in Workers, worker'[v] = worker[v] PROVE Fresh(v)'
  BY <1>1, <1>3, FreshKept DEF FreshInv, Holds
<1>4. ASSUME NEW v \in Workers, worker'[v].phase = "idle" PROVE Fresh(v)'
  BY <1>4 DEF Fresh
<1> QED BY <1>2, <1>3, <1>4

LEMMA FreshStep ==
    ASSUME OwnRunsApart, OwnRunsApart', FreshInv, [Next]_vars
    PROVE  FreshInv'
<1>1. TypeInv'
  BY TypeStep DEF FreshInv
<1>2. CASE UNCHANGED vars
  BY <1>1, <1>2, FreshKept DEF vars, FreshInv, Holds
<1>3. CASE \E w \in Workers : Decide(w) \/ Answer(w)
  BY <1>1, <1>3, DecideWrites, AnswerWrites, FreshWrites DEF FreshInv
<1>4. CASE Next /\ ~\E w \in Workers : Decide(w) \/ Answer(w)
  <2>1. CASE \E r \in Runs : \/ BeginCreate(r) \/ CommitCreate(r) \/ Cancel(r)
                            \/ Lapse(r) \/ ComeDue(r) \/ PassDeadline(r)
    BY <1>1, <2>1, FreshRequests DEF FreshInv
  <2>2. CASE \E w \in Workers : \/ Look(w) \/ TakeNothing(w) \/ Load(w) \/ LeaseLost(w)
                               \/ \E r \in Runs : Take(w, r)
    BY <1>1, <2>2, FreshClaims DEF FreshInv
  <2>3. CASE \E w \in Workers : Release(w) \/ Raise(w)
    BY <1>1, <2>3, FreshEnds DEF FreshInv
  <2>4. CASE \E p \in Processes : Crash(p)
    BY <1>1, <2>4, FreshCrash DEF FreshInv
  <2> QED BY <1>4, <2>1, <2>2, <2>3, <2>4 DEF Next
<1> QED BY <1>2, <1>3, <1>4

LEMMA FreshStays ==
    ASSUME FreshInv, [Next]_vars, NEW r \in Runs
    PROVE  Stays(r)
<1>1. CASE \E w \in Workers : Decide(w) \/ Answer(w)
  <2>1. PICK w \in Workers : Write(w)
    BY <1>1, DecideWrites, AnswerWrites DEF FreshInv
  <2>2. CASE r = worker[w].run
    BY <2>1, <2>2 DEF Write, FreshInv
  <2>3. CASE r # worker[w].run
    BY <2>1, <2>3 DEF Write, Stays
  <2> QED BY <2>2, <2>3
<1>2. CASE UNCHANGED vars
  BY <1>2 DEF vars, Stays
<1>3. CASE Next /\ ~\E w \in Workers : Decide(w) \/ Answer(w)
  <2>1. steps' = steps
    BY <1>3 DEF Next, BeginCreate, CommitCreate, Cancel, Lapse, ComeDue, PassDeadline, Look,
                TakeNothing, Load, LeaseLost, Take, Release, Raise, Crash
  <2>2. run[r].status \in Closed => run'[r].status = run[r].status
    <3>1. run \in [Runs -> RunRow]
      BY DEF FreshInv, TypeInv, TypeOK
    <3>2. ASSUME NEW o \in Runs, BeginCreate(o) \/ CommitCreate(o) \/ Cancel(o) \/ ComeDue(o)
          PROVE  run[r].status \in Closed => run'[r].status = run[r].status
      BY <3>1, <3>2 DEF BeginCreate, CommitCreate, Cancel, ComeDue, RunRow, Closed
    <3>3. ASSUME NEW w \in Workers, Release(w)
          PROVE  run[r].status \in Closed => run'[r].status = run[r].status
      BY <3>1, <3>3 DEF Release, RunRow
    <3>4. CASE run' = run
      BY <3>4
    <3>5. \/ \E o \in Runs : BeginCreate(o) \/ CommitCreate(o) \/ Cancel(o) \/ ComeDue(o)
          \/ \E w \in Workers : Release(w)
          \/ run' = run
      BY <1>3 DEF Next, Lapse, PassDeadline, Look, TakeNothing, Load, LeaseLost, Take, Raise, Crash
    <3> QED BY <3>2, <3>3, <3>4, <3>5
  <2> QED BY <2>1, <2>2 DEF Stays
<1> QED BY <1>1, <1>2, <1>3

LEMMA FreshInit == Init => FreshInv
<1> SUFFICES ASSUME Init PROVE FreshInv
  OBVIOUS
<1>1. \A w \in Workers : worker[w].phase = "idle"
  BY DEF Init, Idle
<1> QED BY <1>1, TypeInit DEF FreshInv, Fresh

(* Whatever crashes, lapses and raises there are, a step and a run that are *)
(* over keep what was recorded: a worker that was overtaken by another      *)
(* process writes nothing (Store.write).                                    *)
THEOREM OvertakenWritesNothing ==
    Spec /\ []OwnRunsApart => OverStaysOver
<1>1. OwnRunsApart /\ OwnRunsApart' /\ FreshInv /\ [Next]_vars => FreshInv'
  BY FreshStep
<1>2. FreshInv /\ [Next]_vars =>
          [\A r \in Runs :
              /\ run[r].status \in Closed => run'[r].status = run[r].status
              /\ \A n \in Nodes : steps[r][n].status \in Terminal
                     => /\ steps'[r][n].status = steps[r][n].status
                        /\ steps'[r][n].port = steps[r][n].port]_vars
  BY FreshStays DEF Stays
<1> QED BY <1>1, <1>2, FreshInit, PTL DEF Spec, OverStaysOver

-----------------------------------------------------------------------------
(* Never are two runs of a key running, if the creates do not overlap: then *)
(* a run is older than those that are made after it is there, and the order *)
(* in which the claims look at the runs never changes.                      *)
There(r) == run[r].status \notin {"absent", "writing"}
OlderClosed(r) == \A o \in Runs : Before(o, r) => run[o].status \in Closed
MayStart(r) == run[r].status = "queued" /\ ~run[r].cancel

(* created lists what was made, each run once, and the older ones are there. *)
OrderInv ==
    /\ \A i, j \in DOMAIN created : created[i] = created[j] => i = j
    /\ \A r \in Runs : run[r].status # "absent" <=> \E i \in DOMAIN created : created[i] = r
    /\ \A r, o \in Runs : Before(o, r) => There(o)

(* Whoever found, claimed or started a run saw the older ones closed.       *)
KeyInv ==
    /\ OrderInv
    /\ \A r \in Runs : run[r].status = "running" => OlderClosed(r)
    /\ \A w \in Workers : worker[w].phase = "found" =>
           \A r \in worker[w].found : There(r) /\ (MayStart(r) => OlderClosed(r))
    /\ \A w \in Workers, r \in Runs :
           worker[w].phase \in {"claimed", "loaded"} /\ worker[w].run = r =>
               There(r) /\ (worker[w].row.status = "queued" /\ ~worker[w].row.cancel
                                => OlderClosed(r))

(* What a step may do to the runs.                                          *)
Ended(w) ==
    LET r == worker[w].run
    IN  /\ r \in Runs /\ run[r].status \in Open /\ \A o \in Runs \ {r} : run'[o] = run[o]
        /\ \/ run'[r].status \in Closed
           \/ worker[w].phase = "loaded" /\ Queued(w) /\ run'[r].status = "running"

SameRuns ==
    \A r \in Runs : run'[r].status = run[r].status /\ (run[r].cancel => run'[r].cancel)

LEMMA WriteEnds ==
    ASSUME FreshInv, NEW w \in Workers, Decide(w) \/ Answer(w)
    PROVE  created' = created /\ (Ended(w) \/ SameRuns)
<1>1. Write(w)
  BY DecideWrites, AnswerWrites DEF FreshInv
<1>2. CASE run' = run
  BY <1>1, <1>2 DEF Write, SameRuns
<1>3. CASE Start(w) \/ \E status \in Closed : run' = [run EXCEPT ![worker[w].run].status = status]
  <2>1. worker[w].phase = "loaded" \/ run' = run
    BY DEF Decide, CloseCancelled, Refuse, Start, TimeOut, Fail, Skip, Succeed, StartStep,
           BadParams, OutcomeUnknown, StepTimeOut, Call, Startable, Calls, Between, OnTime,
           Queued, Going, Pass, Answer, CallFails, CallAgain, CallEnds, Error, FailStep
  <2>2. CASE worker[w].phase = "loaded"
    <3>1. run[worker[w].run].status \in Open
      BY <1>1, <2>2 DEF Write, FreshInv, Fresh
    <3>2. run \in [Runs -> RunRow]
      BY DEF FreshInv, TypeInv, TypeOK
    <3>3. \/ Queued(w) /\ run'[worker[w].run].status = "running"
          \/ run'[worker[w].run].status \in Closed
      BY <1>1, <1>3, <3>2 DEF Write, Start, RunRow
    <3> QED BY <1>1, <2>2, <3>1, <3>3 DEF Write, Ended
  <2> QED BY <1>1, <1>2, <2>1, <2>2 DEF Write
<1>4. \/ run' = run \/ Start(w)
      \/ \E status \in Closed : run' = [run EXCEPT ![worker[w].run].status = status]
  BY DEF Decide, CloseCancelled, Refuse, TimeOut, Fail, Skip, Succeed, StartStep,
         BadParams, OutcomeUnknown, StepTimeOut, Call, Answer, CallFails, CallAgain, CallEnds,
         Error, FailStep, Close, Closed
<1> QED BY <1>2, <1>3, <1>4

LEMMA RunSteps ==
    ASSUME FreshInv, [Next]_vars
    PROVE  \/ \E r \in Runs : BeginCreate(r)
           \/ /\ created' = created
              /\ (\E r \in Runs : CommitCreate(r)) \/ (\E w \in Workers : Ended(w)) \/ SameRuns
<1>1. run \in [Runs -> RunRow]
  BY DEF FreshInv, TypeInv, TypeOK
<1>2. ASSUME NEW r \in Runs, Cancel(r) \/ ComeDue(r) PROVE created' = created /\ SameRuns
  BY <1>1, <1>2 DEF Cancel, ComeDue, SameRuns, RunRow
<1>3. ASSUME NEW w \in Workers, Release(w) PROVE created' = created /\ SameRuns
  BY <1>1, <1>3 DEF Release, SameRuns, RunRow
<1>4. CASE UNCHANGED <<run, created>>
  BY <1>4 DEF SameRuns
<1>5. \/ UNCHANGED <<run, created>>
      \/ \E r \in Runs : BeginCreate(r) \/ CommitCreate(r) \/ Cancel(r) \/ ComeDue(r)
      \/ \E w \in Workers : Decide(w) \/ Answer(w) \/ Release(w)
  BY DEF vars, Next, Lapse, PassDeadline, Look, TakeNothing, Load, LeaseLost, Take, Raise, Crash
<1> QED BY <1>2, <1>3, <1>4, <1>5, WriteEnds DEF CommitCreate

(* A new run is younger than all that are there, and older than none.       *)
LEMMA CreatedLast ==
    ASSUME TypeInv, OrderInv, NEW r \in Runs, BeginCreate(r)
    PROVE  /\ \A i, j \in DOMAIN created' : created'[i] = created'[j] => i = j
           /\ \A x \in Runs : (\E i \in DOMAIN created' : created'[i] = x)
                                 <=> x = r \/ \E i \in DOMAIN created : created[i] = x
           /\ \A o, x \in Runs : Before(o, x)' =>
                  Before(o, x) \/ (x = r /\ \E i \in DOMAIN created : created[i] = o)
<1>1. created \in Seq(Runs) /\ created' = Append(created, r)
  BY DEF BeginCreate, TypeInv, TypeOK
<1>2. \A i \in DOMAIN created : created[i] # r
  BY DEF BeginCreate, OrderInv
<1>3. /\ DOMAIN created = 1 .. Len(created) /\ DOMAIN created' = 1 .. Len(created) + 1
      /\ Len(created) \in Nat
      /\ \A i \in DOMAIN created : created'[i] = created[i]
      /\ created'[Len(created) + 1] = r
  BY <1>1
<1>4. \A i \in DOMAIN created' : i = Len(created) + 1 \/ i \in DOMAIN created
  BY <1>3
<1>5. \A i, j \in DOMAIN created' : created'[i] = created'[j] => i = j
  BY <1>2, <1>3, <1>4 DEF OrderInv
<1>6. \A x \in Runs : (\E i \in DOMAIN created' : created'[i] = x)
                          <=> x = r \/ \E i \in DOMAIN created : created[i] = x
  BY <1>3, <1>4
<1>7. ASSUME NEW o \in Runs, NEW x \in Runs, Before(o, x)'
      PROVE  Before(o, x) \/ (x = r /\ \E i \in DOMAIN created : created[i] = o)
  <2>1. PICK i, j \in DOMAIN created' : i < j /\ created'[i] = o /\ created'[j] = x
    BY <1>7 DEF Before
  <2>2. i \in DOMAIN created
    BY <1>3, <2>1
  <2> QED BY <1>3, <1>4, <2>1, <2>2 DEF Before
<1> QED BY <1>5, <1>6, <1>7

(* What a step leaves of the rows: what is closed stays closed, what is     *)
(* there stays there and can be started only if it could be before.         *)
LEMMA RunsKept ==
    ASSUME FreshInv, [Next]_vars, NEW r \in Runs
    PROVE  /\ run[r].status \in Closed => run'[r].status \in Closed
           /\ There(r) => There(r)'
           /\ There(r) /\ MayStart(r)' => MayStart(r)
           /\ run'[r].status = "running" =>
                  \/ run[r].status = "running"
                  \/ \E w \in Workers : worker[w].phase = "loaded" /\ Queued(w) /\ worker[w].run = r
<1>1. run \in [Runs -> RunRow]
  BY DEF FreshInv, TypeInv, TypeOK
<1>2. ASSUME NEW o \in Runs, BeginCreate(o) \/ CommitCreate(o)
      PROVE  /\ run[r].status \in Closed => run'[r].status \in Closed
             /\ There(r) => There(r)'
             /\ There(r) /\ MayStart(r)' => MayStart(r)
             /\ run'[r].status = "running" => run[r].status = "running"
  BY <1>1, <1>2 DEF BeginCreate, CommitCreate, There, MayStart, RunRow, Closed
<1>3. ASSUME NEW w \in Workers, Ended(w)
      PROVE  /\ run[r].status \in Closed => run'[r].status \in Closed
             /\ There(r) => There(r)'
             /\ There(r) /\ MayStart(r)' => MayStart(r)
             /\ run'[r].status = "running" =>
                    \/ run[r].status = "running"
                    \/ worker[w].phase = "loaded" /\ Queued(w) /\ worker[w].run = r
  BY <1>1, <1>3 DEF Ended, There, MayStart, Open, Closed
<1>4. CASE SameRuns
  <2>1. run' \in [Runs -> RunRow]
    BY TypeStep DEF FreshInv, TypeInv, TypeOK
  <2> QED BY <1>1, <1>4, <2>1 DEF SameRuns, There, MayStart, RunRow
<1> QED BY <1>2, <1>3, <1>4, RunSteps

LEMMA OrderStep ==
    ASSUME "overlap" \notin Faults, FreshInv, OrderInv, [Next]_vars
    PROVE  /\ OrderInv'
           /\ \A r \in Runs : There(r) /\ OlderClosed(r) => OlderClosed(r)'
<1>1. CASE \E r \in Runs : BeginCreate(r)
  <2>1. PICK r \in Runs : BeginCreate(r)
    BY <1>1
  <2>2. \A o \in Runs : run[o].status # "writing" /\ run[r].status = "absent"
    BY <2>1 DEF BeginCreate
  <2>3. run' \in [Runs -> RunRow] /\ run'[r].status = "writing"
        /\ \A o \in Runs \ {r} : run'[o] = run[o]
    <3>1. run' = [run EXCEPT ![r].status = "writing"] /\ "writing" \in {"writing"} \cup Open \cup Closed
      BY <2>1 DEF BeginCreate
    <3> QED BY <3>1, StatusTyped DEF FreshInv
  <2>4. \A o, x \in Runs : Before(o, x)' =>
            Before(o, x) \/ (x = r /\ \E i \in DOMAIN created : created[i] = o)
    BY <2>1, CreatedLast DEF FreshInv
  <2>5. \A o \in Runs : (\E i \in DOMAIN created : created[i] = o) => There(o)
    BY <2>2 DEF OrderInv, There
  <2>6. \A o, x \in Runs : Before(o, x)' => There(o)'
    <3>1. \A o \in Runs : There(o) => There(o)'
      BY <2>2, <2>3 DEF There
    <3> QED BY <2>4, <2>5, <3>1 DEF OrderInv
  <2>7. /\ \A i, j \in DOMAIN created' : created'[i] = created'[j] => i = j
        /\ \A x \in Runs : run'[x].status # "absent" <=> \E i \in DOMAIN created' : created'[i] = x
    BY <2>1, <2>3, CreatedLast DEF FreshInv, OrderInv
  <2>8. ASSUME NEW x \in Runs, There(x), OlderClosed(x) PROVE OlderClosed(x)'
    <3>1. x # r
      BY <2>2, <2>8 DEF There
    <3>2. \A o \in Runs : run[o].status \in Closed => run'[o].status \in Closed
      BY RunsKept
    <3> QED BY <2>4, <2>8, <3>1, <3>2 DEF OlderClosed
  <2> QED BY <2>6, <2>7, <2>8 DEF OrderInv
<1>2. CASE created' = created /\ ((\E r \in Runs : CommitCreate(r))
                                  \/ (\E w \in Workers : Ended(w)) \/ SameRuns)
  <2>1. \A o, x \in Runs : Before(o, x)' => Before(o, x)
    BY <1>2 DEF Before
  <2>2. \A o \in Runs : /\ There(o) => There(o)'
                        /\ run[o].status \in Closed => run'[o].status \in Closed
    BY RunsKept
  <2>3. \A o \in Runs : run'[o].status = "absent" <=> run[o].status = "absent"
    <3>1. run \in [Runs -> RunRow]
      BY DEF FreshInv, TypeInv, TypeOK
    <3>2. CASE \E r \in Runs : CommitCreate(r)
      BY <3>1, <3>2 DEF CommitCreate, RunRow
    <3>3. CASE \E w \in Workers : Ended(w)
      BY <3>3 DEF Ended, Open, Closed
    <3> QED BY <1>2, <3>2, <3>3 DEF SameRuns
  <2>4. OrderInv'
    <3>1. \A r, o \in Runs : Before(o, r)' => There(o)'
      BY <2>1, <2>2 DEF OrderInv
    <3> QED BY <1>2, <2>3, <3>1 DEF OrderInv
  <2>5. ASSUME NEW r \in Runs, OlderClosed(r) PROVE OlderClosed(r)'
    BY <2>1, <2>2, <2>5 DEF OlderClosed
  <2> QED BY <2>4, <2>5
<1> QED BY <1>1, <1>2, RunSteps

(* What the claim finds: the older runs of a queued one are not queued, are *)
(* not running and are there.                                               *)
LEMMA FoundOlderClosed ==
    ASSUME TypeInv, OrderInv, NEW r \in Runs, Claimable(r)
    PROVE  There(r) /\ (MayStart(r) => OlderClosed(r))
<1>1. There(r)
  BY DEF Claimable, There, Open
<1>2. ASSUME MayStart(r), NEW o \in Runs, Before(o, r) PROVE run[o].status \in Closed
  <2>1. o # r
    <3>1. PICK i, j \in DOMAIN created : i < j /\ created[i] = o /\ created[j] = r
      BY <1>2 DEF Before
    <3>2. i \in Nat /\ j \in Nat
      BY <3>1 DEF TypeInv, TypeOK
    <3> QED BY <3>1, <3>2 DEF OrderInv
  <2>2. ~Blocked(r)
    BY <1>2 DEF Claimable, MayStart
  <2>3. run[o].status \notin Open
    BY <1>2, <2>1, <2>2 DEF Blocked, Open
  <2>4. There(o) /\ run[o] \in RunRow
    BY <1>2 DEF OrderInv, TypeInv, TypeOK
  <2> QED BY <2>3, <2>4 DEF There, RunRow
<1> QED BY <1>1, <1>2 DEF OlderClosed

(* A worker has what it had, or less, or it looks, claims or loads.         *)
LEMMA WorkerSteps ==
    ASSUME TypeInv, [Next]_vars, NEW w \in Workers
    PROVE  \/ worker'[w] = worker[w]
           \/ worker'[w].phase \in {"idle", "calling", "releasing"}
           \/ Look(w) \/ Load(w) \/ \E r \in Runs : Take(w, r)
<1> DEFINE Less(v) == worker'[v] = worker[v] \/ worker'[v].phase \in {"idle", "calling", "releasing"}
<1>1. worker \in [Workers -> WorkerRow]
  BY DEF TypeInv, TypeOK, WorkerRow
<1>2. ASSUME NEW v \in Workers, Decide(v) \/ Answer(v) PROVE Less(w)
  BY <1>2, DecideWrites, AnswerWrites DEF Write
<1>3. ASSUME NEW v \in Workers, TakeNothing(v) \/ LeaseLost(v) \/ Release(v) PROVE Less(w)
  BY <1>1, <1>3 DEF TakeNothing, LeaseLost, Release, Idle
<1>4. ASSUME NEW v \in Workers, Raise(v) PROVE Less(w)
  <2>1. CASE worker[v].phase \in {"claimed", "loaded", "calling"} /\ Leave(v, "later")
    BY <2>1, LeaveTyped
  <2>2. CASE worker' = [worker EXCEPT ![v] = Idle]
    BY <1>1, <2>2 DEF Idle
  <2> QED BY <1>4, <2>1, <2>2 DEF Raise
<1>5. ASSUME NEW p \in Processes, Crash(p) PROVE Less(w)
  BY <1>5 DEF Crash, Idle
<1>6. ASSUME NEW v \in Workers, v # w, Look(v) \/ Load(v) \/ \E r \in Runs : Take(v, r)
      PROVE  Less(w)
  BY <1>1, <1>6 DEF Look, Load, Take
<1>7. CASE \E r \in Runs : \/ BeginCreate(r) \/ CommitCreate(r) \/ Cancel(r)
                          \/ Lapse(r) \/ ComeDue(r) \/ PassDeadline(r)
  BY <1>7 DEF BeginCreate, CommitCreate, Cancel, Lapse, ComeDue, PassDeadline
<1>8. CASE UNCHANGED vars
  BY <1>8 DEF vars
<1> QED BY <1>2, <1>3, <1>4, <1>5, <1>6, <1>7, <1>8 DEF Next

LEMMA ClaimRows ==
    ASSUME TypeInv, NEW w \in Workers
    PROVE  /\ Look(w) => /\ worker'[w].phase = "found"
                         /\ worker'[w].found = {r \in Runs : Claimable(r)}
           /\ \A r \in Runs : Take(w, r) =>
                  /\ worker'[w].phase = "claimed" /\ worker'[w].run = r
                  /\ worker'[w].row = [status |-> run[r].status, cancel |-> run[r].cancel]
           /\ Load(w) => /\ worker[w].phase = "claimed" /\ worker'[w].phase = "loaded"
                         /\ worker'[w].run = worker[w].run /\ worker'[w].row = worker[w].row
<1>1. worker \in [Workers -> WorkerRow]
  BY DEF TypeInv, TypeOK, WorkerRow
<1>2. ASSUME Look(w)
      PROVE  /\ worker'[w].phase = "found"
             /\ worker'[w].found = {r \in Runs : Claimable(r)}
  <2>1. worker'[w] = [Idle EXCEPT !.phase = "found", !.found = {r \in Runs : Claimable(r)}]
    BY <1>1, <1>2 DEF Look
  <2> QED BY <2>1 DEF Idle
<1>3. ASSUME NEW r \in Runs, Take(w, r)
      PROVE  /\ worker'[w].phase = "claimed" /\ worker'[w].run = r
             /\ worker'[w].row = [status |-> run[r].status, cancel |-> run[r].cancel]
  <2>1. worker'[w] = [Idle EXCEPT !.phase = "claimed", !.run = r,
                          !.row = [status |-> run[r].status, cancel |-> run[r].cancel]]
    BY <1>1, <1>3 DEF Take
  <2> QED BY <2>1 DEF Idle
<1>4. Load(w) => /\ worker[w].phase = "claimed" /\ worker'[w].phase = "loaded"
                 /\ worker'[w].run = worker[w].run /\ worker'[w].row = worker[w].row
  BY <1>1 DEF Load, WorkerRow
<1> QED BY <1>2, <1>3, <1>4

LEMMA KeyStep ==
    ASSUME "overlap" \notin Faults, FreshInv, KeyInv, [Next]_vars
    PROVE  KeyInv'
<1>1. /\ OrderInv'
      /\ \A r \in Runs : There(r) /\ OlderClosed(r) => OlderClosed(r)'
  BY OrderStep DEF KeyInv
<1>2. ASSUME NEW r \in Runs, There(r), MayStart(r) => OlderClosed(r)
      PROVE  There(r)' /\ (MayStart(r)' => OlderClosed(r)')
  BY <1>1, <1>2, RunsKept
<1>3. ASSUME NEW r \in Runs, run'[r].status = "running" PROVE OlderClosed(r)'
  <2>1. CASE run[r].status = "running"
    BY <1>1, <2>1 DEF KeyInv, There
  <2>2. CASE \E w \in Workers : worker[w].phase = "loaded" /\ Queued(w) /\ worker[w].run = r
    BY <1>1, <2>2 DEF KeyInv, Queued
  <2> QED BY <1>3, <2>1, <2>2, RunsKept
<1>4. ASSUME NEW w \in Workers, worker'[w].phase = "found", NEW r \in worker'[w].found
      PROVE  r \in Runs /\ There(r)' /\ (MayStart(r)' => OlderClosed(r)')
  <2>1. CASE worker'[w] = worker[w]
    <3>1. r \in Runs
      BY <1>4, <2>1 DEF FreshInv, TypeInv, TypeOK
    <3> QED BY <1>2, <1>4, <2>1, <3>1 DEF KeyInv
  <2>2. CASE Look(w)
    <3>1. r \in Runs /\ Claimable(r)
      BY <1>4, <2>2, ClaimRows DEF FreshInv
    <3>2. There(r) /\ (MayStart(r) => OlderClosed(r))
      BY <3>1, FoundOlderClosed DEF FreshInv, KeyInv
    <3> QED BY <1>2, <3>1, <3>2
  <2>3. CASE Load(w) \/ \E o \in Runs : Take(w, o)
    BY <1>4, <2>3, ClaimRows DEF FreshInv
  <2> QED BY <1>4, <2>1, <2>2, <2>3, WorkerSteps DEF FreshInv
<1>5. ASSUME NEW w \in Workers, worker'[w].phase \in {"claimed", "loaded"},
             NEW r \in Runs, worker'[w].run = r
      PROVE  There(r)' /\ (worker'[w].row.status = "queued" /\ ~worker'[w].row.cancel
                               => OlderClosed(r)')
  <2>1. CASE Load(w) \/ worker'[w] = worker[w]
    <3>1. /\ worker[w].phase \in {"claimed", "loaded"} /\ worker[w].run = r
          /\ worker'[w].row = worker[w].row
      BY <1>5, <2>1, ClaimRows DEF FreshInv
    <3>2. /\ There(r)
          /\ worker'[w].row.status = "queued" /\ ~worker'[w].row.cancel => OlderClosed(r)
      BY <3>1 DEF KeyInv
    <3> QED BY <1>1, <3>2, RunsKept
  <2>2. CASE Look(w)
    BY <1>5, <2>2, ClaimRows DEF FreshInv
  <2>3. CASE \E o \in Runs : Take(w, o)
    <3>1. Take(w, r) /\ worker'[w].row = [status |-> run[r].status, cancel |-> run[r].cancel]
      BY <1>5, <2>3, ClaimRows DEF FreshInv
    <3>2. worker'[w].row.status = run[r].status /\ worker'[w].row.cancel = run[r].cancel
      BY <3>1
    <3>3. There(r) /\ (MayStart(r) => OlderClosed(r))
      BY <3>1 DEF Take, StillClaimable, KeyInv
    <3> QED BY <1>1, <3>2, <3>3, RunsKept DEF MayStart
  <2> QED BY <1>5, <2>1, <2>2, <2>3, WorkerSteps DEF FreshInv
<1> QED BY <1>1, <1>3, <1>4, <1>5 DEF KeyInv

LEMMA KeyInit == Init => KeyInv
<1> SUFFICES ASSUME Init PROVE KeyInv
  OBVIOUS
<1>1. \A r \in Runs : run[r].status = "absent"
  BY DEF Init, NoRow
<1>2. created = <<>> /\ DOMAIN created = {}
  BY DEF Init
<1>3. \A w \in Workers : worker[w].phase = "idle"
  BY DEF Init, Idle
<1>4. OrderInv
  BY <1>1, <1>2 DEF OrderInv, Before
<1> QED BY <1>1, <1>3, <1>4 DEF KeyInv

(* One of two running runs is older than the other.                         *)
LEMMA KeyInvSuffices ==
    ASSUME TypeInv, KeyInv
    PROVE  OneRunningPerKey
<1> SUFFICES ASSUME NEW r \in Runs, NEW o \in Runs,
                    run[r].status = "running", run[o].status = "running", r # o
             PROVE  FALSE
  BY DEF OneRunningPerKey
<1>1. PICK i \in DOMAIN created : created[i] = r
  BY DEF KeyInv, OrderInv
<1>2. PICK j \in DOMAIN created : created[j] = o
  BY DEF KeyInv, OrderInv
<1>3. i \in Nat /\ j \in Nat /\ i # j
  BY <1>1, <1>2 DEF TypeInv, TypeOK
<1>4. Before(r, o) \/ Before(o, r)
  BY <1>1, <1>2, <1>3 DEF Before
<1> QED BY <1>4 DEF KeyInv, OlderClosed, Closed

(* Never are two runs of a workflow with one concurrency key running        *)
(* (_CLAIM's look at the older runs), for any number of runs, workers and   *)
(* processes and whatever crashes, lapses and raises there are, if creates  *)
(* do not overlap and no process takes over a run from itself.              *)
THEOREM RunsTakeTurns ==
    ASSUME "overlap" \notin Faults
    PROVE  Spec /\ []OwnRunsApart => []OneRunningPerKey
<1>1. OwnRunsApart /\ OwnRunsApart' /\ FreshInv /\ KeyInv /\ [Next]_vars =>
          FreshInv' /\ KeyInv'
  BY FreshStep, KeyStep
<1>2. FreshInv /\ KeyInv => OneRunningPerKey
  BY KeyInvSuffices DEF FreshInv
<1> QED BY <1>1, <1>2, FreshInit, KeyInit, PTL DEF Spec

-----------------------------------------------------------------------------
(* What a write makes of the rows, when the worker has read what is there:  *)
(* a step that is over stays, one that has a row goes on by the graph, and  *)
(* a run is closed with all its steps.                                      *)
Moved(w, n) ==
    LET s == steps[worker[w].run]
        t == steps'[worker[w].run]
    IN  \/ t[n] = s[n]
        \/ /\ s[n].status \in {"pending", "running"}
           /\ t[n].status = "cancelled" /\ ~t[n].called
        \/ /\ s[n].status = "absent" /\ ~t[n].called
           /\ \/ t[n].status = "pending"
              \/ t[n].status = "succeeded" /\ n = Trigger
              \/ t[n].status = "skipped" /\ Into(n) = {}
        \/ /\ s[n].status = "pending" /\ t[n].status = "skipped" /\ ~t[n].called
           /\ \A e \in Into(n) : Dead(e, t)
        \/ /\ n \in Ready(s) /\ Skipped(s) = {}
           /\ \/ t[n].status = "running" /\ t[n].called = s[n].called
              \/ t[n].status = "failed" /\ ~t[n].called
        \/ /\ s[n].status = "running" /\ t[n].status \in {"running", "succeeded", "failed"}
           /\ t[n].called => /\ t[n].status = "running"
                             /\ worker[w].phase = "loaded" /\ ~worker[w].row.cancel

RunMoved(w) ==
    LET r == worker[w].run
    IN  \/ run' = run /\ (worker[w].phase = "loaded" => run[r].status = "running")
        \/ /\ run' = [run EXCEPT ![r].status = "running"] /\ run[r].status = "queued"
        \/ \E status \in Closed :
              /\ run' = [run EXCEPT ![r].status = status] /\ run[r].status \in Open
              /\ \A n \in Nodes : \/ steps'[r][n].status \in Terminal \cup {"absent"}
                                  \/ run[r].status = "queued" /\ steps'[r][n] = steps[r][n]
              /\ status = "succeeded" =>
                     /\ Unwired(steps[r]) = {}
                     /\ \A n \in Nodes : \/ steps'[r][n] = steps[r][n]
                                         \/ steps'[r][n].status = "cancelled"

Effect(w) == RunMoved(w) /\ \A n \in Nodes : Moved(w, n)

(* The rows that EndSteps and a write to one step leave.                    *)
LEMMA EndedRows ==
    ASSUME TypeInv, NEW w \in Workers, worker[w].run \in Runs, NEW ended \in SUBSET Nodes,
           NEW status \in Terminal, NEW port \in Ports \cup {NoPort},
           EndSteps(w, ended, status, port), NEW n \in Nodes
    PROVE  /\ n \notin ended => steps'[worker[w].run][n] = steps[worker[w].run][n]
           /\ n \in ended => /\ steps'[worker[w].run][n].status = status
                             /\ steps'[worker[w].run][n].port = port
                             /\ ~steps'[worker[w].run][n].called
<1> DEFINE new == [m \in ended |-> EndedRow(w, m, status, port)]
<1>1. ASSUME NEW m \in ended
      PROVE  /\ new[m] \in StepRow /\ new[m].status = status /\ new[m].port = port
             /\ new[m].called = FALSE
  <2>1. steps[worker[w].run][m] \in StepRow
    BY DEF TypeInv, TypeOK
  <2> QED BY <2>1 DEF EndedRow, StepRow
<1>2. Rows(w, new) /\ DOMAIN new = ended
  BY DEF EndSteps
<1> HIDE DEF new
<1>3. steps'[worker[w].run][n] = IF n \in DOMAIN new THEN new[n] ELSE steps[worker[w].run][n]
  BY <1>1, <1>2, RowsTyped
<1> QED BY <1>1, <1>2, <1>3

LEMMA OneRow ==
    ASSUME TypeInv, NEW w \in Workers, worker[w].run \in Runs, NEW n \in Nodes,
           NEW new \in [{n} -> StepRow], Rows(w, new)
    PROVE  /\ steps'[worker[w].run][n] = new[n]
           /\ \A m \in Nodes \ {n} : steps'[worker[w].run][m] = steps[worker[w].run][m]
<1>1. DOMAIN new = {n} /\ \A m \in DOMAIN new \cap Nodes : new[m] \in StepRow
  OBVIOUS
<1>2. \A m \in Nodes : steps'[worker[w].run][m] =
          IF m \in DOMAIN new THEN new[m] ELSE steps[worker[w].run][m]
  BY <1>1, RowsTyped
<1> QED BY <1>1, <1>2

(* What a worker in a pass has read is what is there.                       *)
LEMMA HasRead ==
    ASSUME FreshInv, NEW w \in Workers, Holds(w)
    PROVE  /\ worker[w].phase = "loaded" =>
                  /\ worker[w].run \in Runs /\ worker[w].steps = steps[worker[w].run]
                  /\ worker[w].row.status = run[worker[w].run].status
                  /\ run[worker[w].run].status \in Open
           /\ worker[w].phase = "calling" =>
                  /\ worker[w].run \in Runs /\ worker[w].node \in Nodes
                  /\ steps[worker[w].run][worker[w].node].status = "running"
BY DEF FreshInv, TypeInv, TypeOK, Fresh

LEMMA CloseEffect ==
    ASSUME FreshInv, NEW w \in Workers, Pass(w), NEW status \in Closed,
           Close(w, worker[w].steps, status),
           status = "succeeded" => Unwired(worker[w].steps) = {}
    PROVE  Effect(w)
<1> DEFINE r == worker[w].run
<1>1. r \in Runs /\ worker[w].steps = steps[r] /\ run[r].status \in Open
  BY HasRead DEF Pass
<1>2. ASSUME NEW n \in Nodes
      PROVE  /\ steps[r][n].status \in {"pending", "running"} =>
                    steps'[r][n].status = "cancelled" /\ ~steps'[r][n].called
             /\ steps[r][n].status \notin {"pending", "running"} => steps'[r][n] = steps[r][n]
  <2> DEFINE open == OpenSteps(steps[r])
  <2>1. open \in SUBSET Nodes /\ "cancelled" \in Terminal /\ NoPort \in Ports \cup {NoPort}
        /\ EndSteps(w, open, "cancelled", NoPort)
        /\ (n \in open <=> steps[r][n].status \in {"pending", "running"})
    BY <1>1 DEF OpenSteps, Terminal, Close
  <2> HIDE DEF open
  <2> QED BY <1>1, <2>1, EndedRows DEF FreshInv
<1>3. \A n \in Nodes : Moved(w, n)
  BY <1>2 DEF Moved
<1>4. \A n \in Nodes : steps'[r][n].status \in Terminal \cup {"absent"}
  <2>1. \A n \in Nodes : steps[r][n].status \in Waiting \cup {"running"} \cup Terminal
    BY <1>1 DEF FreshInv, TypeInv, TypeOK, StepRow
  <2> QED BY <1>2, <2>1 DEF Waiting, Terminal
<1>5. run' = [run EXCEPT ![r].status = status]
  BY DEF Close
<1>6. status = "succeeded" => /\ Unwired(steps[r]) = {}
                              /\ \A n \in Nodes : \/ steps'[r][n] = steps[r][n]
                                                  \/ steps'[r][n].status = "cancelled"
  BY <1>1, <1>2
<1>7. RunMoved(w)
  BY <1>1, <1>4, <1>5, <1>6 DEF RunMoved
<1> QED BY <1>3, <1>7 DEF Effect

LEMMA RefuseEffect ==
    ASSUME FreshInv, NEW w \in Workers, Refuse(w)
    PROVE  Effect(w)
<1> DEFINE r == worker[w].run
<1>1. r \in Runs /\ run[r].status = "queued" /\ run[r].status \in Open
  BY HasRead DEF Refuse, Queued, Pass
<1>2. OpenSteps(NoSteps) = {} /\ EndSteps(w, {}, "cancelled", NoPort)
  <2>1. OpenSteps(NoSteps) = {}
    BY DEF OpenSteps, NoSteps, NoStep
  <2> QED BY <2>1 DEF Refuse, Close
<1>3. \A n \in Nodes : steps'[r][n] = steps[r][n]
  <2>1. {} \in SUBSET Nodes /\ "cancelled" \in Terminal /\ NoPort \in Ports \cup {NoPort}
    BY DEF Terminal
  <2> QED BY <1>1, <1>2, <2>1, EndedRows DEF FreshInv
<1>4. run' = [run EXCEPT ![r].status = "failed"] /\ "failed" \in Closed
  BY DEF Refuse, Close, Closed
<1>5. RunMoved(w)
  BY <1>1, <1>3, <1>4 DEF RunMoved
<1> QED BY <1>3, <1>5 DEF Effect, Moved

LEMMA StartEffect ==
    ASSUME FreshInv, NEW w \in Workers, Start(w)
    PROVE  Effect(w)
<1> DEFINE r == worker[w].run
           fresh == {m \in Nodes : steps[r][m].status = "absent"}
           new == [n \in fresh |->
                      IF n = Trigger
                      THEN [NoStep EXCEPT !.status = "succeeded", !.port = Ok]
                      ELSE [NoStep EXCEPT !.status = IF Into(n) = {} THEN "skipped"
                                                                     ELSE "pending"]]
<1>1. r \in Runs /\ run[r].status = "queued"
  BY HasRead DEF Start, Queued, Pass
<1>2. ASSUME NEW n \in fresh
      PROVE  /\ new[n] \in StepRow /\ new[n].called = FALSE
             /\ \/ new[n].status = "pending"
                \/ new[n].status = "succeeded" /\ n = Trigger
                \/ new[n].status = "skipped" /\ Into(n) = {}
  BY NoStepsTyped DEF NoStep, StepRow, Terminal, Waiting, Ports
<1>3. Rows(w, new) /\ DOMAIN new = fresh /\ run' = [run EXCEPT ![r].status = "running"]
  BY DEF Start
<1>4. \A n \in Nodes : steps'[r][n] = IF n \in fresh THEN new[n] ELSE steps[r][n]
  <2>1. \A n \in DOMAIN new \cap Nodes : new[n] \in StepRow
    BY <1>2, <1>3
  <2> HIDE DEF new, fresh
  <2> QED BY <1>1, <1>3, <2>1, RowsTyped DEF FreshInv
<1>5. ASSUME NEW n \in Nodes PROVE Moved(w, n)
  <2>1. CASE n \in fresh
    <3>1. steps[r][n].status = "absent" /\ steps'[r][n] = new[n]
      BY <1>4, <2>1
    <3> HIDE DEF new
    <3> QED BY <1>2, <2>1, <3>1 DEF Moved
  <2>2. CASE n \notin fresh
    BY <1>4, <2>2 DEF Moved
  <2> QED BY <2>1, <2>2
<1>6. RunMoved(w)
  BY <1>1, <1>3 DEF RunMoved
<1> QED BY <1>5, <1>6 DEF Effect

(* A pass that goes on leaves the run as it is.                             *)
LEMMA GoingEffect ==
    ASSUME FreshInv, NEW w \in Workers, Going(w), run' = run
    PROVE  RunMoved(w)
<1>1. run[worker[w].run].status = "running"
  BY HasRead DEF Going, Pass
<1> QED BY <1>1 DEF RunMoved

LEMMA SkipEffect ==
    ASSUME FreshInv, NEW w \in Workers, Skip(w)
    PROVE  Effect(w)
<1> DEFINE r == worker[w].run
           ended == Skipped(worker[w].steps)
<1>1. /\ Going(w) /\ run' = run /\ EndSteps(w, ended, "skipped", NoPort)
      /\ r \in Runs /\ worker[w].steps = steps[r]
  BY HasRead DEF Skip, Between, OnTime, Going, Pass
<1>2. /\ ended \in SUBSET Nodes /\ "skipped" \in Terminal /\ NoPort \in Ports \cup {NoPort}
      /\ \A n \in ended : /\ steps[r][n].status = "pending"
                          /\ \A e \in Into(n) : Dead(e, steps[r]) \/ e.source \in ended
  BY <1>1, SkippedArePending DEF FreshInv, Terminal
<1> HIDE DEF ended
<1>3. ASSUME NEW n \in Nodes
      PROVE  /\ n \notin ended => steps'[r][n] = steps[r][n]
             /\ n \in ended => /\ steps'[r][n].status = "skipped"
                               /\ steps'[r][n].port = NoPort /\ ~steps'[r][n].called
  BY <1>1, <1>2, EndedRows DEF FreshInv
<1>4. ASSUME NEW n \in ended, NEW e \in Into(n) PROVE Dead(e, steps'[r])
  <2>1. e.source \in Nodes /\ e.port \in Ports
    BY <1>2, <1>4, ConstantsAssumption DEF Into, FreshInv, TypeInv, TypeOK
  <2>2. CASE e.source \in ended
    BY <1>3, <2>1, <2>2 DEF Dead, Terminal, Ports, NoPort, Ok, FailedPort
  <2>3. CASE e.source \notin ended
    BY <1>2, <1>3, <1>4, <2>1, <2>3 DEF Dead
  <2> QED BY <2>2, <2>3
<1>5. \A n \in Nodes : Moved(w, n)
  BY <1>2, <1>3, <1>4 DEF Moved
<1> QED BY <1>1, <1>5, GoingEffect DEF Effect

LEMMA StartStepEffect ==
    ASSUME FreshInv, NEW w \in Workers, NEW n \in Nodes, StartStep(w, n)
    PROVE  Effect(w)
<1> DEFINE r == worker[w].run
           new == [m \in {n} |-> [steps[r][m] EXCEPT !.status = "running", !.attempt = 1]]
<1>1. /\ Going(w) /\ run' = run /\ r \in Runs
      /\ n \in Ready(steps[r]) /\ Skipped(steps[r]) = {}
  BY HasRead DEF StartStep, Startable, Between, OnTime, Going, Pass
<1>2. /\ new \in [{n} -> StepRow]
      /\ new[n].status = "running" /\ new[n].called = steps[r][n].called
  <2>1. steps[r][n] \in StepRow /\ 1 \in 0 .. Retries + 1
    BY <1>1, ConstantsAssumption DEF FreshInv, TypeInv, TypeOK
  <2> QED BY <2>1 DEF StepRow
<1>3. Rows(w, new)
  BY DEF StartStep
<1> HIDE DEF new
<1>4. steps'[r][n] = new[n] /\ \A m \in Nodes \ {n} : steps'[r][m] = steps[r][m]
  BY <1>1, <1>2, <1>3, OneRow DEF FreshInv
<1>5. \A m \in Nodes : Moved(w, m)
  BY <1>1, <1>2, <1>4 DEF Moved
<1> QED BY <1>1, <1>5, GoingEffect DEF Effect

LEMMA FailStepEffect ==
    ASSUME FreshInv, NEW w \in Workers, worker[w].run \in Runs, NEW n \in Nodes,
           FailStep(w, n), RunMoved(w),
           \/ steps[worker[w].run][n].status = "running"
           \/ /\ n \in Ready(steps[worker[w].run])
              /\ Skipped(steps[worker[w].run]) = {}
    PROVE  Effect(w)
<1> DEFINE r == worker[w].run
           port == IF n \in Failable THEN FailedPort ELSE NoPort
<1>1. /\ {n} \in SUBSET Nodes /\ "failed" \in Terminal /\ port \in Ports \cup {NoPort}
      /\ EndSteps(w, {n}, "failed", port)
  BY DEF Terminal, Ports, FailStep
<1> HIDE DEF port
<1>2. /\ steps'[r][n].status = "failed" /\ ~steps'[r][n].called
      /\ \A m \in Nodes \ {n} : steps'[r][m] = steps[r][m]
  BY <1>1, EndedRows DEF FreshInv
<1>3. \A m \in Nodes : Moved(w, m)
  BY <1>2 DEF Moved
<1> QED BY <1>3 DEF Effect

LEMMA ErrorEffect ==
    ASSUME FreshInv, NEW w \in Workers, worker[w].run \in Runs, NEW n \in Nodes,
           NEW retry \in BOOLEAN, Error(w, n, retry), RunMoved(w),
           steps[worker[w].run][n].status = "running"
    PROVE  Effect(w)
<1> DEFINE r == worker[w].run
           attempt == worker[w].steps[n].attempt + 1
           new == [m \in {n} |-> [steps[r][m] EXCEPT !.attempt = attempt, !.called = FALSE]]
<1>1. CASE retry /\ MayRetry(worker[w].steps[n])
  <2>1. new \in [{n} -> StepRow] /\ new[n].status = "running" /\ new[n].called = FALSE
    <3>1. steps[r][n] \in StepRow /\ worker[w].steps[n] \in StepRow
      BY DEF FreshInv, TypeInv, TypeOK
    <3>2. attempt \in 0 .. Retries + 1
      BY <1>1, <3>1, ConstantsAssumption DEF MayRetry, StepRow
    <3> HIDE DEF attempt
    <3> QED BY <3>1, <3>2 DEF StepRow
  <2>2. Rows(w, new)
    BY <1>1 DEF Error
  <2> HIDE DEF new
  <2>3. steps'[r][n] = new[n] /\ \A m \in Nodes \ {n} : steps'[r][m] = steps[r][m]
    BY <2>1, <2>2, OneRow DEF FreshInv
  <2>4. \A m \in Nodes : Moved(w, m)
    BY <2>1, <2>3 DEF Moved
  <2> QED BY <2>4 DEF Effect
<1>2. CASE ~(retry /\ MayRetry(worker[w].steps[n]))
  BY <1>2, FailStepEffect DEF Error
<1> QED BY <1>1, <1>2

LEMMA CallEffect ==
    ASSUME FreshInv, NEW w \in Workers, NEW n \in Nodes, Call(w, n)
    PROVE  Effect(w)
<1> DEFINE r == worker[w].run
           new == [m \in {n} |-> [steps[r][m] EXCEPT !.called = TRUE]]
<1>1. /\ Going(w) /\ run' = run /\ r \in Runs /\ steps[r][n].status = "running"
      /\ worker[w].phase = "loaded" /\ ~worker[w].row.cancel
  BY HasRead DEF Call, Calls, OnTime, Going, Pass
<1>2. new \in [{n} -> StepRow] /\ new[n].status = "running"
  <2>1. steps[r][n] \in StepRow
    BY <1>1 DEF FreshInv, TypeInv, TypeOK
  <2> QED BY <1>1, <2>1 DEF StepRow
<1>3. Rows(w, new)
  BY DEF Call
<1> HIDE DEF new
<1>4. steps'[r][n] = new[n] /\ \A m \in Nodes \ {n} : steps'[r][m] = steps[r][m]
  BY <1>1, <1>2, <1>3, OneRow DEF FreshInv
<1>5. \A m \in Nodes : Moved(w, m)
  BY <1>1, <1>2, <1>4 DEF Moved
<1> QED BY <1>1, <1>5, GoingEffect DEF Effect

LEMMA AnswerEffect ==
    ASSUME FreshInv, NEW w \in Workers, Answer(w)
    PROVE  Effect(w)
<1> DEFINE r == worker[w].run
           n == worker[w].node
<1>1. /\ worker[w].phase = "calling" /\ r \in Runs /\ n \in Nodes
      /\ steps[r][n].status = "running" /\ run' = run
  BY HasRead DEF Answer, CallFails, CallAgain, CallEnds, Called, Error, FailStep
<1>2. RunMoved(w)
  BY <1>1 DEF RunMoved
<1> HIDE DEF n
<1>3. CASE CallFails(w)
  <2>1. PICK retry \in BOOLEAN : Error(w, n, retry)
    BY <1>3 DEF CallFails, n
  <2> QED BY <1>1, <1>2, <2>1, ErrorEffect
<1>4. CASE CallAgain(w)
  <2> DEFINE new == [m \in {n} |-> [steps[r][m] EXCEPT !.called = FALSE]]
  <2>1. new \in [{n} -> StepRow] /\ new[n].status = "running" /\ new[n].called = FALSE
    <3>1. steps[r][n] \in StepRow
      BY <1>1 DEF FreshInv, TypeInv, TypeOK
    <3> QED BY <1>1, <3>1 DEF StepRow
  <2>2. Rows(w, new)
    BY <1>4 DEF CallAgain, n
  <2> HIDE DEF new
  <2>3. steps'[r][n] = new[n] /\ \A m \in Nodes \ {n} : steps'[r][m] = steps[r][m]
    BY <1>1, <2>1, <2>2, OneRow DEF FreshInv
  <2>4. \A m \in Nodes : Moved(w, m)
    BY <1>1, <2>1, <2>3 DEF Moved
  <2> QED BY <1>2, <2>4 DEF Effect
<1>5. CASE CallEnds(w)
  <2>1. PICK status \in {"succeeded", "failed"}, port \in Ports \cup {NoPort} :
            EndSteps(w, {n}, status, port)
    BY <1>5 DEF CallEnds, Ports, n
  <2>2. {n} \in SUBSET Nodes /\ status \in Terminal
    BY <1>1, <2>1 DEF Terminal
  <2>3. /\ steps'[r][n].status = status /\ ~steps'[r][n].called
        /\ \A m \in Nodes \ {n} : steps'[r][m] = steps[r][m]
    <3>1. ASSUME NEW m \in Nodes
          PROVE  /\ m \notin {n} => steps'[r][m] = steps[r][m]
                 /\ m \in {n} => steps'[r][m].status = status /\ ~steps'[r][m].called
      <4> DEFINE ended == {n}
      <4>1. /\ TypeInv /\ worker[w].run \in Runs /\ ended \in SUBSET Nodes
            /\ status \in Terminal /\ port \in Ports \cup {NoPort}
            /\ EndSteps(w, ended, status, port)
        BY <1>1, <2>1, <2>2 DEF FreshInv
      <4> HIDE DEF ended
      <4>2. /\ m \notin ended => steps'[r][m] = steps[r][m]
            /\ m \in ended => steps'[r][m].status = status /\ ~steps'[r][m].called
        BY <4>1, EndedRows
      <4> QED BY <4>2 DEF ended
    <3> QED BY <1>1, <3>1
  <2>4. \A m \in Nodes : Moved(w, m)
    BY <1>1, <2>1, <2>3 DEF Moved
  <2> QED BY <1>2, <2>4 DEF Effect
<1> QED BY <1>3, <1>4, <1>5 DEF Answer

LEMMA DecideEffect ==
    ASSUME FreshInv, NEW w \in Workers, Decide(w)
    PROVE  Effect(w)
<1>1. CASE CloseCancelled(w) \/ TimeOut(w) \/ Fail(w) \/ Succeed(w)
  <2>1. Pass(w)
    BY <1>1 DEF CloseCancelled, TimeOut, Fail, Succeed, Between, OnTime, Going
  <2>2. PICK status \in Closed : /\ Close(w, worker[w].steps, status)
                                 /\ status = "succeeded" => Unwired(worker[w].steps) = {}
    BY <1>1 DEF CloseCancelled, TimeOut, Fail, Succeed, Between, OnTime, Closed
  <2> QED BY <2>1, <2>2, CloseEffect
<1>2. CASE \E n \in Nodes : BadParams(w, n) \/ OutcomeUnknown(w, n) \/ StepTimeOut(w, n)
  <2>1. PICK n \in Nodes : BadParams(w, n) \/ OutcomeUnknown(w, n) \/ StepTimeOut(w, n)
    BY <1>2
  <2>2. Going(w) /\ run' = run
    BY <2>1 DEF BadParams, Startable, Between, OutcomeUnknown, StepTimeOut, Calls, OnTime,
                Error, FailStep
  <2>3. RunMoved(w)
    BY <2>2, GoingEffect
  <2>4. worker[w].run \in Runs /\ worker[w].steps = steps[worker[w].run]
    BY <2>2, HasRead DEF Going, Pass
  <2>5. CASE BadParams(w, n)
    BY <2>3, <2>4, <2>5, FailStepEffect DEF BadParams, Startable
  <2>6. CASE OutcomeUnknown(w, n)
    BY <2>3, <2>4, <2>6, FailStepEffect DEF OutcomeUnknown, Calls
  <2>7. CASE StepTimeOut(w, n)
    BY <2>3, <2>4, <2>7, ErrorEffect DEF StepTimeOut, Calls
  <2> QED BY <2>1, <2>5, <2>6, <2>7
<1> QED BY <1>1, <1>2, RefuseEffect, StartEffect, SkipEffect, StartStepEffect, CallEffect
        DEF Decide
LEMMA WriteEffect ==
    ASSUME FreshInv, NEW w \in Workers, Decide(w) \/ Answer(w)
    PROVE  Write(w) /\ Effect(w)
BY DecideWrites, AnswerWrites, DecideEffect, AnswerEffect DEF FreshInv

(* A step of the system is a write of a worker, or leaves the step rows.    *)
LEMMA RowsOrRest ==
    ASSUME FreshInv, [Next]_vars
    PROVE  \/ \E w \in Workers : Write(w) /\ Effect(w)
           \/ /\ steps' = steps /\ graph' = graph
              /\ \A r \in Runs : /\ run[r].cancel => run'[r].cancel
                                 /\ \/ run'[r].status = run[r].status
                                    \/ run[r].status = "absent" /\ run'[r].status = "writing"
                                    \/ run[r].status = "writing" /\ run'[r].status = "queued"
<1>1. CASE \E w \in Workers : Decide(w) \/ Answer(w)
  BY <1>1, WriteEffect
<1>2. CASE UNCHANGED vars
  BY <1>2 DEF vars
<1>3. CASE Next /\ ~\E w \in Workers : Decide(w) \/ Answer(w)
  <2>1. steps' = steps /\ graph' = graph
    BY <1>3 DEF Next, BeginCreate, CommitCreate, Cancel, Lapse, ComeDue, PassDeadline, Look,
                TakeNothing, Load, LeaseLost, Take, Release, Raise, Crash
  <2>2. run \in [Runs -> RunRow]
    BY DEF FreshInv, TypeInv, TypeOK
  <2>3. CASE \E o \in Runs : BeginCreate(o) \/ CommitCreate(o) \/ Cancel(o) \/ ComeDue(o)
    BY <2>1, <2>2, <2>3 DEF BeginCreate, CommitCreate, Cancel, ComeDue, RunRow
  <2>4. CASE \E w \in Workers : Release(w)
    BY <2>1, <2>2, <2>4 DEF Release, RunRow
  <2>5. CASE run' = run
    BY <2>1, <2>5
  <2>6. \/ \E o \in Runs : BeginCreate(o) \/ CommitCreate(o) \/ Cancel(o) \/ ComeDue(o)
        \/ \E w \in Workers : Release(w)
        \/ run' = run
    BY <1>3 DEF Next, Lapse, PassDeadline, Look, TakeNothing, Load, LeaseLost, Take, Raise, Crash
  <2> QED BY <2>3, <2>4, <2>5, <2>6
<1> QED BY <1>1, <1>2, <1>3

-----------------------------------------------------------------------------
(* A closed run is settled: it is closed with what was read, and that is    *)
(* all there is.                                                            *)

(* Before it is started a run has no steps.                                 *)
NotStarted ==
    \A r \in Runs : run[r].status \in {"absent", "writing", "queued"} =>
        \A n \in Nodes : steps[r][n].status = "absent"

SettledInv == NotStarted /\ ClosedIsSettled

LEMMA SettledWrite ==
    ASSUME FreshInv, SettledInv, NEW w \in Workers, Write(w), Effect(w),
           NEW r \in Runs, r = worker[w].run
    PROVE  SettledInv'
<1>1. /\ r \in Runs /\ run[r] \in RunRow /\ graph' = graph
      /\ \A o \in Runs \ {r} : run'[o] = run[o] /\ steps'[o] = steps[o]
      /\ run \in [Runs -> RunRow]
  BY DEF Write, FreshInv, TypeInv, TypeOK
<1>2. ASSUME NEW o \in Runs \ {r}, run'[o].status \in {"absent", "writing", "queued"},
             NEW n \in Nodes
      PROVE  steps'[o][n].status = "absent"
  BY <1>1, <1>2 DEF SettledInv, NotStarted
<1>3. ASSUME NEW o \in Runs \ {r}, run'[o].status \in Closed
      PROVE  /\ \A n \in Nodes : steps'[o][n].status \in Terminal \cup {"absent"}
             /\ run'[o].status = "succeeded" => Unwired(steps[o])' = {}
  BY <1>1, <1>3 DEF SettledInv, ClosedIsSettled, Unwired
<1>4. CASE run' = run /\ (worker[w].phase = "loaded" => run[r].status = "running")
  <2>1. run[r].status \notin {"absent", "writing", "queued"} \cup Closed
    <3>1. CASE worker[w].phase = "loaded"
      BY <1>4, <3>1 DEF Closed
    <3>2. CASE worker[w].phase # "loaded"
      <4>1. /\ worker[w].node \in Nodes
            /\ steps[r][worker[w].node].status = "running"
        BY <3>2, HasRead DEF Write
      <4> QED BY <1>1, <4>1 DEF SettledInv, NotStarted, ClosedIsSettled, Terminal
    <3> QED BY <3>1, <3>2
  <2> QED BY <1>2, <1>3, <1>4, <2>1 DEF SettledInv, NotStarted, ClosedIsSettled
<1>5. CASE run' = [run EXCEPT ![r].status = "running"]
  <2>1. run'[r].status = "running"
    BY <1>1, <1>5 DEF RunRow
  <2> QED BY <1>2, <1>3, <2>1 DEF SettledInv, NotStarted, ClosedIsSettled, Closed
<1>6. ASSUME NEW status \in Closed, run' = [run EXCEPT ![r].status = status],
             \A n \in Nodes : \/ steps'[r][n].status \in Terminal \cup {"absent"}
                              \/ run[r].status = "queued" /\ steps'[r][n] = steps[r][n],
             status = "succeeded" =>
                 /\ Unwired(steps[r]) = {}
                 /\ \A n \in Nodes : \/ steps'[r][n] = steps[r][n]
                                     \/ steps'[r][n].status = "cancelled"
      PROVE  SettledInv'
  <2>1. run'[r].status = status
    BY <1>1, <1>6 DEF RunRow
  <2>2. \A n \in Nodes : steps'[r][n].status \in Terminal \cup {"absent"}
    BY <1>1, <1>6 DEF SettledInv, NotStarted
  <2>3. status = "succeeded" => Unwired(steps[r])' = {}
    BY <1>1, <1>6 DEF Unwired
  <2>4. NotStarted'
    <3>1. run'[r].status \notin {"absent", "writing", "queued"}
      BY <1>6, <2>1 DEF Closed
    <3>2. ASSUME NEW o \in Runs, run'[o].status \in {"absent", "writing", "queued"},
                 NEW n \in Nodes
          PROVE  steps'[o][n].status = "absent"
      <4>1. o # r
        BY <3>1, <3>2
      <4> QED BY <1>2, <3>2, <4>1
    <3> QED BY <3>2 DEF NotStarted
  <2>5. ClosedIsSettled'
    <3>1. ASSUME NEW o \in Runs, run'[o].status \in Closed
          PROVE  /\ \A n \in Nodes : steps'[o][n].status \in Terminal \cup {"absent"}
                 /\ run'[o].status = "succeeded" => Unwired(steps[o])' = {}
      <4>1. CASE o = r
        BY <2>1, <2>2, <2>3, <4>1
      <4>2. CASE o # r
        BY <1>3, <3>1, <4>2
      <4> QED BY <4>1, <4>2
    <3> QED BY <3>1 DEF ClosedIsSettled
  <2> QED BY <2>4, <2>5 DEF SettledInv
<1> QED BY <1>4, <1>5, <1>6 DEF Effect, RunMoved

LEMMA SettledStep ==
    ASSUME FreshInv, SettledInv, [Next]_vars
    PROVE  SettledInv'
<1>1. CASE \E w \in Workers : Write(w) /\ Effect(w)
  BY <1>1, SettledWrite DEF Write
<1>2. CASE /\ steps' = steps /\ graph' = graph
           /\ \A r \in Runs : \/ run'[r].status = run[r].status
                              \/ run[r].status = "absent" /\ run'[r].status = "writing"
                              \/ run[r].status = "writing" /\ run'[r].status = "queued"
  <2>1. NotStarted'
    BY <1>2 DEF SettledInv, NotStarted
  <2>2. ASSUME NEW r \in Runs, run'[r].status \in Closed PROVE run'[r].status = run[r].status
    BY <1>2, <2>2 DEF Closed
  <2>3. \A r \in Runs : Unwired(steps[r])' = Unwired(steps[r])
    BY <1>2 DEF Unwired
  <2> QED BY <1>2, <2>1, <2>2, <2>3 DEF SettledInv, ClosedIsSettled
<1> QED BY <1>1, <1>2, RowsOrRest

LEMMA SettledInit == Init => SettledInv
<1> SUFFICES ASSUME Init PROVE SettledInv
  OBVIOUS
<1>1. \A r \in Runs : /\ run[r].status = "absent"
                      /\ \A n \in Nodes : steps[r][n].status = "absent"
  BY DEF Init, NoRow, NoSteps, NoStep
<1> QED BY <1>1 DEF SettledInv, NotStarted, ClosedIsSettled, Closed

(* A run that is closed has no open step, and one that succeeded no failure *)
(* that nothing handles (_close_in cancels what was read as open), for any  *)
(* graphs, runs and faults, if no process takes over a run from itself:     *)
(* what was read is then what there is, and no step is left open behind the *)
(* close.                                                                   *)
THEOREM ClosedRunsAreSettled ==
    Spec /\ []OwnRunsApart => []ClosedIsSettled
<1>1. OwnRunsApart /\ OwnRunsApart' /\ FreshInv /\ SettledInv /\ [Next]_vars =>
          FreshInv' /\ SettledInv'
  BY FreshStep, SettledStep
<1>2. SettledInv => ClosedIsSettled
  BY DEF SettledInv
<1> QED BY <1>1, <1>2, FreshInit, SettledInit, PTL DEF Spec

-----------------------------------------------------------------------------
(* Steps follow the edges: what an edge was when its step was decided, it   *)
(* stays, for its source is over.                                           *)
LEMMA EdgesStay ==
    ASSUME FreshInv, NEW r \in Runs, Stays(r), NEW n \in Nodes, NEW e \in Into(n)
    PROVE  /\ Active(e, steps[r]) => Active(e, steps'[r])
           /\ Dead(e, steps[r]) => Dead(e, steps'[r])
<1>1. e.source \in Nodes
  BY ConstantsAssumption DEF Into, FreshInv, TypeInv, TypeOK
<1> QED BY <1>1 DEF Stays, Active, Dead

(* What StepsFollowEdges says of one step.                                  *)
Followed(n, s) ==
    /\ s[n].status \in {"running", "succeeded", "failed"} =>
           /\ \E e \in Into(n) : Active(e, s)
           /\ n \in graph.all => \A e \in Into(n) : Active(e, s) \/ Dead(e, s)
    /\ s[n].status = "skipped" => \A e \in Into(n) : Dead(e, s)

LEMMA FollowedWrite ==
    ASSUME FreshInv, NEW w \in Workers, Write(w), Effect(w), Stays(worker[w].run),
           NEW n \in Nodes \ {Trigger}, Followed(n, steps[worker[w].run])
    PROVE  Followed(n, steps'[worker[w].run])
<1> DEFINE s == steps[worker[w].run]
           t == steps'[worker[w].run]
<1>1. \A e \in Into(n) : /\ Active(e, s) => Active(e, t)
                         /\ Dead(e, s) => Dead(e, t)
  BY EdgesStay DEF Write
<1>2. Moved(w, n)
  BY DEF Effect
<1> HIDE DEF s, t
<1>3. CASE \/ t[n] = s[n]
           \/ /\ s[n].status = "running" /\ t[n].status \in {"running", "succeeded", "failed"}
  <2>1. \/ t[n].status = s[n].status
        \/ s[n].status = "running" /\ t[n].status \in {"running", "succeeded", "failed"}
    BY <1>3
  <2> QED BY <1>1, <2>1 DEF Followed, s, t
<1>4. CASE n \in Ready(s) /\ Skipped(s) = {} /\ t[n].status \in {"running", "failed"}
  <2>1. /\ \E e \in Into(n) : Active(e, s)
        /\ n \in graph.all => \A e \in Into(n) : Active(e, s) \/ Dead(e, s)
    BY <1>4 DEF Ready
  <2> QED BY <1>1, <1>4, <2>1 DEF Followed, t
<1>5. CASE t[n].status = "skipped" /\ \A e \in Into(n) : Dead(e, t)
  BY <1>5 DEF Followed, t
<1>6. CASE t[n].status \in {"cancelled", "pending"}
  BY <1>6 DEF Followed, t
<1> QED BY <1>2, <1>3, <1>4, <1>5, <1>6 DEF Moved, s, t

LEMMA FollowStep ==
    ASSUME FreshInv, StepsFollowEdges, [Next]_vars
    PROVE  StepsFollowEdges'
<1>1. \A r \in Runs : \A n \in Nodes \ {Trigger} : Followed(n, steps[r])
  BY DEF StepsFollowEdges, Followed
<1>2. graph' = graph /\ \A r \in Runs : \A n \in Nodes \ {Trigger} : Followed(n, steps'[r])
  <2>1. CASE steps' = steps /\ graph' = graph
    BY <1>1, <2>1
  <2>2. CASE \E w \in Workers : Write(w) /\ Effect(w)
    <3>1. PICK w \in Workers : Write(w) /\ Effect(w)
      BY <2>2
    <3>2. /\ graph' = graph /\ worker[w].run \in Runs
          /\ \A o \in Runs \ {worker[w].run} : steps'[o] = steps[o]
      BY <3>1 DEF Write
    <3>3. \A n \in Nodes \ {Trigger} : Followed(n, steps'[worker[w].run])
      BY <1>1, <3>1, <3>2, FollowedWrite, FreshStays
    <3> QED BY <1>1, <3>2, <3>3
  <2> QED BY <2>1, <2>2, RowsOrRest
<1>3. \A n \in Nodes : Into(n)' = Into(n)
  BY <1>2 DEF Into
<1> QED BY <1>2, <1>3 DEF StepsFollowEdges, Followed

(* A step ran because an edge led to it, an "all" join when every edge into *)
(* it was decided, and what was skipped could not be reached (the Walk of   *)
(* walk.py), for any graphs, runs and faults, if no process takes over a    *)
(* run from itself.                                                         *)
THEOREM StepsAlwaysFollowEdges ==
    Spec /\ []OwnRunsApart => []StepsFollowEdges
<1>1. OwnRunsApart /\ OwnRunsApart' /\ FreshInv /\ StepsFollowEdges /\ [Next]_vars =>
          FreshInv' /\ StepsFollowEdges'
  BY FreshStep, FollowStep
<1>2. Init => StepsFollowEdges
  <2>1. Init => \A r \in Runs : \A n \in Nodes : steps[r][n].status = "absent"
    BY DEF Init, NoSteps, NoStep
  <2> QED BY <2>1 DEF StepsFollowEdges
<1> QED BY <1>1, <1>2, FreshInit, PTL DEF Spec

-----------------------------------------------------------------------------
(* A cancel stops the steps that had not started: a worker that has not     *)
(* read it holds the lease, so that none of them starts behind its back,    *)
(* and it can start one itself but not call it in the same pass.            *)
AskedInv ==
    /\ \A r \in Runs : \A n \in Nodes : steps[r][n].called => steps[r][n].status = "running"
    /\ \A r \in Runs : asked[r] # {} => run[r].cancel
    /\ \A r \in Runs : \A n \in asked[r] : ~steps[r][n].called
    /\ \A w \in Workers :
           worker[w].phase \in {"claimed", "loaded"} /\ Holds(w) /\ ~worker[w].row.cancel =>
               \A n \in asked[worker[w].run] : steps[worker[w].run][n].status \in Waiting

(* The steps that a cancel leaves untouched.                                *)
LEMMA AskedSteps ==
    ASSUME FreshInv, [Next]_vars, NEW r \in Runs
    PROVE  \/ asked'[r] = asked[r]
           \/ /\ ~run[r].cancel /\ run'[r].cancel
              /\ steps' = steps /\ worker' = worker /\ lease' = lease
              /\ asked'[r] = {n \in Nodes : steps[r][n].status \in Waiting}
<1>1. asked \in [Runs -> SUBSET Nodes] /\ run \in [Runs -> RunRow]
  BY DEF FreshInv, TypeInv, TypeOK
<1>2. CASE \E o \in Runs : Cancel(o)
  BY <1>1, <1>2 DEF Cancel, RunRow
<1>3. CASE \E w \in Workers : Decide(w) \/ Answer(w)
  BY <1>3, WriteEffect DEF Write
<1>4. asked' = asked \/ (\E o \in Runs : Cancel(o)) \/ (\E w \in Workers : Decide(w) \/ Answer(w))
  BY DEF vars, Next, BeginCreate, CommitCreate, Lapse, ComeDue, PassDeadline, Look,
         TakeNothing, Load, LeaseLost, Take, Release, Raise, Crash
<1> QED BY <1>2, <1>3, <1>4

LEMMA CancelKept ==
    ASSUME FreshInv, [Next]_vars, NEW r \in Runs, run[r].cancel
    PROVE  run'[r].cancel
<1>1. CASE \E w \in Workers : Write(w) /\ Effect(w)
  <2>1. PICK w \in Workers : Write(w) /\ Effect(w)
    BY <1>1
  <2>2. run \in [Runs -> RunRow]
    BY DEF FreshInv, TypeInv, TypeOK
  <2>3. CASE run' = run
    BY <2>3
  <2>4. ASSUME NEW status, run' = [run EXCEPT ![worker[w].run].status = status]
        PROVE  run'[r].cancel
    BY <2>2, <2>4 DEF RunRow
  <2> QED BY <2>1, <2>3, <2>4 DEF Effect, RunMoved
<1> QED BY <1>1, RowsOrRest

(* What is called after a write was called before, or is the step that a    *)
(* worker in a pass found running.                                          *)
LEMMA CalledWrite ==
    ASSUME FreshInv, NEW w \in Workers, Write(w), Effect(w), AskedInv,
           NEW n \in Nodes, steps'[worker[w].run][n].called
    PROVE  /\ steps'[worker[w].run][n].status = "running"
           /\ n \notin asked[worker[w].run]
<1> DEFINE r == worker[w].run
<1>1. r \in Runs /\ Moved(w, n) /\ Holds(w)
  BY DEF Effect, Write
<1>2. /\ steps[r][n].called => steps[r][n].status = "running"
      /\ n \in asked[r] => ~steps[r][n].called
      /\ worker[w].phase = "loaded" /\ ~worker[w].row.cancel /\ n \in asked[r]
             => steps[r][n].status \in Waiting
  BY <1>1 DEF AskedInv
<1>3. CASE steps'[r][n] = steps[r][n]
  BY <1>2, <1>3
<1>4. CASE n \in Ready(steps[r]) /\ steps'[r][n].called = steps[r][n].called
  BY <1>2, <1>4 DEF Ready
<1>5. CASE /\ steps[r][n].status = "running" /\ steps'[r][n].status = "running"
           /\ worker[w].phase = "loaded" /\ ~worker[w].row.cancel
  BY <1>2, <1>5 DEF Waiting
<1> QED BY <1>1, <1>3, <1>4, <1>5 DEF Moved

(* A worker that goes on with the claim it had still had its lease, and no  *)
(* other wrote to its run.                                                  *)
LEMMA HoldKept ==
    ASSUME OwnRunsApart, OwnRunsApart', FreshInv, [Next]_vars, NEW v \in Workers,
           worker[v].phase \notin {"idle", "found"}, worker'[v].run = worker[v].run,
           ~(Decide(v) \/ Answer(v)), ~\E r \in Runs : Take(v, r), Holds(v)'
    PROVE  Holds(v) /\ steps'[worker[v].run] = steps[worker[v].run]
<1> DEFINE r == worker[v].run
<1>1. r \in Runs /\ lease'[r].holder = Home[v]
      /\ lease \in [Runs -> [holder : Processes \cup {None}, expired : BOOLEAN]]
  BY DEF FreshInv, TypeInv, TypeOK, Holds
<1>2. Home[v] # None
  BY ConstantsAssumption, NoneAssumption
<1>3. CASE \E w \in Workers : Decide(w) \/ Answer(w)
  <2>1. PICK w \in Workers : w # v /\ Write(w)
    BY <1>3, WriteEffect
  <2>2. lease' = lease /\ Holds(v)
    BY <1>1, <2>1 DEF Write, Holds
  <2>3. w # v
    BY <2>1
  <2>4. r # worker[w].run
    BY <1>1, <2>1, <2>2, <2>3, NoneAssumption DEF Write, Holds, OwnRunsApart
  <2> QED BY <1>1, <2>1, <2>2, <2>4 DEF Write
<1>4. CASE \E w \in Workers, o \in Runs : Take(w, o)
  <2>1. PICK w \in Workers, o \in Runs : Take(w, o)
    BY <1>4
  <2>2. w # v /\ steps' = steps /\ worker'[w].run = o /\ o # None
    BY <2>1, ClaimRows, NoneAssumption DEF Take, FreshInv
  <2>3. r = o => Home[w] # Home[v]
    BY <2>2 DEF OwnRunsApart
  <2>4. r # o
    BY <1>1, <2>1, <2>3 DEF Take
  <2> QED BY <1>1, <2>1, <2>2, <2>4 DEF Take, Holds
<1>5. CASE \E w \in Workers : Release(w)
  BY <1>1, <1>2, <1>5 DEF Release, NoLease, Holds
<1>6. CASE \E o \in Runs : Lapse(o)
  BY <1>1, <1>6 DEF Lapse, Holds
<1>7. CASE lease' = lease /\ steps' = steps
  BY <1>1, <1>7 DEF Holds
<1>8. \/ lease' = lease /\ steps' = steps
      \/ \E w \in Workers : Decide(w) \/ Answer(w) \/ Release(w) \/ \E o \in Runs : Take(w, o)
      \/ \E o \in Runs : Lapse(o)
  BY DEF vars, Next, BeginCreate, CommitCreate, Cancel, ComeDue, PassDeadline, Look,
         TakeNothing, Load, LeaseLost, Raise, Crash
<1> QED BY <1>3, <1>4, <1>5, <1>6, <1>7, <1>8

LEMMA ClaimKept ==
    ASSUME OwnRunsApart, OwnRunsApart', FreshInv, [Next]_vars, NEW v \in Workers,
           worker[v].phase \in {"claimed", "loaded"},
           worker'[v].phase \in {"claimed", "loaded"}, worker'[v].run = worker[v].run,
           ~\E r \in Runs : Take(v, r), Holds(v)'
    PROVE  Holds(v) /\ steps'[worker[v].run] = steps[worker[v].run]
<1>1. ~(Decide(v) \/ Answer(v))
  BY WriteEffect DEF Write
<1> QED BY <1>1, HoldKept

LEMMA AskedStep ==
    ASSUME OwnRunsApart, OwnRunsApart', FreshInv, AskedInv, [Next]_vars
    PROVE  AskedInv'
<1>1. ASSUME NEW r \in Runs, NEW n \in Nodes, steps'[r][n].called
      PROVE  steps'[r][n].status = "running" /\ n \notin asked[r]
  <2>1. CASE steps' = steps
    BY <1>1, <2>1 DEF AskedInv
  <2>2. CASE \E w \in Workers : Write(w) /\ Effect(w)
    <3>1. PICK w \in Workers : Write(w) /\ Effect(w)
      BY <2>2
    <3>2. CASE r = worker[w].run
      BY <1>1, <3>1, <3>2, CalledWrite
    <3>3. CASE r # worker[w].run
      <4>1. steps'[r] = steps[r]
        BY <3>1, <3>3 DEF Write
      <4> QED BY <1>1, <4>1 DEF AskedInv
    <3> QED BY <3>2, <3>3
  <2> QED BY <2>1, <2>2, RowsOrRest
<1>2. ASSUME NEW r \in Runs, asked'[r] # {} PROVE run'[r].cancel
  BY <1>2, AskedSteps, CancelKept DEF AskedInv
<1>3. ASSUME NEW r \in Runs, NEW n \in asked'[r] PROVE ~steps'[r][n].called
  <2>1. n \in Nodes
    BY TypeStep DEF FreshInv, TypeInv, TypeOK
  <2>2. CASE asked'[r] = asked[r]
    BY <1>1, <1>3, <2>1, <2>2
  <2>3. CASE steps' = steps /\ asked'[r] = {m \in Nodes : steps[r][m].status \in Waiting}
    BY <1>1, <1>3, <2>1, <2>3 DEF Waiting
  <2> QED BY <2>2, <2>3, AskedSteps
<1>4. ASSUME NEW w \in Workers, worker'[w].phase \in {"claimed", "loaded"}, Holds(w)',
             ~worker'[w].row.cancel, NEW n \in asked'[worker'[w].run]
      PROVE  steps'[worker'[w].run][n].status \in Waiting
  <2> DEFINE r == worker'[w].run
  <2>1. CASE \E o \in Runs : Take(w, o)
    <3>1. PICK o \in Runs : Take(w, o)
      BY <2>1
    <3>2. r = o /\ worker'[w].row = [status |-> run[o].status, cancel |-> run[o].cancel]
      BY <3>1, ClaimRows DEF FreshInv
    <3>3. ~run[o].cancel /\ asked' = asked
      BY <1>4, <3>1, <3>2 DEF Take
    <3> QED BY <1>4, <3>2, <3>3 DEF AskedInv
  <2>2. CASE (worker'[w] = worker[w] \/ Load(w)) /\ ~\E o \in Runs : Take(w, o)
    <3>1. /\ worker[w].phase \in {"claimed", "loaded"} /\ worker[w].run = r
          /\ ~worker[w].row.cancel
      BY <1>4, <2>2, ClaimRows DEF FreshInv
    <3>2. r \in Runs
      BY <3>1 DEF FreshInv, TypeInv
    <3>3. Holds(w) /\ steps'[r] = steps[r]
      BY <1>4, <2>2, <3>1, ClaimKept
    <3>4. CASE asked'[r] = asked[r]
      BY <1>4, <3>1, <3>3, <3>4 DEF AskedInv
    <3>5. CASE asked'[r] = {m \in Nodes : steps[r][m].status \in Waiting}
      BY <1>4, <3>3, <3>5
    <3> QED BY <3>2, <3>4, <3>5, AskedSteps
  <2>3. CASE Look(w)
    BY <1>4, <2>3, ClaimRows DEF FreshInv
  <2> QED BY <1>4, <2>1, <2>2, <2>3, WorkerSteps DEF FreshInv
<1> QED BY <1>1, <1>2, <1>3, <1>4 DEF AskedInv

LEMMA AskedInit == Init => AskedInv
<1> SUFFICES ASSUME Init PROVE AskedInv
  OBVIOUS
<1>1. \A r \in Runs : asked[r] = {} /\ \A n \in Nodes : steps[r][n].called = FALSE
  BY DEF Init, NoSteps, NoStep
<1>2. \A w \in Workers : worker[w].phase = "idle"
  BY DEF Init, Idle
<1> QED BY <1>1, <1>2 DEF AskedInv

(* No step is called that had not started when the cancel was accepted      *)
(* (_process looks at the request before anything else, and starts and      *)
(* calls a step in two passes), for any runs, graphs and faults, if no      *)
(* process takes over a run from itself.                                    *)
THEOREM CancelStopsTheNext ==
    Spec /\ []OwnRunsApart => CancelStopsNextStep
<1>1. OwnRunsApart /\ OwnRunsApart' /\ FreshInv /\ AskedInv /\ [Next]_vars =>
          FreshInv' /\ AskedInv'
  BY FreshStep, AskedStep
<1>2. OwnRunsApart /\ OwnRunsApart' /\ FreshInv /\ AskedInv /\ [Next]_vars =>
          [\A r \in Runs : \A n \in asked[r] : ~steps'[r][n].called]_vars
  <2> SUFFICES ASSUME OwnRunsApart, OwnRunsApart', FreshInv, AskedInv, [Next]_vars, NEW r \in Runs, NEW n \in asked[r]
               PROVE  ~steps'[r][n].called
    OBVIOUS
  <2>1. asked'[r] = asked[r]
    BY AskedSteps DEF AskedInv
  <2> QED BY <1>1, <2>1 DEF AskedInv
<1> QED BY <1>1, <1>2, FreshInit, AskedInit, PTL DEF Spec, CancelStopsNextStep

-----------------------------------------------------------------------------
(* The runs are walked as RunWalk says.                                     *)

(* A cancel that was read is there; and while its worker holds the lease, a *)
(* step that is called is marked so, and its attempt is the one that was    *)
(* read before the call.                                                    *)
ReadInv ==
    \A w \in Workers :
        LET r == worker[w].run
            n == worker[w].node
        IN  /\ worker[w].phase \in {"claimed", "loaded"} /\ worker[w].row.cancel
                   => run[r].cancel
            /\ worker[w].phase = "calling" /\ Holds(w) =>
                   /\ steps[r][n].called
                   /\ worker[w].steps[n].attempt = steps[r][n].attempt

(* A pass or an answer is the end of what the worker does, or goes out.     *)
LEMMA LeavesOrCalls ==
    ASSUME NEW w \in Workers, Decide(w) \/ Answer(w)
    PROVE  \/ \E n \in Nodes : Call(w, n)
           \/ \E due \in {"now", "later", "none"} : Leave(w, due)
<1>1. CASE CloseCancelled(w) \/ Refuse(w) \/ TimeOut(w) \/ Fail(w) \/ Succeed(w)
  BY <1>1 DEF CloseCancelled, Refuse, TimeOut, Fail, Succeed, Close
<1>2. CASE Start(w) \/ Skip(w)
  BY <1>2 DEF Start, Skip
<1>3. CASE \E n \in Nodes : \/ StartStep(w, n) \/ BadParams(w, n)
                            \/ OutcomeUnknown(w, n) \/ StepTimeOut(w, n)
  BY <1>3 DEF StartStep, BadParams, OutcomeUnknown, StepTimeOut, Error, FailStep
<1>4. CASE Answer(w)
  BY <1>4 DEF Answer, CallFails, CallAgain, CallEnds, Error, FailStep
<1> QED BY <1>1, <1>2, <1>3, <1>4 DEF Decide

(* Who has a call out had it before, or makes it.                           *)
LEMMA CallSteps ==
    ASSUME TypeInv, [Next]_vars, NEW w \in Workers, worker'[w].phase = "calling"
    PROVE  \/ worker'[w] = worker[w] /\ ~(Decide(w) \/ Answer(w))
           \/ \E n \in Nodes : Call(w, n)
<1>1. worker \in [Workers -> WorkerRow]
  BY DEF TypeInv, TypeOK, WorkerRow
<1>2. CASE Decide(w) \/ Answer(w)
  <2>1. ASSUME NEW due \in {"now", "later", "none"}, Leave(w, due) PROVE FALSE
    BY <1>2, <2>1, DecideWrites, AnswerWrites, LeaveTyped DEF Write
  <2> QED BY <1>2, <2>1, LeavesOrCalls
<1>3. ASSUME NEW v \in Workers, v # w, Decide(v) \/ Answer(v) PROVE worker'[w] = worker[w]
  BY <1>3, DecideWrites, AnswerWrites DEF Write
<1>4. ASSUME NEW v \in Workers, TakeNothing(v) \/ LeaseLost(v) \/ Release(v)
      PROVE  worker'[w] = worker[w]
  BY <1>1, <1>4 DEF TakeNothing, LeaseLost, Release, Idle
<1>5. ASSUME NEW v \in Workers, Raise(v) PROVE worker'[w] = worker[w]
  <2>1. CASE worker[v].phase \in {"claimed", "loaded", "calling"} /\ Leave(v, "later")
    BY <2>1, LeaveTyped
  <2>2. CASE worker' = [worker EXCEPT ![v] = Idle]
    BY <1>1, <2>2 DEF Idle
  <2> QED BY <1>5, <2>1, <2>2 DEF Raise
<1>6. ASSUME NEW p \in Processes, Crash(p) PROVE worker'[w] = worker[w]
  BY <1>6 DEF Crash, Idle
<1>7. ASSUME NEW v \in Workers, Look(v) \/ Load(v) \/ \E r \in Runs : Take(v, r)
      PROVE  worker'[w] = worker[w]
  <2>1. CASE v = w
    BY <1>7, <2>1, ClaimRows
  <2>2. CASE v # w
    BY <1>1, <1>7, <2>2 DEF Look, Load, Take
  <2> QED BY <2>1, <2>2
<1>8. ASSUME NEW r \in Runs, \/ BeginCreate(r) \/ CommitCreate(r) \/ Cancel(r)
                             \/ Lapse(r) \/ ComeDue(r) \/ PassDeadline(r)
      PROVE  worker'[w] = worker[w]
  BY <1>8 DEF BeginCreate, CommitCreate, Cancel, Lapse, ComeDue, PassDeadline
<1>9. UNCHANGED vars => worker'[w] = worker[w]
  BY DEF vars
<1> QED BY <1>2, <1>3, <1>4, <1>5, <1>6, <1>7, <1>8, <1>9 DEF Next

(* The row of the step of a call that goes out.                             *)
LEMMA CallRow ==
    ASSUME FreshInv, NEW w \in Workers, NEW n \in Nodes, Call(w, n)
    PROVE  /\ worker[w].run \in Runs /\ worker[w].phase = "loaded" /\ Holds(w)
           /\ steps[worker[w].run][n].status = "running"
           /\ DOMAIN [m \in {n} |-> [steps[worker[w].run][m] EXCEPT !.called = TRUE]] = {n}
           /\ Rows(w, [m \in {n} |-> [steps[worker[w].run][m] EXCEPT !.called = TRUE]])
           /\ steps'[worker[w].run][n] = [steps[worker[w].run][n] EXCEPT !.called = TRUE]
           /\ worker'[w].phase = "calling" /\ worker'[w].run = worker[w].run
           /\ worker'[w].node = n /\ worker'[w].steps[n] = steps[worker[w].run][n]
           /\ \A v \in Workers \ {w} : worker'[v] = worker[v]
<1> DEFINE r == worker[w].run
           new == [m \in {n} |-> [steps[r][m] EXCEPT !.called = TRUE]]
<1>1. /\ r \in Runs /\ worker[w].phase = "loaded" /\ Holds(w)
      /\ worker[w].steps = steps[r] /\ steps[r][n].status = "running"
      /\ Rows(w, new) /\ GoOut(w, n)
  BY HasRead DEF Call, Calls, OnTime, Going, Pass
<1>2. new \in [{n} -> StepRow] /\ new[n] = [steps[r][n] EXCEPT !.called = TRUE]
      /\ DOMAIN new = {n}
  <2>1. steps[r][n] \in StepRow
    BY <1>1 DEF FreshInv, TypeInv, TypeOK
  <2> QED BY <2>1 DEF StepRow
<1> HIDE DEF new
<1>3. steps'[r][n] = new[n]
  <2>1. TypeInv /\ r \in Runs /\ new \in [{n} -> StepRow] /\ Rows(w, new)
    BY <1>1, <1>2 DEF FreshInv
  <2> QED BY <2>1, OneRow
<1>4. /\ worker'[w].phase = "calling" /\ worker'[w].run = r
      /\ worker'[w].node = n /\ worker'[w].steps[n] = worker[w].steps[n]
      /\ \A v \in Workers \ {w} : worker'[v] = worker[v]
  BY <1>1, GoOutTyped DEF FreshInv
<1> QED BY <1>1, <1>2, <1>3, <1>4 DEF new

LEMMA ReadStep ==
    ASSUME OwnRunsApart, OwnRunsApart', FreshInv, ReadInv, [Next]_vars
    PROVE  ReadInv'
<1>1. ASSUME NEW w \in Workers, worker'[w].phase \in {"claimed", "loaded"},
             worker'[w].row.cancel
      PROVE  run'[worker'[w].run].cancel
  <2>1. CASE worker'[w] = worker[w] \/ Load(w)
    <3>1. /\ worker[w].phase \in {"claimed", "loaded"} /\ worker[w].row.cancel
          /\ worker'[w].run = worker[w].run /\ worker[w].run \in Runs
      BY <1>1, <2>1, ClaimRows DEF FreshInv, TypeInv
    <3>2. run[worker[w].run].cancel
      BY <3>1 DEF ReadInv
    <3> QED BY <3>1, <3>2, CancelKept
  <2>2. ASSUME NEW r \in Runs, Take(w, r) PROVE run'[worker'[w].run].cancel
    <3>1. /\ worker'[w].run = r
          /\ worker'[w].row = [status |-> run[r].status, cancel |-> run[r].cancel]
      BY <2>2, ClaimRows DEF FreshInv
    <3>2. worker'[w].row.cancel = run[r].cancel
      BY <3>1
    <3>3. run[r].cancel
      BY <1>1, <3>2
    <3> QED BY <3>1, <3>3, CancelKept
  <2>3. ~Look(w)
    BY <1>1, ClaimRows DEF FreshInv
  <2> QED BY <1>1, <2>1, <2>2, <2>3, WorkerSteps DEF FreshInv
<1>2. ASSUME NEW w \in Workers, worker'[w].phase = "calling", Holds(w)'
      PROVE  /\ steps'[worker'[w].run][worker'[w].node].called
             /\ worker'[w].steps[worker'[w].node].attempt =
                    steps'[worker'[w].run][worker'[w].node].attempt
  <2>1. ASSUME worker'[w] = worker[w], ~(Decide(w) \/ Answer(w))
        PROVE  /\ steps'[worker[w].run][worker[w].node].called
               /\ worker[w].steps[worker[w].node].attempt =
                      steps'[worker[w].run][worker[w].node].attempt
    <3>1. ~\E r \in Runs : Take(w, r)
      BY <1>2, <2>1 DEF Take
    <3>2. Holds(w) /\ steps'[worker[w].run] = steps[worker[w].run]
      BY <1>2, <2>1, <3>1, HoldKept
    <3> QED BY <1>2, <2>1, <3>2 DEF ReadInv
  <2>2. ASSUME NEW n \in Nodes, Call(w, n)
        PROVE  /\ steps'[worker'[w].run][n].called /\ worker'[w].node = n
               /\ worker'[w].steps[n].attempt = steps'[worker'[w].run][n].attempt
    <3>1. worker[w].run \in Runs /\ worker'[w].run = worker[w].run
          /\ worker'[w].node = n /\ worker'[w].steps[n] = steps[worker[w].run][n]
          /\ steps'[worker[w].run][n] = [steps[worker[w].run][n] EXCEPT !.called = TRUE]
      BY <2>2, CallRow
    <3>2. steps[worker[w].run][n] \in StepRow
      BY <3>1 DEF FreshInv, TypeInv, TypeOK
    <3>3. /\ steps'[worker[w].run][n].called
          /\ steps'[worker[w].run][n].attempt = steps[worker[w].run][n].attempt
      BY <3>1, <3>2 DEF StepRow
    <3> QED BY <3>1, <3>3
  <2> QED BY <1>2, <2>1, <2>2, CallSteps DEF FreshInv
<1> QED BY <1>1, <1>2 DEF ReadInv

LEMMA ReadInit == Init => ReadInv
<1> SUFFICES ASSUME Init PROVE ReadInv
  OBVIOUS
<1>1. \A w \in Workers : worker[w].phase = "idle"
  BY DEF Init, Idle
<1> QED BY <1>1 DEF ReadInv

(* The state of RunWalk that a state of the engine stands for.              *)
StatusOf == [r \in Runs |-> IF run[r].status = "writing" THEN "absent" ELSE run[r].status]
CancelOf == [r \in Runs |-> run[r].cancel]
CallsOf == [w \in Workers |-> IF worker[w].phase = "calling"
                              THEN {<<worker[w].run, worker[w].node>>} ELSE {}]

LEMMA StatusSet ==
    ASSUME TypeInv, NEW r \in Runs, NEW status \in {"queued", "running"} \cup Closed,
           run' = [run EXCEPT ![r].status = status]
    PROVE  StatusOf' = [StatusOf EXCEPT ![r] = status] /\ CancelOf' = CancelOf
<1>1. run \in [Runs -> RunRow]
  BY DEF TypeInv, TypeOK
<1>2. /\ run'[r].status = status
      /\ \A o \in Runs \ {r} : run'[o] = run[o]
      /\ \A o \in Runs : run'[o].cancel = run[o].cancel
  BY <1>1 DEF RunRow
<1>3. status # "writing"
  BY DEF Closed
<1>4. \A o \in Runs : StatusOf'[o] = IF o = r THEN status ELSE StatusOf[o]
  BY <1>2, <1>3 DEF StatusOf
<1>5. StatusOf = [o \in Runs |-> StatusOf[o]] /\ StatusOf' = [o \in Runs |-> StatusOf'[o]]
  BY DEF StatusOf
<1>6. StatusOf' = [StatusOf EXCEPT ![r] = status]
  BY <1>4, <1>5
<1>7. CancelOf' = CancelOf
  BY <1>2 DEF CancelOf
<1> QED BY <1>6, <1>7

LEMMA StatusKept ==
    ASSUME \A r \in Runs : run'[r].status = run[r].status /\ run'[r].cancel = run[r].cancel
    PROVE  StatusOf' = StatusOf /\ CancelOf' = CancelOf
BY DEF StatusOf, CancelOf

(* What w has out, and the others are as they were.                         *)
LEMMA CallsKept ==
    ASSUME NEW w \in Workers, \A v \in Workers \ {w} : worker'[v] = worker[v],
           worker[w].phase # "calling", worker'[w].phase # "calling"
    PROVE  CallsOf' = CallsOf
BY DEF CallsOf

LEMMA CallBack ==
    ASSUME NEW w \in Workers, \A v \in Workers \ {w} : worker'[v] = worker[v],
           worker[w].phase = "calling", worker'[w].phase # "calling"
    PROVE  /\ <<worker[w].run, worker[w].node>> \in CallsOf[w]
           /\ CallsOf' = [CallsOf EXCEPT ![w] = {}]
BY DEF CallsOf

LEMMA CallOut ==
    ASSUME NEW w \in Workers, \A v \in Workers \ {w} : worker'[v] = worker[v],
           worker[w].phase # "calling", worker'[w].phase = "calling"
    PROVE  /\ CallsOf[w] = {}
           /\ CallsOf' = [CallsOf EXCEPT ![w] = {<<worker'[w].run, worker'[w].node>>}]
BY DEF CallsOf

LEMMA CallsLost ==
    ASSUME \A w \in Workers : worker'[w] = worker[w] \/ worker'[w].phase # "calling",
           \A r \in Runs : run'[r].status = run[r].status /\ run'[r].cancel = run[r].cancel,
           UNCHANGED <<graph, steps, late, asked>>
    PROVE  Walk!Lose
<1> DEFINE C == {w \in Workers : worker'[w].phase # "calling"}
<1>1. CallsOf' = [w \in Workers |-> IF w \in C THEN {} ELSE CallsOf[w]]
  BY DEF CallsOf
<1>2. C \in SUBSET Workers
  OBVIOUS
<1>3. \E D \in SUBSET Workers : CallsOf' = [w \in Workers |-> IF w \in D THEN {} ELSE CallsOf[w]]
  BY <1>1, <1>2
<1> HIDE DEF C
<1>4. StatusOf' = StatusOf /\ CancelOf' = CancelOf
  BY StatusKept
<1> QED BY <1>3, <1>4 DEF Walk!Lose, StatusOf, CancelOf, CallsOf

(* The row of one step is written.                                          *)
LEMMA OneStep ==
    ASSUME TypeInv, NEW w \in Workers,
           NEW r \in Runs, r = worker[w].run, NEW n \in Nodes,
           NEW new, DOMAIN new = {n}, Rows(w, new),
           UNCHANGED <<graph, run, late, asked>>
    PROVE  Walk!Step(r, n, new[n])
<1>1. steps \in [Runs -> [Nodes -> StepRow]]
  BY DEF TypeInv, TypeOK
<1>2. steps[r] \in [Nodes -> StepRow]
  BY <1>1
<1>3. steps' = [steps EXCEPT ![r] = [m \in Nodes |-> IF m \in DOMAIN new THEN new[m]
                                                      ELSE steps[r][m]]]
  BY <1>1 DEF Rows
<1>4. [m \in Nodes |-> IF m \in DOMAIN new THEN new[m] ELSE steps[r][m]]
          = [steps[r] EXCEPT ![n] = new[n]]
  BY <1>2
<1>5. steps' = [steps EXCEPT ![r][n] = new[n]]
  BY <1>3, <1>4
<1>6. StatusOf' = StatusOf /\ CancelOf' = CancelOf
  BY StatusKept
<1> QED BY <1>5, <1>6 DEF Walk!Step, StatusOf, CancelOf

-----------------------------------------------------------------------------
(* What is known in a pass.                                                 *)
LEMMA PassReads ==
    ASSUME FreshInv, NEW w \in Workers, Pass(w)
    PROVE  /\ worker[w].run \in Runs /\ worker[w].phase = "loaded"
           /\ worker[w].steps = steps[worker[w].run]
           /\ worker[w].row.status = run[worker[w].run].status
           /\ run[worker[w].run].status \in Open
           /\ StatusOf[worker[w].run] = run[worker[w].run].status
<1>1. /\ worker[w].run \in Runs /\ worker[w].phase = "loaded"
      /\ worker[w].steps = steps[worker[w].run]
      /\ worker[w].row.status = run[worker[w].run].status
      /\ run[worker[w].run].status \in Open
  BY HasRead DEF Pass
<1> QED BY <1>1 DEF StatusOf, Open

LEMMA WalkUnhandled ==
    ASSUME NEW r \in Runs
    PROVE  Walk!Unhandled(r) = Unwired(steps[r])
BY DEF Walk!Unhandled, Walk!Taken, Walk!Decided, Walk!Over, Walk!Is, Unwired

LEMMA WalkGoing ==
    ASSUME FreshInv, NEW w \in Workers, NEW r \in Runs, r = worker[w].run, OnTime(w)
    PROVE  Walk!Going(r) /\ StatusOf[r] = "running"
<1>1. /\ r \in Runs /\ StatusOf[r] = "running"
      /\ r \notin late /\ Unwired(steps[r]) = {}
  BY PassReads DEF OnTime, Going
<1> QED BY <1>1, WalkUnhandled DEF Walk!Going, StatusOf

LEMMA WalkStill ==
    ASSUME FreshInv, NEW w \in Workers,
           NEW r \in Runs, r = worker[w].run, Between(w), Skipped(worker[w].steps) = {}
    PROVE  Walk!Still(r)
<1>1. r \in Runs /\ worker[w].steps = steps[r]
  BY PassReads DEF Between, OnTime, Going
<1>2. \A n \in Nodes : steps[r][n].status # "running"
  BY <1>1 DEF Between
<1>3. ASSUME NEW n \in Nodes, Walk!OutOfReach(r, n, {}) PROVE FALSE
  <2>1. n \notin Skipped(steps[r])
    BY <1>1
  <2>2. /\ steps[r][n].status = "pending" /\ Into(n) # {}
        /\ \A e \in Into(n) : Walk!Lost(e, r)
    BY <1>3 DEF Walk!OutOfReach, Walk!Is, Walk!Into, Into
  <2>3. ASSUME NEW e \in Into(n) PROVE Dead(e, steps[r])
    BY <2>2, <2>3 DEF Walk!Lost, Walk!Decided, Walk!Over, Dead, Terminal
  <2> QED BY <2>1, <2>2, <2>3, SkippedIs DEF FreshInv
<1> QED BY <1>2, <1>3 DEF Walk!Still, Walk!Is

LEMMA WalkReached ==
    ASSUME FreshInv, NEW w \in Workers,
           NEW r \in Runs, r = worker[w].run, NEW n \in Startable(w)
    PROVE  /\ n \in Nodes /\ Walk!Going(r) /\ Walk!Still(r)
           /\ Walk!Reached(r, n)
<1>1. /\ Between(w) /\ OnTime(w) /\ Skipped(worker[w].steps) = {}
      /\ n \in Ready(worker[w].steps) /\ worker[w].steps = steps[r]
  BY PassReads DEF Startable, Between, OnTime, Going
<1>2. /\ n \in Nodes /\ steps[r][n].status = "pending"
      /\ \E e \in Into(n) : Active(e, steps[r])
      /\ n \in graph.all => \A e \in Into(n) : Active(e, steps[r]) \/ Dead(e, steps[r])
  BY <1>1 DEF Ready
<1>3. Walk!Reached(r, n)
  BY <1>2 DEF Walk!Reached, Walk!Is, Walk!Into, Walk!Taken, Walk!Decided, Walk!Over,
              Into, Active, Dead, Terminal
<1> QED BY <1>1, <1>2, <1>3, WalkGoing, WalkStill

LEMMA WalkFinished ==
    ASSUME FreshInv, NEW w \in Workers,
           NEW r \in Runs, r = worker[w].run, Between(w), Skipped(worker[w].steps) = {},
           Ready(worker[w].steps) = {}
    PROVE  Walk!Succeeded(r)
<1>1. OnTime(w) /\ worker[w].steps = steps[r]
  BY PassReads DEF Between, OnTime, Going
<1>2. ASSUME NEW n \in Nodes, Walk!Reached(r, n) PROVE FALSE
  <2>1. /\ steps[r][n].status = "pending" /\ \E e \in Into(n) : Active(e, steps[r])
        /\ n \in graph.all => \A e \in Into(n) : Active(e, steps[r]) \/ Dead(e, steps[r])
    BY <1>2 DEF Walk!Reached, Walk!Is, Walk!Into, Walk!Taken, Walk!Decided, Walk!Over,
                Into, Active, Dead, Terminal
  <2> QED BY <1>1, <2>1 DEF Ready
<1> QED BY <1>1, <1>2, WalkGoing, WalkStill DEF Walk!Succeeded

(* Where a worker leaves its run it has no call out any more.               *)
LEMMA LeftCalls ==
    ASSUME TypeInv, NEW w \in Workers, worker[w].phase \notin {"idle", "found"},
           NEW due \in {"now", "later", "none"}, Leave(w, due)
    PROVE  /\ worker[w].phase # "calling" => CallsOf' = CallsOf
           /\ worker[w].phase = "calling" =>
                  /\ <<worker[w].run, worker[w].node>> \in CallsOf[w]
                  /\ CallsOf' = [CallsOf EXCEPT ![w] = {}]
<1>1. worker'[w].phase # "calling" /\ \A v \in Workers \ {w} : worker'[v] = worker[v]
  BY LeaveTyped
<1> QED BY <1>1, CallsKept, CallBack

(* A run is closed for its reason, and its open steps are cancelled.        *)
LEMMA WalkClose ==
    ASSUME FreshInv, NEW w \in Workers,
           NEW r \in Runs, r = worker[w].run, Pass(w), NEW read, NEW status \in Closed,
           Close(w, read, status), OpenSteps(read) = OpenSteps(steps[r]),
           \/ status = "cancelled" /\ Walk!Cancelled(r)
           \/ status = "timed_out" /\ Walk!TimedOut(r)
           \/ status = "failed" /\ Walk!Failed(r)
           \/ status = "succeeded" /\ Walk!Succeeded(r)
    PROVE  Walk!Close(r)
<1> DEFINE open == OpenSteps(steps[r])
           rows == [n \in Nodes |->
                        IF Walk!Is(r, n, "pending") \/ Walk!Is(r, n, "running")
                        THEN Walk!Ended(steps[r][n], "cancelled", Walk!NoPort) ELSE steps[r][n]]
<1>1. r \in Runs /\ worker[w].phase = "loaded"
  BY PassReads
<1>2. steps' = [steps EXCEPT ![r] = rows]
  <2>1. steps' = [steps EXCEPT ![r] =
                      [n \in Nodes |-> IF n \in open THEN EndedRow(w, n, "cancelled", NoPort)
                                                      ELSE steps[r][n]]]
    <3>1. steps \in [Runs -> [Nodes -> StepRow]]
      BY DEF FreshInv, TypeInv, TypeOK
    <3>2. EndSteps(w, open, "cancelled", NoPort) /\ open \subseteq Nodes
      BY DEF Close, OpenSteps
    <3> HIDE DEF open
    <3> QED BY <3>1, <3>2 DEF EndSteps, Rows
  <2>2. \A n \in Nodes : n \in open <=> Walk!Is(r, n, "pending") \/ Walk!Is(r, n, "running")
    BY DEF OpenSteps, Walk!Is
  <2>3. \A n \in Nodes : EndedRow(w, n, "cancelled", NoPort)
                            = Walk!Ended(steps[r][n], "cancelled", Walk!NoPort)
    BY DEF EndedRow, Walk!Ended, NoPort, Walk!NoPort
  <2> HIDE DEF open
  <2> QED BY <2>1, <2>2, <2>3
<1>3. StatusOf' = [StatusOf EXCEPT ![r] = status] /\ CancelOf' = CancelOf
  BY <1>1, StatusSet DEF Close, FreshInv
<1>4. CallsOf' = CallsOf
  BY <1>1, LeftCalls DEF Close, FreshInv
<1>5. UNCHANGED <<graph, late, asked>>
  BY DEF Close
<1>6. \E s \in {"cancelled", "timed_out", "failed", "succeeded"} :
          /\ \/ s = "cancelled" /\ Walk!Cancelled(r)
             \/ s = "timed_out" /\ Walk!TimedOut(r)
             \/ s = "failed" /\ Walk!Failed(r)
             \/ s = "succeeded" /\ Walk!Succeeded(r)
          /\ StatusOf' = [StatusOf EXCEPT ![r] = s]
  BY <1>3
<1> QED BY <1>2, <1>3, <1>4, <1>5, <1>6 DEF Walk!Close, StatusOf, CancelOf, CallsOf

LEMMA WalkCloses ==
    ASSUME FreshInv, SettledInv, ReadInv, NEW w \in Workers,
           NEW r \in Runs, r = worker[w].run,
           \/ CloseCancelled(w) \/ Refuse(w) \/ TimeOut(w) \/ Fail(w) \/ Succeed(w)
    PROVE  Walk!Close(r)
<1>1. Pass(w)
  BY DEF CloseCancelled, Refuse, Queued, TimeOut, Fail, Succeed, Between, OnTime, Going
<1>2. /\ r \in Runs /\ worker[w].phase = "loaded" /\ worker[w].steps = steps[r]
      /\ worker[w].row.status = run[r].status /\ StatusOf[r] = run[r].status
      /\ StatusOf[r] \in {"queued", "running"}
  BY <1>1, PassReads DEF Open
<1>3. {"cancelled", "timed_out", "failed", "succeeded"} \subseteq Closed
  BY DEF Closed
<1>4. CASE CloseCancelled(w)
  <2>1. run[r].cancel
    BY <1>2, <1>4 DEF CloseCancelled, ReadInv
  <2>2. Walk!Cancelled(r)
    BY <1>2, <2>1 DEF Walk!Cancelled, Walk!Open, StatusOf
  <2>3. Close(w, worker[w].steps, "cancelled")
    BY <1>4 DEF CloseCancelled
  <2> QED BY <1>1, <1>2, <1>3, <2>2, <2>3, WalkClose
<1>5. CASE TimeOut(w)
  <2>1. StatusOf[r] = "running" /\ r \in late
    BY <1>2, <1>5 DEF TimeOut, Going
  <2>2. Walk!TimedOut(r)
    BY <2>1 DEF Walk!TimedOut, StatusOf
  <2>3. Close(w, worker[w].steps, "timed_out")
    BY <1>5 DEF TimeOut
  <2> QED BY <1>1, <1>2, <1>3, <2>2, <2>3, WalkClose
<1>6. CASE Fail(w)
  <2>1. StatusOf[r] = "running" /\ r \notin late /\ Unwired(steps[r]) # {}
    BY <1>2, <1>6 DEF Fail, Going
  <2>2. Walk!Failed(r)
    BY <1>2, <2>1, WalkUnhandled DEF Walk!Failed, StatusOf
  <2>3. Close(w, worker[w].steps, "failed")
    BY <1>6 DEF Fail
  <2> QED BY <1>1, <1>2, <1>3, <2>2, <2>3, WalkClose
<1>7. CASE Succeed(w)
  <2>1. Walk!Succeeded(r)
    BY <1>7, WalkFinished DEF Succeed
  <2>2. Close(w, worker[w].steps, "succeeded")
    BY <1>7 DEF Succeed
  <2> QED BY <1>1, <1>2, <1>3, <2>1, <2>2, WalkClose
<1>8. CASE Refuse(w)
  <2>1. run[r].status = "queued"
    BY <1>2, <1>8 DEF Refuse, Queued
  <2>2. Walk!Failed(r)
    BY <1>2, <2>1 DEF Walk!Failed, StatusOf
  <2>3. Close(w, NoSteps, "failed")
    BY <1>8 DEF Refuse
  <2>4. OpenSteps(NoSteps) = {} /\ OpenSteps(steps[r]) = {}
    BY <1>2, <2>1 DEF OpenSteps, NoSteps, NoStep, SettledInv, NotStarted
  <2> QED BY <1>1, <1>3, <2>2, <2>3, <2>4, WalkClose
<1> QED BY <1>4, <1>5, <1>6, <1>7, <1>8

LEMMA WalkBegin ==
    ASSUME FreshInv, SettledInv, NEW w \in Workers,
           NEW r \in Runs, r = worker[w].run, Start(w)
    PROVE  Walk!Begin(r)
<1> DEFINE fresh == {m \in Nodes : steps[r][m].status = "absent"}
           First(n) == IF n = Trigger
                       THEN [NoStep EXCEPT !.status = "succeeded", !.port = Ok]
                       ELSE [NoStep EXCEPT !.status = IF Into(n) = {} THEN "skipped"
                                                                      ELSE "pending"]
           new == [n \in fresh |-> First(n)]
<1>1. /\ r \in Runs /\ run[r].status = "queued" /\ StatusOf[r] = "queued"
      /\ worker[w].phase = "loaded"
  BY PassReads DEF Start, Queued
<1>2. fresh = Nodes
  BY <1>1 DEF SettledInv, NotStarted
<1>3. \A n \in Nodes : First(n) = Walk!FirstRow(n)
  BY DEF Walk!FirstRow, Walk!NoStep, Walk!NoPort, Walk!Ok, Walk!Into, NoStep, NoPort, Ok, Into
<1>4. steps' = [steps EXCEPT ![r] = [n \in Nodes |-> Walk!FirstRow(n)]]
  <2>1. steps \in [Runs -> [Nodes -> StepRow]]
    BY DEF FreshInv, TypeInv, TypeOK
  <2>2. Rows(w, new)
    BY DEF Start
  <2>3. DOMAIN new = Nodes /\ \A n \in Nodes : new[n] = Walk!FirstRow(n)
    BY <1>2, <1>3
  <2> HIDE DEF new, fresh, First
  <2>4. steps' = [steps EXCEPT ![r] = [n \in Nodes |-> IF n \in DOMAIN new THEN new[n]
                                                        ELSE steps[r][n]]]
    BY <2>1, <2>2 DEF Rows
  <2>5. [n \in Nodes |-> IF n \in DOMAIN new THEN new[n] ELSE steps[r][n]]
            = [n \in Nodes |-> Walk!FirstRow(n)]
    BY <2>3
  <2> QED BY <2>4, <2>5
<1>5. StatusOf' = [StatusOf EXCEPT ![r] = "running"] /\ CancelOf' = CancelOf
  <2>1. run' = [run EXCEPT ![r].status = "running"]
    BY DEF Start
  <2> QED BY <1>1, <2>1, StatusSet DEF FreshInv
<1>6. CallsOf' = CallsOf /\ UNCHANGED <<graph, late, asked>>
  BY <1>1, LeftCalls DEF Start, FreshInv
<1> QED BY <1>1, <1>4, <1>5, <1>6 DEF Walk!Begin, StatusOf, CancelOf, CallsOf

LEMMA WalkSkip ==
    ASSUME FreshInv, NEW w \in Workers, NEW r \in Runs, r = worker[w].run, Skip(w)
    PROVE  Walk!Skip(r)
<1> DEFINE S == Skipped(steps[r])
           rows == [n \in Nodes |-> IF n \in S
                                    THEN Walk!Ended(steps[r][n], "skipped", Walk!NoPort)
                                    ELSE steps[r][n]]
<1>1. /\ Between(w) /\ OnTime(w) /\ r \in Runs /\ worker[w].phase = "loaded"
      /\ worker[w].steps = steps[r]
  BY PassReads DEF Skip, Between, OnTime, Going
<1>2. S \in SUBSET Nodes
  BY DEF Skipped
<1>3. ASSUME NEW n \in S PROVE Walk!OutOfReach(r, n, S)
  <2>1. n \in Nodes
    BY <1>2
  <2>2. /\ steps[r][n].status = "pending" /\ Into(n) # {}
        /\ \A e \in Into(n) : Dead(e, steps[r]) \/ e.source \in S
    <3>1. n \in Skipped(steps[r])
      OBVIOUS
    <3> QED BY <2>1, <3>1, SkippedIs DEF FreshInv
  <2> HIDE DEF S
  <2> QED BY <2>2 DEF Walk!OutOfReach, Walk!Is, Walk!Into, Walk!Lost, Walk!Decided, Walk!Over,
                      Into, Dead, Terminal
<1>4. steps' = [steps EXCEPT ![r] = rows]
  <2>1. steps \in [Runs -> [Nodes -> StepRow]] /\ EndSteps(w, S, "skipped", NoPort)
    BY <1>1 DEF FreshInv, TypeInv, TypeOK, Skip
  <2> HIDE DEF S
  <2>2. steps' = [steps EXCEPT ![r] =
                      [n \in Nodes |-> IF n \in S THEN EndedRow(w, n, "skipped", NoPort)
                                                   ELSE steps[r][n]]]
    BY <1>2, <2>1 DEF EndSteps, Rows
  <2>3. \A n \in Nodes : EndedRow(w, n, "skipped", NoPort)
                            = Walk!Ended(steps[r][n], "skipped", Walk!NoPort)
    BY DEF EndedRow, Walk!Ended, NoPort, Walk!NoPort
  <2> QED BY <2>2, <2>3
<1>5. \A n \in Nodes : ~Walk!Is(r, n, "running")
  BY <1>1 DEF Between, Walk!Is
<1>6. StatusOf' = StatusOf /\ CancelOf' = CancelOf
  BY StatusKept DEF Skip
<1>7. CallsOf' = CallsOf /\ UNCHANGED <<graph, late, asked>>
  BY <1>1, LeftCalls DEF Skip, FreshInv
<1>8. Walk!Going(r)
  BY <1>1, WalkGoing
<1> HIDE DEF S
<1> QED BY <1>2, <1>3, <1>4, <1>5, <1>6, <1>7, <1>8
        DEF Walk!Skip, StatusOf, CancelOf, CallsOf

LEMMA WalkStart ==
    ASSUME FreshInv, NEW w \in Workers,
           NEW r \in Runs, r = worker[w].run, NEW n \in Nodes, StartStep(w, n)
    PROVE  Walk!Start(r, n)
<1> DEFINE new == [m \in {n} |-> [steps[r][m] EXCEPT !.status = "running", !.attempt = 1]]
<1>1. /\ Walk!Going(r) /\ Walk!Still(r) /\ Walk!Reached(r, n)
      /\ r \in Runs /\ worker[w].phase = "loaded"
  BY WalkReached, PassReads DEF StartStep, Startable, Between, OnTime, Going
<1>2. DOMAIN new = {n} /\ Rows(w, new) /\ UNCHANGED <<graph, run, late, asked>>
  BY DEF StartStep
<1>3. new[n] = [steps[r][n] EXCEPT !.status = "running", !.attempt = 1]
  OBVIOUS
<1> HIDE DEF new
<1>4. Walk!Step(r, n, new[n])
  BY <1>1, <1>2, OneStep DEF FreshInv
<1>5. CallsOf' = CallsOf
  BY <1>1, LeftCalls DEF StartStep, FreshInv
<1> QED BY <1>1, <1>3, <1>4, <1>5 DEF Walk!Start, CallsOf

(* The row of a step that ends.                                             *)
LEMMA WalkEnded ==
    ASSUME FreshInv, NEW w \in Workers,
           NEW r \in Runs, r = worker[w].run, NEW n \in Nodes,
           NEW status, NEW port, EndSteps(w, {n}, status, port),
           UNCHANGED <<graph, run, late, asked>>
    PROVE  Walk!Step(r, n, Walk!Ended(steps[r][n], status, port))
<1> DEFINE new == [m \in {n} |-> EndedRow(w, m, status, port)]
<1>1. DOMAIN new = {n} /\ Rows(w, new)
  BY DEF EndSteps
<1>2. new[n] = Walk!Ended(steps[r][n], status, port)
  BY DEF EndedRow, Walk!Ended
<1> HIDE DEF new
<1>3. Walk!Step(r, n, new[n])
  BY <1>1, OneStep DEF FreshInv
<1> QED BY <1>2, <1>3

(* What On and Answer say, of the engine.                                   *)
LEMMA WalkOn ==
    ASSUME NEW r \in Runs, NEW n \in Nodes, StatusOf[r] = "running",
           steps[r][n].status = "running"
    PROVE  Walk!On(r, n)
BY DEF Walk!On, Walk!Is, StatusOf

LEMMA WalkAnswer ==
    ASSUME NEW w \in Workers, NEW r, NEW n, <<r, n>> \in CallsOf[w],
           CallsOf' = [CallsOf EXCEPT ![w] = {}]
    PROVE  Walk!Answer(r, n)
BY DEF Walk!Answer, CallsOf

(* A step fails, in a pass or by an answer.                                 *)
LEMMA WalkFail ==
    ASSUME FreshInv, NEW w \in Workers,
           NEW r \in Runs, r = worker[w].run, NEW n \in Nodes,
           EndSteps(w, {n}, "failed", IF n \in Failable THEN FailedPort ELSE NoPort),
           UNCHANGED <<graph, run, late, asked>>,
           \/ Walk!On(r, n) /\ (CallsOf' = CallsOf \/ Walk!Answer(r, n))
           \/ /\ Walk!Going(r) /\ Walk!Still(r)
              /\ Walk!Reached(r, n) /\ CallsOf' = CallsOf
    PROVE  Walk!Fail(r, n)
<1> DEFINE port == IF n \in Failable THEN FailedPort ELSE NoPort
<1>1. port = IF n \in Failable THEN Walk!FailedPort ELSE Walk!NoPort
  BY DEF FailedPort, Walk!FailedPort, NoPort, Walk!NoPort
<1>2. EndSteps(w, {n}, "failed", port)
  OBVIOUS
<1> HIDE DEF port
<1>3. Walk!Step(r, n, Walk!Ended(steps[r][n], "failed", port))
  BY <1>2, WalkEnded
<1> QED BY <1>1, <1>3 DEF Walk!Fail, CallsOf

(* An error is another attempt or a failure.                                *)
LEMMA WalkError ==
    ASSUME FreshInv, NEW w \in Workers,
           NEW r \in Runs, r = worker[w].run, NEW n \in Nodes,
           NEW retry \in BOOLEAN, Error(w, n, retry), Walk!On(r, n),
           worker[w].steps[n].attempt = steps[r][n].attempt,
           CallsOf' = CallsOf \/ Walk!Answer(r, n)
    PROVE  Walk!Retry(r, n) \/ Walk!Fail(r, n)
<1> DEFINE new == [m \in {n} |-> [steps[r][m] EXCEPT
                       !.attempt = worker[w].steps[n].attempt + 1, !.called = FALSE]]
<1>1. CASE retry /\ MayRetry(worker[w].steps[n])
  <2>1. DOMAIN new = {n} /\ Rows(w, new) /\ UNCHANGED <<graph, run, late, asked>>
    BY <1>1 DEF Error
  <2>2. new[n] = [steps[r][n] EXCEPT !.attempt = steps[r][n].attempt + 1, !.called = FALSE]
    OBVIOUS
  <2>3. steps[r][n].attempt <= Retries
    BY <1>1 DEF MayRetry
  <2> HIDE DEF new
  <2>4. Walk!Step(r, n, new[n])
    BY <2>1, OneStep DEF FreshInv
  <2>5. Walk!Retry(r, n)
    BY <2>2, <2>3, <2>4 DEF Walk!Retry, CallsOf
  <2> QED BY <2>5
<1>2. CASE ~(retry /\ MayRetry(worker[w].steps[n]))
  BY <1>2, WalkFail DEF Error, FailStep
<1> QED BY <1>1, <1>2

LEMMA WalkCall ==
    ASSUME FreshInv, AskedInv, NEW w \in Workers,
           NEW r \in Runs, r = worker[w].run, NEW n \in Nodes, Call(w, n)
    PROVE  Walk!Call(r, n, w)
<1> DEFINE new == [m \in {n} |-> [steps[r][m] EXCEPT !.called = TRUE]]
<1>1. /\ OnTime(w) /\ r \in Runs /\ worker[w].phase = "loaded" /\ worker[w].steps = steps[r]
      /\ Walk!Going(r)
  BY PassReads, WalkGoing DEF Call, Calls, OnTime, Going
<1>2. Walk!Is(r, n, "running") /\ (n \in Unrepeatable => ~steps[r][n].called)
  BY <1>1 DEF Call, Calls, CutShort, Walk!Is
<1>3. DOMAIN new = {n} /\ Rows(w, new) /\ UNCHANGED <<graph, run, late, asked>>
  BY DEF Call
<1>4. new[n] = [steps[r][n] EXCEPT !.called = TRUE]
  OBVIOUS
<1>5. n \notin asked[r]
  <2>1. steps[r][n] \in StepRow
    BY <1>1 DEF FreshInv, TypeInv, TypeOK
  <2>2. steps'[r][n] = [steps[r][n] EXCEPT !.called = TRUE]
    BY CallRow
  <2>3. steps'[r][n].called
    BY <2>1, <2>2 DEF StepRow
  <2>4. Write(w) /\ Effect(w)
    BY WriteEffect DEF Decide
  <2> QED BY <2>3, <2>4, CalledWrite
<1> HIDE DEF new
<1>6. Walk!Step(r, n, new[n])
  BY <1>1, <1>3, OneStep DEF FreshInv
<1>7. CallsOf[w] = {} /\ CallsOf' = [CallsOf EXCEPT ![w] = {<<r, n>>}]
  <2>1. /\ worker'[w].phase = "calling" /\ worker'[w].run = r /\ worker'[w].node = n
        /\ \A v \in Workers \ {w} : worker'[v] = worker[v]
    BY CallRow
  <2> QED BY <1>1, <2>1, CallOut
<1> QED BY <1>1, <1>2, <1>4, <1>5, <1>6, <1>7 DEF Walk!Call, CallsOf

(* A pass is a step of the walk.                                            *)
LEMMA WalkDecide ==
    ASSUME FreshInv, SettledInv, AskedInv, ReadInv, NEW w \in Workers,
           NEW r \in Runs, r = worker[w].run, Decide(w)
    PROVE  Walk!Next
<1>1. Pass(w)
  BY DEF Decide, CloseCancelled, Refuse, Start, Queued, TimeOut, Fail, Skip, Succeed,
         StartStep, BadParams, Startable, OutcomeUnknown, StepTimeOut, Call, Calls,
         Between, OnTime, Going
<1>2. r \in Runs /\ worker[w].phase = "loaded" /\ worker[w].steps = steps[r]
  BY <1>1, PassReads
<1>3. CASE \/ CloseCancelled(w) \/ Refuse(w) \/ TimeOut(w) \/ Fail(w) \/ Succeed(w)
           \/ Start(w) \/ Skip(w)
  BY <1>2, <1>3, WalkCloses, WalkBegin, WalkSkip DEF Walk!Next
<1>4. ASSUME NEW n \in Nodes, StartStep(w, n) \/ Call(w, n) PROVE Walk!Next
  BY <1>2, <1>4, WalkStart, WalkCall DEF Walk!Next
<1>5. ASSUME NEW n \in Nodes, BadParams(w, n) PROVE Walk!Next
  <2>1. FailStep(w, n) /\ n \in Startable(w)
    BY <1>5 DEF BadParams
  <2>2. /\ Walk!Going(r) /\ Walk!Still(r) /\ Walk!Reached(r, n) /\ CallsOf' = CallsOf
    BY <1>2, <2>1, WalkReached, LeftCalls DEF FailStep, FreshInv
  <2>3. Walk!Fail(r, n)
    BY <1>2, <2>1, <2>2, WalkFail DEF FailStep
  <2> QED BY <1>2, <2>3 DEF Walk!Next
<1>6. ASSUME NEW n \in Nodes, Calls(w, n) PROVE Walk!On(r, n)
  BY <1>2, <1>6, WalkGoing, WalkOn DEF Calls
<1>7. ASSUME NEW n \in Nodes, OutcomeUnknown(w, n) PROVE Walk!Next
  <2>1. FailStep(w, n) /\ Walk!On(r, n)
    BY <1>6, <1>7 DEF OutcomeUnknown
  <2>2. CallsOf' = CallsOf
    BY <1>2, <2>1, LeftCalls DEF FailStep, FreshInv
  <2>3. Walk!Fail(r, n)
    BY <1>2, <2>1, <2>2, WalkFail DEF FailStep
  <2> QED BY <1>2, <2>3 DEF Walk!Next
<1>8. ASSUME NEW n \in Nodes, StepTimeOut(w, n) PROVE Walk!Next
  <2>1. Error(w, n, TRUE) /\ Walk!On(r, n)
    BY <1>6, <1>8 DEF StepTimeOut
  <2>2. \E due \in {"now", "later", "none"} : Leave(w, due)
    BY <2>1 DEF Error, FailStep
  <2>3. CallsOf' = CallsOf
    BY <1>2, <2>2, LeftCalls DEF FreshInv
  <2>4. Walk!Retry(r, n) \/ Walk!Fail(r, n)
    BY <1>2, <2>1, <2>3, WalkError
  <2> QED BY <1>2, <2>4 DEF Walk!Next
<1> QED BY <1>3, <1>4, <1>5, <1>7, <1>8 DEF Decide

(* An answer is a step of the walk.                                         *)
LEMMA WalkAnswers ==
    ASSUME FreshInv, SettledInv, ReadInv, NEW w \in Workers,
           NEW r \in Runs, r = worker[w].run, NEW n \in Nodes, n = worker[w].node, Answer(w)
    PROVE  Walk!Next
<1>1. /\ Called(w) /\ Holds(w) /\ worker[w].phase = "calling" /\ r \in Runs /\ n \in Nodes
      /\ steps[r][n].status = "running"
  BY HasRead DEF Answer, CallFails, CallAgain, CallEnds, Called
<1>2. steps[r][n].called /\ worker[w].steps[n].attempt = steps[r][n].attempt
  BY <1>1 DEF ReadInv
<1>3. StatusOf[r] = "running"
  <2>1. run[r].status \in {"absent", "writing"} \cup Open \cup Closed
    BY <1>1 DEF FreshInv, TypeInv, TypeOK, RunRow
  <2>2. run[r].status = "running"
    BY <1>1, <2>1 DEF SettledInv, NotStarted, ClosedIsSettled, Terminal, Open
  <2> QED BY <1>1, <2>2 DEF StatusOf
<1>4. Walk!On(r, n)
  BY <1>1, <1>3, WalkOn
<1>5. Walk!Answer(r, n)
  <2>1. PICK due \in {"now", "later", "none"} : Leave(w, due)
    BY DEF Answer, CallFails, CallAgain, CallEnds, Error, FailStep
  <2>2. <<r, n>> \in CallsOf[w] /\ CallsOf' = [CallsOf EXCEPT ![w] = {}]
    BY <1>1, <2>1, LeftCalls DEF FreshInv
  <2> QED BY <2>2, WalkAnswer
<1>6. CASE CallFails(w)
  <2>1. PICK retry \in BOOLEAN : Error(w, n, retry)
    BY <1>6 DEF CallFails
  <2>2. Walk!Retry(r, n) \/ Walk!Fail(r, n)
    BY <1>1, <1>2, <1>4, <1>5, <2>1, WalkError
  <2> QED BY <1>1, <2>2 DEF Walk!Next
<1>7. CASE CallAgain(w)
  <2> DEFINE new == [m \in {n} |-> [steps[r][m] EXCEPT !.called = FALSE]]
  <2>1. DOMAIN new = {n} /\ Rows(w, new) /\ UNCHANGED <<graph, run, late, asked>>
    BY <1>7 DEF CallAgain
  <2>2. new[n] = [steps[r][n] EXCEPT !.called = FALSE]
    OBVIOUS
  <2> HIDE DEF new
  <2>3. Walk!Step(r, n, new[n])
    BY <1>1, <2>1, OneStep DEF FreshInv
  <2>4. Walk!GoOn(r, n)
    BY <1>2, <1>4, <1>5, <2>2, <2>3 DEF Walk!GoOn
  <2> QED BY <1>1, <2>4 DEF Walk!Next
<1>8. CASE CallEnds(w)
  <2>1. UNCHANGED <<graph, run, late, asked>>
    BY <1>8 DEF CallEnds
  <2>2. CASE \E port \in IF n \in Deciding THEN Ports ELSE {Ok} :
                 EndSteps(w, {n}, "succeeded", port)
    <3>1. PICK port \in IF n \in Deciding THEN Ports ELSE {Ok} :
                   EndSteps(w, {n}, "succeeded", port)
      BY <2>2
    <3>2. Walk!Step(r, n, Walk!Ended(steps[r][n], "succeeded", port))
      BY <1>1, <2>1, <3>1, WalkEnded
    <3>3. port \in IF n \in Deciding THEN {Walk!Ok, Walk!FailedPort} ELSE {Walk!Ok}
      BY DEF Ports, Ok, FailedPort, Walk!Ok, Walk!FailedPort
    <3>4. Walk!Succeed(r, n)
      BY <1>2, <1>4, <1>5, <3>2, <3>3 DEF Walk!Succeed
    <3> QED BY <1>1, <3>4 DEF Walk!Next
  <2>3. CASE n \in Failable /\ EndSteps(w, {n}, "failed", FailedPort)
    <3>1. EndSteps(w, {n}, "failed", IF n \in Failable THEN FailedPort ELSE NoPort)
      BY <2>3
    <3>2. Walk!Fail(r, n)
      BY <1>1, <1>4, <1>5, <2>1, <3>1, WalkFail
    <3> QED BY <1>1, <3>2 DEF Walk!Next
  <2> QED BY <1>8, <2>2, <2>3 DEF CallEnds
<1> QED BY <1>6, <1>7, <1>8 DEF Answer

(* What no row of a run, no step and no call is touched by, the walk does   *)
(* not see.                                                                 *)
LEMMA WalkUnseen ==
    ASSUME \A r \in Runs : run'[r].status = run[r].status /\ run'[r].cancel = run[r].cancel,
           UNCHANGED <<graph, steps, late, asked, worker>>
    PROVE  UNCHANGED Walk!vars
<1>1. StatusOf' = StatusOf /\ CancelOf' = CancelOf
  BY StatusKept
<1>2. CallsOf' = CallsOf
  BY DEF CallsOf
<1> QED BY <1>1, <1>2 DEF Walk!vars, StatusOf, CancelOf, CallsOf

(* The requests, and the clock.                                             *)
LEMMA WalkRequests ==
    ASSUME TypeInv, NEW r \in Runs,
           \/ BeginCreate(r) \/ CommitCreate(r) \/ Cancel(r)
           \/ Lapse(r) \/ ComeDue(r) \/ PassDeadline(r)
    PROVE  [Walk!Next]_Walk!vars
<1>1. run \in [Runs -> RunRow]
  BY DEF TypeInv, TypeOK
<1>2. StatusOf = [o \in Runs |-> StatusOf[o]] /\ StatusOf' = [o \in Runs |-> StatusOf'[o]]
  BY DEF StatusOf
<1>3. CASE BeginCreate(r)
  <2>1. /\ run[r].status = "absent" /\ run' = [run EXCEPT ![r].status = "writing"]
        /\ UNCHANGED <<graph, steps, late, asked, worker>>
    BY <1>3 DEF BeginCreate
  <2>2. /\ run'[r].status = "writing"
        /\ \A o \in Runs \ {r} : run'[o] = run[o]
        /\ \A o \in Runs : run'[o].cancel = run[o].cancel
    BY <1>1, <2>1 DEF RunRow
  <2>3. StatusOf' = StatusOf /\ CancelOf' = CancelOf /\ CallsOf' = CallsOf
    BY <2>1, <2>2 DEF StatusOf, CancelOf, CallsOf
  <2> QED BY <2>1, <2>3 DEF Walk!vars, StatusOf, CancelOf, CallsOf
<1>4. CASE CommitCreate(r)
  <2>1. /\ run[r].status = "writing"
        /\ run' = [run EXCEPT ![r].status = "queued", ![r].due = TRUE]
        /\ UNCHANGED <<graph, steps, late, asked, worker>>
    BY <1>4 DEF CommitCreate
  <2>2. /\ run'[r].status = "queued"
        /\ \A o \in Runs \ {r} : run'[o] = run[o]
        /\ \A o \in Runs : run'[o].cancel = run[o].cancel
    BY <1>1, <2>1 DEF RunRow
  <2>3. StatusOf[r] = "absent"
    BY <2>1 DEF StatusOf
  <2>4. \A o \in Runs : StatusOf'[o] = IF o = r THEN "queued" ELSE StatusOf[o]
    BY <2>2 DEF StatusOf
  <2>5. StatusOf' = [StatusOf EXCEPT ![r] = "queued"]
    BY <1>2, <2>4
  <2>6. CancelOf' = CancelOf /\ CallsOf' = CallsOf
    BY <2>1, <2>2 DEF CancelOf, CallsOf
  <2>7. Walk!Create(r)
    BY <2>1, <2>3, <2>5, <2>6 DEF Walk!Create, StatusOf, CancelOf, CallsOf
  <2> QED BY <2>7 DEF Walk!Next
<1>5. CASE Cancel(r)
  <2>1. /\ run[r].status \in Open /\ ~run[r].cancel
        /\ run' = [run EXCEPT ![r].cancel = TRUE, ![r].due = TRUE]
        /\ asked' = [asked EXCEPT ![r] = {n \in Nodes : steps[r][n].status \in Waiting}]
        /\ UNCHANGED <<graph, steps, late, worker>>
    BY <1>5 DEF Cancel
  <2>2. /\ run'[r].cancel = TRUE
        /\ \A o \in Runs \ {r} : run'[o] = run[o]
        /\ \A o \in Runs : run'[o].status = run[o].status
    BY <1>1, <2>1 DEF RunRow
  <2>3. StatusOf[r] \in {"queued", "running"}
    BY <2>1 DEF StatusOf, Open
  <2>4. StatusOf' = StatusOf /\ CallsOf' = CallsOf
    BY <2>1, <2>2 DEF StatusOf, CallsOf
  <2>5. \A o \in Runs : CancelOf'[o] = IF o = r THEN TRUE ELSE CancelOf[o]
    BY <2>2 DEF CancelOf
  <2>6. CancelOf = [o \in Runs |-> CancelOf[o]] /\ CancelOf' = [o \in Runs |-> CancelOf'[o]]
    BY DEF CancelOf
  <2>7. CancelOf' = [CancelOf EXCEPT ![r] = TRUE]
    BY <2>5, <2>6
  <2>8. ~CancelOf[r]
    BY <2>1 DEF CancelOf
  <2>9. asked' = [asked EXCEPT ![r] = {n \in Nodes : \/ Walk!Is(r, n, "absent")
                                                     \/ Walk!Is(r, n, "pending")}]
    BY <2>1 DEF Waiting, Walk!Is
  <2>10. Walk!Ask(r)
    BY <2>1, <2>3, <2>4, <2>7, <2>8, <2>9
       DEF Walk!Ask, Walk!Open, StatusOf, CancelOf, CallsOf
  <2> QED BY <2>10 DEF Walk!Next
<1>6. CASE Lapse(r) \/ ComeDue(r)
  <2>1. \A o \in Runs : run'[o].status = run[o].status /\ run'[o].cancel = run[o].cancel
    BY <1>1, <1>6 DEF Lapse, ComeDue, RunRow
  <2>2. UNCHANGED <<graph, steps, late, asked, worker>>
    BY <1>6 DEF Lapse, ComeDue
  <2> QED BY <2>1, <2>2, WalkUnseen
<1>7. CASE PassDeadline(r)
  <2>1. /\ run[r].status \in Open /\ r \notin late /\ late' = late \cup {r}
        /\ UNCHANGED <<graph, run, steps, worker, asked>>
    BY <1>7 DEF PassDeadline
  <2>2. StatusOf[r] \in {"queued", "running"}
    BY <2>1 DEF StatusOf, Open
  <2>3. StatusOf' = StatusOf /\ CancelOf' = CancelOf /\ CallsOf' = CallsOf
    BY <2>1 DEF StatusOf, CancelOf, CallsOf
  <2>4. Walk!PassDeadline(r)
    BY <2>1, <2>2, <2>3 DEF Walk!PassDeadline, Walk!Open, StatusOf, CancelOf, CallsOf
  <2> QED BY <2>4 DEF Walk!Next
<1> QED BY <1>3, <1>4, <1>5, <1>6, <1>7

(* A claim, a release and a crash lose no more than answers.                *)
LEMMA WalkLoses ==
    ASSUME FreshInv,
           \/ \E w \in Workers : \/ Look(w) \/ TakeNothing(w) \/ Load(w) \/ LeaseLost(w)
                                 \/ Release(w) \/ Raise(w) \/ \E r \in Runs : Take(w, r)
           \/ \E p \in Processes : Crash(p)
    PROVE  Walk!Lose
<1>1. run \in [Runs -> RunRow] /\ worker \in [Workers -> WorkerRow]
  BY DEF FreshInv, TypeInv, TypeOK, WorkerRow
<1>2. UNCHANGED <<graph, steps, late, asked>>
  BY DEF Look, TakeNothing, Load, LeaseLost, Release, Raise, Take, Crash
<1>3. \A r \in Runs : run'[r].status = run[r].status /\ run'[r].cancel = run[r].cancel
  <2>1. ASSUME NEW w \in Workers, Release(w)
        PROVE  \A r \in Runs : run'[r].status = run[r].status /\ run'[r].cancel = run[r].cancel
    BY <1>1, <2>1 DEF Release, RunRow
  <2> QED BY <2>1 DEF Look, TakeNothing, Load, LeaseLost, Raise, Take, Crash
<1>4. ASSUME NEW w \in Workers PROVE worker'[w] = worker[w] \/ worker'[w].phase # "calling"
  <2>1. ASSUME NEW v \in Workers, TakeNothing(v) \/ LeaseLost(v) \/ Release(v)
        PROVE  worker'[w] = worker[w] \/ worker'[w].phase # "calling"
    BY <1>1, <2>1 DEF TakeNothing, LeaseLost, Release, Idle
  <2>2. ASSUME NEW v \in Workers, Raise(v)
        PROVE  worker'[w] = worker[w] \/ worker'[w].phase # "calling"
    <3>1. CASE worker[v].phase \in {"claimed", "loaded", "calling"} /\ Leave(v, "later")
      BY <3>1, LeaveTyped DEF FreshInv
    <3>2. CASE worker' = [worker EXCEPT ![v] = Idle]
      BY <1>1, <3>2 DEF Idle
    <3> QED BY <2>2, <3>1, <3>2 DEF Raise
  <2>3. ASSUME NEW v \in Workers, Look(v) \/ Load(v) \/ \E r \in Runs : Take(v, r)
        PROVE  worker'[w] = worker[w] \/ worker'[w].phase # "calling"
    <3>1. CASE v = w
      BY <2>3, <3>1, ClaimRows DEF FreshInv
    <3>2. CASE v # w
      BY <1>1, <2>3, <3>2 DEF Look, Load, Take
    <3> QED BY <3>1, <3>2
  <2>4. ASSUME NEW p \in Processes, Crash(p)
        PROVE  worker'[w] = worker[w] \/ worker'[w].phase # "calling"
    BY <2>4 DEF Crash, Idle
  <2> QED BY <2>1, <2>2, <2>3, <2>4
<1> QED BY <1>2, <1>3, <1>4, CallsLost

LEMMA WalkInit == Init => Walk!Init
<1> SUFFICES ASSUME Init PROVE Walk!Init
  OBVIOUS
<1>1. StatusOf = [r \in Runs |-> "absent"] /\ CancelOf = [r \in Runs |-> FALSE]
  BY DEF Init, NoRow, StatusOf, CancelOf
<1>2. CallsOf = [w \in Workers |-> {}]
  BY DEF Init, Idle, CallsOf
<1>3. steps = [r \in Runs |-> [n \in Nodes |-> Walk!NoStep]]
  BY DEF Init, NoSteps, NoStep, NoPort, Walk!NoStep, Walk!NoPort
<1> QED BY <1>1, <1>2, <1>3 DEF Init, Walk!Init, StatusOf, CancelOf, CallsOf

LEMMA WalkNext ==
    ASSUME FreshInv, SettledInv, AskedInv, ReadInv, [Next]_vars
    PROVE  [Walk!Next]_Walk!vars
<1>1. ASSUME NEW r \in Runs, \/ BeginCreate(r) \/ CommitCreate(r) \/ Cancel(r)
                             \/ Lapse(r) \/ ComeDue(r) \/ PassDeadline(r)
      PROVE  [Walk!Next]_Walk!vars
  BY <1>1, WalkRequests DEF FreshInv
<1>2. ASSUME NEW w \in Workers, Decide(w) PROVE Walk!Next
  <2>1. Pass(w)
    BY <1>2 DEF Decide, CloseCancelled, Refuse, Start, Queued, TimeOut, Fail, Skip, Succeed,
                StartStep, BadParams, Startable, OutcomeUnknown, StepTimeOut, Call, Calls,
                Between, OnTime, Going
  <2>2. PICK r \in Runs : r = worker[w].run
    BY <2>1, PassReads
  <2> QED BY <1>2, <2>2, WalkDecide
<1>3. ASSUME NEW w \in Workers, Answer(w) PROVE Walk!Next
  <2>1. worker[w].run \in Runs /\ worker[w].node \in Nodes
    BY <1>3, HasRead DEF Answer, CallFails, CallAgain, CallEnds, Called
  <2>2. PICK r \in Runs : r = worker[w].run
    BY <2>1
  <2>3. PICK n \in Nodes : n = worker[w].node
    BY <2>1
  <2> QED BY <1>3, <2>2, <2>3, WalkAnswers
<1>4. CASE \/ \E w \in Workers : \/ Look(w) \/ TakeNothing(w) \/ Load(w) \/ LeaseLost(w)
                                 \/ Release(w) \/ Raise(w) \/ \E r \in Runs : Take(w, r)
           \/ \E p \in Processes : Crash(p)
  BY <1>4, WalkLoses DEF Walk!Next
<1>5. CASE UNCHANGED vars
  <2>1. UNCHANGED <<graph, steps, late, asked, worker, run>>
    BY <1>5 DEF vars
  <2> QED BY <2>1, WalkUnseen
<1> QED BY <1>1, <1>2, <1>3, <1>4, <1>5 DEF Next

(* "Do one thing with the run": unless a process takes over a run from      *)
(* itself, the runs are walked as one interpreter would walk them alone, on *)
(* the rows as they are, whatever crashes, overruns its lease, raises or    *)
(* answers late. A step that must not act twice is not called again after a *)
(* call of which no end is on record, none is called that waited when its   *)
(* cancel came, and a run is closed for a reason it has.                    *)
THEOREM WalkedAsOneInterpreter ==
    Spec /\ []OwnRunsApart => WalkSpec
<1>1. /\ OwnRunsApart /\ OwnRunsApart' /\ FreshInv /\ SettledInv /\ AskedInv /\ ReadInv
      /\ [Next]_vars
      => FreshInv' /\ SettledInv' /\ AskedInv' /\ ReadInv'
  BY FreshStep, SettledStep, AskedStep, ReadStep
<1>2. FreshInv /\ SettledInv /\ AskedInv /\ ReadInv /\ [Next]_vars => [Walk!Next]_Walk!vars
  BY WalkNext
<1> QED
  BY <1>1, <1>2, WalkInit, FreshInit, SettledInit, AskedInit, ReadInit, PTL
  DEF Spec, WalkSpec, Walk!Spec
================================================================================
