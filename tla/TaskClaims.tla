------------------------------ MODULE TaskClaims ------------------------------
(***************************************************************************)
(* The task rows of the scheduler: how they are claimed when due, what the *)
(* outcome of a firing writes back, and what the task endpoints overwrite. *)
(* apps/scheduler/src/imbi/scheduler engine.py, store/tasks.py and         *)
(* endpoints/tasks.py.                                                     *)
(*                                                                         *)
(* The actors are the claimers (one per tick in progress, whichever        *)
(* replica it is on; ticks overlap on one replica too), the firings they   *)
(* made, and the editors (requests to the task endpoints). Every write to  *)
(* a row waits for the transaction that holds the row's lock; a plain      *)
(* SELECT does not.                                                        *)
(*                                                                         *)
(* Abstracted: the trigger, of which only "strictly after" is left; the    *)
(* lease and the call of a firing, which are modelled in RunLeases.        *)
(***************************************************************************)
EXTENDS Integers, Sequences, FiniteSets

CONSTANTS
    Tasks,        \* task ids
    Claimers,     \* ticks that may be in progress at the same time
    Editors,      \* requests that may be in progress at the same time
    Activities,   \* which of ActivityKinds go on beside the ticks
    Batch,        \* DEFAULT_CLAIM_LIMIT
    Grace,        \* execution.misfire_grace_time
    SkipLimit,    \* settings.consecutive_skips_limit
    MaxTime,      \* bound of the clock
    MaxFirings    \* bound of the number of firings of a task

(* "work": the firings go on after the claim. "crash": ticks and firings    *)
(* die, and statements fail. The others are the requests to the endpoints.  *)
ActivityKinds == {"work", "crash", "patch", "pause", "resume", "run"}

ASSUME ConstantsAssumption ==
    /\ MaxTime \in Nat /\ MaxFirings \in Nat
    /\ Batch \in Nat \ {0} /\ Grace \in Nat /\ SkipLimit \in Nat \ {0}
    /\ Activities \subseteq ActivityKinds

Nobody == "nobody"
ASSUME NobodyAssumption == Nobody \notin Claimers

(* Times, and the next_run_at of a task that is not due within the bound or *)
(* never again (NULL): for the claim query the two are the same.            *)
Times == 0 .. MaxTime
Never == MaxTime + 1

VARIABLES
    now,        \* the clock
    row,        \* the row of each task
    rowLock,    \* the claimer whose transaction holds it
    tick,       \* each claimer: its phase and the moment it claims for
    firings,    \* the firings of each task, in the order of the claims
    edit        \* each editor: what it has read and will write

vars == <<now, row, rowLock, tick, firings, edit>>

Row == [enabled : BOOLEAN, next : Times \cup {Never}, skips : Nat]
Phases == {"claimed", "working", "counting", "limiting", "done", "declined", "lost"}
Outcomes == {"none", "skipped", "other"}
OnDemand == -1
Firing == [due : Times \cup {Never, OnDemand}, moment : Times,
           skips : Nat, phase : Phases, outcome : Outcomes]

Idle == [op |-> "idle"]
Edit == {Idle}
        \cup [op : {"resume"}, task : Tasks, read : Times]
        \cup [op : {"patch"}, task : Tasks, read : Times, doc : Row,
              enabled : BOOLEAN, trigger : BOOLEAN]

TypeOK ==
    /\ now \in Times
    /\ row \in [Tasks -> Row]
    /\ rowLock \in [Tasks -> Claimers \cup {Nobody}]
    /\ tick \in [Claimers -> [phase : {"off", "ticking", "picked"}, moment : Times]]
    /\ firings \in [Tasks -> Seq(Firing)]
    /\ \A t \in Tasks : Len(firings[t]) <= MaxFirings
    /\ edit \in [Editors -> Edit]

Init ==
    /\ now = 0
    /\ row \in [Tasks -> [enabled : {TRUE}, next : 1 .. Never, skips : {0}]]
    /\ rowLock = [t \in Tasks |-> Nobody]
    /\ tick = [c \in Claimers |-> [phase |-> "off", moment |-> 0]]
    /\ firings = [t \in Tasks |-> <<>>]
    /\ edit = [e \in Editors |-> Idle]

-----------------------------------------------------------------------------
(* Mutant: at or after the moment.                                          *)
NextFireFrom(moment) == moment .. Never

(* next_fire_time: some firing strictly after the given moment, or none.    *)
NextFire(moment) == (moment + 1) .. Never

-----------------------------------------------------------------------------
(* Tasks.claim_due.                                                         *)

(* Mutant: what is past its grace time is left out of the query.            *)
DueInGrace(moment) ==
    {t \in Tasks : /\ row[t].enabled /\ rowLock[t] = Nobody
                   /\ row[t].next \in (moment - Grace) .. moment}

(* Every row the query may return; the locked ones are skipped.             *)
DueAt(moment) ==
    {t \in Tasks : row[t].enabled /\ row[t].next <= moment /\ rowLock[t] = Nobody}

(* ORDER BY next_run_at LIMIT: all that is due, or a batch of the soonest.  *)
Batches(due) ==
    {b \in SUBSET due : /\ Cardinality(b) = IF Cardinality(due) < Batch
                                            THEN Cardinality(due) ELSE Batch
                        /\ \A t \in b, u \in due \ b : row[t].next <= row[u].next}

StartTick(c) ==
    /\ tick[c].phase = "off"
    /\ tick' = [tick EXCEPT ![c] = [phase |-> "ticking", moment |-> now]]
    /\ UNCHANGED <<now, row, rowLock, firings, edit>>

(* The SELECT locks what it returns.                                        *)
Pick(c) ==
    /\ tick[c].phase = "ticking"
    /\ \E b \in Batches(DueAt(tick[c].moment)) :
        IF b = {}
        THEN /\ tick' = [tick EXCEPT ![c].phase = "off"]
             /\ UNCHANGED rowLock
        ELSE /\ tick' = [tick EXCEPT ![c].phase = "picked"]
             /\ rowLock' = [t \in Tasks |-> IF t \in b THEN c ELSE rowLock[t]]
    /\ UNCHANGED <<now, row, firings, edit>>

Picked(c) == {t \in Tasks : rowLock[t] = c}

(* A firing as the claim returns it, with the row as it was when read.      *)
FiringOf(t, due, moment) ==
    [due |-> due, moment |-> moment, skips |-> row[t].skips,
     phase |-> "claimed", outcome |-> "none"]

(* Mutant: the next firing follows the one that was due, not the moment.    *)
AdvanceFromDue(c) ==
    LET ts == Picked(c)
    IN  /\ tick[c].phase = "picked"
        /\ \A t \in ts : Len(firings[t]) < MaxFirings
        /\ firings' = [t \in Tasks |->
               IF t \in ts
               THEN Append(firings[t], FiringOf(t, row[t].next, tick[c].moment))
               ELSE firings[t]]
        /\ \E next \in [ts -> Times] :
               /\ \A t \in ts : next[t] = row[t].next + 1
               /\ row' = [t \in Tasks |-> IF t \in ts THEN [row[t] EXCEPT !.next = next[t]]
                                       ELSE row[t]]
        /\ rowLock' = [t \in Tasks |-> IF t \in ts THEN Nobody ELSE rowLock[t]]
        /\ tick' = [tick EXCEPT ![c].phase = "off"]
        /\ UNCHANGED <<now, edit>>

(* _advance and COMMIT: the schedule moves on before anything fires.        *)
Advance(c) ==
    LET ts == Picked(c)
        moment == tick[c].moment
    IN  /\ tick[c].phase = "picked"
        /\ \A t \in ts : Len(firings[t]) < MaxFirings
        /\ firings' = [t \in Tasks |->
               IF t \in ts THEN Append(firings[t], FiringOf(t, row[t].next, moment))
               ELSE firings[t]]
        /\ \E next \in [ts -> NextFire(moment)] :
               row' = [t \in Tasks |-> IF t \in ts THEN [row[t] EXCEPT !.next = next[t]]
                                       ELSE row[t]]
        /\ rowLock' = [t \in Tasks |-> IF t \in ts THEN Nobody ELSE rowLock[t]]
        /\ tick' = [tick EXCEPT ![c].phase = "off"]
        /\ UNCHANGED <<now, edit>>

(* The process dies before the commit: Postgres undoes the claim.           *)
CrashTick(c) ==
    /\ "crash" \in Activities /\ tick[c].phase # "off"
    /\ rowLock' = [t \in Tasks |-> IF rowLock[t] = c THEN Nobody ELSE rowLock[t]]
    /\ tick' = [tick EXCEPT ![c].phase = "off"]
    /\ UNCHANGED <<now, row, firings, edit>>

-----------------------------------------------------------------------------
(* What a firing does after the claim. Goto is a step of the i-th of t.     *)
Goto(t, i, from, to, outcome) ==
    /\ "work" \in Activities
    /\ i \in DOMAIN firings[t] /\ firings[t][i].phase = from
    /\ firings' = [firings EXCEPT ![t][i] = [@ EXCEPT !.phase = to, !.outcome = outcome]]

Late(f) == f.due # OnDemand /\ f.moment - f.due > Grace

(* _fire: a misfire, or a lease that is refused, is declined, and _decline  *)
(* leaves the counters alone.                                               *)
Decline(t, i) ==
    /\ Goto(t, i, "claimed", "declined", "none")
    /\ UNCHANGED <<now, row, rowLock, tick, edit>>

Start(t, i) ==
    /\ Goto(t, i, "claimed", "working", "none")
    /\ ~Late(firings[t][i])
    /\ UNCHANGED <<now, row, rowLock, tick, edit>>

(* The executor's verdict: the identity did not resolve, or anything else.  *)
Finish(t, i) ==
    /\ \E outcome \in {"skipped", "other"} : Goto(t, i, "working", "counting", outcome)
    /\ UNCHANGED <<now, row, rowLock, tick, edit>>

(* Mutant: the streak counts every firing that did not succeed.             *)
CountEveryOutcome(t, i) ==
    /\ Goto(t, i, "counting", "limiting", firings[t][i].outcome)
    /\ rowLock[t] = Nobody
    /\ row' = [row EXCEPT ![t].skips = @ + 1]
    /\ UNCHANGED <<now, rowLock, tick, edit>>

(* record_outcome: an update of the counter the row has by then.            *)
CountOutcome(t, i) ==
    /\ Goto(t, i, "counting", "limiting", firings[t][i].outcome)
    /\ rowLock[t] = Nobody
    /\ row' = [row EXCEPT ![t].skips =
                  IF firings[t][i].outcome = "skipped" THEN @ + 1 ELSE 0]
    /\ UNCHANGED <<now, rowLock, tick, edit>>

(* It fails, which _record logs, and the limits are applied all the same.   *)
CountFails(t, i) ==
    /\ "crash" \in Activities
    /\ Goto(t, i, "counting", "limiting", firings[t][i].outcome)
    /\ UNCHANGED <<now, row, rowLock, tick, edit>>

(* _apply_limits: the streak is the one read by the claim, plus this skip.  *)
Disables(f) == f.outcome = "skipped" /\ f.skips + 1 >= SkipLimit

ApplyLimits(t, i) ==
    /\ Goto(t, i, "limiting", "done", firings[t][i].outcome)
    /\ IF Disables(firings[t][i])
       THEN rowLock[t] = Nobody /\ row' = [row EXCEPT ![t].enabled = FALSE]
       ELSE UNCHANGED row
    /\ UNCHANGED <<now, rowLock, tick, edit>>

(* The process dies with the firing; the claim stays consumed.              *)
CrashFiring(t, i) ==
    /\ "crash" \in Activities
    /\ \E from \in {"claimed", "working", "counting", "limiting"} :
           Goto(t, i, from, "lost", firings[t][i].outcome)
    /\ UNCHANGED <<now, row, rowLock, tick, edit>>

-----------------------------------------------------------------------------
(* The endpoints. run_now fires the task as it was loaded, enabled or not.  *)
RunNow(e, t) ==
    /\ "run" \in Activities /\ Len(firings[t]) < MaxFirings
    /\ firings' = [firings EXCEPT ![t] = Append(@, FiringOf(t, OnDemand, now))]
    /\ UNCHANGED <<now, row, rowLock, tick, edit>>

(* set_enabled(enabled=False): next_run_at stays what it was.               *)
Pause(e, t) ==
    /\ "pause" \in Activities /\ rowLock[t] = Nobody
    /\ row' = [row EXCEPT ![t].enabled = FALSE]
    /\ UNCHANGED <<now, rowLock, tick, firings, edit>>

(* set_enabled(enabled=True): the moment it reschedules from is taken       *)
(* before the statement waits for a connection and for the row.             *)
ResumeRead(e, t) ==
    /\ "resume" \in Activities /\ edit[e] = Idle
    /\ edit' = [edit EXCEPT ![e] = [op |-> "resume", task |-> t, read |-> now]]
    /\ UNCHANGED <<now, row, rowLock, tick, firings>>

ResumeWrite(e) ==
    /\ edit[e].op = "resume" /\ rowLock[edit[e].task] = Nobody
    /\ \E next \in NextFire(edit[e].read) :
           row' = [row EXCEPT ![edit[e].task].enabled = TRUE, ![edit[e].task].next = next]
    /\ edit' = [edit EXCEPT ![e] = Idle]
    /\ UNCHANGED <<now, rowLock, tick, firings>>

(* patch_task loads the task and patches the copy: what enabled it asks     *)
(* for, and whether it changes the trigger or the timezone. Later it takes  *)
(* the moment it reschedules from.                                          *)
PatchRead(e, t) ==
    /\ "patch" \in Activities /\ edit[e] = Idle
    /\ \E enabled, trigger \in BOOLEAN :
           edit' = [edit EXCEPT ![e] = [op |-> "patch", task |-> t, read |-> now,
                                        doc |-> row[t], enabled |-> enabled,
                                        trigger |-> trigger]]
    /\ UNCHANGED <<now, row, rowLock, tick, firings>>

Reschedules(p) == p.trigger \/ p.enabled # p.doc.enabled

(* Tasks.update replaces every column of the row with the patched copy.     *)
PatchWrite(e) ==
    LET p == edit[e]
        t == p.task
    IN  /\ p.op = "patch" /\ rowLock[t] = Nobody
        /\ \E moment \in p.read .. now :
           \E next \in IF ~Reschedules(p) THEN {p.doc.next}
                       ELSE IF p.enabled THEN NextFire(moment) ELSE {Never} :
               row' = [row EXCEPT ![t] = [p.doc EXCEPT !.enabled = p.enabled, !.next = next]]
        /\ edit' = [edit EXCEPT ![e] = Idle]
        /\ UNCHANGED <<now, rowLock, tick, firings>>

ClockTick ==
    /\ now < MaxTime
    /\ now' = now + 1
    /\ UNCHANGED <<row, rowLock, tick, firings, edit>>

-----------------------------------------------------------------------------
Claim(c) == StartTick(c) \/ Pick(c) \/ Advance(c)
Work(t, i) == Decline(t, i) \/ Start(t, i) \/ Finish(t, i)
              \/ CountOutcome(t, i) \/ ApplyLimits(t, i)

Next ==
    \/ ClockTick
    \/ \E c \in Claimers : Claim(c) \/ CrashTick(c)
    \/ \E t \in Tasks : \E i \in DOMAIN firings[t] : \/ Work(t, i) \/ CountFails(t, i)
                                           \/ CrashFiring(t, i)
    \/ \E e \in Editors, t \in Tasks : \/ RunNow(e, t) \/ Pause(e, t)
                                       \/ ResumeRead(e, t) \/ PatchRead(e, t)
    \/ \E e \in Editors : ResumeWrite(e) \/ PatchWrite(e)

Spec == Init /\ [][Next]_vars

(* The loop keeps ticking on some replica, what a tick awaits answers in    *)
(* the end, and not every tick dies before its query or its commit.         *)
FairSpec ==
    /\ Spec
    /\ WF_vars(ClockTick)
    /\ \A c \in Claimers : WF_vars(Claim(c)) /\ SF_vars(Pick(c)) /\ SF_vars(Advance(c))

-----------------------------------------------------------------------------
(* A due timestamp is fired at most once, whichever ticks and replicas see  *)
(* it: "a firing is consumed exactly once" (store/tasks.py).                *)
SingleFiring ==
    \A t \in Tasks : \A i, j \in DOMAIN firings[t] :
        i # j /\ firings[t][i].due # OnDemand => firings[t][i].due # firings[t][j].due

(* A task that fell behind fires once on catch-up: a tick never claims a    *)
(* due time that an earlier claim's moment had already passed.              *)
NoBacklog ==
    \A t \in Tasks : \A i, j \in DOMAIN firings[t] :
        i < j /\ firings[t][i].due # OnDemand /\ firings[t][j].due # OnDemand
            => firings[t][j].due > firings[t][i].moment

(* What the claim promises of the due times of a task.                      *)
ConsumedOnce == SingleFiring /\ NoBacklog

(* The engine disables a task only after at least SkipLimit of its firings  *)
(* were skipped for want of an identity, in whatever order overlapping      *)
(* firings write their outcomes: what it declined itself never counts.      *)
SkippedFirings(t) == {i \in DOMAIN firings[t] : firings[t][i].outcome = "skipped"}

DisablesAfterSkips ==
    [][\A t \in Tasks : \A i \in DOMAIN firings[t] :
           ApplyLimits(t, i) /\ row[t].enabled /\ ~row'[t].enabled
               => Cardinality(SkippedFirings(t)) >= SkipLimit]_vars

(* No task is passed over: one that is due is claimed, disabled or          *)
(* rescheduled in the end, however many others are due.                     *)
DueIsClaimed ==
    \A t \in Tasks : row[t].enabled /\ row[t].next <= now
                         ~> ~row[t].enabled \/ row[t].next > now
=============================================================================
