--------------------------- MODULE MaintenanceRuns ---------------------------
(***************************************************************************)
(* The runs of one maintenance operation: the lock, the set of pending     *)
(* projects and the run hash in Valkey, the worker of each instance, and   *)
(* whoever starts and cancels. apps/api/src/imbi/api/maintenance/state.py, *)
(* worker.py and endpoints/maintenance.py.                                 *)
(*                                                                         *)
(* Nothing in Valkey is a transaction here: each call, and each pipeline,  *)
(* is an action of its own. Abstracted: the counters of the outcomes are   *)
(* the set of the projects that were counted; failure details, the         *)
(* activity log and runs without any project are left out.                 *)
(***************************************************************************)
EXTENDS Integers, FiniteSets

CONSTANTS
    Projects,       \* the projects of every run
    MaintWorkers,   \* instances
    Admins,         \* requests to start or to cancel
    MaxRuns,        \* bound: runs started
    MaxDrift,       \* bound: no call fails half-way once in_flight is so far
                    \* below zero, or above the number of instances
    MaintFaults     \* of "limit" (a plugin is rate limited), "fail" (a call to
                    \* Valkey raises), "stop" (shutdown) and "crash"

ASSUME MaintAssumption ==
    /\ "none" \notin Projects /\ IsFiniteSet(MaintWorkers)
    /\ MaxRuns \in Nat /\ MaxDrift \in Nat
    /\ MaintFaults \subseteq {"limit", "fail", "stop", "crash"}

VARIABLES
    lock,       \* the lock: the number of a run, or 0
    started,    \* the number of runs started
    waiting,    \* the SET of pending projects
    opRun,      \* the run hash: state, in_flight and the projects counted
    pausedRun,  \* the pause key is set
    ticker,     \* where each worker is, and with which project
    admin,      \* where each request is
    gone        \* projects of the run whose worker was cut off with them

maintVars == <<lock, started, waiting, opRun, pausedRun, ticker, admin, gone>>

AtRest == [at |-> "idle", project |-> "none"]
With(at, p) == [at |-> at, project |-> p]
Move(w, at) == ticker' = [ticker EXCEPT ![w].at = at]

MaintInit ==
    /\ lock = 0 /\ started = 0 /\ waiting = {} /\ pausedRun = FALSE /\ gone = {}
    /\ opRun = [state |-> "idle", inFlight |-> 0, counted |-> {}]
    /\ ticker = [w \in MaintWorkers |-> AtRest]
    /\ admin = [a \in Admins |-> "none"]

(* start_run: the lock, and then the rest.                                 *)
TakeRunLock(a) ==
    /\ admin[a] = "none" /\ lock = 0 /\ started < MaxRuns
    /\ started' = started + 1 /\ lock' = started + 1
    /\ admin' = [admin EXCEPT ![a] = "seeding"]
    /\ UNCHANGED <<waiting, opRun, pausedRun, ticker, gone>>

Seed(a) ==
    /\ admin[a] = "seeding"
    /\ waiting' = Projects /\ gone' = {}
    /\ opRun' = [state |-> "running", inFlight |-> 0, counted |-> {}]
    /\ admin' = [admin EXCEPT ![a] = "none"]
    /\ UNCHANGED <<lock, started, pausedRun, ticker>>

(* cancel_run                                                              *)
AskCancelRun(a) ==
    /\ admin[a] = "none" /\ lock # 0 /\ opRun.state = "running"
    /\ admin' = [admin EXCEPT ![a] = "clearing"]
    /\ UNCHANGED <<lock, started, waiting, opRun, pausedRun, ticker, gone>>

ClearPending(a) ==
    /\ admin[a] = "clearing"
    /\ waiting' = {}
    /\ admin' = [admin EXCEPT ![a] = "cancelling"]
    /\ UNCHANGED <<lock, started, opRun, pausedRun, ticker, gone>>

(* _finish, of whatever run is there by now.                               *)
FinishAs(state) == opRun' = [opRun EXCEPT !.state = state] /\ lock' = 0

FinishCancel(a) ==
    /\ admin[a] = "cancelling"
    /\ FinishAs("cancelled")
    /\ admin' = [admin EXCEPT ![a] = "none"]
    /\ UNCHANGED <<started, waiting, pausedRun, ticker, gone>>

(* _tick_operation, up to the pause.                                       *)
BeginTick(w) ==
    /\ ticker[w].at = "idle" /\ lock # 0
    /\ Move(w, IF pausedRun THEN "checking" ELSE "taking")
    /\ UNCHANGED <<lock, started, waiting, opRun, pausedRun, admin, gone>>

(* checkout: SPOP, and then the count.                                     *)
Pop(w) ==
    /\ ticker[w].at = "taking"
    /\ \/ /\ waiting = {} /\ Move(w, "checking")
          /\ UNCHANGED waiting
       \/ \E p \in waiting :
              /\ waiting' = waiting \ {p}
              /\ ticker' = [ticker EXCEPT ![w] = With("popped", p)]
    /\ UNCHANGED <<lock, started, opRun, pausedRun, admin, gone>>

CountOut(w) ==
    /\ ticker[w].at = "popped"
    /\ opRun' = [opRun EXCEPT !.inFlight = @ + 1]
    /\ Move(w, "working")
    /\ UNCHANGED <<lock, started, waiting, pausedRun, admin, gone>>

ItemEnds(w) ==
    /\ ticker[w].at = "working"
    /\ Move(w, "recording")
    /\ UNCHANGED <<lock, started, waiting, opRun, pausedRun, admin, gone>>

(* Rate limited, or the shutdown cancels the operation while it executes.  *)
ItemDeferred(w) ==
    /\ ticker[w].at = "working"
    /\ \/ "limit" \in MaintFaults /\ Move(w, "deferring")
       \/ "stop" \in MaintFaults /\ Move(w, "returning")
    /\ UNCHANGED <<lock, started, waiting, opRun, pausedRun, admin, gone>>

(* Mutant: only the count is taken back.                                   *)
RequeueNobody(w, at) ==
    /\ opRun' = [opRun EXCEPT !.inFlight = @ - 1]
    /\ ticker' = [ticker EXCEPT ![w] = With(at, "none")]
    /\ UNCHANGED <<lock, started, waiting, admin, gone>>

(* Mutant: the count is not taken back.                                    *)
RequeueKeepsCount(w, at) ==
    /\ waiting' = waiting \cup {ticker[w].project}
    /\ ticker' = [ticker EXCEPT ![w] = With(at, "none")]
    /\ UNCHANGED <<lock, started, opRun, admin, gone>>

(* requeue                                                                 *)
RequeueItem(w, at) ==
    /\ waiting' = waiting \cup {ticker[w].project}
    /\ opRun' = [opRun EXCEPT !.inFlight = @ - 1]
    /\ ticker' = [ticker EXCEPT ![w] = With(at, "none")]
    /\ UNCHANGED <<lock, started, admin, gone>>

(* The pause follows in a call of its own, which may fail; before it, other *)
(* workers do what they do before the requeue.                             *)
Defer(w) ==
    /\ ticker[w].at \in {"deferring", "returning"}
    /\ RequeueItem(w, "idle")
    /\ pausedRun' \in {pausedRun, pausedRun \/ ticker[w].at = "deferring"}

(* record_outcome                                                          *)
RecordOutcome(w) ==
    /\ ticker[w].at = "recording"
    /\ opRun' = [opRun EXCEPT !.inFlight = @ - 1, !.counted = @ \cup {ticker[w].project}]
    /\ ticker' = [ticker EXCEPT ![w] = With("checking", "none")]
    /\ UNCHANGED <<lock, started, waiting, pausedRun, admin, gone>>

(* It ends before, half-way through, or after.                             *)
PartOfRecord(w) ==
    /\ opRun.inFlight > -MaxDrift
    /\ \/ UNCHANGED opRun
       \/ \E counted \in {{}, {ticker[w].project}} :
              opRun' = [opRun EXCEPT !.inFlight = @ - 1, !.counted = @ \cup counted]

RecordFails(w) ==
    /\ "fail" \in MaintFaults
    /\ ticker[w].at = "recording"
    /\ PartOfRecord(w)
    /\ Move(w, "compensating")
    /\ UNCHANGED <<lock, started, waiting, pausedRun, admin, gone>>

Compensate(w) ==
    /\ ticker[w].at = "compensating"
    /\ RequeueItem(w, "checking")
    /\ UNCHANGED pausedRun

Drained == waiting = {} /\ opRun.inFlight <= 0 /\ opRun.state = "running"

(* maybe_finalize: the check, and then the end.                            *)
CheckDrained(w) ==
    /\ ticker[w].at = "checking"
    /\ Move(w, IF Drained THEN "finishing" ELSE "idle")
    /\ UNCHANGED <<lock, started, waiting, opRun, pausedRun, admin, gone>>

Finalize(w) ==
    /\ ticker[w].at = "finishing"
    /\ FinishAs("completed")
    /\ Move(w, "idle")
    /\ UNCHANGED <<started, waiting, pausedRun, admin, gone>>

RunPauseEnds ==
    /\ pausedRun /\ pausedRun' = FALSE
    /\ UNCHANGED <<lock, started, waiting, opRun, ticker, admin, gone>>

(* The time to live of the lock.                                           *)
LockLapses ==
    /\ "crash" \in MaintFaults /\ lock # 0
    /\ lock' = 0
    /\ UNCHANGED <<started, waiting, opRun, pausedRun, ticker, admin, gone>>

(* The tick of w ends with its project in hand, which nobody hands back. A *)
(* worker without a project has nothing that its next tick does not have.  *)
CutOff(w) ==
    /\ ticker[w].project # "none"
    /\ ticker' = [ticker EXCEPT ![w] = AtRest]
    /\ gone' = gone \cup {ticker[w].project}
    /\ UNCHANGED <<lock, started, pausedRun, admin>>

CrashInstance(w) ==
    /\ "crash" \in MaintFaults
    /\ CutOff(w)
    /\ UNCHANGED <<waiting, opRun>>

(* The count of the checkout is cancelled by the shutdown, or raises; it   *)
(* was made, or it was not.                                                *)
CountCutShort(w) ==
    /\ MaintFaults \cap {"stop", "fail"} # {} /\ ticker[w].at = "popped"
    /\ CutOff(w)
    /\ opRun' \in {opRun, [opRun EXCEPT !.inFlight = @ + 1]}
    /\ UNCHANGED waiting

(* The shutdown cancels _item_context, before the operation, or            *)
(* record_outcome, after it: only Exception is caught there.               *)
ItemCutShort(w) ==
    /\ "stop" \in MaintFaults
    /\ CutOff(w)
    /\ \/ ticker[w].at = "working" /\ UNCHANGED opRun
       \/ ticker[w].at = "recording" /\ PartOfRecord(w)
    /\ UNCHANGED waiting

(* A requeue raises, or the shutdown cancels one that it has not caused. It *)
(* was made, or not, or the count was not taken back.                      *)
RequeueCutShort(w) ==
    /\ \/ "fail" \in MaintFaults
             /\ ticker[w].at \in {"deferring", "returning", "compensating"}
       \/ "stop" \in MaintFaults /\ ticker[w].at \in {"deferring", "compensating"}
    /\ CutOff(w)
    /\ \/ UNCHANGED <<waiting, opRun>>
       \/ /\ waiting' = waiting \cup {ticker[w].project}
          /\ \/ opRun' = [opRun EXCEPT !.inFlight = @ - 1]
             \/ opRun.inFlight <= Cardinality(MaintWorkers) + MaxDrift /\ UNCHANGED opRun

MaintNext ==
    \/ \E a \in Admins : \/ TakeRunLock(a) \/ Seed(a)
                         \/ AskCancelRun(a) \/ ClearPending(a) \/ FinishCancel(a)
    \/ \E w \in MaintWorkers :
           \/ BeginTick(w) \/ Pop(w) \/ CountOut(w) \/ ItemEnds(w) \/ ItemDeferred(w)
           \/ Defer(w) \/ RecordOutcome(w) \/ RecordFails(w) \/ Compensate(w)
           \/ CheckDrained(w) \/ Finalize(w) \/ CrashInstance(w)
           \/ CountCutShort(w) \/ ItemCutShort(w) \/ RequeueCutShort(w)
    \/ RunPauseEnds \/ LockLapses

MaintSpec == MaintInit /\ [][MaintNext]_maintVars
-----------------------------------------------------------------------------
Held == {ticker[w].project : w \in MaintWorkers} \ {"none"}

Busy == {w \in MaintWorkers : ticker[w].at \in {"working", "recording", "deferring",
                                                 "returning", "compensating"}}

(* The types; a worker has a project from its checkout to its outcome; and *)
(* as long as none is cut off with one, in_flight counts nobody who is not *)
(* at work, so that the end of a run is not waited for in vain.            *)
MaintTypeOK ==
    /\ started \in 0..MaxRuns /\ lock \in 0..started
    /\ waiting \subseteq Projects /\ gone \subseteq Projects /\ pausedRun \in BOOLEAN
    /\ opRun \in [state : {"idle", "running", "completed", "cancelled"},
                inFlight : Int, counted : SUBSET Projects]
    /\ \A w \in MaintWorkers :
           ticker[w].project = "none" <=>
               ticker[w].at \in {"idle", "taking", "checking", "finishing"}
    /\ gone = {} => opRun.inFlight <= Cardinality(Busy)
    /\ admin \in [Admins -> {"none", "seeding", "clearing", "cancelling"}]

(* While a run goes on and nobody cancels it, each of its projects is      *)
(* pending, in the hands of a worker, counted, or was in the hands of one  *)
(* that was cut off with it: killed ("a hard-killed instance loses the id  *)
(* it had checked out", state.py), shut down at a call before or after the *)
(* operation, or ended by a checkout or a requeue that raised. None is     *)
(* lost by a rate limit, a shutdown during the operation, an outcome that  *)
(* was not recorded, or a worker that is late from the run before.         *)
ProjectsAccounted ==
    opRun.state = "running" /\ (\A a \in Admins : admin[a] # "cancelling")
        => Projects \subseteq waiting \cup Held \cup opRun.counted \cup gone
=============================================================================
