------------------------------ MODULE RunLeases ------------------------------
(***************************************************************************)
(* One firing of a scheduled task, from the execution slot it reserves to  *)
(* the run it records, and the request that cancels it:                    *)
(* apps/scheduler/src/imbi/scheduler engine.py and store/tasks.py.         *)
(*                                                                         *)
(* The actors are the firings (coroutines of Engine._fire_under_lease on   *)
(* some replica), the transactions of Tasks.acquire_lease and              *)
(* Tasks.delete ordered by one advisory lock per task, the callers of      *)
(* POST /runs/{run_id}/cancel, and each replica's listener on              *)
(* CANCEL_CHANNEL. A statement that reads or writes Postgres is a step of  *)
(* its own; between two awaits a coroutine is not interrupted.             *)
(*                                                                         *)
(* Abstracted: what the target is and answers; time, of which only the     *)
(* passing of expires_at is left (Lapse).                                  *)
(***************************************************************************)
EXTENDS Naturals, FiniteSets

CONSTANTS
    Replicas,   \* the scheduler processes
    Tasks,      \* task ids
    Runs,       \* run ids, one per firing
    Limit,      \* execution.max_running_instances, the same for every task
    Ceiling,    \* settings.max_concurrent_runs, per replica
    Faults,     \* which of FaultKinds the environment may show
    Callers     \* which of CallerKinds may ask for a cancellation

(* "crash": a replica dies. "lapse": a firing outlasts its own lease, as    *)
(* _lease_ttl has no room for the wait for a slot or for an exponential     *)
(* backoff. "deaf": the listener's connection is lost. "delete": DELETE     *)
(* /tasks/{slug}. "teardown": shutdown cancels the ticks that did not       *)
(* drain.                                                                   *)
FaultKinds == {"crash", "lapse", "deaf", "delete", "teardown"}

(* "endpoint": POST /runs/{run_id}/cancel, which reads run history first.   *)
(* "engine": Engine.cancel, by a caller that knows the id from the lease.   *)
CallerKinds == {"endpoint", "engine"}

ASSUME ConstantsAssumption ==
    /\ IsFiniteSet(Runs)
    /\ Limit \in Nat \ {0}
    /\ Ceiling \in Nat \ {0}
    /\ Faults \subseteq FaultKinds
    /\ Callers \subseteq CallerKinds

None == "none"
Deleter == "delete"

ASSUME NamesAssumption ==
    None \notin Runs \cup Replicas /\ Deleter \notin Runs /\ None # Deleter

VARIABLES
    exists,     \* the tasks that have a row
    lock,       \* who holds each task's advisory lock
    leased,     \* the run_ids of the rows of run_leases
    lapsed,     \* the leases whose expires_at has passed
    flagged,    \* the leases with cancel_requested
    task,       \* the task each run is a firing of
    owner,      \* the replica each run is on
    pc,         \* how far each firing has come
    history,    \* what GET /runs/{run_id} shows of each run
    up,         \* the replicas that are alive
    listening,  \* the replicas whose cancel listener is connected
    notices,    \* notifications not yet handled, as <<replica, run>>
    ask         \* the answer to the cancel of each run, and when it came

store == <<exists, lock, leased, lapsed, flagged>>
process == <<up, listening, notices>>
vars == <<exists, lock, leased, lapsed, flagged, task, owner, pc, history,
          up, listening, notices, ask>>

InAcquire == {"checking", "counting", "inserting"}
InSlot == {"admitted", "cleared", "calling", "interrupted", "returned"}
Live == {"leased", "queued", "withdrawn", "releasing", "aborting"} \cup InSlot
Ended == {"done", "declined", "lost", "dead"}
Phases == {"idle", "locking", "recording"} \cup InAcquire \cup Live \cup Ended

Replies == {"none", "accepted", "unknown", "finished", "not_in_flight"}
LeasesOf(t) == {r \in leased : task[r] = t}
LiveOf(t) == {r \in Runs : pc[r] \in Live /\ task[r] = t}
SlotsOf(rep) == {r \in Runs : pc[r] \in InSlot /\ owner[r] = rep}

TypeOK ==
    /\ exists \subseteq Tasks
    /\ lock \in [Tasks -> Runs \cup {None, Deleter}]
    /\ leased \subseteq Runs /\ lapsed \subseteq leased /\ flagged \subseteq leased
    /\ task \in [Runs -> Tasks]
    /\ owner \in [Runs -> Replicas \cup {None}]
    /\ pc \in [Runs -> Phases]
    /\ history \in [Runs -> {None, "running", "terminal"}]
    /\ up \subseteq Replicas /\ listening \subseteq up
    /\ notices \subseteq listening \X Runs
    /\ ask \in [Runs -> [reply : Replies, phase : Phases]]

Init ==
    /\ exists = Tasks
    /\ lock = [t \in Tasks |-> None]
    /\ leased = {} /\ lapsed = {} /\ flagged = {}
    /\ task \in [Runs -> Tasks]
    /\ owner = [r \in Runs |-> None]
    /\ pc = [r \in Runs |-> "idle"]
    /\ history = [r \in Runs |-> None]
    /\ up = Replicas /\ listening = Replicas
    /\ notices = {}
    /\ ask = [r \in Runs |-> [reply |-> "none", phase |-> "idle"]]

-----------------------------------------------------------------------------
(* A firing goes from one phase to the next.                                *)
Goto(r, from, to) == pc[r] = from /\ pc' = [pc EXCEPT ![r] = to]
Unlock(r) == lock' = [lock EXCEPT ![task[r]] = None]

(* Mutant: the expiry mark of a deleted row stays behind.                   *)
DropLeasesKeepsMark(gone) ==
    /\ leased' = leased \ gone
    /\ flagged' = flagged \ gone
    /\ UNCHANGED lapsed

(* The lease rows of gone disappear, and their columns with them.           *)
DropLeases(gone) ==
    /\ leased' = leased \ gone
    /\ lapsed' = lapsed \ gone
    /\ flagged' = flagged \ gone

(* A claim or POST /tasks/{slug}/run mints a run_id on a live replica. The  *)
(* task was read before, so it may be gone by now.                          *)
Fire(r, rep) ==
    /\ rep \in up
    /\ Goto(r, "idle", "locking")
    /\ owner' = [owner EXCEPT ![r] = rep]
    /\ UNCHANGED <<store, task, history, process, ask>>

(* acquire_lease, statement by statement.                                   *)
AcquireLock(r) ==
    /\ lock[task[r]] = None
    /\ Goto(r, "locking", "checking")
    /\ lock' = [lock EXCEPT ![task[r]] = r]
    /\ UNCHANGED <<exists, leased, lapsed, flagged, task, owner, history,
                   process, ask>>

(* Mutant: the existence of the task is not checked under the lock.         *)
AcquireUnchecked(r) ==
    /\ Goto(r, "checking", "counting")
    /\ UNCHANGED <<store, task, owner, history, process, ask>>

AcquireCheck(r) ==
    /\ \/ /\ task[r] \in exists
          /\ Goto(r, "checking", "counting")
          /\ UNCHANGED lock
       \/ /\ task[r] \notin exists
          /\ Goto(r, "checking", "declined")
          /\ Unlock(r)
    /\ UNCHANGED <<exists, leased, lapsed, flagged, task, owner, history,
                   process, ask>>

(* Mutants: the limit compared with one row too many; the prune of every    *)
(* lease of the task instead of the expired ones.                           *)
AcquireOneTooMany(r) ==
    LET kept == LeasesOf(task[r]) \ lapsed
    IN  /\ DropLeases(LeasesOf(task[r]) \cap lapsed)
        /\ Cardinality(kept) <= Limit
        /\ Goto(r, "counting", "inserting")
        /\ UNCHANGED <<exists, lock, task, owner, history, process, ask>>

AcquirePrunesAll(r) ==
    /\ DropLeases(LeasesOf(task[r]))
    /\ Goto(r, "counting", "inserting")
    /\ UNCHANGED <<exists, lock, task, owner, history, process, ask>>

(* The prune and the count; the declined run gets a history row of its own. *)
AcquireCount(r) ==
    LET kept == LeasesOf(task[r]) \ lapsed
    IN  /\ DropLeases(LeasesOf(task[r]) \cap lapsed)
        /\ \/ /\ Cardinality(kept) < Limit
              /\ Goto(r, "counting", "inserting")
              /\ UNCHANGED lock
           \/ /\ Cardinality(kept) >= Limit
              /\ Goto(r, "counting", "declined")
              /\ Unlock(r)
        /\ UNCHANGED <<exists, task, owner, history, process, ask>>

AcquireInsert(r) ==
    /\ Goto(r, "inserting", "leased")
    /\ leased' = leased \cup {r}
    /\ Unlock(r)
    /\ UNCHANGED <<exists, lapsed, flagged, task, owner, history, process, ask>>

(* _execute: cancel_requested before the wait for a slot, and again after. *)
(* A missing row reads as not requested. A withdrawn run leaves the slot at *)
(* once. The answer of the second read is acted on a step later: until      *)
(* then the run is in no replica's _in_flight.                              *)
CheckBeforeQueue(r) ==
    /\ Goto(r, "leased", IF r \in flagged THEN "withdrawn" ELSE "queued")
    /\ UNCHANGED <<store, task, owner, history, process, ask>>

Admit(r) ==
    /\ Cardinality(SlotsOf(owner[r])) < Ceiling
    /\ Goto(r, "queued", "admitted")
    /\ UNCHANGED <<store, task, owner, history, process, ask>>

(* Mutant: no second read of the flag once the slot is granted.             *)
NoCheckAfterSlot(r) ==
    /\ Goto(r, "admitted", "cleared")
    /\ UNCHANGED <<store, task, owner, history, process, ask>>

CheckAfterSlot(r) ==
    /\ Goto(r, "admitted", IF r \in flagged THEN "withdrawn" ELSE "cleared")
    /\ UNCHANGED <<store, task, owner, history, process, ask>>

Register(r) ==
    /\ Goto(r, "cleared", "calling")
    /\ UNCHANGED <<store, task, owner, history, process, ask>>

(* Executor.execute publishes the running row before it attempts anything; *)
(* it can be read once the sink has drained it.                             *)
ShowRunning(r) ==
    /\ pc[r] \in {"calling", "interrupted", "returned", "releasing"}
    /\ history[r] = None
    /\ history' = [history EXCEPT ![r] = "running"]
    /\ UNCHANGED <<store, task, owner, pc, process, ask>>

(* The executor returns; _execute resumes, forgets the run and gives up its *)
(* slot; and the finally of _fire_under_lease releases the lease.           *)
Respond(r) ==
    /\ Goto(r, "calling", "returned")
    /\ UNCHANGED <<store, task, owner, history, process, ask>>

(* Mutant: the cancelled call is not caught, and the wait for it never ends. *)
ResumeOnAnswer(r) ==
    /\ Goto(r, "returned", "releasing")
    /\ UNCHANGED <<store, task, owner, history, process, ask>>

Resume(r) ==
    /\ \/ Goto(r, "returned", "releasing")
       \/ Goto(r, "interrupted", "releasing")
    /\ UNCHANGED <<store, task, owner, history, process, ask>>

Release(r) ==
    /\ \/ Goto(r, "releasing", "recording")
       \/ Goto(r, "withdrawn", "recording")
       \/ Goto(r, "aborting", "lost")
    /\ DropLeases({r})
    /\ UNCHANGED <<exists, lock, task, owner, history, process, ask>>

(* _record: a write that fails is logged and leaves the running row.        *)
Record(r) ==
    /\ Goto(r, "recording", "done")
    /\ history' \in {history, [history EXCEPT ![r] = "terminal"]}
    /\ UNCHANGED <<store, task, owner, process, ask>>

-----------------------------------------------------------------------------
(* The cancel endpoint and request_cancel. Each run is cancelled once.      *)

(* What cancel_run reads of history, and answers without asking the engine. *)
HistoryReply(r, caller) ==
    IF caller = "endpoint" /\ history[r] = None THEN "unknown"
    ELSE IF caller = "endpoint" /\ history[r] = "terminal" THEN "finished"
    ELSE "none"

(* pg_notify reaches every replica that listens. Mutant: nobody is told.    *)
BroadcastNothing(r) == {}
Broadcast(r) == listening \X {r}

RequestCancel(r, caller) ==
    LET early == HistoryReply(r, caller)
        reply == IF early # "none" THEN early
                 ELSE IF r \in leased THEN "accepted" ELSE "not_in_flight"
    IN  /\ ask[r].reply = "none" /\ pc[r] # "idle"
        /\ ask' = [ask EXCEPT ![r] = [reply |-> reply, phase |-> pc[r]]]
        /\ IF reply = "accepted"
           THEN /\ flagged' = flagged \cup {r}
                /\ notices' = notices \cup Broadcast(r)
           ELSE UNCHANGED <<flagged, notices>>
        /\ UNCHANGED <<exists, lock, leased, lapsed, task, owner, pc, history,
                       up, listening>>

(* Mutant: the notification is read and nothing is interrupted.             *)
DeliverInVain(rep, r) ==
    /\ <<rep, r>> \in notices
    /\ notices' = notices \ {<<rep, r>>}
    /\ UNCHANGED <<store, task, owner, pc, history, up, listening, ask>>

(* _cancel_local: only a run in this replica's _in_flight is interrupted,   *)
(* and one whose executor has returned already is not undone.               *)
Deliver(rep, r) ==
    /\ <<rep, r>> \in notices
    /\ notices' = notices \ {<<rep, r>>}
    /\ pc' = IF owner[r] = rep /\ pc[r] = "calling"
             THEN [pc EXCEPT ![r] = "interrupted"] ELSE pc
    /\ UNCHANGED <<store, task, owner, history, up, listening, ask>>

-----------------------------------------------------------------------------
(* Tasks.delete: the id is read, the lock taken, the rows deleted.          *)
DeleteLock(t) ==
    /\ "delete" \in Faults
    /\ t \in exists /\ lock[t] = None
    /\ lock' = [lock EXCEPT ![t] = Deleter]
    /\ UNCHANGED <<exists, leased, lapsed, flagged, task, owner, pc, history,
                   process, ask>>

DeleteCommit(t) ==
    /\ lock[t] = Deleter
    /\ lock' = [lock EXCEPT ![t] = None]
    /\ exists' = exists \ {t}
    /\ DropLeases(LeasesOf(t))
    /\ UNCHANGED <<task, owner, pc, history, process, ask>>

(* Mutant: a row without expires_at, which a dead firing keeps forever.     *)
LapseNever(r) ==
    /\ r \in leased \ lapsed /\ "lapse" \in Faults
    /\ lapsed' = lapsed \cup {r}
    /\ UNCHANGED <<exists, lock, leased, flagged, task, owner, pc, history,
                   process, ask>>

(* Time passes expires_at: of a firing that will not release its lease, or, *)
(* under "lapse", of one that is still at work.                             *)
Lapse(r) ==
    /\ r \in leased \ lapsed
    /\ pc[r] \in Ended \/ "lapse" \in Faults
    /\ lapsed' = lapsed \cup {r}
    /\ UNCHANGED <<exists, lock, leased, flagged, task, owner, pc, history,
                   process, ask>>

(* A connection that dies rolls its transaction back and frees its locks.   *)
FreeLocksOf(gone) ==
    lock' = [t \in Tasks |-> IF lock[t] \in gone THEN None ELSE lock[t]]

Crash(rep) ==
    LET gone == {r \in Runs : owner[r] = rep /\ pc[r] \notin Ended}
    IN  /\ "crash" \in Faults /\ rep \in up
        /\ up' = up \ {rep} /\ listening' = listening \ {rep}
        /\ notices' = notices \ ({rep} \X Runs)
        /\ pc' = [r \in Runs |-> IF r \in gone THEN "dead" ELSE pc[r]]
        /\ FreeLocksOf(gone)
        /\ UNCHANGED <<exists, leased, lapsed, flagged, task, owner, history, ask>>

Restart(rep) ==
    /\ rep \in Replicas \ up
    /\ up' = up \cup {rep} /\ listening' = listening \cup {rep}
    /\ UNCHANGED <<store, task, owner, pc, history, notices, ask>>

(* engine_hook cancels what did not drain. A cancelled firing releases its  *)
(* lease on the way out; one cancelled in the release itself does not.      *)
TearDown(r) ==
    /\ "teardown" \in Faults
    /\ \/ /\ pc[r] \in {"locking", "recording", "releasing", "withdrawn"} \cup InAcquire
          /\ pc' = [pc EXCEPT ![r] = "lost"]
          /\ FreeLocksOf({r})
       \/ /\ pc[r] \in {"leased", "queued", "admitted", "cleared", "calling", "returned"}
          /\ pc' = [pc EXCEPT ![r] = "aborting"]
          /\ UNCHANGED lock
    /\ UNCHANGED <<exists, leased, lapsed, flagged, task, owner, history,
                   process, ask>>

(* _subscribe: notifications sent while it is away are never seen.          *)
LoseListener(rep) ==
    /\ "deaf" \in Faults /\ rep \in listening
    /\ listening' = listening \ {rep}
    /\ notices' = notices \ ({rep} \X Runs)
    /\ UNCHANGED <<store, task, owner, pc, history, up, ask>>

Resubscribe(rep) ==
    /\ rep \in up \ listening
    /\ listening' = listening \cup {rep}
    /\ UNCHANGED <<store, task, owner, pc, history, up, notices, ask>>

-----------------------------------------------------------------------------
(* What a firing does by itself, the answer of the target left out.         *)
Advance(r) ==
    \/ AcquireLock(r) \/ AcquireCheck(r) \/ AcquireCount(r) \/ AcquireInsert(r)
    \/ CheckBeforeQueue(r) \/ Admit(r) \/ CheckAfterSlot(r) \/ Register(r)
    \/ Resume(r) \/ Release(r) \/ Record(r)

Next ==
    \/ \E r \in Runs, rep \in Replicas : Fire(r, rep) \/ Deliver(rep, r)
    \/ \E r \in Runs : \/ Advance(r) \/ ShowRunning(r) \/ Respond(r)
                       \/ Lapse(r) \/ TearDown(r)
                       \/ \E caller \in Callers : RequestCancel(r, caller)
    \/ \E t \in Tasks : DeleteLock(t) \/ DeleteCommit(t)
    \/ \E rep \in Replicas : \/ Crash(rep) \/ Restart(rep)
                             \/ LoseListener(rep) \/ Resubscribe(rep)

Spec == Init /\ [][Next]_vars

(* The event loop runs what is ready, Postgres answers, the sessions of the *)
(* store end. A call is answered or times out; but once a cancel that came  *)
(* while it was out is accepted, the target owes nothing any more.          *)
FairSpec ==
    /\ Spec
    /\ \A r \in Runs : /\ WF_vars(Advance(r))
                       /\ WF_vars(Lapse(r) /\ pc[r] \in Ended)
                       /\ WF_vars(Respond(r) /\ ask[r] # [reply |-> "accepted",
                                                           phase |-> "calling"])
    /\ \A rep \in Replicas, r \in Runs : WF_vars(Deliver(rep, r))
    /\ \A t \in Tasks : WF_vars(DeleteCommit(t))

-----------------------------------------------------------------------------
(* Safety.                                                                  *)

(* run_leases never holds more rows of a task than its limit: the lock      *)
(* orders every count with the insert that follows it.                      *)
LeaseRowsWithinLimit ==
    \A t \in Tasks : Cardinality(LeasesOf(t)) <= Limit

(* A lease never outlives its task. acquire_lease and delete each look at   *)
(* what the other writes, under one lock; nothing else would ever remove    *)
(* the row of a task that is gone.                                          *)
NoOrphanLease == \A r \in leased : task[r] \in exists

(* max_running_instances: no more firings of a task are at work at once,    *)
(* across replicas, restarts and deletes, than its limit.                   *)
InstancesWithinLimit ==
    \A t \in Tasks : Cardinality(LiveOf(t)) <= Limit

(* A cancel accepted before the slot was granted, or before the read that   *)
(* follows, stops the run without a call: the flag is read after every      *)
(* wait, so it does not matter that the NOTIFY found nothing to interrupt.  *)
EarlyCancelWithdraws ==
    \A r \in Runs :
        ask[r].reply = "accepted" /\ ask[r].phase \in {"leased", "queued", "admitted"}
            => pc[r] \notin {"cleared", "calling", "interrupted", "returned"}

(* A cancel accepted while the call is out has a notification on its way to *)
(* the replica that makes the call until that call is interrupted or over.  *)
InterruptOnItsWay ==
    \A r \in Runs :
        ask[r].reply = "accepted" /\ ask[r].phase = "calling" /\ pc[r] = "calling"
            => <<owner[r], r>> \in notices

(* A cancel that was accepted takes hold: at the next look at the flag, or  *)
(* by its notification.                                                     *)
CancelTakesHold == EarlyCancelWithdraws /\ InterruptOnItsWay

(* A firing is never both at work and beyond reach: a caller who names one  *)
(* that has its slot is not told that there is nothing to cancel.           *)
NoRefusalWhileLive ==
    [][\A r \in Runs : ask'[r] # ask[r] /\ pc[r] \in Live
                           => ask'[r].reply # "not_in_flight"]_vars

(* Liveness.                                                                *)

(* Every firing ends: none waits for a slot that nobody will give up, and   *)
(* none calls a target that never answers once its cancel was accepted. Its *)
(* own slot is given back, or can be pruned by the next firing that wants   *)
(* it, whatever dies on the way.                                            *)
FiringEnds == \A r \in Runs :
    /\ pc[r] = "locking" ~> pc[r] \in Ended
    /\ r \in leased ~> r \notin leased \/ r \in lapsed
=============================================================================
