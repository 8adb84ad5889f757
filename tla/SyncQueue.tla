------------------------------- MODULE SyncQueue -------------------------------
(***************************************************************************)
(* The resync of a project's deployments: a request queues a job unless    *)
(* one was queued moments ago, workers handle the entries they read one    *)
(* after the other, and the project shows what became of it.               *)
(* apps/api/src/imbi/api/deployment_sync; commit_sync and pr_sync are the  *)
(* same but for _renew_claim and the guard of the "queued" status.         *)
(*                                                                         *)
(* Left out: what a resync does, Valkey failing between two commands, and  *)
(* status writes that fail three times.                                    *)
(***************************************************************************)
EXTENDS ConsumerGroup

CONSTANTS
    SyncProjects,   \* projects
    Requesters,     \* requests to resync
    Syncers,        \* worker processes
    SyncFaults      \* of "fail", "limit", "crash", and "wait": in a batch for long

VARIABLES
    syncJob,        \* the project of each entry
    syncKey,        \* projects whose debounce key is set
    syncStatus,     \* deployment_sync_status
    requester,      \* where each request is
    syncer,         \* what each worker does: the batch, and its first entry
    syncPaused      \* PAUSE_KEY is set

syncVars == <<syncJob, syncKey, syncStatus, requester, syncer, syncPaused>>

NoProject == "none"
ASSUME SyncAssumption ==
    /\ NoProject \notin SyncProjects
    /\ SyncFaults \subseteq {"fail", "limit", "crash", "wait"}

Unasked == [at |-> "idle", project |-> NoProject, overtaken |-> FALSE]
Unbusy == [at |-> "idle", batch |-> {}, claimed |-> FALSE]

SyncInit ==
    /\ GroupInit
    /\ syncJob = [e \in Entries |-> NoProject]
    /\ syncKey = {} /\ syncPaused = FALSE
    /\ syncStatus = [p \in SyncProjects |-> "idle"]
    /\ requester = [r \in Requesters |-> Unasked]
    /\ syncer = [w \in Syncers |-> Unbusy]

(* A status write; a request that noted the time before is overtaken.      *)
SetStatus(p, status) ==
    /\ syncStatus' = [syncStatus EXCEPT ![p] = status]
    /\ requester' = [r \in Requesters |->
           IF requester[r].project = p THEN [requester[r] EXCEPT !.overtaken = TRUE]
                                       ELSE requester[r]]

(* resync_project_deployments: note the time, debounce, add, and write     *)
(* "queued" unless the status was written since.                           *)
AskResync(r, p) ==
    /\ requester[r].at = "idle"
    /\ requester' = [requester EXCEPT ![r] =
                        [at |-> "asked", project |-> p, overtaken |-> FALSE]]
    /\ UNCHANGED <<syncJob, syncKey, syncStatus, syncer, syncPaused, groupVars>>

Debounce(r) ==
    /\ requester[r].at = "asked"
    /\ requester' = [requester EXCEPT ![r] =
           IF requester[r].project \in syncKey THEN Unasked ELSE [@ EXCEPT !.at = "keyed"]]
    /\ syncKey' = syncKey \cup {requester[r].project}
    /\ UNCHANGED <<syncJob, syncStatus, syncer, syncPaused, groupVars>>

AddResync(r) ==
    /\ requester[r].at = "keyed"
    /\ XAdd
    /\ syncJob' = [syncJob EXCEPT ![added'] = requester[r].project]
    /\ requester' = [requester EXCEPT ![r].at = "added"]
    /\ UNCHANGED <<syncKey, syncStatus, syncer, syncPaused>>

(* Mutant: no guard.                                                       *)
QueuedAnyway(r) == TRUE

(* only_if_before: nobody wrote a status since the request began.          *)
Guarded(r) == ~requester[r].overtaken

WriteQueued(r) ==
    /\ requester[r].at = "added"
    /\ syncStatus' = IF Guarded(r)
                     THEN [syncStatus EXCEPT ![requester[r].project] = "queued"]
                     ELSE syncStatus
    /\ requester' = [requester EXCEPT ![r] = Unasked]
    /\ UNCHANGED <<syncJob, syncKey, syncer, syncPaused, groupVars>>

KeyExpires ==
    /\ syncKey # {} /\ \E p \in syncKey : syncKey' = syncKey \ {p}
    /\ UNCHANGED <<syncJob, syncStatus, requester, syncer, syncPaused, groupVars>>

(* The consumer loop: stale entries first, then new ones, 16 at most.      *)
TakeBatch(w, es, claimed) ==
    /\ syncer[w].at = "idle" /\ ~syncPaused
    /\ syncer' = [syncer EXCEPT ![w] = [at |-> "next", batch |-> es, claimed |-> claimed]]
    /\ UNCHANGED <<syncJob, syncKey, syncStatus, requester, syncPaused>>

ReadResyncs(w) == \E es \in SUBSET unread : XReadGroup(es, 16) /\ TakeBatch(w, es, FALSE)

(* The entry that is being handled has its claim renewed; the others of    *)
(* the batch go stale when they wait too long.                             *)
AtEntry(w) == CHOOSE e \in syncer[w].batch : \A f \in syncer[w].batch : e <= f
Fresh(w) == IF syncer[w].batch = {} \/ "wait" \notin SyncFaults THEN syncer[w].batch
            ELSE {AtEntry(w)}
Stale == Pending \ UNION {Fresh(w) : w \in Syncers}

ClaimResyncs(w) == \E es \in SUBSET Stale : XAutoClaim(es) /\ TakeBatch(w, es, TRUE)

NextEntry(w) ==
    LET left == syncer[w].batch \ {AtEntry(w)}
    IN  syncer' = [syncer EXCEPT ![w] =
            IF left = {} THEN Unbusy ELSE [@ EXCEPT !.at = "next", !.batch = left]]

ToDrop(w) == syncer[w].claimed /\ Spent(AtEntry(w))

DropResync(w) ==
    /\ syncer[w].at = "next" /\ ToDrop(w)
    /\ DeadLetter(AtEntry(w))
    /\ NextEntry(w)
    /\ UNCHANGED <<syncJob, syncKey, syncStatus, requester, syncPaused>>

StartResync(w) ==
    /\ syncer[w].at = "next" /\ ~ToDrop(w)
    /\ SetStatus(syncJob[AtEntry(w)], "running")
    /\ syncer' = [syncer EXCEPT ![w].at = "running"]
    /\ UNCHANGED <<syncJob, syncKey, syncPaused, groupVars>>

(* run_resync has ended, or the project cannot be synced at all.           *)
EndResync(w) ==
    /\ syncer[w].at = "running"
    /\ \E status \in {"success", "failed"} : SetStatus(syncJob[AtEntry(w)], status)
    /\ syncer' = [syncer EXCEPT ![w].at = "done"]
    /\ UNCHANGED <<syncJob, syncKey, syncPaused, groupVars>>

AckResync(w) ==
    /\ syncer[w].at = "done"
    /\ XAck(AtEntry(w))
    /\ NextEntry(w)
    /\ UNCHANGED <<syncJob, syncKey, syncStatus, requester, syncPaused>>

(* It raised: the entry stays pending, and the worker goes on.             *)
ResyncFails(w) ==
    /\ "fail" \in SyncFaults /\ syncer[w].at = "running"
    /\ SetStatus(syncJob[AtEntry(w)], "failed")
    /\ NextEntry(w)
    /\ UNCHANGED <<syncJob, syncKey, syncPaused, groupVars>>

(* A rate limit: the entry stays pending with the rest of the batch.       *)
ResyncLimited(w) ==
    /\ "limit" \in SyncFaults /\ syncer[w].at = "running"
    /\ SetStatus(syncJob[AtEntry(w)], "queued")
    /\ syncPaused' = TRUE
    /\ syncer' = [syncer EXCEPT ![w] = Unbusy]
    /\ UNCHANGED <<syncJob, syncKey, groupVars>>

SyncPauseEnds ==
    /\ syncPaused /\ syncPaused' = FALSE
    /\ UNCHANGED <<syncJob, syncKey, syncStatus, requester, syncer, groupVars>>

CrashSyncer(w) ==
    /\ "crash" \in SyncFaults /\ syncer[w].at # "idle"
    /\ syncer' = [syncer EXCEPT ![w] = Unbusy]
    /\ UNCHANGED <<syncJob, syncKey, syncStatus, requester, syncPaused, groupVars>>

SyncerStep(w) ==
    \/ ReadResyncs(w) \/ ClaimResyncs(w) \/ DropResync(w)
    \/ StartResync(w) \/ EndResync(w) \/ AckResync(w)

RequesterStep(r) == Debounce(r) \/ AddResync(r) \/ WriteQueued(r)

SyncNext ==
    \/ \E r \in Requesters : RequesterStep(r) \/ \E p \in SyncProjects : AskResync(r, p)
    \/ \E w \in Syncers : \/ SyncerStep(w) \/ ResyncFails(w) \/ ResyncLimited(w)
                          \/ CrashSyncer(w)
    \/ KeyExpires \/ SyncPauseEnds

SyncSpec == SyncInit /\ [][SyncNext]_<<syncVars, groupVars>>
-----------------------------------------------------------------------------
(* The types; a worker with a batch is at one of its entries.              *)
SyncTypeOK ==
    /\ \A e \in Entries : (e <= added) = (syncJob[e] # NoProject)
    /\ syncStatus \in [SyncProjects -> {"idle", "queued", "running", "success", "failed"}]
    /\ \A w \in Syncers :
          /\ syncer[w].batch \subseteq 1..added
          /\ (syncer[w].at = "idle") = (syncer[w].batch = {})

(* A project of which no job is left, and none was dead-lettered, does not *)
(* show one as queued or running: the endpoint's late write of "queued"    *)
(* never lands on top of a run that has gone through meanwhile.            *)
LiveOf(p) == {e \in unread \cup Pending \cup dead : syncJob[e] = p}
Settled == \A p \in SyncProjects :
    /\ LiveOf(p) = {}
    /\ \A r \in Requesters : requester[r].project # p
    /\ \A w \in Syncers : p \notin {syncJob[e] : e \in syncer[w].batch}
    => syncStatus[p] \in {"idle", "success", "failed"}
=============================================================================
