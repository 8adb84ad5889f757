------------------------------ MODULE PromoteWatch ------------------------------
(***************************************************************************)
(* The watch over a promote: the endpoint dispatches a release build and   *)
(* queues a job; a worker polls the build, blocks the release or creates   *)
(* the Deployment, polls its rollout and records the outcome.              *)
(* apps/api/src/imbi/api/release_promote and endpoints/project_deployments *)
(*                                                                         *)
(* An entry of the queue is a promote of one project. An entry may be      *)
(* claimed when nobody has renewed it for CLAIM_IDLE_MS. Left out: healing *)
(* of committishes and links, notes, the operations log, payloads that     *)
(* cannot be parsed, runs without an id, promotes without a Deployment,    *)
(* and status writes that fail.                                            *)
(***************************************************************************)
EXTENDS ConsumerGroup, Sequences

CONSTANTS
    Watchers,       \* worker processes
    MaxConcurrent,  \* MAX_CONCURRENT
    MaxRollouts,    \* bound: Deployments on the remote
    PromoteFaults   \* of the set below

ASSUME PromoteAssumption ==
    /\ MaxConcurrent \in Nat \ {0} /\ MaxRollouts \in Nat
    /\ PromoteFaults \subseteq
         {"crash",      \* a worker dies while it watches
          "abandon",    \* it dies after the dead-lettering, before the status
          "fail",       \* a call raises
          "limit",      \* the remote limits the rate
          "webhook",    \* the gateway reports rollouts too
          "early",      \* the endpoint is slow to answer
          "stall"}      \* a claim is not renewed in time

VARIABLES
    asked,      \* where the endpoint is with each promote
    build,      \* the workflow run of each promote, on the remote
    promoteStatus,  \* promote_status on the project, and which promote wrote it
    blocked,    \* promotes whose release has a build-failure blocker
    rollouts,   \* the Deployments on the remote, with their nodes here
    watch,      \* what each worker does with each promote: in_flight
    abandoning, \* promotes that a worker has dead-lettered, and not yet marked
    paused      \* PAUSE_KEY is set

promoteVars == <<asked, build, promoteStatus, blocked, rollouts, watch, abandoning,
                 paused>>

Ended == {"success", "failure"}         \* TERMINAL_STATUSES, less cancelled
Away == [at |-> "none", run |-> 0]

PromoteInit ==
    /\ GroupInit
    /\ asked = [e \in Entries |-> "no"]
    /\ build = [e \in Entries |-> "none"]
    /\ promoteStatus = [of |-> 0, state |-> "idle"]
    /\ blocked = {} /\ rollouts = <<>> /\ paused = FALSE
    /\ watch = [w \in Watchers |-> [e \in Entries |-> Away]]
    /\ abandoning = [w \in Watchers |-> {}]

Mark(e, state) == promoteStatus' = [of |-> e, state |-> state]
Go(w, e, at) == watch' = [watch EXCEPT ![w][e].at = at]
Leave(w, e) == watch' = [watch EXCEPT ![w][e] = Away]

(* _dispatch_release_build: dispatch and XADD, and then the status.        *)
StartPromote ==
    /\ XAdd
    /\ asked' = [asked EXCEPT ![added'] = "queued"]
    /\ build' = [build EXCEPT ![added'] = "running"]
    /\ UNCHANGED <<promoteStatus, blocked, rollouts, watch, abandoning, paused>>

AnswerPromote(e) ==
    /\ asked[e] = "queued"
    /\ asked' = [asked EXCEPT ![e] = "answered"]
    /\ Mark(e, "building")
    /\ UNCHANGED <<build, blocked, rollouts, watch, abandoning, paused, groupVars>>

(* No build ends and no claim goes stale before the endpoint has answered. *)
Answered(e) == asked[e] = "answered" \/ "early" \in PromoteFaults

(* The remote.                                                             *)
BuildEnds(e) ==
    /\ build[e] = "running"
    /\ Answered(e)
    /\ \E r \in Ended : build' = [build EXCEPT ![e] = r]
    /\ UNCHANGED <<asked, promoteStatus, blocked, rollouts, watch, abandoning, paused,
                   groupVars>>

RolloutEnds(r) ==
    /\ rollouts[r].remote = "running"
    /\ \E o \in Ended : rollouts' = [rollouts EXCEPT ![r].remote = o]
    /\ UNCHANGED <<asked, build, promoteStatus, blocked, watch, abandoning, paused,
                   groupVars>>

(* upsert_deployment: the first writer is the origin, the last one wins;   *)
(* the history of the node keeps that it was closed.                       *)
NodeStatus(remote) == CASE remote = "running" -> "in_progress"
                        [] remote = "success" -> "success"
                        [] remote = "failure" -> "failed"
Upsert(r, status, source) ==
    rollouts' = [rollouts EXCEPT ![r].node = status,
                                 ![r].origin = IF @ = "none" THEN source ELSE @,
                                 ![r].closed = @ \/ status # "in_progress"]

(* record_unattached_deployment, for the gateway: the start or the end of a *)
(* rollout, late and more than once; a late start reopens a closed node.   *)
Webhook(r) ==
    /\ "webhook" \in PromoteFaults
    /\ \E report \in {"in_progress", NodeStatus(rollouts[r].remote)} :
           report # rollouts[r].node /\ Upsert(r, report, "gateway")
    /\ UNCHANGED <<asked, build, promoteStatus, blocked, watch, abandoning, paused,
                   groupVars>>

(* consume_release_promote: entries are spawned while slots are free.      *)
InFlight(w) == {e \in Entries : watch[w][e].at # "none"}
Free(w) == ~paused /\ Cardinality(InFlight(w)) < MaxConcurrent
Spawn(w, e) == watch' = [watch EXCEPT ![w][e] =
                             IF e \in InFlight(w) THEN @ ELSE [Away EXCEPT !.at = "build"]]

ReadPromote(w) ==
    /\ Free(w)
    /\ \E e \in unread : XReadGroup({e}, 1) /\ Spawn(w, e)
    /\ UNCHANGED <<asked, build, promoteStatus, blocked, rollouts, abandoning, paused>>

(* Mutant: no renewal.                                                     *)
RenewedNever(e) == FALSE

(* _renew_claim: an entry stays fresh while a worker drives it.            *)
Renewed(e) == \E w \in Watchers : e \in InFlight(w)
MayClaim(w, e) ==
    /\ Free(w) /\ e \in Pending
    /\ Renewed(e) => "stall" \in PromoteFaults
    /\ Answered(e)

ClaimPromote(w, e) ==
    /\ MayClaim(w, e) /\ deliveries[e] + 1 < MaxDeliveries
    /\ XAutoClaim({e}) /\ Spawn(w, e)
    /\ UNCHANGED <<asked, build, promoteStatus, blocked, rollouts, abandoning, paused>>

(* Mutant: one delivery more, which no claim makes.                        *)
RetireLater(w, e) ==
    /\ MayClaim(w, e) /\ deliveries[e] + 1 > MaxDeliveries
    /\ DeadLetter(e)
    /\ abandoning' = [abandoning EXCEPT ![w] = @ \cup {e}]
    /\ UNCHANGED <<asked, build, promoteStatus, blocked, rollouts, watch, paused>>

(* _maybe_dead_letter: the claim was the last delivery.                    *)
RetirePromote(w, e) ==
    /\ MayClaim(w, e) /\ deliveries[e] + 1 >= MaxDeliveries
    /\ DeadLetter(e)
    /\ abandoning' = [abandoning EXCEPT ![w] = @ \cup {e}]
    /\ UNCHANGED <<asked, build, promoteStatus, blocked, rollouts, watch, paused>>

(* The XADD or the XACK of _maybe_dead_letter raises: the consumer loop    *)
(* ends, and its watches with it. The entry stays pending. Only a restart  *)
(* brings the worker back; here it may go on at once, or never.            *)
RetireRaises(w, e) ==
    /\ "fail" \in PromoteFaults /\ abandoning[w] = {}
    /\ MayClaim(w, e) /\ deliveries[e] + 1 >= MaxDeliveries
    /\ deliveries' = [deliveries EXCEPT ![e] = MaxDeliveries]
    /\ dead' \in {dead, dead \cup {e}}
    /\ watch' = [watch EXCEPT ![w] = [other \in Entries |-> Away]]
    /\ UNCHANGED <<asked, build, promoteStatus, blocked, rollouts, abandoning, paused,
                   added, unread>>

(* Mutant: the project shows nothing of it.                                *)
AbandonSilently(w, e) ==
    /\ e \in abandoning[w]
    /\ abandoning' = [abandoning EXCEPT ![w] = @ \ {e}]
    /\ UNCHANGED <<asked, build, promoteStatus, blocked, rollouts, watch, paused,
                   groupVars>>

(* _mark_abandoned: close_in_flight, best effort, then the status.         *)
Abandon(w, e) ==
    /\ e \in abandoning[w]
    /\ abandoning' = [abandoning EXCEPT ![w] = @ \ {e}]
    /\ \/ "fail" \in PromoteFaults /\ UNCHANGED rollouts
       \/ rollouts' = [r \in DOMAIN rollouts |->
              IF rollouts[r].of = e /\ rollouts[r].node = "in_progress"
              THEN [rollouts[r] EXCEPT !.node = "failed", !.closed = TRUE] ELSE rollouts[r]]
    /\ Mark(e, "failed")
    /\ UNCHANGED <<asked, build, blocked, watch, paused, groupVars>>

(* run_watch, the build: a poll; the release is blocked when it failed or  *)
(* took too long.                                                          *)
PollRunning(w, e) ==
    /\ watch[w][e].at = "build" /\ build[e] = "running"
    /\ Mark(e, "building")
    /\ UNCHANGED <<asked, build, blocked, rollouts, watch, abandoning, paused, groupVars>>

PollFailure(w, e) ==
    /\ watch[w][e].at = "build" /\ build[e] # "success"
    /\ build[e] = "running" => Answered(e)          \* the time is up
    /\ blocked' = blocked \cup {e}
    /\ Go(w, e, "build_failed")
    /\ UNCHANGED <<asked, build, promoteStatus, rollouts, abandoning, paused, groupVars>>

PollSuccess(w, e) ==
    /\ watch[w][e].at = "build" /\ build[e] = "success"
    /\ Mark(e, "deploying")
    /\ Go(w, e, "complete")
    /\ UNCHANGED <<asked, build, blocked, rollouts, abandoning, paused, groupVars>>

(* Mutant: a reclaimed job dispatches again.                               *)
TriggerAlways(w, e) ==
    /\ watch[w][e].at = "complete"
    /\ Go(w, e, "trigger")
    /\ UNCHANGED <<asked, build, promoteStatus, blocked, rollouts, abandoning, paused,
                   groupVars>>

(* complete_promote_build: reuse the latest that an earlier delivery has   *)
(* started, as far as its node tells.                                      *)
Reusable(e) == {r \in DOMAIN rollouts :
    rollouts[r].of = e /\ rollouts[r].node = "in_progress" /\ rollouts[r].origin = "promote"}

LookForDeployment(w, e) ==
    /\ watch[w][e].at = "complete"
    /\ IF Reusable(e) = {} THEN Go(w, e, "trigger")
       ELSE \E r \in Reusable(e) :
                /\ \A other \in Reusable(e) : other <= r
                /\ watch' = [watch EXCEPT ![w][e] = [at |-> "rollout", run |-> r]]
    /\ UNCHANGED <<asked, build, promoteStatus, blocked, rollouts, abandoning, paused,
                   groupVars>>

TriggerDeployment(w, e) ==
    /\ watch[w][e].at = "trigger" /\ Len(rollouts) < MaxRollouts
    /\ rollouts' = Append(rollouts, [of |-> e, remote |-> "running", node |-> "none",
                                     origin |-> "none", closed |-> FALSE])
    /\ watch' = [watch EXCEPT ![w][e] = [at |-> "record", run |-> Len(rollouts')]]
    /\ UNCHANGED <<asked, build, promoteStatus, blocked, abandoning, paused, groupVars>>

RecordDeployment(w, e) ==
    /\ watch[w][e].at = "record"
    /\ \/ Upsert(watch[w][e].run, "in_progress", "promote")
       \/ "fail" \in PromoteFaults /\ UNCHANGED rollouts      \* best effort
    /\ Go(w, e, "rollout")
    /\ UNCHANGED <<asked, build, promoteStatus, blocked, abandoning, paused, groupVars>>

(* _watch_rollout: poll, close the node, write the status.                 *)
PollRollout(w, e) ==
    /\ watch[w][e].at = "rollout" /\ rollouts[watch[w][e].run].remote = "running"
    /\ Mark(e, "deploying")
    /\ UNCHANGED <<asked, build, blocked, rollouts, watch, abandoning, paused, groupVars>>

GiveUpRollout(w, e) ==
    /\ watch[w][e].at = "rollout" /\ rollouts[watch[w][e].run].remote = "running"
    /\ Go(w, e, "late")
    /\ UNCHANGED <<asked, build, promoteStatus, blocked, rollouts, abandoning, paused,
                   groupVars>>

CloseDeployment(w, e) ==
    LET r == watch[w][e].run
        ok == watch[w][e].at = "rollout" /\ rollouts[r].remote = "success"
    IN  /\ \/ watch[w][e].at = "rollout" /\ rollouts[r].remote \in Ended
           \/ watch[w][e].at = "late"
        /\ \/ Upsert(r, IF ok THEN "success" ELSE "failed", "promote-watcher")
           \/ "fail" \in PromoteFaults /\ UNCHANGED rollouts      \* best effort
        /\ Go(w, e, IF ok THEN "success" ELSE "deploy_failed")
        /\ UNCHANGED <<asked, build, promoteStatus, blocked, abandoning, paused, groupVars>>

(* The states a watch ends in; then the entry is acked.                    *)
Outcomes == {"success", "build_failed", "deploy_failed", "failed"}

MarkOutcome(w, e) ==
    /\ watch[w][e].at \in Outcomes
    /\ Mark(e, watch[w][e].at)
    /\ Go(w, e, "ack")
    /\ UNCHANGED <<asked, build, blocked, rollouts, abandoning, paused, groupVars>>

AckPromote(w, e) ==
    /\ watch[w][e].at = "ack"
    /\ XAck(e) /\ Leave(w, e)
    /\ UNCHANGED <<asked, build, promoteStatus, blocked, rollouts, abandoning, paused>>

(* _run_job: what a poll of the build raises leaves the entry pending, and *)
(* a rate limit pauses the workers; later, any exception ends the watch.   *)
PollRaises(w, e) ==
    /\ watch[w][e].at = "build"
    /\ \/ "fail" \in PromoteFaults /\ UNCHANGED paused
       \/ "limit" \in PromoteFaults /\ paused' = TRUE
    /\ Leave(w, e)
    /\ UNCHANGED <<asked, build, promoteStatus, blocked, rollouts, abandoning, groupVars>>

CompletionRaises(w, e) ==
    /\ PromoteFaults \cap {"fail", "limit"} # {}
    /\ watch[w][e].at \in {"complete", "trigger", "rollout"}
    /\ Go(w, e, "failed")
    /\ UNCHANGED <<asked, build, promoteStatus, blocked, rollouts, abandoning, paused,
                   groupVars>>

PauseEnds ==
    /\ paused /\ paused' = FALSE
    /\ UNCHANGED <<asked, build, promoteStatus, blocked, rollouts, watch, abandoning,
                   groupVars>>

CrashWatcher(w) ==
    /\ "crash" \in PromoteFaults
    /\ InFlight(w) # {} \/ abandoning[w] # {}
    /\ abandoning[w] # {} => "abandon" \in PromoteFaults
    /\ watch' = [watch EXCEPT ![w] = [e \in Entries |-> Away]]
    /\ abandoning' = [abandoning EXCEPT ![w] = {}]
    /\ UNCHANGED <<asked, build, promoteStatus, blocked, rollouts, paused, groupVars>>

WatchStep(w, e) ==
    \/ ClaimPromote(w, e) \/ RetirePromote(w, e) \/ Abandon(w, e)
    \/ PollFailure(w, e) \/ PollSuccess(w, e)
    \/ LookForDeployment(w, e) \/ TriggerDeployment(w, e) \/ RecordDeployment(w, e)
    \/ GiveUpRollout(w, e) \/ CloseDeployment(w, e) \/ MarkOutcome(w, e) \/ AckPromote(w, e)

PromoteNext ==
    \/ StartPromote \/ PauseEnds
    \/ \E e \in Entries : AnswerPromote(e) \/ BuildEnds(e)
    \/ \E r \in DOMAIN rollouts : RolloutEnds(r) \/ Webhook(r)
    \/ \E w \in Watchers :
         \/ ReadPromote(w) \/ CrashWatcher(w)
         \/ \E e \in Entries : \/ WatchStep(w, e) \/ PollRunning(w, e) \/ PollRollout(w, e)
                               \/ PollRaises(w, e) \/ CompletionRaises(w, e)
                               \/ RetireRaises(w, e)

PromoteSpec == PromoteInit /\ [][PromoteNext]_<<promoteVars, groupVars>>
-----------------------------------------------------------------------------
(* The types; a Deployment that has a node has an origin.                  *)
PromoteTypeOK ==
    /\ asked \in [Entries -> {"no", "queued", "answered"}]
    /\ blocked \subseteq 1..added
    /\ \A r \in DOMAIN rollouts :
          /\ rollouts[r].of \in 1..added
          /\ (rollouts[r].node = "none") = (rollouts[r].origin = "none")
    /\ \A w \in Watchers, e \in Entries :
          /\ watch[w][e].run \in 0..Len(rollouts)
          /\ e \in InFlight(w) => e <= added

(* A job that runs again watches the Deployment that an earlier delivery   *)
(* recorded: a promote has a second Deployment only if every earlier one   *)
(* was never recorded by the watch (it died or failed between the dispatch *)
(* and the record, or the gateway was first), or its node was closed.      *)
RecordedIsReused == \A r, s \in DOMAIN rollouts :
    r < s /\ rollouts[r].of = rollouts[s].of
    => rollouts[r].origin # "promote" \/ rollouts[r].closed

(* The project never shows a promote as going on that nobody watches any   *)
(* more (_mark_abandoned: "so the UI stops showing building").       *)
NoSpinner == \A e \in Entries :
    /\ promoteStatus.of = e /\ asked[e] = "answered"
    /\ e \notin unread \cup Pending
    /\ \A w \in Watchers : e \notin abandoning[w]
    => promoteStatus.state \in Outcomes

(* Every watch ends: its entry is acked or dead-lettered, whatever dies,   *)
(* raises or is limited on the way.                                        *)
WatchEnds == \A e \in Entries :
    asked[e] = "answered" ~> e \notin unread \cup Pending

(* "re-running one re-polls the same run id and converges on the same      *)
(* outcome" (queue.py): what is deployed is not deployed again.            *)
DeployedOnce == [][Len(rollouts') > Len(rollouts) =>
    \A r \in DOMAIN rollouts :
        rollouts[r].of = rollouts'[Len(rollouts')].of => rollouts[r].node # "success"]_rollouts
=============================================================================
