----------------------------- MODULE SecretLeases -----------------------------
(***************************************************************************)
(* The secret broker: the resolutions of one task on one runner, the       *)
(* leases that the provider gives for them, and everybody who takes them   *)
(* back. apps/api/src/imbi/api/secret_broker/broker.py.                    *)
(*                                                                         *)
(* The provider is asked between two transactions, so the first one takes  *)
(* the handle and marks the row, and the second looks again before the     *)
(* material is given. Rows are locked by a fencer from its first statement *)
(* to its commit; every other transaction is one action.                   *)
(*                                                                         *)
(* Abstracted: grants, bindings and providers (a request that they refuse  *)
(* changes nothing), handles and nonces (a resolution is materialized      *)
(* once, and other requests for it are refused), audit and task events,    *)
(* material without a lease, and which retries of the sweep are due.       *)
(***************************************************************************)
EXTENDS Integers, FiniteSets

CONSTANTS
    Resolutions,    \* resolution ids
    Releasers,      \* requests that release or revoke
    Hooks,          \* the close hook of the task
    SecretSweepers, \* instances that sweep the broker
    Fencers,        \* instances that sweep the runners, and fence
    SecretFaults    \* of the set below

ASSUME SecretsAssumption ==
    /\ "none" \notin Resolutions
    /\ Fencers \cap (Releasers \cup Hooks \cup SecretSweepers) = {}
    /\ SecretFaults \subseteq
         {"crash",      \* a process dies
          "refuse",     \* the provider does not answer a revocation
          "save"}       \* Postgres is away for a transaction

VARIABLES
    taskClosed,     \* tasks.status is closed
    runnerLost,     \* the runner is neither idle nor busy, for ever
    resolution,     \* secrets.resolutions: state, count, mark and revocation
    late,           \* resolutions past expires_at
    lease,          \* the lease at the provider
    given,          \* resolutions whose material the runner has got
    call,           \* the create or materialize request of each resolution
    errand,         \* what each revoker is at
    fencersOk       \* fencers_ok_at is set: a fencer has returned True

secretVars == <<taskClosed, runnerLost, resolution, late, lease, given, call, errand,
                fencersOk>>

Revokers == Releasers \cup Hooks \cup SecretSweepers \cup Fencers
NoRow == [state |-> "absent", used |-> FALSE, mark |-> "none",
          revocation |-> "not_applicable"]
Errand(at, todo) == [at |-> at, todo |-> todo, of |-> "none", done |-> FALSE, ok |-> TRUE]
NoErrand == Errand("none", {})

SecretsInit ==
    /\ taskClosed = FALSE /\ runnerLost = FALSE
    /\ resolution = [r \in Resolutions |-> NoRow]
    /\ late = {} /\ given = {} /\ fencersOk = FALSE
    /\ lease = [r \in Resolutions |-> "none"]
    /\ call = [r \in Resolutions |-> "none"]
    /\ errand = [a \in Revokers |-> NoErrand]

Active == {r \in Resolutions : resolution[r].state = "active"}
Over(r) == resolution[r].state \in {"released", "expired", "failed"}
(* revocation_state IN ('pending', 'failed')                               *)
Unrevoked == {r \in Resolutions : resolution[r].revocation \in {"pending", "failed"}}
Unlocked(r) == \A f \in Fencers : errand[f].at = "locked" => r \notin errand[f].todo

(* The task closes; its hook is called after the commit.                   *)
EndTask ==
    /\ ~taskClosed /\ taskClosed' = TRUE
    /\ errand' = [a \in Revokers |->
           IF a \in Hooks THEN Errand("due", {}) ELSE errand[a]]
    /\ UNCHANGED <<runnerLost, resolution, late, lease, given, call, fencersOk>>

(* expire_leases of the runner pool. A lost runner comes back as another.  *)
LoseRunner ==
    /\ ~runnerLost /\ runnerLost' = TRUE
    /\ UNCHANGED <<taskClosed, resolution, late, lease, given, call, errand, fencersOk>>

(* create_resolution. Authentication has looked at the runner before.      *)
SendCreate(r) ==
    /\ call[r] = "none" /\ resolution[r].state = "absent" /\ ~runnerLost
    /\ call' = [call EXCEPT ![r] = "creating"]
    /\ UNCHANGED <<taskClosed, runnerLost, resolution, late, lease, given, errand,
                   fencersOk>>

CreateResolution(r) ==
    /\ call[r] = "creating"
    /\ call' = [call EXCEPT ![r] = "none"]
    /\ resolution' = [resolution EXCEPT ![r].state =
                          IF taskClosed THEN @ ELSE "active"]
    /\ UNCHANGED <<taskClosed, runnerLost, late, lease, given, errand, fencersOk>>

(* materialize.                                                            *)
SendMaterialize(r) ==
    /\ call[r] = "none" /\ ~runnerLost
    /\ resolution[r].state # "absent" /\ ~resolution[r].used
    /\ call' = [call EXCEPT ![r] = "sent"]
    /\ UNCHANGED <<taskClosed, runnerLost, resolution, late, lease, given, errand,
                   fencersOk>>

(* materialize, up to its first commit.                                    *)
TakeHandle(r) ==
    /\ call[r] = "sent" /\ Unlocked(r)
    /\ IF resolution[r].state = "active" /\ r \notin late /\ ~taskClosed
       THEN /\ resolution' = [resolution EXCEPT ![r] = [@ EXCEPT !.used = TRUE, !.mark = "fresh"]]
            /\ call' = [call EXCEPT ![r] = "asking"]
       ELSE /\ call' = [call EXCEPT ![r] = "none"]
            /\ UNCHANGED resolution
    /\ UNCHANGED <<taskClosed, runnerLost, late, lease, given, errand, fencersOk>>

(* _resolve: the provider gives a lease, or fails.                         *)
Issue(r) ==
    /\ call[r] = "asking"
    /\ \/ lease' = [lease EXCEPT ![r] = "live"] /\ call' = [call EXCEPT ![r] = "issued"]
       \/ UNCHANGED lease /\ call' = [call EXCEPT ![r] = "failing"]
    /\ UNCHANGED <<taskClosed, runnerLost, resolution, late, given, errand, fencersOk>>

(* _still_usable                                                           *)
StillUsable(r) == resolution[r].state = "active" /\ ~taskClosed /\ ~runnerLost

(* _finish: the lease is kept, and the material given, unless the          *)
(* credential is past its own expiry.                                      *)
KeepLease(r) ==
    /\ call[r] = "issued" /\ Unlocked(r)
    /\ StillUsable(r)
    /\ resolution' = [resolution EXCEPT ![r] =
                          [@ EXCEPT !.mark = "none", !.revocation = "pending"]]
    /\ \/ given' = given \cup {r} /\ call' = [call EXCEPT ![r] = "none"]
       \/ UNCHANGED given /\ call' = [call EXCEPT ![r] = "failing"]
    /\ UNCHANGED <<taskClosed, runnerLost, late, lease, errand, fencersOk>>

(* _finish: it is not usable any more, or its transaction is lost.         *)
DropLease(r) ==
    /\ call[r] = "issued" /\ Unlocked(r)
    /\ \/ ~StillUsable(r) /\ resolution' = [resolution EXCEPT ![r].mark = "none"]
       \/ "save" \in SecretFaults /\ UNCHANGED resolution
    /\ call' = [call EXCEPT ![r] = "unsaved"]
    /\ UNCHANGED <<taskClosed, runnerLost, late, lease, given, errand, fencersOk>>

RevokeUnsaved(r) ==
    /\ call[r] = "unsaved"
    /\ \/ lease' = [lease EXCEPT ![r] = "revoked"]
       \/ "refuse" \in SecretFaults /\ lease' = [lease EXCEPT ![r] = "orphan"]
    /\ call' = [call EXCEPT ![r] = "failing"]
    /\ UNCHANGED <<taskClosed, runnerLost, resolution, late, given, errand, fencersOk>>

(* _fail                                                                   *)
Failed(r) == IF resolution[r].state = "active" THEN "failed" ELSE resolution[r].state

Fail(r) ==
    /\ call[r] = "failing" /\ Unlocked(r)
    /\ \/ resolution' = [resolution EXCEPT ![r] =
               [@ EXCEPT !.mark = "none", !.state = Failed(r)]]
       \/ "save" \in SecretFaults /\ UNCHANGED resolution
    /\ call' = [call EXCEPT ![r] = "none"]
    /\ UNCHANGED <<taskClosed, runnerLost, late, lease, given, errand, fencersOk>>

(* A lease that only a dead process knew of is an orphan.                  *)
CrashCall(r) ==
    /\ "crash" \in SecretFaults /\ call[r] \notin {"none", "creating", "sent"}
    /\ call' = [call EXCEPT ![r] = "none"]
    /\ lease' = [lease EXCEPT ![r] =
           IF call[r] \in {"issued", "unsaved"} THEN "orphan" ELSE @]
    /\ UNCHANGED <<taskClosed, runnerLost, resolution, late, given, errand, fencersOk>>

(* expires_at passes, and MATERIALIZE_TIMEOUT, on a slow call too.         *)
Expires(r) ==
    /\ resolution[r].state # "absent" /\ r \notin late
    /\ late' = late \cup {r}
    /\ UNCHANGED <<taskClosed, runnerLost, resolution, lease, given, call, errand,
                   fencersOk>>

MarkAges(r) ==
    /\ resolution[r].mark = "fresh"
    /\ resolution' = [resolution EXCEPT ![r].mark = "old"]
    /\ UNCHANGED <<taskClosed, runnerLost, late, lease, given, call, errand, fencersOk>>

(* A transaction ends rows, and its process goes on to revoke leases.      *)
Ending(rs, state) ==
    resolution' = [r \in Resolutions |->
        IF r \in rs THEN [resolution[r] EXCEPT !.state = state] ELSE resolution[r]]
SetOut(a, todo) == errand' = [errand EXCEPT ![a] = Errand("revoking", todo)]

(* release, by the executor or by a person.                                *)
ReleaseResolution(a, r) ==
    /\ errand[a].at = "none" /\ resolution[r].state # "absent" /\ Unlocked(r)
    /\ Ending({r} \cap Active, "released")
    /\ SetOut(a, {r} \cap Unrevoked)
    /\ UNCHANGED <<taskClosed, runnerLost, late, lease, given, call, fencersOk>>

(* revoke_provider_lease: the resolution may go on.                        *)
RevokeNow(a, r) ==
    /\ errand[a].at = "none" /\ r \in Unrevoked
    /\ SetOut(a, {r})
    /\ UNCHANGED <<taskClosed, runnerLost, resolution, late, lease, given, call,
                   fencersOk>>

(* release_task_resolutions                                                *)
RunHook(a) ==
    /\ errand[a].at = "due" /\ \A r \in Active : Unlocked(r)
    /\ Ending(Active, "released")
    /\ SetOut(a, {r \in Active : resolution[r].revocation = "pending"})
    /\ UNCHANGED <<taskClosed, runnerLost, late, lease, given, call, fencersOk>>

(* Mutant: what has failed is not tried again.                             *)
RetriableOnce == {r \in Resolutions : Over(r) /\ resolution[r].revocation = "pending"
                                              /\ Unlocked(r)}

Retriable == {r \in Unrevoked : Over(r) /\ Unlocked(r)}

(* sweep: expire, release, and claim the retries that are due.             *)
SweepOf(s, retry) ==
    LET expired == Active \cap late
        closed == IF taskClosed THEN Active \ expired ELSE {}
        mine == {r \in expired \cup closed : resolution[r].revocation = "pending"}
    IN  /\ errand[s].at = "none" /\ \A r \in expired \cup closed : Unlocked(r)
        /\ expired \cup closed \cup retry # {}
        /\ resolution' = [r \in Resolutions |->
               IF r \in expired THEN [resolution[r] EXCEPT !.state = "expired"]
               ELSE IF r \in closed THEN [resolution[r] EXCEPT !.state = "released"]
               ELSE resolution[r]]
        /\ SetOut(s, mine \cup retry)
        /\ UNCHANGED <<taskClosed, runnerLost, late, lease, given, call, fencersOk>>

SweepSecrets(s) == \E retry \in SUBSET Retriable : SweepOf(s, retry)

(* release_runner_resolutions: release what is active; then, before the    *)
(* commit, read what is to be revoked and what is in flight.               *)
FenceRelease(f) ==
    /\ runnerLost /\ ~fencersOk /\ errand[f].at = "none"
    /\ \A r \in Active : Unlocked(r)
    /\ Ending(Active, "released")
    /\ errand' = [errand EXCEPT ![f] = Errand("locked", Active)]
    /\ UNCHANGED <<taskClosed, runnerLost, late, lease, given, call, fencersOk>>

FenceRead(f) ==
    /\ errand[f].at = "locked"
    /\ errand' = [errand EXCEPT ![f] = [@ EXCEPT !.at = "revoking", !.todo = Unrevoked,
           !.ok = \A r \in Resolutions : resolution[r].mark # "fresh"]]
    /\ UNCHANGED <<taskClosed, runnerLost, resolution, late, lease, given, call,
                   fencersOk>>

(* Mutant: a revocation that failed does not hold the chain.               *)
ReturnAnyway(f) ==
    /\ errand[f].at = "revoking" /\ errand[f].todo = {}
    /\ errand' = [errand EXCEPT ![f] = NoErrand]
    /\ fencersOk' = TRUE
    /\ UNCHANGED <<taskClosed, runnerLost, resolution, late, lease, given, call>>

(* The result of the fencer is written to the chain.                       *)
FenceReturn(f) ==
    /\ errand[f].at = "revoking" /\ errand[f].todo = {}
    /\ errand' = [errand EXCEPT ![f] = NoErrand]
    /\ fencersOk' = (fencersOk \/ errand[f].ok)
    /\ UNCHANGED <<taskClosed, runnerLost, resolution, late, lease, given, call>>

(* _revoke: ask the provider, and record what came of it. An answer that   *)
(* is lost counts as a failure.                                            *)
AskToRevoke(a, r, done) ==
    /\ errand[a].at = "revoking" /\ r \in errand[a].todo
    /\ done \/ "refuse" \in SecretFaults
    /\ errand' = [errand EXCEPT ![a] =
           [@ EXCEPT !.at = "answered", !.of = r, !.done = done]]
    /\ \/ lease' = [lease EXCEPT ![r] = "revoked"]
       \/ ~done /\ UNCHANGED lease
    /\ UNCHANGED <<taskClosed, runnerLost, resolution, late, given, call, fencersOk>>

Settled(e) ==
    [e EXCEPT !.at = "revoking", !.todo = @ \ {e.of}, !.of = "none", !.done = FALSE,
              !.ok = @ /\ e.done]

RecordRevocation(a) ==
    LET r == errand[a].of
    IN  /\ errand[a].at = "answered" /\ Unlocked(r)
        /\ resolution' = [resolution EXCEPT ![r].revocation =
                              IF errand[a].done THEN "succeeded" ELSE "failed"]
        /\ errand' = [errand EXCEPT ![a] = Settled(@)]
        /\ UNCHANGED <<taskClosed, runnerLost, late, lease, given, call, fencersOk>>

EndErrand(a) ==
    /\ a \notin Fencers /\ errand[a].at = "revoking" /\ errand[a].todo = {}
    /\ errand' = [errand EXCEPT ![a] = NoErrand]
    /\ UNCHANGED <<taskClosed, runnerLost, resolution, late, lease, given, call,
                   fencersOk>>

(* A process dies, or its round raises. A transaction that is undone is as *)
(* if it had not begun.                                                    *)
AbandonErrand(a) ==
    /\ "crash" \in SecretFaults /\ errand[a].at \notin {"none", "locked"}
    /\ errand' = [errand EXCEPT ![a] = NoErrand]
    /\ UNCHANGED <<taskClosed, runnerLost, resolution, late, lease, given, call,
                   fencersOk>>

CallStep(r) == \/ CreateResolution(r) \/ TakeHandle(r) \/ Issue(r)
               \/ KeepLease(r) \/ DropLease(r) \/ RevokeUnsaved(r) \/ Fail(r)
ErrandStep(a) == \/ RecordRevocation(a) \/ EndErrand(a)
                 \/ \E r \in Resolutions, done \in BOOLEAN : AskToRevoke(a, r, done)

SecretsNext ==
    \/ EndTask \/ LoseRunner
    \/ \E r \in Resolutions :
           \/ SendCreate(r) \/ SendMaterialize(r) \/ CallStep(r) \/ CrashCall(r)
           \/ Expires(r) \/ MarkAges(r)
           \/ \E a \in Releasers : ReleaseResolution(a, r) \/ RevokeNow(a, r)
    \/ \E a \in Hooks : RunHook(a)
    \/ \E s \in SecretSweepers : SweepSecrets(s)
    \/ \E f \in Fencers : FenceRelease(f) \/ FenceRead(f) \/ FenceReturn(f)
    \/ \E a \in Revokers : ErrandStep(a) \/ AbandonErrand(a)

SecretsSpec == SecretsInit /\ [][SecretsNext]_secretVars

(* Requests and rounds go on, time passes, and the sweep comes back to a   *)
(* lease until the provider has revoked it.                                *)
SecretsFairness ==
    /\ \A r \in Resolutions : WF_secretVars(CallStep(r)) /\ WF_secretVars(Expires(r))
    /\ \A a \in Revokers : WF_secretVars(ErrandStep(a))
    /\ \A f \in Fencers : WF_secretVars(FenceRead(f))
    /\ \A s \in SecretSweepers :
           /\ SF_secretVars(SweepOf(s, Retriable))
           /\ \A r \in Resolutions : SF_secretVars(AskToRevoke(s, r, TRUE))

SecretsFairSpec == SecretsSpec /\ SecretsFairness
-----------------------------------------------------------------------------
Errands == [at : {"none", "due", "locked", "revoking", "answered"},
            todo : SUBSET Resolutions, of : Resolutions \cup {"none"},
            done : BOOLEAN, ok : BOOLEAN]

(* The types; only what was materialized may have a lease, or be revoked.  *)
SecretsTypeOK ==
    /\ taskClosed \in BOOLEAN /\ runnerLost \in BOOLEAN /\ fencersOk \in BOOLEAN
    /\ resolution \in [Resolutions ->
           [state : {"absent", "active", "released", "expired", "failed"},
            used : BOOLEAN, mark : {"none", "fresh", "old"},
            revocation : {"not_applicable", "pending", "failed", "succeeded"}]]
    /\ late \subseteq Resolutions /\ given \subseteq Resolutions
    /\ lease \in [Resolutions -> {"none", "live", "revoked", "orphan"}]
    /\ call \in [Resolutions -> {"none", "creating", "sent", "asking", "issued",
                                 "unsaved", "failing"}]
    /\ \A r \in Resolutions :
           \/ resolution[r].used
           \/ call[r] \in {"none", "creating", "sent"} /\ lease[r] = "none"
                  /\ resolution[r].revocation = "not_applicable"
    /\ errand \in [Revokers -> Errands]

(* When the chain of a lost runner may go back to the queue, no lease is   *)
(* live whose material that runner has got ("everything that the runner    *)
(* holds outside imbi-api is revoked", harness/sweeper.py), however late   *)
(* its requests are, and whoever else releases, revokes, dies or fails.    *)
FencedHoldsNothing == fencersOk => \A r \in given : lease[r] # "live"

(* Every lease is revoked in the end, but for those that no row has ever   *)
(* recorded: the process died, or could neither save nor revoke it.        *)
LeasesAreRevoked == \A r \in Resolutions :
    lease[r] = "live" ~> lease[r] \in {"revoked", "orphan"}
=============================================================================
