---------------------------- MODULE HarnessChains ----------------------------
(***************************************************************************)
(* The runners of imbi-api and the chains of tasks they hold: the claim of *)
(* a chain by a runner, its delivery, the end of a runner, the expiry of   *)
(* its lease, the fencing of the chain and its return to the queue.        *)
(* apps/api/src/imbi/api/harness/store.py, sweeper.py, auth.py and the     *)
(* runner routes of endpoints/harness.py, composed with AgentTasks.        *)
(*                                                                         *)
(* A chain is named by its root task. The session keys of AgentTasks are   *)
(* the runners: each opens its sessions with a key of its own. Left out:   *)
(* a harness outside the pool, that works on tasks no runner holds with    *)
(* the credential of their service account.                                *)
(*                                                                         *)
(* Abstracted: pools, labels and organizations (a runner may take the task *)
(* of any agent), the order of the queue, the bundle of a claim, egress.   *)
(* A lease expires at any time: the runner is dead, or cut off. A runner   *)
(* stops its agents before its lease ends (runner.py:349), so that after   *)
(* GRACE_SECONDS no request of it is in flight: the guard of Requeue.      *)
(***************************************************************************)
EXTENDS AgentTasks

CONSTANTS
    Runners,        \* the runner ids; each is registered once
    Sweepers,       \* the instances of imbi-api that sweep
    MaxAttempt,     \* bound: a chain is lost fewer times than this
    MaxOpenings,    \* bound: the openings of sessions in flight at once
    Faults          \* of "stop": SIGTERM reaches a runner that polls

ASSUME RunnersAssumption ==
    /\ Keys = Runners
    /\ Nobody \notin Runners \cup Sweepers
    /\ MaxAttempt \in Nat \ {0} /\ MaxOpenings \in Nat
    /\ \A t \in Tasks : Parent[t] # Nobody => Parent[Parent[t]] = Nobody

(* COALESCE(t.chain_id, t.id); a child of a root has the root as its chain *)
Chain(t) == IF Parent[t] = Nobody THEN t ELSE Parent[t]
Roots == {t \in Tasks : Parent[t] = Nobody}
TasksOf(c) == {t \in Tasks : Chain(t) = c}
ChainOpen(c) == \E t \in TasksOf(c) : Working(t)

VARIABLES
    runner,     \* runners: state and chain_id
    chain,      \* chains: state ("none" before the row), runner_id, attempt,
                \* and whether fencers_ok_at is set
    claims,     \* the claims rows: task and attempt
    call,       \* the claim request of each runner in flight, and its claim
    grant,      \* the chain and attempt of the agent token of each runner
    ending,     \* the finish request in flight: the chain_id auth has read
    sweep       \* the fencing chain each sweeper works on, as it read it

harnessVars == <<runner, chain, claims, call, grant, ending, sweep>>
vars == <<taskVars, harnessVars>>

Pinned == {"running", "fencing", "stuck"}
NoCall == [at |-> "none", task |-> Nobody, chain |-> Nobody, attempt |-> 0, pinned |-> FALSE]
NoGrant == [chain |-> Nobody, attempt |-> 0]
NoEnding == [on |-> FALSE, chain |-> Nobody]

HarnessInit ==
    /\ TasksInit
    /\ runner = [r \in Runners |-> [state |-> "absent", chain |-> Nobody]]
    /\ chain = [c \in Roots |-> [state |-> "none", runner |-> Nobody,
                                 attempt |-> 1, clean |-> FALSE]]
    /\ claims = {}
    /\ call = [r \in Runners |-> NoCall]
    /\ grant = [r \in Runners |-> NoGrant]
    /\ ending = [r \in Runners |-> NoEnding]
    /\ sweep = [s \in Sweepers |-> NoGrant]

Live(r) == runner[r].state \in {"idle", "busy"}
Holds(r, c) == chain[c].state = "running" /\ chain[c].runner = r
(* check_grant: the token is for the attempt that is current.              *)
Current(r) ==
    /\ grant[r] # NoGrant
    /\ Holds(r, grant[r].chain)
    /\ chain[grant[r].chain].attempt = grant[r].attempt
    /\ runner[r].state = "busy"

-----------------------------------------------------------------------------
(* A process registers, and polls for a task until it has one.             *)
Register(r) ==
    /\ runner[r].state = "absent"
    /\ runner' = [runner EXCEPT ![r].state = "idle"]
    /\ UNCHANGED <<taskVars, chain, claims, call, grant, ending, sweep>>

Poll(r) ==
    /\ runner[r].state = "idle" /\ call[r] = NoCall /\ ~ending[r].on
    /\ call' = [call EXCEPT ![r].at = "poll"]
    /\ UNCHANGED <<taskVars, runner, chain, claims, grant, ending, sweep>>

(* claim: one transaction, under the lock of the runner's row and the      *)
(* advisory lock of claims. _CLAIM_QUERY skips a task whose row is held.   *)
Busy(a) == {u \in Tasks : /\ AgentOf[u] = a /\ Working(u)
                          /\ chain[Chain(u)].state \in Pinned \/ SessionOpen(u)}

Claimable(t) ==
    /\ status[t] = "queued" /\ control[t] = "run" /\ Free(t)
    /\ \/ chain[Chain(t)].state = "none" /\ Parent[t] = Nobody
       \/ chain[Chain(t)].state = "queued"
    /\ Cardinality(Busy(AgentOf[t])) < MaxTasks

Claim(r, t) == LET c == Chain(t) IN
    /\ call[r].at = "poll" /\ runner[r].state = "idle"
    /\ Claimable(t)
    /\ chain' = [chain EXCEPT ![c].state = "running", ![c].runner = r,
                              ![c].clean = FALSE]
    /\ claims' = claims \cup {<<t, chain[c].attempt>>}
    /\ runner' = [runner EXCEPT ![r] = [state |-> "busy", chain |-> c]]
    /\ call' = [call EXCEPT ![r] = [at |-> "deliver", task |-> t, chain |-> c,
                                    attempt |-> chain[c].attempt, pinned |-> TRUE]]
    /\ UNCHANGED <<taskVars, grant, ending, sweep>>

(* claim_child, by a runner that works on the chain.                       *)
ClaimChild(r, t) == LET c == Chain(t) IN
    /\ call[r] = NoCall /\ grant[r].chain = c /\ Live(r)
    /\ Holds(r, c)
    /\ Parent[t] # Nobody /\ <<t, chain[c].attempt>> \notin claims
    /\ status[t] = "queued" /\ control[t] = "run" /\ Free(t)
    /\ claims' = claims \cup {<<t, chain[c].attempt>>}
    /\ call' = [call EXCEPT ![r] = [at |-> "deliver", task |-> t, chain |-> c,
                                    attempt |-> chain[c].attempt, pinned |-> FALSE]]
    /\ UNCHANGED <<taskVars, runner, chain, grant, ending, sweep>>

(* _deliver: the response reaches the runner, or is lost on the way. A     *)
(* process without an answer to its poll registers as another runner.      *)
Deliver(r) ==
    /\ call[r].at = "deliver"
    /\ grant' = [grant EXCEPT ![r] = [chain |-> call[r].chain,
                                      attempt |-> call[r].attempt]]
    /\ call' = [call EXCEPT ![r] = NoCall]
    /\ UNCHANGED <<taskVars, runner, chain, claims, ending, sweep>>

Unanswered(r) == [NoCall EXCEPT !.at = IF call[r].pinned THEN "gone" ELSE "none"]

LoseClaim(r) ==
    /\ call[r].at = "deliver"
    /\ call' = [call EXCEPT ![r] = Unanswered(r)]
    /\ UNCHANGED <<taskVars, runner, chain, claims, grant, ending, sweep>>

(* release_claim: the response could not be built. When the account of the *)
(* task is missing the poll goes on, else the runner gets an error.        *)
ReleaseClaim(r) == LET c == call[r].chain IN
    /\ call[r].at = "deliver"
    /\ claims' = claims \ {<<call[r].task, call[r].attempt>>}
    /\ IF call[r].pinned
       THEN /\ chain' = IF chain[c].runner # r THEN chain
                        ELSE [chain EXCEPT
                                 ![c].state = IF ChainOpen(c) THEN "queued" ELSE "done",
                                 ![c].runner = Nobody]
            /\ runner' = IF runner[r].state # "busy" THEN runner
                         ELSE [runner EXCEPT ![r] = [state |-> "idle", chain |-> Nobody]]
       ELSE UNCHANGED <<chain, runner>>
    /\ \/ call' = [call EXCEPT ![r] = Unanswered(r)]
       \/ /\ call[r].pinned
          /\ call' = [call EXCEPT ![r] = [NoCall EXCEPT !.at = "poll"]]
    /\ UNCHANGED <<taskVars, grant, ending, sweep>>

(* No task came: the runner polls again, or ends after idle_exit_seconds.  *)
PollEnds(r) ==
    /\ call[r].at = "poll"
    /\ call' = [call EXCEPT ![r] = NoCall]
    /\ UNCHANGED <<taskVars, runner, chain, claims, grant, ending, sweep>>

-----------------------------------------------------------------------------
(* finish: auth reads the row of the runner, then the handler uses it. A   *)
(* runner finishes after its chain or an empty poll; SIGTERM makes it      *)
(* finish at once, whatever request it waits for.                          *)
SendFinish(r) ==
    /\ Live(r) /\ ~ending[r].on
    /\ call[r] = NoCall \/ ("stop" \in Faults /\ call[r].at # "gone")
    /\ ending' = [ending EXCEPT ![r] = [on |-> TRUE, chain |-> runner[r].chain]]
    /\ UNCHANGED <<taskVars, runner, chain, claims, call, grant, sweep>>

(* Mutants: the next runner gets the attempt of the lost one; the chain    *)
(* gets the state of a runner.                                             *)
FenceSameAttempt(c) == [chain EXCEPT ![c].state = "fencing"]
FenceAsRunner(c) == [chain EXCEPT ![c].state = "fenced", ![c].attempt = @ + 1]

Fence(c) == [chain EXCEPT ![c].state = "fencing", ![c].attempt = @ + 1]

(* Bound on the attempts of a chain.                                       *)
MayFence(c) == chain[c].attempt < MaxAttempt

Finish(r) == LET c == ending[r].chain IN
    /\ ending[r].on
    /\ c # Nobody => MayFence(c)
    /\ IF c # Nobody /\ Holds(r, c)
       THEN IF ChainOpen(c)
            THEN /\ chain' = Fence(c)
                 /\ runner' = [runner EXCEPT ![r].state = "fenced"]
            ELSE /\ chain' = [chain EXCEPT ![c].state = "done"]
                 /\ runner' = [runner EXCEPT ![r].state = "offline"]
       ELSE /\ runner' = [runner EXCEPT ![r].state = "offline"]
            /\ UNCHANGED chain
    /\ ending' = [ending EXCEPT ![r] = NoEnding]
    /\ UNCHANGED <<taskVars, claims, call, grant, sweep>>

(* Mutant: a lost runner, and no fence for its chain.                      *)
ExpireRunnerOnly(r) ==
    /\ Live(r)
    /\ runner' = [runner EXCEPT ![r].state = "offline"]
    /\ UNCHANGED <<taskVars, chain, claims, call, grant, ending, sweep>>

(* expire_leases. Many leases may expire in one statement; each is as      *)
(* independent of the others as in steps of their own.                     *)
Expire(r) == LET c == runner[r].chain IN
    /\ Live(r)
    /\ IF c = Nobody
       THEN /\ runner' = [runner EXCEPT ![r].state = "offline"]
            /\ UNCHANGED chain
       ELSE /\ MayFence(c)
            /\ runner' = [runner EXCEPT ![r].state = "fenced"]
            /\ chain' = IF Holds(r, c) THEN Fence(c) ELSE chain
    /\ UNCHANGED <<taskVars, claims, call, grant, ending, sweep>>

-----------------------------------------------------------------------------
(* _sweep_chain: run the fencers, record their result, requeue.            *)
ReadFencing(s, c) ==
    /\ sweep[s] = NoGrant
    /\ chain[c].state \in {"fencing", "stuck"} /\ ~chain[c].clean
    /\ sweep' = [sweep EXCEPT ![s] = [chain |-> c, attempt |-> chain[c].attempt]]
    /\ UNCHANGED <<taskVars, runner, chain, claims, call, grant, ending>>

(* Mutant: a stuck chain takes no other result.                            *)
SetFenceResultOnce(s, ok) == LET c == sweep[s].chain IN
    /\ sweep[s] # NoGrant
    /\ chain' = IF chain[c].attempt = sweep[s].attempt /\ chain[c].state = "fencing"
                THEN [chain EXCEPT ![c].state = IF ok THEN "fencing" ELSE "stuck",
                                   ![c].clean = ok]
                ELSE chain
    /\ sweep' = [sweep EXCEPT ![s] = NoGrant]
    /\ UNCHANGED <<taskVars, runner, claims, call, grant, ending>>

SetFenceResult(s, ok) == LET c == sweep[s].chain IN
    /\ sweep[s] # NoGrant
    /\ chain' = IF chain[c].attempt = sweep[s].attempt
                   /\ chain[c].state \in {"fencing", "stuck"}
                THEN [chain EXCEPT ![c].state = IF ok THEN "fencing" ELSE "stuck",
                                   ![c].clean = ok]
                ELSE chain
    /\ sweep' = [sweep EXCEPT ![s] = NoGrant]
    /\ UNCHANGED <<taskVars, runner, claims, call, grant, ending>>

(* requeue, and requeue_chain: the open tasks lose their sessions.         *)
Requeued(t) ==
    IF control[t] = "cancel" THEN "closed"
    ELSE IF control[t] = "pause" THEN "paused"
    ELSE IF RequestOpen(t) THEN "blocked" ELSE "queued"

GraceIsOver(c) == \A t \in TasksOf(c) : opening[t] = Nothing

(* Mutant: the tasks are queued and keep their sessions.                   *)
RequeueStatusOnly(ts) ==
    /\ \A t \in ts : Free(t)
    /\ status' = [t \in Tasks |-> IF t \in ts THEN Requeued(t) ELSE status[t]]
    /\ UNCHANGED <<control, session, request, opening>>

RequeueChain(ts) ==
    /\ \A t \in ts : Free(t)
    /\ status' = [t \in Tasks |-> IF t \in ts THEN Requeued(t) ELSE status[t]]
    /\ session' = [t \in Tasks |-> IF t \in ts
                      THEN [k \in Keys |-> IF session[t][k] = "open" THEN "closed"
                                           ELSE session[t][k]]
                      ELSE session[t]]
    /\ UNCHANGED <<control, request, opening>>

(* Mutant: the fencers have not succeeded.                                 *)
RequeueUnclean(c) == LET open == {t \in TasksOf(c) : Working(t)} IN
    /\ chain[c].state = "fencing" /\ GraceIsOver(c)
    /\ RequeueChain(open)
    /\ chain' = [chain EXCEPT
           ![c].state = IF \E t \in open : Requeued(t) # "closed" THEN "queued" ELSE "done",
           ![c].runner = Nobody]
    /\ runner' = [r \in Runners |->
           IF r = chain[c].runner /\ runner[r].state = "fenced"
           THEN [runner[r] EXCEPT !.state = "offline"] ELSE runner[r]]
    /\ UNCHANGED <<claims, call, grant, ending, sweep>>

Requeue(c) == LET open == {t \in TasksOf(c) : Working(t)} IN
    /\ chain[c].state = "fencing" /\ chain[c].clean /\ GraceIsOver(c)
    /\ RequeueChain(open)
    /\ chain' = [chain EXCEPT
           ![c].state = IF \E t \in open : Requeued(t) # "closed" THEN "queued" ELSE "done",
           ![c].runner = Nobody]
    /\ runner' = [r \in Runners |->
           IF r = chain[c].runner /\ runner[r].state = "fenced"
           THEN [runner[r] EXCEPT !.state = "offline"] ELSE runner[r]]
    /\ UNCHANGED <<claims, call, grant, ending, sweep>>

-----------------------------------------------------------------------------
(* harness_caller and _harness_task let the holder of the chain in. The    *)
(* other requests of a harness are steps of AgentTasks without this check: *)
(* they may have been let in before the chain was lost, and land late.     *)
OpenBy(t, k) ==
    /\ Current(k) /\ grant[k].chain = Chain(t)
    /\ <<t, grant[k].attempt>> \in claims
    /\ Cardinality({u \in Tasks : opening[u] # Nothing}) < MaxOpenings
    /\ SendOpen(t, k)
    /\ UNCHANGED harnessVars

RunnerStep(r) ==
    \/ Register(r) \/ Poll(r) \/ PollEnds(r)
    \/ Deliver(r) \/ LoseClaim(r) \/ ReleaseClaim(r)
    \/ \E t \in Tasks : Claim(r, t) \/ ClaimChild(r, t)
    \/ SendFinish(r) \/ Finish(r) \/ Expire(r)

SweepStep ==
    \/ \E s \in Sweepers : \/ \E c \in Roots : ReadFencing(s, c)
                           \/ \E ok \in BOOLEAN : SetFenceResult(s, ok)
    \/ \E c \in Roots : Requeue(c)

HarnessNext ==
    \/ \E t \in Tasks : \/ TaskStep(t) /\ UNCHANGED harnessVars
                        \/ \E k \in Keys : OpenBy(t, k)
    \/ \E r \in Runners : RunnerStep(r)
    \/ SweepStep

HarnessSpec == HarnessInit /\ [][HarnessNext]_vars

(* The transactions in flight end. The sweep runs every few seconds, and   *)
(* the fencers succeed in the end. No worker is fair: it may hold a chain, *)
(* and keep a session alive, as long as it likes.                          *)
HarnessFairness ==
    /\ \A t \in Tasks : WF_vars((LockTask(t) \/ CountSessions(t) \/ InsertSession(t)
                                  \/ BreakOpen(t)) /\ UNCHANGED harnessVars)
    /\ \A c \in Roots : SF_vars(Requeue(c))
    /\ \A s \in Sweepers, c \in Roots : WF_vars(ReadFencing(s, c))
    /\ \A s \in Sweepers : WF_vars(\E ok \in BOOLEAN : SetFenceResult(s, ok))
                          /\ SF_vars(SetFenceResult(s, TRUE))

HarnessFairSpec == HarnessSpec /\ HarnessFairness
-----------------------------------------------------------------------------
HarnessTypeOK ==
    /\ TasksTypeOK
    /\ runner \in [Runners -> [state : {"absent", "idle", "busy", "fenced", "offline"},
                               chain : Roots \cup {Nobody}]]
    /\ chain \in [Roots -> [state : {"none", "running", "queued", "done"} \cup Pinned,
                            runner : Runners \cup {Nobody}, attempt : 1..MaxAttempt,
                            clean : BOOLEAN]]
    /\ claims \subseteq Tasks \X (1..MaxAttempt)
    /\ call \in [Runners -> [at : {"none", "poll", "deliver", "gone"},
                             task : Tasks \cup {Nobody}, chain : Roots \cup {Nobody},
                             attempt : 0..MaxAttempt, pinned : BOOLEAN]]
    /\ grant \in [Runners -> [chain : Roots \cup {Nobody}, attempt : 0..MaxAttempt]]
    /\ ending \in [Runners -> [on : BOOLEAN, chain : Roots \cup {Nobody}]]
    /\ sweep \in [Sweepers -> [chain : Roots \cup {Nobody}, attempt : 0..MaxAttempt]]

(* The promise of the pool that this module implements: a chain changes    *)
(* hands only when its holder never began, or is fenced, swept clean and   *)
(* out of work.                                                            *)
PhaseOf == [none |-> "free", queued |-> "free", running |-> "held",
            fencing |-> "draining", stuck |-> "draining", done |-> "over"]

WorkersOf(c) == {r \in Runners : \E t \in TasksOf(c) : session[t][r] = "open"}

Pin == INSTANCE ChainPin WITH
    Chains <- Roots, Holders <- Runners, Nobody <- Nobody,
    phase <- [c \in Roots |-> PhaseOf[chain[c].state]],
    holder <- [c \in Roots |-> chain[c].runner],
    begun <- [c \in Roots |-> \E r \in Runners :
                  chain[c].runner = r /\ grant[r].chain = c],
    clean <- [c \in Roots |-> chain[c].clean],
    workers <- [c \in Roots |-> WorkersOf(c)]

PinSpec == Pin!Spec

(* A session of a runner is open only while its chain is pinned to that    *)
(* runner: whoever holds a chain works on it alone, however late a request *)
(* of an earlier holder lands.                                             *)
SoleWorker == \A t \in Tasks, r \in Runners : session[t][r] = "open" =>
    chain[Chain(t)].runner = r /\ chain[Chain(t)].state \in Pinned

(* No two runners get a token for one attempt of one chain.                *)
AttemptIsSole == \A r, s \in Runners :
    r # s /\ grant[r] # NoGrant => grant[r] # grant[s]

(* The work of a finished chain is finished: a done chain is never claimed *)
(* again, so no open task may be left in it, or made in it later.          *)
DoneIsClosed == \A c \in Roots : chain[c].state = "done" => ~ChainOpen(c)

(* A running chain has a runner whose lease can expire; only so does the   *)
(* sweep reach the chain (runner.py:191-194: "What is not done in time,    *)
(* the lease sweep does.").                                                *)
NoLostChain == \A c \in Roots : chain[c].state = "running" =>
    runner[chain[c].runner] = [state |-> "busy", chain |-> c]

(* What is to be done of a chain is within reach of a runner or the sweep. *)
WorkIsReached == DoneIsClosed /\ NoLostChain

(* A lost chain comes back to the queue, or is over.                       *)
FencedReturns == \A c \in Roots :
    chain[c].state \in {"fencing", "stuck"} ~> chain[c].state \in {"queued", "done"}
=============================================================================
