------------------------------- MODULE ScoreQueue -------------------------------
(***************************************************************************)
(* The recomputation of a project's score: a change is saved, a job is     *)
(* queued unless one is pending, and workers recompute under a lock.       *)
(* apps/api/src/imbi/api/scoring/queue.py                                  *)
(*                                                                         *)
(* One project: its saved state is a version, its score the version it was *)
(* computed from. Any pending entry may be claimed: nothing renews one     *)
(* that waits in a batch or for the lock. Left out: the daily tick, which  *)
(* is one more producer, and Valkey failing between two commands.          *)
(***************************************************************************)
EXTENDS ConsumerGroup

CONSTANTS
    Writers,        \* requests that change the project
    Scorers,        \* workers
    MaxVersion,     \* bound: saves of the project
    ScoreFaults     \* of "crash" and "stall": a lock lost while it is held

VARIABLES
    version,        \* the saved state of the project
    score,          \* the version its score was computed from
    debounce,       \* the debounce key is set
    writer,         \* where each writer is in enqueue_recompute
    scorer,         \* what each worker does
    scoreLock       \* the holder of the project's lock

scoreVars == <<version, score, debounce, writer, scorer, scoreLock>>

NoScorer == "nobody"
ASSUME ScoreAssumption ==
    /\ MaxVersion \in Nat /\ NoScorer \notin Scorers
    /\ ScoreFaults \subseteq {"crash", "stall"}

Resting == [at |-> "idle", batch |-> {}, claimed |-> FALSE, seen |-> 0]

ScoreInit ==
    /\ GroupInit
    /\ version = 0 /\ score = 0 /\ debounce = FALSE
    /\ writer = [p \in Writers |-> "idle"]
    /\ scorer = [w \in Scorers |-> Resting]
    /\ scoreLock = NoScorer

(* The change commits before the job is queued.                            *)
SaveProject(p) ==
    /\ writer[p] = "idle" /\ version < MaxVersion
    /\ version' = version + 1
    /\ writer' = [writer EXCEPT ![p] = "saved"]
    /\ UNCHANGED <<score, debounce, scorer, scoreLock, groupVars>>

(* SET NX EX: with a job pending there is nothing to add.                  *)
SetDebounce(p) ==
    /\ writer[p] = "saved"
    /\ writer' = [writer EXCEPT ![p] = IF debounce THEN "idle" ELSE "keyed"]
    /\ debounce' = TRUE
    /\ UNCHANGED <<version, score, scorer, scoreLock, groupVars>>

AddRecompute(p) ==
    /\ writer[p] = "keyed"
    /\ XAdd
    /\ writer' = [writer EXCEPT ![p] = "idle"]
    /\ UNCHANGED <<version, score, debounce, scorer, scoreLock>>

(* The key lives for some seconds.                                         *)
DebounceExpires ==
    /\ debounce /\ debounce' = FALSE
    /\ UNCHANGED <<version, score, writer, scorer, scoreLock, groupVars>>

Take(w, es, claimed) ==
    /\ scorer[w].at = "idle"
    /\ scorer' = [scorer EXCEPT ![w] = [Resting EXCEPT !.at = "next", !.batch = es,
                                                       !.claimed = claimed]]
    /\ UNCHANGED <<version, score, debounce, writer, scoreLock>>

ReadJobs(w) == \E es \in SUBSET unread : XReadGroup(es, 16) /\ Take(w, es, FALSE)
ClaimJobs(w) == \E es \in SUBSET Pending : XAutoClaim(es) /\ Take(w, es, TRUE)

(* The entry a worker is at.                                               *)
Current(w) == CHOOSE e \in scorer[w].batch : \A f \in scorer[w].batch : e <= f

(* The worker after the entry it is at.                                    *)
Passed(w) ==
    LET left == scorer[w].batch \ {Current(w)}
    IN  IF left = {} THEN Resting
        ELSE [scorer[w] EXCEPT !.at = "next", !.batch = left, !.seen = 0]

DropSpent(w) ==
    /\ scorer[w].at = "next" /\ scorer[w].claimed /\ Spent(Current(w))
    /\ DeadLetter(Current(w))
    /\ scorer' = [scorer EXCEPT ![w] = Passed(w)]
    /\ UNCHANGED <<version, score, debounce, writer, scoreLock>>

(* Mutant: the lock is taken from its holder.                              *)
TakeLockAnyway(w) ==
    /\ scorer[w].at = "next"
    /\ scoreLock' = w
    /\ scorer' = [scorer EXCEPT ![w].at = "locked"]
    /\ UNCHANGED <<version, score, debounce, writer, groupVars>>

(* One recompute of a project at a time.                                   *)
TakeLock(w) ==
    /\ scorer[w].at = "next" /\ ~(scorer[w].claimed /\ Spent(Current(w)))
    /\ scoreLock = NoScorer
    /\ scoreLock' = w
    /\ scorer' = [scorer EXCEPT ![w].at = "locked"]
    /\ UNCHANGED <<version, score, debounce, writer, groupVars>>

(* After LOCK_WAIT_SECONDS the entry is left pending.                      *)
WaitInVain(w) ==
    /\ scorer[w].at = "next" /\ ~(scorer[w].claimed /\ Spent(Current(w)))
    /\ scoreLock # NoScorer
    /\ scorer' = [scorer EXCEPT ![w] = Passed(w)]
    /\ UNCHANGED <<version, score, debounce, writer, scoreLock, groupVars>>

(* Mutant: the key is left to expire.                                      *)
LeaveKey(w) ==
    /\ scorer[w].at = "locked"
    /\ scorer' = [scorer EXCEPT ![w].at = "keyless"]
    /\ UNCHANGED <<version, score, debounce, writer, scoreLock, groupVars>>

(* The key goes before the project is read.                                *)
ReleaseKey(w) ==
    /\ scorer[w].at = "locked"
    /\ debounce' = FALSE
    /\ scorer' = [scorer EXCEPT ![w].at = "keyless"]
    /\ UNCHANGED <<version, score, writer, scoreLock, groupVars>>

ReadProject(w) ==
    /\ scorer[w].at = "keyless"
    /\ scorer' = [scorer EXCEPT ![w].at = "read", ![w].seen = version]
    /\ UNCHANGED <<version, score, debounce, writer, scoreLock, groupVars>>

(* record_score_change or clear_score; then the lock is given back. When it *)
(* was lost meanwhile, that raises, and the entry stays pending.           *)
Unlock(w) == scoreLock' = IF scoreLock = w THEN NoScorer ELSE scoreLock

WriteScore(w) ==
    /\ scorer[w].at = "read"
    /\ score' = scorer[w].seen
    /\ Unlock(w)
    /\ scorer' = [scorer EXCEPT ![w] =
           IF scoreLock = w THEN [@ EXCEPT !.at = "done"] ELSE Passed(w)]
    /\ UNCHANGED <<version, debounce, writer, groupVars>>

(* An exception leaves the entry pending.                                  *)
RecomputeFails(w) ==
    /\ scorer[w].at \in {"locked", "keyless", "read"}
    /\ "crash" \in ScoreFaults
    /\ Unlock(w)
    /\ scorer' = [scorer EXCEPT ![w] = Passed(w)]
    /\ UNCHANGED <<version, score, debounce, writer, groupVars>>

AckJob(w) ==
    /\ scorer[w].at = "done"
    /\ XAck(Current(w))
    /\ scorer' = [scorer EXCEPT ![w] = Passed(w)]
    /\ UNCHANGED <<version, score, debounce, writer, scoreLock>>

(* A worker dies; its lock stays until it expires.                         *)
CrashScorer(w) ==
    /\ "crash" \in ScoreFaults /\ scorer[w].at # "idle"
    /\ scorer' = [scorer EXCEPT ![w] = Resting]
    /\ UNCHANGED <<version, score, debounce, writer, scoreLock, groupVars>>

HoldsLock(w) == scorer[w].at \in {"locked", "keyless", "read"}

LockExpires ==
    /\ scoreLock # NoScorer
    /\ "stall" \in ScoreFaults \/ ~HoldsLock(scoreLock)
    /\ scoreLock' = NoScorer
    /\ UNCHANGED <<version, score, debounce, writer, scorer, groupVars>>

ScorerStep(w) ==
    \/ ReadJobs(w) \/ ClaimJobs(w) \/ DropSpent(w) \/ TakeLock(w) \/ WaitInVain(w)
    \/ ReleaseKey(w) \/ ReadProject(w) \/ WriteScore(w) \/ AckJob(w)

ScoreNext ==
    \/ \E p \in Writers : SaveProject(p) \/ SetDebounce(p) \/ AddRecompute(p)
    \/ \E w \in Scorers : ScorerStep(w) \/ RecomputeFails(w) \/ CrashScorer(w)
    \/ DebounceExpires \/ LockExpires

ScoreSpec == ScoreInit /\ [][ScoreNext]_<<scoreVars, groupVars>>
-----------------------------------------------------------------------------
(* The types; a worker with a batch is at one of its entries.              *)
ScoreTypeOK ==
    /\ version \in 0..MaxVersion /\ score \in 0..version /\ debounce \in BOOLEAN
    /\ writer \in [Writers -> {"idle", "saved", "keyed"}]
    /\ scoreLock \in Scorers \cup {NoScorer}
    /\ \A w \in Scorers :
          /\ scorer[w].seen \in 0..version
          /\ (scorer[w].at = "idle") = (scorer[w].batch = {})

(* A score that is behind its project has a job: the key is released       *)
(* before the project is read, so a change that a recompute cannot have    *)
(* seen is never swallowed by the debounce ("Release the debounce key").   *)
StaleIsQueued ==
    score # version =>
        \/ \E p \in Writers : writer[p] # "idle"
        \/ unread # {} \/ Pending # {} \/ dead # {}

(* The score never goes back to an older state of the project, though jobs *)
(* of one project overlap: they take turns.                                *)
ScoreNeverGoesBack == [][score' >= score]_score
=============================================================================
