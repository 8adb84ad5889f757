------------------------------- MODULE MCQueues -------------------------------
(* The queues of the API: promotes, scores and resyncs. They share nothing   *)
(* but the kind of queue, so the initial state chooses whose the queue is,   *)
(* and the others stay as they are.                                          *)
EXTENDS PromoteWatch, ScoreQueue, SyncQueue, TLC

CONSTANTS w1, w2

VARIABLE subject        \* "promote", "promotes", "score" or "sync"

queuesVars == <<subject, promoteVars, scoreVars, syncVars, groupVars>>

(* One promote under every fault, or two promotes that one worker watches,   *)
(* which crashes, and whose last writes to the nodes may fail.               *)
OnePromote == added' <= 1
TwoPromotes ==
    /\ added' <= 2
    /\ watch'[w2] = watch[w2] /\ abandoning'[w2] = abandoning[w2]
    /\ ~ \E e \in Entries : \/ PollRaises(w1, e) \/ CompletionRaises(w1, e)
                            \/ RetireRaises(w1, e)
                            \/ watch[w1][e].at = "record" /\ watch'[w1][e].at = "rollout"
                                   /\ UNCHANGED rollouts
    /\ ~ \E r \in DOMAIN rollouts : Webhook(r)

QueuesInit ==
    /\ subject \in {"promote", "promotes", "score", "sync"}
    /\ PromoteInit /\ ScoreInit /\ SyncInit

PromoteSubject == UNCHANGED <<subject, scoreVars, syncVars>>
ScoreSubject == UNCHANGED <<subject, promoteVars, syncVars>>
SyncSubject == UNCHANGED <<subject, promoteVars, scoreVars>>

QueuesNext ==
    \/ subject = "promote" /\ PromoteNext /\ OnePromote /\ PromoteSubject
    \/ subject = "promotes" /\ PromoteNext /\ TwoPromotes /\ PromoteSubject
    \/ subject = "score" /\ ScoreNext /\ ScoreSubject
    \/ subject = "sync" /\ SyncNext /\ added' <= 2 /\ SyncSubject

(* The workers of PromoteWatch go on, the pause ends, and polls have a time  *)
(* limit.                                                                    *)
OfPromote(A) == subject = "promote" /\ A /\ PromoteSubject

QueuesSpec ==
    /\ QueuesInit /\ [][QueuesNext]_queuesVars
    /\ WF_queuesVars(OfPromote(PauseEnds))
    /\ \A w \in {w1, w2} :
           /\ WF_queuesVars(OfPromote(ReadPromote(w)))
           /\ \A e \in Entries : WF_queuesVars(OfPromote(WatchStep(w, e)))

(* The watch of a single promote ends, whatever dies or raises.              *)
OneWatchEnds == subject = "promote" => WatchEnds
===============================================================================
