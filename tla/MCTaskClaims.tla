---------------------------- MODULE MCTaskClaims ----------------------------
(* Small instances of TaskClaims for TLC. Two questions in one run, which   *)
(* the initial state chooses: the claims of two tasks, and all that goes on *)
(* with one task whose firings work while it is run, patched and resumed.   *)
EXTENDS TaskClaims, TLC

CONSTANTS t1, t2, c1, c2

VARIABLE profile        \* "claims" or "edits"

(* Ticks, pauses and crashes; what a firing does later is left out.         *)
Claimed ==
    /\ edit' = edit
    /\ \A t \in Tasks, i \in 1..MaxFirings :
           i \in DOMAIN firings'[t] => /\ firings'[t][i].phase = "claimed"
                                       /\ firings'[t][i].due # OnDemand

(* One task, one claimer and everything; of two firings, one is on demand.  *)
(* What a patch or a resume that overlaps a claim does to a second claim is *)
(* the matter of claims_patch.                                              *)
Edited ==
    /\ now' <= 1 /\ Len(firings'[t1]) <= 2
    /\ Cardinality({i \in DOMAIN firings'[t1] : firings'[t1][i].due # OnDemand}) <= 1
    /\ row'[t1].next \in {1, 2, Never}
    /\ \A e \in Editors : ~Pause(e, t1)
    /\ row'[t2] = row[t2] /\ tick'[c2] = tick[c2] /\ Len(firings'[t2]) = 0
    /\ \A e \in Editors : edit'[e] # Idle => edit'[e].task = t1

ClaimsInit ==
    /\ profile \in {"claims", "edits"} /\ Init
    /\ profile = "edits" => row[t1].next = 1 /\ row[t2].next = Never

ClaimsNext ==
    /\ Next /\ UNCHANGED profile
    /\ profile = "claims" => Claimed
    /\ profile = "edits" => Edited

(* The fairness of FairSpec, in the claims.                                 *)
allVars == <<vars, profile>>
OfClaims(A) == profile = "claims" /\ A /\ UNCHANGED profile
ClaimsSpec ==
    /\ ClaimsInit /\ [][ClaimsNext]_allVars
    /\ WF_allVars(OfClaims(ClockTick))
    /\ \A c \in Claimers : /\ WF_allVars(OfClaims(Claim(c)))
                           /\ SF_allVars(OfClaims(Pick(c)))
                           /\ SF_allVars(OfClaims(Advance(c)))

(* No task is passed over, as DueIsClaimed says.                            *)
NoneIsPassedOver == profile = "claims" => DueIsClaimed
=============================================================================
