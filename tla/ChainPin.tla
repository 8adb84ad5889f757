------------------------------- MODULE ChainPin -------------------------------
(***************************************************************************)
(* What the runner pool promises of a chain of tasks: it is free, held by  *)
(* one runner, drained of the work of a runner that is lost, or over. It   *)
(* changes hands only when the holder has never begun, or when everything  *)
(* the holder had outside is revoked and nothing it began goes on.         *)
(*                                                                         *)
(* HarnessChains implements this specification: see Pin there. The promise *)
(* is that of the head of apps/api/src/imbi/api/harness/sweeper.py and of  *)
(* the docstrings of claim, finish and requeue in harness/store.py.        *)
(***************************************************************************)
CONSTANTS Chains, Holders, Nobody

VARIABLES
    phase,      \* "free", "held", "draining" or "over"
    holder,     \* who holds each chain, or is drained of it
    begun,      \* the holder has got the chain and may work on it
    clean,      \* what the holder had outside is revoked
    workers     \* who has work in progress on each chain

vars == <<phase, holder, begun, clean, workers>>

Init ==
    /\ phase = [c \in Chains |-> "free"]
    /\ holder = [c \in Chains |-> Nobody]
    /\ begun = [c \in Chains |-> FALSE]
    /\ clean = [c \in Chains |-> FALSE]
    /\ workers = [c \in Chains |-> {}]

Take(c, h) ==
    /\ phase[c] = "free"
    /\ phase' = [phase EXCEPT ![c] = "held"]
    /\ holder' = [holder EXCEPT ![c] = h]
    /\ clean' = [clean EXCEPT ![c] = FALSE]
    /\ UNCHANGED <<begun, workers>>

Begin(c) ==
    /\ phase[c] \in {"held", "draining"} /\ ~begun[c]
    /\ begun' = [begun EXCEPT ![c] = TRUE]
    /\ UNCHANGED <<phase, holder, clean, workers>>

(* Work begins and ends; the last of it may begin after the holder is lost *)
Work(c) ==
    /\ phase[c] \in {"held", "draining"} /\ begun[c]
    /\ \E ws \in SUBSET {holder[c]} : workers' = [workers EXCEPT ![c] = ws]
    /\ UNCHANGED <<phase, holder, begun, clean>>

Lose(c) ==
    /\ phase[c] = "held"
    /\ phase' = [phase EXCEPT ![c] = "draining"]
    /\ UNCHANGED <<holder, begun, clean, workers>>

Revoke(c) ==
    /\ phase[c] = "draining"
    /\ \E b \in BOOLEAN : clean' = [clean EXCEPT ![c] = b]
    /\ UNCHANGED <<phase, holder, begun, workers>>

GiveUp(c) ==
    /\ \/ phase[c] \in {"held", "draining"} /\ ~begun[c]
       \/ phase[c] = "draining" /\ clean[c]
    /\ \E p \in {"free", "over"} : phase' = [phase EXCEPT ![c] = p]
    /\ holder' = [holder EXCEPT ![c] = Nobody]
    /\ begun' = [begun EXCEPT ![c] = FALSE]
    /\ workers' = [workers EXCEPT ![c] = {}]
    /\ UNCHANGED clean

Complete(c) ==
    /\ phase[c] = "held" /\ workers[c] = {}
    /\ phase' = [phase EXCEPT ![c] = "over"]
    /\ UNCHANGED <<holder, begun, clean, workers>>

Next == \E c \in Chains :
    \/ \E h \in Holders : Take(c, h)
    \/ Begin(c) \/ Work(c) \/ Lose(c) \/ Revoke(c) \/ GiveUp(c) \/ Complete(c)

Spec == Init /\ [][Next]_vars

(* Only the holder of a chain works on it.                                 *)
OneWorker == \A c \in Chains :
    \A w \in workers[c] : w = holder[c] /\ phase[c] \in {"held", "draining"}
===============================================================================
