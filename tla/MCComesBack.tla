------------------------------ MODULE MCComesBack ------------------------------
(* What a process has to come back to, whatever failed the last time: the     *)
(* due tasks of a scheduler replica, and the leases of the secret broker. The *)
(* initial state chooses one of the two systems; the other stays as it is.    *)
EXTENDS SchedulerLoop, SecretLeases

VARIABLE subject        \* "loop" or "secrets"

(* A replica that was shut down long ago.                                     *)
OldReplica ==
    /\ now = MaxTime /\ next = [t \in Tasks |-> Never]
    /\ loop = At("cut") /\ wake = TRUE /\ stop = TRUE
    /\ ticks = [k \in Slots |-> Idle]
    /\ listening = FALSE /\ notices = 0 /\ edits = 0 /\ missed = FALSE

BackInit ==
    /\ SecretsInit
    /\ \/ subject = "loop" /\ Init
       \/ subject = "secrets" /\ OldReplica

BackNext ==
    \/ subject = "loop" /\ Next /\ UNCHANGED <<subject, secretVars>>
    \/ subject = "secrets" /\ SecretsNext /\ UNCHANGED <<subject, vars>>

(* In the system that stays as it is, no action that is fair is enabled.      *)
BackSpec ==
    /\ BackInit /\ [][BackNext]_<<subject, vars, secretVars>>
    /\ LoopFairness /\ SecretsFairness
================================================================================
