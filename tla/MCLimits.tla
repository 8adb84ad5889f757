------------------------------- MODULE MCLimits -------------------------------
(* Who may go on, with what, and when: the runs of a workflow with one       *)
(* concurrency key, the sessions of an agent at the limit of its tasks, the  *)
(* projects of maintenance runs, and the firings of a trigger. The initial   *)
(* state chooses one of the four systems; the others stay as they are.       *)
EXTENDS MCWorkflowRuns, AgentTasks, MaintenanceRuns, Triggers

CONSTANTS t1, t2, i1, i2, j1, j2

VARIABLES subject       \* "keys", "agents", "projects" or "dates"

(* Two tasks of one agent, of which the first delegates the second.          *)
Delegated == (t1 :> Nobody) @@ (t2 :> t1)
SameAgentOf == [t \in {t1, t2} |-> "a"]

(* Months of one to four days.                                               *)
ShortMonths == {0, 3, 4, 6, 9, 12, 13, 15, 18, 21, 23, 26, 30, 34}

(* The subjects are apart, so that each may permute what is its own.         *)
LimitsSymmetry ==
    Symmetry \cup Permutations({i1, i2}) \cup Permutations({j1, j2})

limitsVars == <<subject, vars, taskVars, maintVars, triggerVars>>

(* The systems that are not the subject start in one state only.             *)
LimitsInit ==
    /\ Init /\ TasksInit /\ MaintInit
    /\ \/ subject \in {"keys", "agents", "projects"}
          /\ trigger \in DateTriggers /\ trigger.run_at = 9
          /\ tz = [before |-> 0, after |-> 0] /\ moment = 0
       \/ subject = "dates" /\ TriggersInit

LimitsNext ==
    \/ subject = "keys" /\ Next /\ UNCHANGED <<subject, taskVars, maintVars, triggerVars>>
    \/ subject = "agents" /\ TasksNext /\ UNCHANGED <<subject, vars, maintVars, triggerVars>>
    \/ subject = "projects" /\ MaintNext /\ UNCHANGED <<subject, vars, taskVars, triggerVars>>
    \/ subject = "dates" /\ Claim /\ UNCHANGED <<subject, vars, taskVars, maintVars>>

LimitsSpec == LimitsInit /\ [][LimitsNext]_limitsVars
===============================================================================
