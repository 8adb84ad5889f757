------------------------------ MODULE AgentTasks ------------------------------
(***************************************************************************)
(* The agent tasks of imbi-api: their status, the control value that       *)
(* people set, the sessions a harness opens on them, and the requests that *)
(* wait for a person. apps/api/src/imbi/api/agent_tasks/store.py.          *)
(*                                                                         *)
(* Every operation is one transaction that holds the row of its task, and  *)
(* so one action. The exception is the opening of a session: it holds the  *)
(* row, waits for the lock of the agent, and counts the sessions of the    *)
(* agent's other tasks before it inserts its own.                          *)
(*                                                                         *)
(* Abstracted: the events a write adds (module TaskLog has the log), what  *)
(* a request asks and what the answer is, budgets and timeouts (a task may *)
(* exceed its ceiling at any time), owners, dependencies and projects.     *)
(***************************************************************************)
EXTENDS Integers, FiniteSets

CONSTANTS
    Tasks,      \* task ids
    Parent,     \* the task that delegates each task, or Nobody
    Agents,     \* agent ids
    AgentOf,    \* the agent of each task
    MaxTasks,   \* max_concurrent_tasks of an agent
    Keys,       \* the session keys a harness uses on a task
    Requests,   \* the requests a task may have
    Commands    \* the control values that people set

Nobody == "none"

ASSUME TasksAssumption ==
    /\ Nobody \notin Tasks
    /\ Parent \in [Tasks -> Tasks \cup {Nobody}]
    /\ AgentOf \in [Tasks -> Agents]
    /\ MaxTasks \in Nat \ {0}
    /\ IsFiniteSet(Tasks)
    /\ Nobody \notin Keys
    /\ Commands \subseteq {"run", "pause", "cancel"}

VARIABLES
    status,     \* tasks.status; "absent" before the task is made
    control,    \* tasks.control
    session,    \* the session with each key
    request,    \* requests.status; an open request "lapses" at expires_at
    opening     \* the open_session in flight on each task, and its key

taskVars == <<status, control, session, request, opening>>

Statuses == {"absent", "queued", "running", "blocked", "paused", "closed"}
Controls == {"run", "pause", "cancel"}

Working(t) == status[t] \notin {"absent", "closed"}
SessionOpen(t) == \E k \in Keys : session[t][k] = "open"
(* _request_open does not look at expires_at.                              *)
RequestOpen(t) == \E q \in Requests : request[t][q] \in {"open", "lapsed"}
(* The row is free: no other transaction holds it.                         *)
Free(t) == opening[t].at \in {"none", "sent"}

IdleStatus == [run |-> "queued", pause |-> "paused", cancel |-> "closed"]

Nothing == [at |-> "none", key |-> Nobody]

TasksInit ==
    /\ status = [t \in Tasks |-> "absent"]
    /\ control = [t \in Tasks |-> "run"]
    /\ session = [t \in Tasks |-> [k \in Keys |-> "absent"]]
    /\ request = [t \in Tasks |-> [q \in Requests |-> "absent"]]
    /\ opening = [t \in Tasks |-> Nothing]

(* Mutant: the parent may have closed.                                     *)
CreateOrphan(t) ==
    /\ status[t] = "absent"
    /\ Parent[t] # Nobody => status[Parent[t]] # "absent"
    /\ status' = [status EXCEPT ![t] = "queued"]
    /\ UNCHANGED <<control, session, request, opening>>

(* A person makes a task; an agent makes a child of a task that is open.   *)
(* The insert holds the row of the parent until it commits.                *)
Create(t) ==
    /\ status[t] = "absent"
    /\ Parent[t] # Nobody => Working(Parent[t]) /\ Free(Parent[t])
    /\ status' = [status EXCEPT ![t] = "queued"]
    /\ UNCHANGED <<control, session, request, opening>>

(* Mutant: the sessions stay open, and the task keeps its place.           *)
CloseTaskOnly(t) == status' = [status EXCEPT ![t] = "closed"] /\ UNCHANGED session

(* _close: every open session closes with the task.                        *)
CloseAll(t) ==
    /\ status' = [status EXCEPT ![t] = "closed"]
    /\ session' = [session EXCEPT ![t] =
           [k \in Keys |-> IF @[k] = "open" THEN "closed" ELSE @[k]]]

(* set_control, and reply with hold.                                       *)
Controlled(t, c) ==
    IF ~SessionOpen(t)
    THEN IF c = "run" /\ RequestOpen(t) THEN "blocked" ELSE IdleStatus[c]
    ELSE IF c = "run" /\ status[t] = "paused"
    THEN IF RequestOpen(t) THEN "blocked" ELSE "running"
    ELSE status[t]

SetControl(t, c) ==
    /\ Working(t) /\ Free(t)
    /\ control[t] \notin {c, "cancel"}
    /\ control' = [control EXCEPT ![t] = c]
    /\ status' = [status EXCEPT ![t] = Controlled(t, c)]
    /\ UNCHANGED <<session, request, opening>>

(* open_session. The caller was let in before the row is locked.           *)
SendOpen(t, k) ==
    /\ opening[t] = Nothing /\ Working(t)
    /\ opening' = [opening EXCEPT ![t] = [at |-> "sent", key |-> k]]
    /\ UNCHANGED <<status, control, session, request>>

LockTask(t) ==
    /\ opening[t].at = "sent"
    /\ opening' = [opening EXCEPT ![t] =
           IF Working(t) /\ control[t] # "cancel" /\ session[t][@.key] = "absent"
           THEN [@ EXCEPT !.at = "locked"] ELSE Nothing]
    /\ UNCHANGED <<status, control, session, request>>

(* _check_concurrency: the advisory lock of the agent, then the count.     *)
SameAgent(t) == {u \in Tasks \ {t} : AgentOf[u] = AgentOf[t]}

(* Mutant: the count without the lock of the agent.                        *)
CountUnlocked(t) ==
    /\ opening[t].at = "locked"
    /\ opening' = [opening EXCEPT ![t] =
           IF Cardinality({u \in SameAgent(t) : SessionOpen(u)}) < MaxTasks
           THEN [@ EXCEPT !.at = "counted"] ELSE Nothing]
    /\ UNCHANGED <<status, control, session, request>>

CountSessions(t) ==
    /\ opening[t].at = "locked"
    /\ \A u \in SameAgent(t) : opening[u].at # "counted"
    /\ opening' = [opening EXCEPT ![t] =
           IF Cardinality({u \in SameAgent(t) : SessionOpen(u)}) < MaxTasks
           THEN [@ EXCEPT !.at = "counted"] ELSE Nothing]
    /\ UNCHANGED <<status, control, session, request>>

(* Mutant: a session on a task that waits for an answer.                   *)
InsertUnasked(t) ==
    /\ opening[t].at = "counted"
    /\ session' = [session EXCEPT ![t][opening[t].key] = "open"]
    /\ status' = [status EXCEPT ![t] =
           IF control[t] = "run" /\ @ \in {"queued", "blocked"} THEN "running" ELSE @]
    /\ opening' = [opening EXCEPT ![t] = Nothing]
    /\ UNCHANGED <<control, request>>

InsertSession(t) ==
    /\ opening[t].at = "counted"
    /\ session' = [session EXCEPT ![t][opening[t].key] = "open"]
    /\ status' = [status EXCEPT ![t] =
           IF control[t] = "run" /\ @ \in {"queued", "blocked"} /\ ~RequestOpen(t)
           THEN "running" ELSE @]
    /\ opening' = [opening EXCEPT ![t] = Nothing]
    /\ UNCHANGED <<control, request>>

(* The connection breaks: the transaction rolls back.                      *)
BreakOpen(t) ==
    /\ opening[t] # Nothing
    /\ opening' = [opening EXCEPT ![t] = Nothing]
    /\ UNCHANGED <<status, control, session, request>>

(* close_session, by the harness or by the sweep of stale sessions.        *)
CloseSession(t, k) ==
    /\ Working(t) /\ Free(t) /\ session[t][k] = "open"
    /\ session' = [session EXCEPT ![t][k] = "closed"]
    /\ status' = [status EXCEPT ![t] =
           IF \E j \in Keys \ {k} : session[t][j] = "open" THEN @
           ELSE IF control[t] = "cancel" THEN "closed"
           ELSE IF control[t] = "pause" THEN "paused"
           ELSE IF @ = "running" THEN "queued" ELSE @]
    /\ UNCHANGED <<control, request, opening>>

(* open_request, by a harness with a session or by its service account.    *)
OpenRequest(t, q) ==
    /\ Working(t) /\ Free(t) /\ request[t][q] = "absent"
    /\ request' = [request EXCEPT ![t][q] = "open"]
    /\ status' = [status EXCEPT ![t] = "blocked"]
    /\ UNCHANGED <<control, session, opening>>

(* expires_at passes. Nothing in the code acts on it.                      *)
LapseRequest(t, q) ==
    /\ request[t][q] = "open"
    /\ request' = [request EXCEPT ![t][q] = "lapsed"]
    /\ UNCHANGED <<status, control, session, opening>>

(* Mutant: the answer to an idle task puts it back, held or not.           *)
ResolvedToQueue(t) ==
    IF ~SessionOpen(t) THEN "queued"
    ELSE IF control[t] = "run" THEN "running" ELSE status[t]

(* resolve_request.                                                        *)
Resolved(t) ==
    IF ~SessionOpen(t) THEN IdleStatus[control[t]]
    ELSE IF control[t] = "run" THEN "running" ELSE status[t]

ResolveRequest(t, q) ==
    /\ Working(t) /\ Free(t) /\ request[t][q] = "open"
    /\ request' = [request EXCEPT ![t][q] = "resolved"]
    /\ status' = [status EXCEPT ![t] =
           IF @ = "blocked"
              /\ \A p \in Requests \ {q} : request[t][p] \notin {"open", "lapsed"}
           THEN Resolved(t) ELSE @]
    /\ UNCHANGED <<control, session, opening>>

(* set_outcome by the harness; a heartbeat past the task timeout; a usage  *)
(* report over the budget.                                                 *)
SetOutcome(t) ==
    /\ Working(t) /\ Free(t)
    /\ CloseAll(t)
    /\ UNCHANGED <<control, request, opening>>

ExceedCeiling(t) ==
    /\ Working(t) /\ Free(t) /\ SessionOpen(t)
    /\ CloseAll(t)
    /\ UNCHANGED <<control, request, opening>>

TaskStep(t) ==
    \/ Create(t)
    \/ \E c \in Commands : SetControl(t, c)
    \/ LockTask(t) \/ CountSessions(t) \/ InsertSession(t) \/ BreakOpen(t)
    \/ \E k \in Keys : CloseSession(t, k)
    \/ \E q \in Requests :
           OpenRequest(t, q) \/ LapseRequest(t, q) \/ ResolveRequest(t, q)
    \/ SetOutcome(t) \/ ExceedCeiling(t)

TasksNext == \E t \in Tasks : TaskStep(t) \/ \E k \in Keys : SendOpen(t, k)

TasksSpec == TasksInit /\ [][TasksNext]_taskVars
-----------------------------------------------------------------------------
TasksTypeOK ==
    /\ status \in [Tasks -> Statuses]
    /\ control \in [Tasks -> Controls]
    /\ session \in [Tasks -> [Keys -> {"absent", "open", "closed"}]]
    /\ request \in [Tasks -> [Requests -> {"absent", "open", "lapsed", "resolved"}]]
    /\ opening \in [Tasks -> [at : {"none", "sent", "locked", "counted"},
                              key : Keys \cup {Nobody}]]

(* A queued task is one a runner may take as it is: nobody holds it,       *)
(* paused it, cancelled it or is asked about it. The claim of a runner     *)
(* looks at the status and the control only (harness/store.py:86).         *)
QueuedIsReady == \A t \in Tasks : status[t] = "queued" =>
    control[t] = "run" /\ ~SessionOpen(t) /\ ~RequestOpen(t)

(* A running task has a session that heartbeats, so its ceiling and the    *)
(* sweep of stale sessions reach it; and it waits for nobody.              *)
RunningIsWorked == \A t \in Tasks : status[t] = "running" =>
    SessionOpen(t) /\ ~RequestOpen(t)

(* A cancel that has not closed its task has a session whose end will      *)
(* close it. A closed task has no session that holds a place.              *)
CancelHasSession == \A t \in Tasks :
    /\ Working(t) /\ control[t] = "cancel" => SessionOpen(t)
    /\ status[t] = "closed" => ~SessionOpen(t)

(* The status of a task agrees with its control, its sessions and its       *)
(* requests, in whatever order they come.                                  *)
StatusAgrees == QueuedIsReady /\ RunningIsWorked /\ CancelHasSession

(* The sessions of an agent are open on at most MaxTasks tasks, however    *)
(* the openings interleave.                                                *)
WithinMaxTasks == \A a \in Agents :
    Cardinality({t \in Tasks : AgentOf[t] = a /\ SessionOpen(t)}) <= MaxTasks
=============================================================================
