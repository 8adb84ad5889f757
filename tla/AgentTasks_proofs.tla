--------------------------- MODULE AgentTasks_proofs ---------------------------
(***************************************************************************)
(* Theorems about AgentTasks, for any tasks, agents, limits, sessions and  *)
(* requests. The lemmas are about a step of a task, so that a module that  *)
(* composes AgentTasks can use them.                                       *)
(***************************************************************************)
EXTENDS AgentTasks, FiniteSetTheorems, TLAPS

(* What a session, a request and an opening may be.                        *)
SessionStates == {"absent", "open", "closed"}
RequestStates == {"absent", "open", "lapsed", "resolved"}
Openings == [at : {"none", "sent", "locked", "counted"}, key : Keys \cup {Nobody}]

LEMMA ControlledType ==
    ASSUME TasksTypeOK, NEW t \in Tasks, NEW c \in Controls
    PROVE  Controlled(t, c) \in Statuses
  BY DEF TasksTypeOK, Controlled, IdleStatus, Controls, Statuses

LEMMA ResolvedType ==
    ASSUME TasksTypeOK, NEW t \in Tasks
    PROVE  Resolved(t) \in Statuses
  BY DEF TasksTypeOK, Resolved, IdleStatus, Controls, Statuses

(* What closes a task, in SetOutcome and ExceedCeiling.                    *)
LEMMA Closing ==
    ASSUME TasksTypeOK, NEW t \in Tasks, SetOutcome(t) \/ ExceedCeiling(t)
    PROVE  /\ Working(t) /\ Free(t)
           /\ status' = [status EXCEPT ![t] = "closed"]
           /\ session' \in [Tasks -> [Keys -> SessionStates]]
           /\ \A u \in Tasks \ {t} : session'[u] = session[u]
           /\ \A k \in Keys : session'[t][k] = IF session[t][k] = "open" THEN "closed"
                                               ELSE session[t][k]
           /\ UNCHANGED <<control, request, opening>>
  <1>1. CloseAll(t) /\ Working(t) /\ Free(t) /\ UNCHANGED <<control, request, opening>>
    BY DEF SetOutcome, ExceedCeiling
  <1> DEFINE after == [k \in Keys |-> IF session[t][k] = "open" THEN "closed"
                                      ELSE session[t][k]]
  <1>2. session \in [Tasks -> [Keys -> SessionStates]]
    BY DEF TasksTypeOK, SessionStates
  <1>3. session' = [session EXCEPT ![t] = after]
    BY <1>1 DEF CloseAll
  <1>4. after \in [Keys -> SessionStates]
    BY <1>2 DEF SessionStates
  <1>5. \A k \in Keys : after[k] = IF session[t][k] = "open" THEN "closed" ELSE session[t][k]
    OBVIOUS
  <1>6. status' = [status EXCEPT ![t] = "closed"]
    BY <1>1 DEF CloseAll
  <1> HIDE DEF after
  <1>7. session' \in [Tasks -> [Keys -> SessionStates]]
        /\ session'[t] = after /\ \A u \in Tasks \ {t} : session'[u] = session[u]
    BY <1>2, <1>3, <1>4
  <1> QED
    BY <1>1, <1>5, <1>6, <1>7

(* A step of a task, and the sending of an opening, keep the types.        *)
LEMMA StepTypes ==
    ASSUME TasksTypeOK, NEW t \in Tasks, TaskStep(t)
    PROVE  TasksTypeOK'
  <1> USE DEF TasksTypeOK, SessionStates, RequestStates, Openings
  <1>0. "queued" \in Statuses /\ "closed" \in Statuses /\ "blocked" \in Statuses
        /\ "running" \in Statuses /\ "paused" \in Statuses
    BY DEF Statuses
  <1>1. CASE Create(t)
    BY <1>0, <1>1 DEF Create
  <1>2. ASSUME NEW c \in Commands, SetControl(t, c) PROVE TasksTypeOK'
    <2>1. c \in Controls
      BY TasksAssumption DEF Controls
    <2> QED
      BY <1>2, <2>1, ControlledType DEF SetControl
  <1>3. CASE LockTask(t)
    <2>1. [opening[t] EXCEPT !.at = "locked"] \in Openings /\ Nothing \in Openings
      BY DEF Openings, Nothing
    <2> QED
      BY <1>3, <2>1 DEF LockTask
  <1>4. CASE CountSessions(t)
    <2>1. [opening[t] EXCEPT !.at = "counted"] \in Openings /\ Nothing \in Openings
      BY DEF Openings, Nothing
    <2> QED
      BY <1>4, <2>1 DEF CountSessions
  <1>5. CASE InsertSession(t)
    <2>1. Nothing \in Openings
      BY DEF Openings, Nothing
    <2>2. session' \in [Tasks -> [Keys -> SessionStates]]
      BY <1>5 DEF InsertSession, SessionStates
    <2>3. status' \in [Tasks -> Statuses]
      BY <1>0, <1>5 DEF InsertSession
    <2> QED
      BY <1>5, <2>1, <2>2, <2>3 DEF InsertSession
  <1>6. CASE BreakOpen(t)
    <2>1. Nothing \in Openings
      BY DEF Openings, Nothing
    <2> QED
      BY <1>6, <2>1 DEF BreakOpen
  <1>7. ASSUME NEW k \in Keys, CloseSession(t, k) PROVE TasksTypeOK'
    <2>1. session' \in [Tasks -> [Keys -> SessionStates]]
      BY <1>7 DEF CloseSession, SessionStates
    <2>2. status' \in [Tasks -> Statuses]
      BY <1>0, <1>7 DEF CloseSession
    <2> QED
      BY <1>7, <2>1, <2>2 DEF CloseSession
  <1>8. ASSUME NEW q \in Requests, OpenRequest(t, q) PROVE TasksTypeOK'
    <2>1. request' \in [Tasks -> [Requests -> RequestStates]]
      BY <1>8 DEF OpenRequest, RequestStates
    <2> QED
      BY <1>0, <1>8, <2>1 DEF OpenRequest
  <1>9. ASSUME NEW q \in Requests, LapseRequest(t, q) PROVE TasksTypeOK'
    <2>1. request' \in [Tasks -> [Requests -> RequestStates]]
      BY <1>9 DEF LapseRequest, RequestStates
    <2> QED
      BY <1>9, <2>1 DEF LapseRequest
  <1>10. ASSUME NEW q \in Requests, ResolveRequest(t, q) PROVE TasksTypeOK'
    <2>1. request' \in [Tasks -> [Requests -> RequestStates]]
      BY <1>10 DEF ResolveRequest, RequestStates
    <2>2. status' \in [Tasks -> Statuses]
      BY <1>10, ResolvedType DEF ResolveRequest
    <2> QED
      BY <1>10, <2>1, <2>2 DEF ResolveRequest
  <1>11. CASE SetOutcome(t) \/ ExceedCeiling(t)
    BY <1>0, <1>11, Closing
  <1> QED
    BY <1>1, <1>2, <1>3, <1>4, <1>5, <1>6, <1>7, <1>8, <1>9, <1>10, <1>11 DEF TaskStep

LEMMA SendTypes ==
    ASSUME TasksTypeOK, NEW t \in Tasks, NEW k \in Keys, SendOpen(t, k)
    PROVE  TasksTypeOK'
  <1>1. [at |-> "sent", key |-> k] \in Openings
    BY DEF Openings
  <1> QED
    BY <1>1 DEF TasksTypeOK, Openings, SendOpen

LEMMA InitTypes ==
    ASSUME TasksInit
    PROVE  TasksTypeOK
  BY DEF TasksInit, TasksTypeOK, Statuses, Controls, Nothing

(* Every variable keeps its type.                                          *)
THEOREM Typing == TasksSpec => []TasksTypeOK
<1>1. TasksInit => TasksTypeOK
  BY InitTypes
<1>2. TasksTypeOK /\ [TasksNext]_taskVars => TasksTypeOK'
  <2>1. TasksTypeOK /\ UNCHANGED taskVars => TasksTypeOK'
    BY DEF TasksTypeOK, taskVars
  <2> QED
    BY <2>1, StepTypes, SendTypes DEF TasksNext
<1> QED
  BY <1>1, <1>2, PTL DEF TasksSpec
-----------------------------------------------------------------------------
(* What agrees about one task: the row is held for a session that may be    *)
(* opened, a task that was not made has nothing, and its status.            *)
TaskInv(t) ==
    /\ opening[t].at # "none" => opening[t].key \in Keys
    /\ ~Free(t) => /\ Working(t) /\ control[t] # "cancel"
                   /\ session[t][opening[t].key] = "absent"
    /\ status[t] = "absent" => /\ control[t] = "run"
                               /\ ~SessionOpen(t) /\ ~RequestOpen(t)
    /\ status[t] = "queued" => /\ control[t] = "run"
                               /\ ~SessionOpen(t) /\ ~RequestOpen(t)
    /\ status[t] = "running" => SessionOpen(t) /\ ~RequestOpen(t)
    /\ Working(t) /\ control[t] = "cancel" => SessionOpen(t)
    /\ status[t] = "closed" => ~SessionOpen(t)

(* A step of one task leaves the others as they are.                        *)
LEMMA OthersStay ==
    ASSUME TasksTypeOK, NEW t \in Tasks, NEW u \in Tasks \ {t},
           TaskStep(t) \/ \E k \in Keys : SendOpen(t, k)
    PROVE  /\ status'[u] = status[u] /\ control'[u] = control[u]
           /\ session'[u] = session[u] /\ request'[u] = request[u]
           /\ opening'[u] = opening[u]
  <1> USE DEF TasksTypeOK
  <1>1. CASE SetOutcome(t) \/ ExceedCeiling(t)
    BY <1>1, Closing
  <1>2. CASE Create(t) \/ \E c \in Commands : SetControl(t, c)
    BY <1>2 DEF Create, SetControl
  <1>3. CASE LockTask(t) \/ CountSessions(t) \/ InsertSession(t) \/ BreakOpen(t)
    BY <1>3 DEF LockTask, CountSessions, InsertSession, BreakOpen
  <1>4. CASE \E k \in Keys : CloseSession(t, k) \/ SendOpen(t, k)
    BY <1>4 DEF CloseSession, SendOpen
  <1>5. CASE \E q \in Requests : OpenRequest(t, q) \/ LapseRequest(t, q)
                                 \/ ResolveRequest(t, q)
    BY <1>5 DEF OpenRequest, LapseRequest, ResolveRequest
  <1> QED
    BY <1>1, <1>2, <1>3, <1>4, <1>5 DEF TaskStep

(* Each step keeps what agrees about its task.                              *)
LEMMA StepAgrees ==
    ASSUME TasksTypeOK, NEW t \in Tasks, TaskInv(t),
           TaskStep(t) \/ \E k \in Keys : SendOpen(t, k)
    PROVE  TaskInv(t)'
  <1> USE DEF TaskInv, Working, Free
  <1>1. CASE Create(t)
    <2>1. status'[t] = "queued" /\ UNCHANGED <<control, session, request, opening>>
          /\ status[t] = "absent"
      BY <1>1 DEF Create, TasksTypeOK
    <2> QED
      BY <2>1 DEF SessionOpen, RequestOpen
  <1>2. ASSUME NEW c \in Commands, SetControl(t, c) PROVE TaskInv(t)'
    <2>1. /\ Working(t) /\ Free(t) /\ control[t] # "cancel" /\ control'[t] = c
          /\ status'[t] = Controlled(t, c)
          /\ UNCHANGED <<session, request, opening>>
      BY <1>2 DEF SetControl, TasksTypeOK
    <2>2. c \in {"run", "pause", "cancel"}
      BY TasksAssumption
    <2>3. SessionOpen(t)' = SessionOpen(t) /\ RequestOpen(t)' = RequestOpen(t)
      BY <2>1 DEF SessionOpen, RequestOpen
    <2>4. CASE ~SessionOpen(t)
      BY <2>1, <2>2, <2>3, <2>4 DEF Controlled, IdleStatus
    <2>5. CASE SessionOpen(t)
      BY <2>1, <2>2, <2>3, <2>5 DEF Controlled
    <2> QED
      BY <2>4, <2>5
  <1>3. CASE LockTask(t)
    <2>1. /\ opening[t].at = "sent" /\ opening[t].key \in Keys
          /\ UNCHANGED <<status, control, session, request>>
      BY <1>3 DEF LockTask
    <2>2. \/ opening'[t] = Nothing
          \/ /\ Working(t) /\ control[t] # "cancel" /\ session[t][opening[t].key] = "absent"
             /\ opening'[t] = [opening[t] EXCEPT !.at = "locked"]
      BY <1>3 DEF LockTask, TasksTypeOK
    <2>3. opening'[t].key = opening[t].key \/ opening'[t].at = "none"
      BY <2>2 DEF TasksTypeOK, Nothing
    <2> QED
      BY <2>1, <2>2, <2>3 DEF SessionOpen, RequestOpen, Nothing
  <1>4. CASE CountSessions(t)
    <2>1. /\ opening[t].at = "locked" /\ UNCHANGED <<status, control, session, request>>
      BY <1>4 DEF CountSessions
    <2>2. opening'[t] = Nothing \/ opening'[t] = [opening[t] EXCEPT !.at = "counted"]
      BY <1>4 DEF CountSessions, TasksTypeOK
    <2>3. opening'[t].key = opening[t].key \/ opening'[t].at = "none"
      BY <2>2 DEF TasksTypeOK, Nothing
    <2> QED
      BY <2>1, <2>3 DEF SessionOpen, RequestOpen
  <1>5. CASE InsertSession(t)
    <2> DEFINE k == opening[t].key
    <2>1. /\ opening[t].at = "counted" /\ k \in Keys
          /\ Working(t) /\ control[t] # "cancel"
          /\ UNCHANGED <<control, request>>
      BY <1>5 DEF InsertSession
    <2>2. session'[t][k] = "open" /\ opening'[t] = Nothing
      BY <1>5, <2>1 DEF InsertSession, TasksTypeOK
    <2>3. SessionOpen(t)'
      BY <2>1, <2>2 DEF SessionOpen
    <2>4. RequestOpen(t)' = RequestOpen(t)
      BY <2>1 DEF RequestOpen
    <2>5. status'[t] = IF control[t] = "run" /\ status[t] \in {"queued", "blocked"}
                          /\ ~RequestOpen(t)
                       THEN "running" ELSE status[t]
      BY <1>5 DEF InsertSession, TasksTypeOK
    <2> HIDE DEF k
    <2> QED
      BY <2>1, <2>2, <2>3, <2>4, <2>5 DEF Nothing
  <1>6. CASE BreakOpen(t)
    <2>1. opening'[t] = Nothing /\ UNCHANGED <<status, control, session, request>>
      BY <1>6 DEF BreakOpen, TasksTypeOK
    <2> QED
      BY <2>1 DEF SessionOpen, RequestOpen, Nothing
  <1>7. ASSUME NEW k \in Keys, CloseSession(t, k) PROVE TaskInv(t)'
    <2>1. /\ Working(t) /\ Free(t) /\ session[t][k] = "open"
          /\ UNCHANGED <<control, request, opening>>
      BY <1>7 DEF CloseSession
    <2>2. SessionOpen(t)' <=> \E j \in Keys \ {k} : session[t][j] = "open"
      BY <1>7 DEF CloseSession, SessionOpen, TasksTypeOK
    <2>3. status'[t] = IF \E j \in Keys \ {k} : session[t][j] = "open" THEN status[t]
                       ELSE IF control[t] = "cancel" THEN "closed"
                       ELSE IF control[t] = "pause" THEN "paused"
                       ELSE IF status[t] = "running" THEN "queued" ELSE status[t]
      BY <1>7 DEF CloseSession, TasksTypeOK
    <2>4. SessionOpen(t)
      BY <2>1 DEF SessionOpen
    <2>5. RequestOpen(t)' = RequestOpen(t) /\ control[t] \in {"run", "pause", "cancel"}
      BY <2>1 DEF RequestOpen, TasksTypeOK, Controls
    <2>6. CASE SessionOpen(t)'
      BY <2>1, <2>2, <2>3, <2>4, <2>5, <2>6
    <2>7. CASE ~SessionOpen(t)'
      BY <2>1, <2>2, <2>3, <2>4, <2>5, <2>7
    <2> QED
      BY <2>6, <2>7
  <1>8. ASSUME NEW q \in Requests, OpenRequest(t, q) PROVE TaskInv(t)'
    <2>1. /\ Working(t) /\ Free(t) /\ status'[t] = "blocked"
          /\ UNCHANGED <<control, session, opening>>
      BY <1>8 DEF OpenRequest, TasksTypeOK
    <2>2. SessionOpen(t)' = SessionOpen(t)
      BY <2>1 DEF SessionOpen
    <2> QED
      BY <2>1, <2>2
  <1>9. ASSUME NEW q \in Requests, LapseRequest(t, q) PROVE TaskInv(t)'
    <2>1. UNCHANGED <<status, control, session, opening>>
      BY <1>9 DEF LapseRequest
    <2>2. RequestOpen(t)' = RequestOpen(t)
      BY <1>9 DEF LapseRequest, RequestOpen, TasksTypeOK
    <2>3. SessionOpen(t)' = SessionOpen(t)
      BY <2>1 DEF SessionOpen
    <2> QED
      BY <2>1, <2>2, <2>3
  <1>10. ASSUME NEW q \in Requests, ResolveRequest(t, q) PROVE TaskInv(t)'
    <2>1. /\ Working(t) /\ Free(t) /\ request[t][q] = "open"
          /\ UNCHANGED <<control, session, opening>>
      BY <1>10 DEF ResolveRequest
    <2>2. RequestOpen(t)' <=> \E p \in Requests \ {q} : request[t][p] \in {"open", "lapsed"}
      BY <1>10 DEF ResolveRequest, RequestOpen, TasksTypeOK
    <2>3. RequestOpen(t) /\ (SessionOpen(t)' = SessionOpen(t))
      BY <2>1 DEF RequestOpen, SessionOpen
    <2>4. status'[t] = IF status[t] = "blocked" /\ ~RequestOpen(t)' THEN Resolved(t)
                       ELSE status[t]
      BY <1>10, <2>2 DEF ResolveRequest, TasksTypeOK
    <2>5. control[t] \in {"run", "pause", "cancel"}
      BY DEF TasksTypeOK, Controls
    <2>6. CASE status[t] = "blocked" /\ ~RequestOpen(t)'
      BY <2>1, <2>3, <2>4, <2>5, <2>6 DEF Resolved, IdleStatus
    <2>7. CASE ~(status[t] = "blocked" /\ ~RequestOpen(t)')
      BY <2>1, <2>3, <2>4, <2>7
    <2> QED
      BY <2>6, <2>7
  <1>11. CASE SetOutcome(t) \/ ExceedCeiling(t)
    <2>1. /\ Working(t) /\ Free(t) /\ status'[t] = "closed"
          /\ \A k \in Keys : session'[t][k] = IF session[t][k] = "open" THEN "closed"
                                              ELSE session[t][k]
          /\ UNCHANGED <<control, request, opening>>
      BY <1>11, Closing DEF TasksTypeOK
    <2>2. ~SessionOpen(t)'
      BY <2>1 DEF SessionOpen
    <2> QED
      BY <2>1, <2>2
  <1>12. ASSUME NEW k \in Keys, SendOpen(t, k) PROVE TaskInv(t)'
    <2>1. /\ opening'[t] = [at |-> "sent", key |-> k]
          /\ UNCHANGED <<status, control, session, request>>
      BY <1>12 DEF SendOpen, TasksTypeOK
    <2> QED
      BY <2>1 DEF SessionOpen, RequestOpen
  <1> QED
    BY <1>1, <1>2, <1>3, <1>4, <1>5, <1>6, <1>7, <1>8, <1>9, <1>10, <1>11, <1>12
       DEF TaskStep
(* The status of a task agrees with its control, its sessions and its       *)
(* requests, in whatever order they come: a runner that takes a queued task *)
(* takes one that is ready, and no cancel is left without an end.           *)
THEOREM StatusAlwaysAgrees == TasksSpec => []StatusAgrees
<1> DEFINE Inv == \A t \in Tasks : TaskInv(t)
<1>1. TasksInit => Inv
  BY DEF TasksInit, TaskInv, Working, Free, SessionOpen, RequestOpen, Nothing
<1>2. TasksTypeOK /\ Inv /\ [TasksNext]_taskVars => Inv'
  <2> SUFFICES ASSUME TasksTypeOK, Inv, [TasksNext]_taskVars PROVE Inv'
    OBVIOUS
  <2>1. CASE UNCHANGED taskVars
    BY <2>1 DEF taskVars, TaskInv, Working, Free, SessionOpen, RequestOpen
  <2>2. ASSUME NEW t \in Tasks, TaskStep(t) \/ \E k \in Keys : SendOpen(t, k) PROVE Inv'
    <3> SUFFICES ASSUME NEW u \in Tasks PROVE TaskInv(u)'
      OBVIOUS
    <3>1. CASE u = t
      BY <2>2, <3>1, StepAgrees
    <3>2. CASE u # t
      <4>1. /\ status'[u] = status[u] /\ control'[u] = control[u]
            /\ session'[u] = session[u] /\ request'[u] = request[u]
            /\ opening'[u] = opening[u]
        BY <2>2, <3>2, OthersStay
      <4> QED
        BY <4>1 DEF TaskInv, Working, Free, SessionOpen, RequestOpen
    <3> QED
      BY <3>1, <3>2
  <2> QED
    BY <2>1, <2>2 DEF TasksNext
<1>3. Inv => StatusAgrees
  BY DEF TaskInv, StatusAgrees, QueuedIsReady, RunningIsWorked, CancelHasSession
<1> QED
  BY <1>1, <1>2, <1>3, Typing, PTL DEF TasksSpec
-----------------------------------------------------------------------------
(* The tasks an agent works on, and those of them that are not t.           *)
OpenOf(a) == {t \in Tasks : AgentOf[t] = a /\ SessionOpen(t)}
OtherOpen(t) == {u \in SameAgent(t) : SessionOpen(u)}

(* The strengthening: the agent's lock is held by one opening at a time, and *)
(* what it has counted still leaves room for its session.                    *)
PlacesInv ==
    /\ WithinMaxTasks
    /\ \A t, u \in Tasks :
          opening[t].at = "counted" /\ opening[u].at = "counted" /\ AgentOf[t] = AgentOf[u]
              => t = u
    /\ \A t \in Tasks :
          opening[t].at = "counted" => Cardinality(OtherOpen(t)) < MaxTasks

(* Only the insert of a session opens one.                                   *)
LEMMA OnlyInsertOpens ==
    ASSUME TasksTypeOK, NEW t \in Tasks, ~InsertSession(t), NEW u \in Tasks,
           TaskStep(t) \/ \E k \in Keys : SendOpen(t, k),
           SessionOpen(u)'
    PROVE  SessionOpen(u)
  <1>1. CASE u # t
    <2>1. session'[u] = session[u]
      BY <1>1, OthersStay
    <2> QED
      BY <2>1 DEF SessionOpen
  <1>2. CASE UNCHANGED session
    BY <1>2 DEF SessionOpen
  <1>3. ASSUME u = t, NEW k \in Keys, CloseSession(t, k) PROVE SessionOpen(u)
    BY <1>3 DEF CloseSession, SessionOpen, TasksTypeOK
  <1>4. CASE u = t /\ (SetOutcome(t) \/ ExceedCeiling(t))
    <2>1. \A k \in Keys : session'[t][k] # "open"
      BY <1>4, Closing
    <2> QED
      BY <1>4, <2>1 DEF SessionOpen
  <1> QED
    BY <1>1, <1>2, <1>3, <1>4
       DEF TaskStep, Create, SetControl, LockTask, CountSessions, BreakOpen, OpenRequest,
           LapseRequest, ResolveRequest, SendOpen

(* What was open is a finite set, and what is left of it is no larger.       *)
LEMMA Fewer ==
    ASSUME NEW S \in SUBSET Tasks, NEW T \in SUBSET S
    PROVE  IsFiniteSet(S) /\ Cardinality(T) <= Cardinality(S)
           /\ Cardinality(S) \in Nat /\ Cardinality(T) \in Nat
  <1>1. IsFiniteSet(S) /\ IsFiniteSet(T)
    BY TasksAssumption, FS_Subset
  <1> QED
    BY <1>1, FS_Subset, FS_CardinalityType

(* Only a count that finds a place is followed by an insert.                 *)
LEMMA OnlyCountCounts ==
    ASSUME TasksTypeOK, NEW t \in Tasks, ~CountSessions(t), NEW u \in Tasks,
           TaskStep(t) \/ \E k \in Keys : SendOpen(t, k),
           opening'[u].at = "counted"
    PROVE  opening[u].at = "counted"
  <1>1. CASE u # t
    BY <1>1, OthersStay
  <1>2. CASE UNCHANGED opening
    BY <1>2
  <1>3. CASE u = t /\ LockTask(t)
    BY <1>3 DEF LockTask, TasksTypeOK, Nothing
  <1>4. CASE u = t /\ (InsertSession(t) \/ BreakOpen(t) \/ \E k \in Keys : SendOpen(t, k))
    BY <1>4 DEF InsertSession, BreakOpen, SendOpen, TasksTypeOK, Nothing
  <1>5. CASE SetOutcome(t) \/ ExceedCeiling(t)
    BY <1>5 DEF SetOutcome, ExceedCeiling
  <1> QED
    BY <1>1, <1>2, <1>3, <1>4, <1>5
       DEF TaskStep, Create, SetControl, CloseSession, OpenRequest, LapseRequest,
           ResolveRequest

(* A step keeps the limit, and room for the session that was counted.        *)
LEMMA StepKeepsPlaces ==
    ASSUME TasksTypeOK, NEW t \in Tasks, PlacesInv,
           TaskStep(t) \/ \E k \in Keys : SendOpen(t, k)
    PROVE  PlacesInv'
  <1> USE DEF PlacesInv
  <1>0. MaxTasks \in Nat
    BY TasksAssumption
  <1>1. CASE InsertSession(t)
    <2>1. opening[t].at = "counted" /\ ~CountSessions(t)
      BY <1>1 DEF InsertSession, CountSessions
    <2>2. opening'[t].at # "counted"
      BY <1>1 DEF InsertSession, TasksTypeOK, Nothing
    <2>3. \A u \in Tasks : opening'[u].at = "counted"
              => opening[u].at = "counted" /\ u # t /\ AgentOf[u] # AgentOf[t]
      BY <2>1, <2>2, OnlyCountCounts
    <2>4. \A u \in Tasks \ {t} : SessionOpen(u)' => SessionOpen(u)
      BY OthersStay DEF SessionOpen
    <2>5. ASSUME NEW a \in Agents PROVE Cardinality(OpenOf(a)') <= MaxTasks
      <3>1. CASE a # AgentOf[t]
        <4>1. OpenOf(a)' \in SUBSET OpenOf(a) /\ OpenOf(a) \in SUBSET Tasks
          BY <2>4, <3>1 DEF OpenOf
        <4>2. Cardinality(OpenOf(a)) <= MaxTasks
          BY DEF WithinMaxTasks, OpenOf
        <4> QED
          BY <1>0, <4>1, <4>2, Fewer
      <3>2. CASE a = AgentOf[t]
        <4>1. OpenOf(a)' \in SUBSET (OtherOpen(t) \cup {t})
          BY <2>4, <3>2 DEF OpenOf, OtherOpen, SameAgent
        <4>2. OtherOpen(t) \in SUBSET Tasks /\ t \notin OtherOpen(t)
          BY DEF OtherOpen, SameAgent
        <4>3. IsFiniteSet(OtherOpen(t)) /\ Cardinality(OtherOpen(t)) \in Nat
          BY <4>2, Fewer
        <4>4. Cardinality(OtherOpen(t) \cup {t}) = Cardinality(OtherOpen(t)) + 1
          BY <4>2, <4>3, FS_AddElement
        <4>5. Cardinality(OtherOpen(t)) < MaxTasks
          BY <2>1
        <4>6. Cardinality(OpenOf(a)') <= Cardinality(OtherOpen(t) \cup {t})
              /\ Cardinality(OpenOf(a)') \in Nat
          BY <4>1, <4>2, Fewer
        <4> QED
          BY <1>0, <4>3, <4>4, <4>5, <4>6
      <3> QED
        BY <3>1, <3>2
    <2>6. ASSUME NEW u \in Tasks, opening'[u].at = "counted"
          PROVE  Cardinality(OtherOpen(u)') < MaxTasks
      <3>1. opening[u].at = "counted" /\ u # t /\ AgentOf[u] # AgentOf[t]
        BY <2>3, <2>6
      <3>2. OtherOpen(u)' \in SUBSET OtherOpen(u) /\ OtherOpen(u) \in SUBSET Tasks
        BY <2>4, <3>1 DEF OtherOpen, SameAgent
      <3>3. Cardinality(OtherOpen(u)) < MaxTasks
        BY <3>1
      <3> QED
        BY <1>0, <3>2, <3>3, Fewer
    <2> QED
      BY <2>3, <2>5, <2>6 DEF WithinMaxTasks, OpenOf
  <1>2. CASE ~InsertSession(t)
    <2>1. \A u \in Tasks : SessionOpen(u)' => SessionOpen(u)
      BY <1>2, OnlyInsertOpens
    <2>2. ASSUME NEW a \in Agents PROVE Cardinality(OpenOf(a)') <= MaxTasks
      <3>1. OpenOf(a)' \in SUBSET OpenOf(a) /\ OpenOf(a) \in SUBSET Tasks
        BY <2>1 DEF OpenOf
      <3>2. Cardinality(OpenOf(a)) <= MaxTasks
        BY DEF WithinMaxTasks, OpenOf
      <3> QED
        BY <1>0, <3>1, <3>2, Fewer
    <2>3. ASSUME NEW u \in Tasks PROVE Cardinality(OtherOpen(u)') <= Cardinality(OtherOpen(u))
                                       /\ Cardinality(OtherOpen(u)) \in Nat
                                       /\ Cardinality(OtherOpen(u)') \in Nat
      <3>1. OtherOpen(u)' \in SUBSET OtherOpen(u) /\ OtherOpen(u) \in SUBSET Tasks
        BY <2>1 DEF OtherOpen, SameAgent
      <3> QED
        BY <3>1, Fewer
    <2>4. CASE CountSessions(t)
      <3>1. \A u \in SameAgent(t) : opening[u].at # "counted"
        BY <2>4 DEF CountSessions
      <3>2. \A u \in Tasks \ {t} : opening'[u] = opening[u]
        BY OthersStay
      <3>3. opening'[t].at = "counted" => Cardinality(OtherOpen(t)) < MaxTasks
        BY <2>4 DEF CountSessions, OtherOpen, TasksTypeOK, Nothing
      <3>4. \A u \in Tasks : opening'[u].at = "counted"
                => Cardinality(OtherOpen(u)) < MaxTasks
        BY <3>2, <3>3
      <3>5. \A u, v \in Tasks :
                opening'[u].at = "counted" /\ opening'[v].at = "counted"
                /\ AgentOf[u] = AgentOf[v] => u = v
        BY <3>1, <3>2 DEF SameAgent
      <3> QED
        BY <1>0, <2>2, <2>3, <3>4, <3>5 DEF WithinMaxTasks, OpenOf
    <2>5. CASE ~CountSessions(t)
      <3>1. \A u \in Tasks : opening'[u].at = "counted" => opening[u].at = "counted"
        BY <2>5, OnlyCountCounts
      <3> QED
        BY <1>0, <2>2, <2>3, <3>1 DEF WithinMaxTasks, OpenOf
    <2> QED
      BY <2>4, <2>5
  <1> QED
    BY <1>1, <1>2

(* An agent never has sessions open on more tasks than its limit, however   *)
(* many are opened at once.                                                 *)
THEOREM LimitHolds == TasksSpec => []WithinMaxTasks
<1>1. TasksInit => PlacesInv
  <2> SUFFICES ASSUME TasksInit PROVE PlacesInv
    OBVIOUS
  <2>1. \A a \in Agents : OpenOf(a) = {}
    BY DEF TasksInit, OpenOf, SessionOpen
  <2>2. \A t \in Tasks : opening[t].at # "counted"
    BY DEF TasksInit, Nothing
  <2>3. Cardinality({}) = 0 /\ MaxTasks \in Nat
    BY FS_EmptySet, TasksAssumption
  <2> QED
    BY <2>1, <2>2, <2>3 DEF PlacesInv, WithinMaxTasks, OpenOf
<1>2. TasksTypeOK /\ PlacesInv /\ [TasksNext]_taskVars => PlacesInv'
  <2>1. PlacesInv /\ UNCHANGED taskVars => PlacesInv'
    BY DEF taskVars, PlacesInv, WithinMaxTasks, OtherOpen, SameAgent, SessionOpen
  <2> QED
    BY <2>1, StepKeepsPlaces DEF TasksNext
<1>3. PlacesInv => WithinMaxTasks
  BY DEF PlacesInv
<1> QED
  BY <1>1, <1>2, <1>3, Typing, PTL DEF TasksSpec
================================================================================
