------------------------- MODULE TaskClaims_proofs -------------------------
(***************************************************************************)
(* Proofs about TaskClaims: every claim of a task is for a due time that   *)
(* no earlier claim had passed, so that no due time is fired twice, for    *)
(* any number of tasks, overlapping ticks, replicas and firings, as long   *)
(* as no request rewrites next_run_at from what it read before the claim;  *)
(* and a task is disabled only after as many skips as the limit says.      *)
(***************************************************************************)
EXTENDS TaskClaims, FiniteSetTheorems, TLAPS

(* One step, taken apart once for every invariance proof below.             *)
LEMMA NextCases ==
    ASSUME Next
    PROVE  \/ ClockTick
           \/ \E c \in Claimers : StartTick(c)
           \/ \E c \in Claimers : Pick(c)
           \/ \E c \in Claimers : Advance(c)
           \/ \E c \in Claimers : CrashTick(c)
           \/ \E t \in Tasks : \E i \in DOMAIN firings[t] :
                  \/ Decline(t, i) \/ Start(t, i) \/ Finish(t, i) \/ CountOutcome(t, i)
                  \/ CountFails(t, i) \/ ApplyLimits(t, i) \/ CrashFiring(t, i)
           \/ \E e \in Editors, t \in Tasks : RunNow(e, t)
           \/ \E e \in Editors, t \in Tasks : Pause(e, t)
           \/ \E e \in Editors, t \in Tasks : ResumeRead(e, t) \/ PatchRead(e, t)
           \/ \E e \in Editors : ResumeWrite(e)
           \/ \E e \in Editors : PatchWrite(e)
  BY SMT DEF Next, Claim, Work

(* What a trigger answers is a time of the model.                           *)
LEMMA NextFireIsTime ==
    ASSUME NEW moment \in Times
    PROVE  NextFire(moment) \subseteq Times \cup {Never}
  BY ConstantsAssumption DEF NextFire, Times, Never

LEMMA FirstFireIsTime == 1 .. Never \subseteq Times \cup {Never} /\ 0 \in Times
  BY ConstantsAssumption DEF Times, Never

(* A step of the i-th firing of t leaves every firing's claim as it was.    *)
LEMMA GotoKeepsClaims ==
    ASSUME NEW t \in Tasks, NEW i, NEW from, NEW to \in Phases, NEW outcome \in Outcomes,
           firings \in [Tasks -> Seq(Firing)], Goto(t, i, from, to, outcome)
    PROVE  /\ firings' \in [Tasks -> Seq(Firing)]
           /\ \A u \in Tasks : Len(firings'[u]) = Len(firings[u])
           /\ \A u \in Tasks : \A j \in DOMAIN firings[u] :
                  /\ firings'[u][j].due = firings[u][j].due
                  /\ firings'[u][j].moment = firings[u][j].moment
  <1> DEFINE f == [firings[t][i] EXCEPT !.phase = to, !.outcome = outcome]
             s == [firings[t] EXCEPT ![i] = f]
  <1>1. firings[t] \in Seq(Firing) /\ i \in DOMAIN firings[t]
    BY DEF Goto
  <1>2. firings[t][i] \in Firing
    BY <1>1
  <1>3. f \in Firing /\ f.due = firings[t][i].due /\ f.moment = firings[t][i].moment
    BY <1>2 DEF Firing
  <1>4. s \in Seq(Firing) /\ Len(s) = Len(firings[t])
    BY <1>1, <1>3
  <1>5. firings' = [firings EXCEPT ![t] = s]
    BY DEF Goto
  <1> QED
    BY <1>1, <1>3, <1>4, <1>5

(* So do all the steps of a firing, whatever they do to its row.            *)
FiringStep(t, i) ==
    \/ Decline(t, i) \/ Start(t, i) \/ Finish(t, i) \/ CountOutcome(t, i)
    \/ CountFails(t, i) \/ ApplyLimits(t, i) \/ CrashFiring(t, i)

LEMMA FiringStepFrame ==
    ASSUME TypeOK, NEW t \in Tasks, NEW i \in DOMAIN firings[t], FiringStep(t, i)
    PROVE  /\ firings' \in [Tasks -> Seq(Firing)]
           /\ \A u \in Tasks : Len(firings'[u]) = Len(firings[u])
           /\ \A u \in Tasks : \A j \in DOMAIN firings[u] :
                  /\ firings'[u][j].due = firings[u][j].due
                  /\ firings'[u][j].moment = firings[u][j].moment
           /\ row' \in [Tasks -> Row]
           /\ \A u \in Tasks : row'[u].next = row[u].next
           /\ UNCHANGED <<now, rowLock, tick, edit>>
  <1>1. firings[t][i] \in Firing
    BY DEF TypeOK
  <1>2. firings[t][i].outcome \in Outcomes
    BY <1>1 DEF Firing
  <1>3. \E from, to, outcome : /\ Goto(t, i, from, to, outcome)
                               /\ to \in Phases /\ outcome \in Outcomes
    BY <1>2 DEF FiringStep, Decline, Start, Finish, CountOutcome, CountFails, ApplyLimits,
                CrashFiring, Phases, Outcomes
  <1>4. UNCHANGED <<now, rowLock, tick, edit>>
    BY DEF FiringStep, Decline, Start, Finish, CountOutcome, CountFails, ApplyLimits,
           CrashFiring
  <1>5. \/ UNCHANGED row
        \/ \E n \in Nat : row' = [row EXCEPT ![t].skips = n]
        \/ row' = [row EXCEPT ![t].enabled = FALSE]
    <2>1. row[t].skips \in Nat
      BY DEF TypeOK, Row
    <2>2. CASE CountOutcome(t, i)
      <3> DEFINE n == IF firings[t][i].outcome = "skipped" THEN row[t].skips + 1 ELSE 0
      <3>1. n \in Nat /\ row' = [row EXCEPT ![t].skips = n]
        BY <2>1, <2>2 DEF CountOutcome
      <3> QED
        BY <3>1
    <2>3. CASE ApplyLimits(t, i)
      BY <2>3 DEF ApplyLimits
    <2>4. CASE ~CountOutcome(t, i) /\ ~ApplyLimits(t, i)
      BY <2>4 DEF FiringStep, Decline, Start, Finish, CountFails, CrashFiring
    <2> QED
      BY <2>2, <2>3, <2>4
  <1>6. row' \in [Tasks -> Row] /\ \A u \in Tasks : row'[u].next = row[u].next
    <2>1. CASE UNCHANGED row
      BY <2>1 DEF TypeOK
    <2>2. ASSUME NEW n \in Nat, row' = [row EXCEPT ![t].skips = n]
          PROVE  row' \in [Tasks -> Row] /\ \A u \in Tasks : row'[u].next = row[u].next
      BY <2>2 DEF TypeOK, Row
    <2>3. CASE row' = [row EXCEPT ![t].enabled = FALSE]
      BY <2>3 DEF TypeOK, Row
    <2> QED
      BY <1>5, <2>1, <2>2, <2>3
  <1> QED
    BY <1>3, <1>4, <1>6, GotoKeepsClaims DEF TypeOK

(* Every variable keeps its type, in every behaviour of the specification.  *)
THEOREM Typing == Spec => []TypeOK
  <1>1. Init => TypeOK
    <2> SUFFICES ASSUME Init PROVE TypeOK
      OBVIOUS
    <2>1. row \in [Tasks -> Row]
      <3> DEFINE first == 1 .. Never
      <3>1. first \subseteq Times \cup {Never}
        BY FirstFireIsTime
      <3> HIDE DEF first
      <3>2. [enabled : {TRUE}, next : first, skips : {0}] \subseteq Row
        <4> SUFFICES ASSUME NEW r \in [enabled : {TRUE}, next : first, skips : {0}]
                     PROVE  r \in Row
          OBVIOUS
        <4>1. r.enabled \in BOOLEAN /\ r.next \in Times \cup {Never} /\ r.skips \in Nat
          <5>1. r.enabled = TRUE /\ r.next \in first /\ r.skips = 0
            OBVIOUS
          <5>2. r.next \in Times \cup {Never}
            BY <5>1, <3>1
          <5>3. r.enabled \in BOOLEAN
            BY <5>1
          <5>4. r.skips \in Nat
            BY <5>1
          <5> QED
            BY <5>2, <5>3, <5>4
        <4>2. r = [enabled |-> r.enabled, next |-> r.next, skips |-> r.skips]
          OBVIOUS
        <4> QED
          BY <4>1, <4>2, Zenon DEF Row
      <3> QED
        BY <3>2 DEF Init, first
    <2>2. now \in Times /\ tick \in [Claimers -> [phase : {"off", "ticking", "picked"}, moment : Times]]
      BY ConstantsAssumption DEF Init, Times
    <2>3. firings \in [Tasks -> Seq(Firing)] /\ \A t \in Tasks : Len(firings[t]) <= MaxFirings
      BY ConstantsAssumption DEF Init
    <2> QED
      BY <2>1, <2>2, <2>3 DEF Init, TypeOK, Edit
  <1>2. ASSUME TypeOK, Next PROVE TypeOK'
    <2> USE <1>2, ConstantsAssumption DEF TypeOK
    <2>1. CASE ClockTick
      BY <2>1 DEF ClockTick, Times
    <2>2. CASE \E c \in Claimers : StartTick(c)
      BY <2>2 DEF StartTick
    <2>3. CASE \E c \in Claimers : Pick(c)
      <3> SUFFICES ASSUME NEW c \in Claimers, Pick(c) PROVE TypeOK'
        BY <2>3
      <3>1. PICK b \in Batches(DueAt(tick[c].moment)) :
                IF b = {} THEN /\ tick' = [tick EXCEPT ![c].phase = "off"]
                               /\ UNCHANGED rowLock
                ELSE /\ tick' = [tick EXCEPT ![c].phase = "picked"]
                     /\ rowLock' = [t \in Tasks |-> IF t \in b THEN c ELSE rowLock[t]]
        BY DEF Pick
      <3>2. tick' \in [Claimers -> [phase : {"off", "ticking", "picked"}, moment : Times]]
        <4>1. PICK phase \in {"off", "picked"} : tick' = [tick EXCEPT ![c].phase = phase]
          BY <3>1
        <4> QED
          BY <4>1
      <3>3. rowLock' \in [Tasks -> Claimers \cup {Nobody}]
        BY <3>1
      <3> QED
        BY <3>2, <3>3 DEF Pick
    <2>4. ASSUME NEW c \in Claimers, Advance(c) PROVE TypeOK'
      <3>1. \A t \in Tasks : FiringOf(t, row[t].next, tick[c].moment) \in Firing
        BY DEF FiringOf, Firing, Row, Phases, Outcomes
      <3>2. firings' \in [Tasks -> Seq(Firing)] /\ \A t \in Tasks : Len(firings'[t]) <= MaxFirings
        BY <2>4, <3>1 DEF Advance
      <3>3. row' \in [Tasks -> Row]
        <4>1. PICK next \in [Picked(c) -> NextFire(tick[c].moment)] :
                  row' = [t \in Tasks |-> IF t \in Picked(c)
                                          THEN [row[t] EXCEPT !.next = next[t]] ELSE row[t]]
          BY <2>4 DEF Advance
        <4>2. \A t \in Picked(c) : next[t] \in Times \cup {Never}
          BY NextFireIsTime
        <4> QED
          BY <4>1, <4>2 DEF Row
      <3> QED
        BY <2>4, <3>2, <3>3 DEF Advance
    <2>5. ASSUME NEW c \in Claimers, CrashTick(c) PROVE TypeOK'
      <3>1. tick' \in [Claimers -> [phase : {"off", "ticking", "picked"}, moment : Times]]
        BY <2>5 DEF CrashTick
      <3>2. rowLock' \in [Tasks -> Claimers \cup {Nobody}]
        BY <2>5 DEF CrashTick
      <3> QED
        BY <2>5, <3>1, <3>2 DEF CrashTick
    <2>6. CASE \E t \in Tasks : \E i \in DOMAIN firings[t] : FiringStep(t, i)
      BY <2>6, FiringStepFrame
    <2>7. ASSUME NEW t \in Tasks, NEW e \in Editors, RunNow(e, t) PROVE TypeOK'
      <3>1. FiringOf(t, OnDemand, now) \in Firing
        BY DEF FiringOf, Firing, Row, Phases, Outcomes
      <3> QED
        BY <2>7, <3>1 DEF RunNow
    <2>8. ASSUME NEW e \in Editors, NEW t \in Tasks, Pause(e, t) PROVE TypeOK'
      <3>1. row' \in [Tasks -> Row]
        BY <2>8 DEF Pause, Row
      <3> QED
        BY <2>8, <3>1 DEF Pause
    <2>9. ASSUME NEW e \in Editors, NEW t \in Tasks, ResumeRead(e, t) \/ PatchRead(e, t)
          PROVE  TypeOK'
      <3>1. edit' \in [Editors -> Edit]
        <4>1. CASE ResumeRead(e, t)
          BY <4>1 DEF ResumeRead, Edit
        <4>2. CASE PatchRead(e, t)
          BY <4>2 DEF PatchRead, Edit
        <4> QED
          BY <2>9, <4>1, <4>2
      <3> QED
        BY <2>9, <3>1 DEF ResumeRead, PatchRead
    <2>10. ASSUME NEW e \in Editors, ResumeWrite(e) PROVE TypeOK'
      <3>1. edit[e] \in [op : {"resume"}, task : Tasks, read : Times]
        BY <2>10 DEF ResumeWrite, Edit, Idle
      <3>2. row' \in [Tasks -> Row]
        <4>1. PICK next \in NextFire(edit[e].read) :
                  row' = [row EXCEPT ![edit[e].task].enabled = TRUE,
                                     ![edit[e].task].next = next]
          BY <2>10 DEF ResumeWrite
        <4>2. next \in Times \cup {Never}
          BY <3>1, NextFireIsTime
        <4> QED
          BY <3>1, <4>1, <4>2 DEF Row
      <3> QED
        BY <2>10, <3>2 DEF ResumeWrite, Edit
    <2>11. ASSUME NEW e \in Editors, PatchWrite(e) PROVE TypeOK'
      <3>1. edit[e] \in [op : {"patch"}, task : Tasks, read : Times, doc : Row,
                         enabled : BOOLEAN, trigger : BOOLEAN]
        BY <2>11 DEF PatchWrite, Edit, Idle
      <3>2. row' \in [Tasks -> Row]
        <4> DEFINE p == edit[e]
        <4>1. PICK moment \in p.read .. now :
                  \E next \in IF ~Reschedules(p) THEN {p.doc.next}
                             ELSE IF p.enabled THEN NextFire(moment) ELSE {Never} :
                      row' = [row EXCEPT ![p.task] = [p.doc EXCEPT !.enabled = p.enabled,
                                                                   !.next = next]]
          BY <2>11 DEF PatchWrite
        <4>2. moment \in Times
          BY <3>1 DEF Times
        <4>3. PICK next \in Times \cup {Never} :
                  row' = [row EXCEPT ![p.task] = [p.doc EXCEPT !.enabled = p.enabled,
                                                               !.next = next]]
          BY <3>1, <4>1, <4>2, NextFireIsTime DEF Row
        <4> QED
          BY <3>1, <4>3 DEF Row
      <3> QED
        BY <2>11, <3>2 DEF PatchWrite, Edit
    <2> QED
      BY <1>2, <2>1, <2>2, <2>3, <2>4, <2>5, <2>6, <2>7, <2>8, <2>9, <2>10, <2>11, NextCases
         DEF FiringStep
  <1>3. ASSUME TypeOK, UNCHANGED vars PROVE TypeOK'
    BY <1>3 DEF TypeOK, vars
  <1> QED
    BY <1>1, <1>2, <1>3, PTL DEF Spec

-----------------------------------------------------------------------------
(* Why no due time is claimed twice: the schedule of a task is ahead of     *)
(* every moment it was claimed for, and a locked row stays as it was read.  *)
FromSchedule(t) == {i \in DOMAIN firings[t] : firings[t][i].due # OnDemand}

ScheduleAhead ==
    \A t \in Tasks : \A i \in FromSchedule(t) :
        /\ firings[t][i].due <= firings[t][i].moment
        /\ firings[t][i].moment < row[t].next

LockedIsDue ==
    \A t \in Tasks : rowLock[t] # Nobody =>
        /\ tick[rowLock[t]].phase = "picked"
        /\ row[t].next <= tick[rowLock[t]].moment

ClaimInv == ScheduleAhead /\ LockedIsDue /\ NoBacklog

(* A due time that no earlier claim had passed is not one of theirs.        *)
LEMMA AheadIsSingle ==
    ASSUME TypeOK, ClaimInv
    PROVE  SingleFiring
  <1> SUFFICES ASSUME NEW t \in Tasks, NEW i \in DOMAIN firings[t], NEW j \in DOMAIN firings[t],
                      i # j, firings[t][i].due # OnDemand, firings[t][j].due # OnDemand
               PROVE  firings[t][i].due # firings[t][j].due
    BY DEF SingleFiring
  <1>1. i \in Nat /\ j \in Nat /\ firings[t][i] \in Firing /\ firings[t][j] \in Firing
    BY DEF TypeOK
  <1>2. /\ firings[t][i].due \in Int /\ firings[t][i].moment \in Int
        /\ firings[t][j].due \in Int /\ firings[t][j].moment \in Int
    BY <1>1, ConstantsAssumption DEF Firing, Times, Never, OnDemand
  <1>3. firings[t][i].due <= firings[t][i].moment /\ firings[t][j].due <= firings[t][j].moment
    BY DEF ClaimInv, ScheduleAhead, FromSchedule
  <1>4. /\ i < j => firings[t][j].due > firings[t][i].moment
        /\ j < i => firings[t][i].due > firings[t][j].moment
    BY DEF ClaimInv, NoBacklog
  <1> QED
    BY <1>1, <1>2, <1>3, <1>4

(* The invariant looks at the claims of the firings, the due times of the   *)
(* rows and the locks; a step that leaves these alone preserves it.         *)
LEMMA ClaimFrame ==
    ASSUME TypeOK, ClaimInv,
           firings' \in [Tasks -> Seq(Firing)],
           \A u \in Tasks : Len(firings'[u]) = Len(firings[u]),
           \A u \in Tasks : \A j \in DOMAIN firings[u] :
               /\ firings'[u][j].due = firings[u][j].due
               /\ firings'[u][j].moment = firings[u][j].moment,
           \A u \in Tasks : row'[u].next = row[u].next,
           UNCHANGED <<rowLock, tick>>
    PROVE  ClaimInv'
  <1>1. \A u \in Tasks : DOMAIN firings'[u] = DOMAIN firings[u]
    BY DEF TypeOK
  <1>2. ScheduleAhead'
    BY <1>1 DEF ClaimInv, ScheduleAhead, FromSchedule
  <1>3. LockedIsDue'
    BY DEF ClaimInv, LockedIsDue
  <1>4. NoBacklog'
    BY <1>1 DEF ClaimInv, NoBacklog
  <1> QED
    BY <1>2, <1>3, <1>4 DEF ClaimInv

(* One more firing of t, on demand or for a due time ahead of the others.   *)
LEMMA OneMoreFiring ==
    ASSUME NEW s \in Seq(Firing), NEW f \in Firing
    PROVE  /\ DOMAIN Append(s, f) = DOMAIN s \cup {Len(s) + 1}
           /\ \A i \in DOMAIN s : Append(s, f)[i] = s[i]
           /\ Append(s, f)[Len(s) + 1] = f
           /\ \A i \in DOMAIN s : i \in Nat /\ i < Len(s) + 1
  OBVIOUS

(* A claim: every firing it adds is for a due time that no earlier claim    *)
(* had passed, and the schedule is moved past the claim's own moment.       *)
LEMMA AdvanceKeepsClaims ==
    ASSUME TypeOK, ClaimInv, NEW c \in Claimers, Advance(c)
    PROVE  ClaimInv'
  <1> DEFINE ts == Picked(c)
             moment == tick[c].moment
             new == [t \in ts |-> FiringOf(t, row[t].next, moment)]
  <1>1. PICK next \in [ts -> NextFire(moment)] :
            row' = [t \in Tasks |-> IF t \in ts THEN [row[t] EXCEPT !.next = next[t]] ELSE row[t]]
    BY DEF Advance
  <1>2. /\ firings' = [t \in Tasks |-> IF t \in ts THEN Append(firings[t], new[t]) ELSE firings[t]]
        /\ rowLock' = [t \in Tasks |-> IF t \in ts THEN Nobody ELSE rowLock[t]]
        /\ tick' = [tick EXCEPT ![c].phase = "off"]
    BY DEF Advance
  <1>3. \A t \in ts : new[t] \in Firing /\ new[t].due = row[t].next /\ new[t].moment = moment
    BY DEF FiringOf, Firing, TypeOK, Row, Phases, Outcomes, Picked
  <1>4. moment \in Int /\ \A t \in Tasks : row[t].next \in Int
    BY ConstantsAssumption DEF TypeOK, Row, Times, Never
  <1>5. \A t \in Tasks : \A i \in DOMAIN firings[t] :
            firings[t][i].moment \in Int /\ firings[t][i].due \in Int
    <2>1. \A t \in Tasks : \A i \in DOMAIN firings[t] : firings[t][i] \in Firing
      BY DEF TypeOK
    <2>2. \A f \in Firing : f.moment \in Int /\ f.due \in Int
      BY ConstantsAssumption DEF Firing, Times, Never, OnDemand
    <2> QED
      BY <2>1, <2>2
  <1>6. \A t \in ts : row[t].next <= moment
    BY NobodyAssumption DEF ClaimInv, LockedIsDue, Picked
  <1>7. \A t \in ts : row'[t].next > moment /\ row'[t].next \in Int
    BY <1>1, <1>4, ConstantsAssumption DEF NextFire, Never, TypeOK, Row, Picked
  <1>8. \A t \in ts : /\ DOMAIN firings'[t] = DOMAIN firings[t] \cup {Len(firings[t]) + 1}
                       /\ \A i \in DOMAIN firings[t] : /\ firings'[t][i] = firings[t][i]
                                                        /\ i \in Nat /\ i < Len(firings[t]) + 1
                       /\ firings'[t][Len(firings[t]) + 1] = new[t]
                       /\ Len(firings[t]) \in Nat
    BY <1>2, <1>3, OneMoreFiring DEF TypeOK, Picked
  <1>9. \A t \in Tasks \ ts : firings'[t] = firings[t] /\ row'[t] = row[t] /\ rowLock'[t] = rowLock[t]
    BY <1>1, <1>2
  <1> HIDE DEF new, moment
  <1>10. ScheduleAhead'
    <2> SUFFICES ASSUME NEW t \in Tasks, NEW i \in DOMAIN firings'[t], firings'[t][i].due # OnDemand
                 PROVE  /\ firings'[t][i].due <= firings'[t][i].moment
                        /\ firings'[t][i].moment < row'[t].next
      BY DEF ScheduleAhead, FromSchedule
    <2>1. CASE t \notin ts
      BY <2>1, <1>9 DEF ClaimInv, ScheduleAhead, FromSchedule
    <2>2. CASE t \in ts /\ i \in DOMAIN firings[t]
      <3>1. firings'[t][i] = firings[t][i] /\ firings[t][i].due # OnDemand
        BY <2>2, <1>8
      <3>2. /\ firings[t][i].due <= firings[t][i].moment
            /\ firings[t][i].moment < row[t].next
        BY <2>2, <3>1 DEF ClaimInv, ScheduleAhead, FromSchedule
      <3> QED
        BY <2>2, <3>1, <3>2, <1>4, <1>5, <1>6, <1>7
    <2>3. CASE t \in ts /\ i = Len(firings[t]) + 1
      <3>1. firings'[t][i].due = row[t].next /\ firings'[t][i].moment = moment
        <4>1. firings'[t][i] = new[t]
          <5>1. firings'[t] = Append(firings[t], new[t])
            BY <2>3, <1>2
          <5>2. new[t] \in Firing /\ firings[t] \in Seq(Firing)
            BY <2>3, <1>3 DEF TypeOK
          <5> QED
            BY <2>3, <5>1, <5>2, OneMoreFiring
        <4>2. new[t].due = row[t].next /\ new[t].moment = moment
          BY <2>3, <1>3
        <4> QED
          BY <4>1, <4>2
      <3> QED
        BY <2>3, <3>1, <1>4, <1>6, <1>7
    <2> QED
      BY <2>1, <2>2, <2>3, <1>8
  <1>11. LockedIsDue'
    BY <1>2, <1>9 DEF ClaimInv, LockedIsDue, TypeOK, Picked
  <1>12. NoBacklog'
    <2> SUFFICES ASSUME NEW t \in Tasks, NEW i \in DOMAIN firings'[t], NEW j \in DOMAIN firings'[t],
                        i < j, firings'[t][i].due # OnDemand, firings'[t][j].due # OnDemand
                 PROVE  firings'[t][j].due > firings'[t][i].moment
      BY DEF NoBacklog
    <2>1. CASE t \notin ts
      BY <2>1, <1>9 DEF ClaimInv, NoBacklog
    <2>2. CASE t \in ts /\ j \in DOMAIN firings[t]
      <3>1. i \in DOMAIN firings[t]
        BY <2>2, <1>8
      <3> QED
        BY <2>2, <3>1, <1>8 DEF ClaimInv, NoBacklog
    <2>3. CASE t \in ts /\ j = Len(firings[t]) + 1
      <3>1. i \in DOMAIN firings[t]
        BY <2>3, <1>8
      <3> QED
        BY <2>3, <3>1, <1>3, <1>4, <1>5, <1>8 DEF ClaimInv, ScheduleAhead, FromSchedule
    <2> QED
      BY <2>1, <2>2, <2>3, <1>8
  <1> QED
    BY <1>10, <1>11, <1>12 DEF ClaimInv

(* A firing on demand has no due time, and so no place in the schedule.     *)
LEMMA RunNowKeepsClaims ==
    ASSUME TypeOK, ClaimInv, NEW e \in Editors, NEW t \in Tasks, RunNow(e, t)
    PROVE  ClaimInv'
  <1> DEFINE new == FiringOf(t, OnDemand, now)
  <1>1. new \in Firing /\ new.due = OnDemand
    BY DEF FiringOf, Firing, TypeOK, Row, Phases, Outcomes
  <1>2. /\ firings' = [firings EXCEPT ![t] = Append(firings[t], new)]
        /\ UNCHANGED <<now, row, rowLock, tick, edit>>
    BY DEF RunNow
  <1>3. /\ DOMAIN firings'[t] = DOMAIN firings[t] \cup {Len(firings[t]) + 1}
        /\ \A i \in DOMAIN firings[t] : firings'[t][i] = firings[t][i]
        /\ firings'[t][Len(firings[t]) + 1].due = OnDemand
    BY <1>1, <1>2, OneMoreFiring DEF TypeOK
  <1>4. \A u \in Tasks \ {t} : firings'[u] = firings[u]
    BY <1>2 DEF TypeOK
  <1>5. ScheduleAhead'
    BY <1>2, <1>3, <1>4 DEF ClaimInv, ScheduleAhead, FromSchedule
  <1>6. LockedIsDue'
    BY <1>2 DEF ClaimInv, LockedIsDue
  <1>7. NoBacklog'
    BY <1>3, <1>4 DEF ClaimInv, NoBacklog
  <1> QED
    BY <1>5, <1>6, <1>7 DEF ClaimInv

(* Every claim of a task is for a due time that no earlier claim's moment   *)
(* had passed, so that no due time is fired twice and no backlog is fired:  *)
(* for any number of overlapping ticks on any number of replicas, crashes,  *)
(* pauses and runs on demand. Patches and resumes are left out: the run     *)
(* claims_patch shows how a patch breaks it, and a resume does the same.    *)
THEOREM ClaimsOnce ==
    ASSUME Activities \cap {"patch", "resume"} = {}
    PROVE  Spec => []ConsumedOnce
  <1> DEFINE noEdits == \A e \in Editors : edit[e] = Idle
             inv == ClaimInv /\ noEdits
  <1>1. Init => inv
    BY DEF Init, ClaimInv, ScheduleAhead, LockedIsDue, NoBacklog, FromSchedule
  <1>2. ASSUME TypeOK, inv, Next PROVE inv'
    <2> USE <1>2
    <2>1. CASE ClockTick
      BY <2>1, ClaimFrame DEF ClockTick, TypeOK
    <2>2. ASSUME NEW c \in Claimers, StartTick(c) PROVE inv'
      <3>1. LockedIsDue'
        BY <2>2 DEF StartTick, ClaimInv, LockedIsDue, TypeOK
      <3> QED
        BY <2>2, <3>1 DEF StartTick, ClaimInv, ScheduleAhead, NoBacklog, FromSchedule
    <2>3. ASSUME NEW c \in Claimers, Pick(c) PROVE inv'
      <3>1. PICK b \in Batches(DueAt(tick[c].moment)) :
                IF b = {} THEN /\ tick' = [tick EXCEPT ![c].phase = "off"]
                               /\ UNCHANGED rowLock
                ELSE /\ tick' = [tick EXCEPT ![c].phase = "picked"]
                     /\ rowLock' = [t \in Tasks |-> IF t \in b THEN c ELSE rowLock[t]]
        BY <2>3 DEF Pick
      <3>2. \A t \in b : t \in Tasks /\ row[t].next <= tick[c].moment
        BY DEF Batches, DueAt
      <3>3. UNCHANGED <<now, row, firings, edit>> /\ tick[c].phase = "ticking"
        BY <2>3 DEF Pick
      <3>4. LockedIsDue'
        <4> SUFFICES ASSUME NEW t \in Tasks, rowLock'[t] # Nobody
                     PROVE  /\ tick'[rowLock'[t]].phase = "picked"
                            /\ row'[t].next <= tick'[rowLock'[t]].moment
          BY DEF LockedIsDue
        <4>1. CASE b # {} /\ t \in b
          <5>1. rowLock'[t] = c /\ tick'[c].phase = "picked" /\ tick'[c].moment = tick[c].moment
            BY <4>1, <3>1 DEF TypeOK
          <5> QED
            BY <4>1, <5>1, <3>2, <3>3
        <4>2. CASE b = {} \/ t \notin b
          <5>1. rowLock'[t] = rowLock[t] /\ rowLock[t] \in Claimers
            BY <4>2, <3>1 DEF TypeOK
          <5>2. /\ tick[rowLock[t]].phase = "picked"
                /\ row[t].next <= tick[rowLock[t]].moment
            BY <5>1 DEF ClaimInv, LockedIsDue
          <5>3. tick'[rowLock[t]] = tick[rowLock[t]]
            BY <5>1, <5>2, <3>1, <3>3 DEF TypeOK
          <5> QED
            BY <5>1, <5>2, <5>3, <3>3
        <4> QED
          BY <4>1, <4>2
      <3> QED
        BY <3>3, <3>4 DEF ClaimInv, ScheduleAhead, NoBacklog, FromSchedule
    <2>4. CASE \E c \in Claimers : Advance(c)
      BY <2>4, AdvanceKeepsClaims DEF Advance
    <2>5. ASSUME NEW c \in Claimers, CrashTick(c) PROVE inv'
      <3>1. LockedIsDue'
        BY <2>5 DEF CrashTick, ClaimInv, LockedIsDue, TypeOK
      <3> QED
        BY <2>5, <3>1 DEF CrashTick, ClaimInv, ScheduleAhead, NoBacklog, FromSchedule
    <2>6. CASE \E t \in Tasks : \E i \in DOMAIN firings[t] : FiringStep(t, i)
      BY <2>6, FiringStepFrame, ClaimFrame
    <2>7. CASE \E e \in Editors, t \in Tasks : RunNow(e, t)
      BY <2>7, RunNowKeepsClaims DEF RunNow
    <2>8. ASSUME NEW e \in Editors, NEW t \in Tasks, Pause(e, t) PROVE inv'
      <3>1. \A u \in Tasks : row'[u].next = row[u].next
        BY <2>8 DEF Pause, TypeOK, Row
      <3> QED
        BY <2>8, <3>1, ClaimFrame DEF Pause, TypeOK
    <2>9. CASE \E e \in Editors, t \in Tasks : ResumeRead(e, t) \/ PatchRead(e, t)
      BY <2>9 DEF ResumeRead, PatchRead
    <2>10. CASE \E e \in Editors : ResumeWrite(e) \/ PatchWrite(e)
      <3>1. \A e \in Editors : edit[e].op = "idle"
        BY DEF Idle
      <3> QED
        BY <2>10, <3>1 DEF ResumeWrite, PatchWrite
    <2> QED
      BY <2>1, <2>2, <2>3, <2>4, <2>5, <2>6, <2>7, <2>8, <2>9, <2>10, NextCases DEF FiringStep
  <1>3. ASSUME inv, UNCHANGED vars PROVE inv'
    BY <1>3 DEF vars, ClaimInv, ScheduleAhead, LockedIsDue, NoBacklog, FromSchedule
  <1>4. TypeOK /\ inv => ConsumedOnce
    BY AheadIsSingle DEF ClaimInv, ConsumedOnce
  <1> QED
    BY <1>1, <1>2, <1>3, <1>4, Typing, PTL DEF Spec

-----------------------------------------------------------------------------
(***************************************************************************)
(* A streak is never longer than the skipped firings whose outcome was      *)
(* written: the streak of the row, the one a firing was claimed with, of     *)
(* which that firing is none, and the one in the copy a patch will write.   *)
(***************************************************************************)
Counted(t) ==
    {i \in DOMAIN firings[t] : /\ firings[t][i].outcome = "skipped"
                               /\ firings[t][i].phase \in {"limiting", "done", "lost"}}

RowCounts == \A t \in Tasks : row[t].skips <= Cardinality(Counted(t))
ClaimCounts ==
    \A t \in Tasks : \A i \in DOMAIN firings[t] :
        firings[t][i].skips <= Cardinality(Counted(t) \ {i})
CopyCounts ==
    \A e \in Editors : edit[e].op = "patch" =>
        edit[e].doc.skips <= Cardinality(Counted(edit[e].task))

SkipInv == RowCounts /\ ClaimCounts /\ CopyCounts

(* The firings of a task are finitely many.                                 *)
LEMMA FiringsFinite ==
    ASSUME NEW s \in Seq(Firing), NEW S \in SUBSET DOMAIN s
    PROVE  IsFiniteSet(S) /\ Cardinality(S) \in Nat
  <1>1. DOMAIN s = 1 .. Len(s) /\ Len(s) \in Nat
    OBVIOUS
  <1>2. IsFiniteSet(DOMAIN s)
    BY <1>1, FS_Interval
  <1> QED
    BY <1>2, FS_Subset, FS_CardinalityType

(* A step that takes back no outcome and gives nobody a longer streak than  *)
(* was written keeps the invariant.                                         *)
LEMMA SkipFrame ==
    ASSUME TypeOK, TypeOK', SkipInv,
           \A t \in Tasks : Counted(t) \subseteq Counted(t)',
           \A t \in Tasks : \/ row'[t].skips <= Cardinality(Counted(t))
                            \/ row'[t].skips <= Cardinality(Counted(t)'),
           \A t \in Tasks : \A i \in DOMAIN firings'[t] :
               \/ i \in DOMAIN firings[t] /\ firings'[t][i].skips = firings[t][i].skips
               \/ i \notin Counted(t) /\ firings'[t][i].skips <= Cardinality(Counted(t)),
           \A e \in Editors : edit'[e].op = "patch" =>
               edit'[e].task \in Tasks /\ edit'[e].doc.skips \in Nat
                   /\ edit'[e].doc.skips <= Cardinality(Counted(edit'[e].task))
    PROVE  SkipInv'
  <1>1. ASSUME NEW t \in Tasks, NEW S \in SUBSET Counted(t), NEW T \in SUBSET Counted(t)',
               S \subseteq T
        PROVE  /\ Cardinality(S) \in Nat /\ Cardinality(T) \in Nat
               /\ Cardinality(S) <= Cardinality(T)
    <2>1. firings'[t] \in Seq(Firing) /\ T \in SUBSET DOMAIN firings'[t]
      BY DEF Counted, TypeOK
    <2>2. IsFiniteSet(T) /\ Cardinality(T) \in Nat
      BY <2>1, FiringsFinite
    <2> QED
      BY <1>1, <2>2, FS_Subset, FS_CardinalityType
  <1>2. RowCounts'
    <2> SUFFICES ASSUME NEW t \in Tasks PROVE row'[t].skips <= Cardinality(Counted(t)')
      BY DEF RowCounts
    <2>1. row'[t].skips \in Nat
      BY DEF TypeOK, Row
    <2>2. /\ Cardinality(Counted(t)) \in Nat /\ Cardinality(Counted(t)') \in Nat
          /\ Cardinality(Counted(t)) <= Cardinality(Counted(t)')
      BY <1>1
    <2> QED
      BY <2>1, <2>2
  <1>3. ClaimCounts'
    <2> SUFFICES ASSUME NEW t \in Tasks, NEW i \in DOMAIN firings'[t]
                 PROVE  firings'[t][i].skips <= Cardinality(Counted(t)' \ {i})
      BY DEF ClaimCounts
    <2>1. firings'[t][i].skips \in Nat
      <3>1. firings'[t][i] \in Firing
        BY DEF TypeOK
      <3> QED
        BY <3>1 DEF Firing
    <2>2. CASE i \in DOMAIN firings[t] /\ firings'[t][i].skips = firings[t][i].skips
      <3>1. firings[t][i].skips <= Cardinality(Counted(t) \ {i})
        BY <2>2 DEF SkipInv, ClaimCounts
      <3>2. /\ Cardinality(Counted(t) \ {i}) \in Nat /\ Cardinality(Counted(t)' \ {i}) \in Nat
            /\ Cardinality(Counted(t) \ {i}) <= Cardinality(Counted(t)' \ {i})
        <4>1. Counted(t) \ {i} \subseteq Counted(t)' \ {i}
          OBVIOUS
        <4> QED
          BY <1>1, <4>1
      <3> QED
        BY <2>1, <2>2, <3>1, <3>2
    <2>3. CASE i \notin Counted(t) /\ firings'[t][i].skips <= Cardinality(Counted(t))
      <3>1. Counted(t) \subseteq Counted(t)' \ {i}
        BY <2>3
      <3>2. /\ Cardinality(Counted(t)) \in Nat /\ Cardinality(Counted(t)' \ {i}) \in Nat
            /\ Cardinality(Counted(t)) <= Cardinality(Counted(t)' \ {i})
        BY <1>1, <3>1
      <3> QED
        BY <2>1, <2>3, <3>2
    <2> QED
      BY <2>2, <2>3
  <1>4. CopyCounts'
    <2> SUFFICES ASSUME NEW e \in Editors, edit'[e].op = "patch"
                 PROVE  edit'[e].doc.skips <= Cardinality(Counted(edit[e].task)')
      BY DEF CopyCounts
    <2>1. PICK t \in Tasks : t = edit'[e].task
      OBVIOUS
    <2>2. edit'[e].doc.skips \in Nat /\ edit'[e].doc.skips <= Cardinality(Counted(t))
      BY <2>1
    <2>3. /\ Cardinality(Counted(t)) \in Nat /\ Cardinality(Counted(t)') \in Nat
          /\ Cardinality(Counted(t)) <= Cardinality(Counted(t)')
      BY <1>1
    <2>4. Counted(edit[e].task)' = Counted(t)'
      BY <2>1 DEF Counted
    <2> QED
      BY <2>2, <2>3, <2>4
  <1> QED
    BY <1>2, <1>3, <1>4 DEF SkipInv

(* What each editor holds is of a task, and a copy has a streak.            *)
LEMMA CopyTyped ==
    ASSUME TypeOK, NEW e \in Editors, edit[e].op = "patch"
    PROVE  edit[e].task \in Tasks /\ edit[e].doc \in Row
  <1>1. edit[e] \in Edit
    BY DEF TypeOK
  <1> QED
    BY <1>1 DEF Edit, Idle

(* The steps of a firing: only the outcome it has is written, and only once. *)
LEMMA FiringStepCounts ==
    ASSUME TypeOK, NEW t \in Tasks, NEW i \in DOMAIN firings[t], FiringStep(t, i)
    PROVE  /\ \A u \in Tasks : /\ DOMAIN firings'[u] = DOMAIN firings[u]
                               /\ \A j \in DOMAIN firings[u] :
                                      firings'[u][j].skips = firings[u][j].skips
           /\ \A u \in Tasks : Counted(u) \subseteq Counted(u)'
           /\ CountOutcome(t, i) /\ firings[t][i].outcome = "skipped" =>
                  i \notin Counted(t) /\ i \in Counted(t)'
  <1>1. PICK from, to, outcome : /\ Goto(t, i, from, to, outcome)
                                 /\ to \in Phases /\ outcome \in Outcomes
                                 /\ from \in {"limiting", "done", "lost"} =>
                                        /\ outcome = firings[t][i].outcome
                                        /\ to \in {"limiting", "done", "lost"}
                                 /\ CountOutcome(t, i) =>
                                        /\ from = "counting" /\ to = "limiting"
                                        /\ outcome = firings[t][i].outcome
    <2>1. firings[t][i] \in Firing
      BY DEF TypeOK
    <2>2. firings[t][i].outcome \in Outcomes
      BY <2>1 DEF Firing
    <2>3. CASE CountOutcome(t, i)
      BY <2>2, <2>3 DEF CountOutcome, Phases
    <2>4. CASE ~CountOutcome(t, i)
      BY <2>2, <2>4 DEF FiringStep, Decline, Start, Finish, CountFails, ApplyLimits,
                        CrashFiring, Phases, Outcomes
    <2> QED
      BY <2>3, <2>4
  <1> DEFINE f == [firings[t][i] EXCEPT !.phase = to, !.outcome = outcome]
             s == [firings[t] EXCEPT ![i] = f]
  <1>2. firings[t] \in Seq(Firing) /\ firings[t][i] \in Firing /\ firings[t][i].phase = from
    BY <1>1 DEF Goto, TypeOK
  <1>3. f.phase = to /\ f.outcome = outcome /\ f.skips = firings[t][i].skips
    BY <1>2 DEF Firing
  <1>4. firings' = [firings EXCEPT ![t] = s]
    BY <1>1 DEF Goto
  <1> HIDE DEF f
  <1>5. DOMAIN s = DOMAIN firings[t] /\ s[i] = f
        /\ \A j \in DOMAIN firings[t] \ {i} : s[j] = firings[t][j]
    BY <1>2
  <1> HIDE DEF s
  <1>6. firings'[t] = s /\ \A u \in Tasks \ {t} : firings'[u] = firings[u]
    BY <1>4 DEF TypeOK
  <1>7. \A u \in Tasks : /\ DOMAIN firings'[u] = DOMAIN firings[u]
                         /\ \A j \in DOMAIN firings[u] :
                                firings'[u][j].skips = firings[u][j].skips
    BY <1>3, <1>5, <1>6
  <1>8. Counted(t) \subseteq Counted(t)'
    BY <1>1, <1>2, <1>3, <1>5, <1>6 DEF Counted
  <1>9. \A u \in Tasks \ {t} : Counted(u)' = Counted(u)
    BY <1>6 DEF Counted
  <1>10. CountOutcome(t, i) /\ firings[t][i].outcome = "skipped" =>
             i \notin Counted(t) /\ i \in Counted(t)'
    BY <1>1, <1>2, <1>3, <1>5, <1>6 DEF Counted
  <1> QED
    BY <1>7, <1>8, <1>9, <1>10

(* A firing more, not yet counted, with the streak of its row.              *)
LEMMA NewFiringCounts ==
    ASSUME TypeOK, NEW t \in Tasks, NEW f \in Firing, f.phase = "claimed",
           firings'[t] = Append(firings[t], f)
    PROVE  /\ Counted(t)' = Counted(t)
           /\ \A i \in DOMAIN firings'[t] :
                  \/ i \in DOMAIN firings[t] /\ firings'[t][i].skips = firings[t][i].skips
                  \/ i \notin Counted(t) /\ firings'[t][i].skips = f.skips
  <1>1. /\ DOMAIN firings'[t] = DOMAIN firings[t] \cup {Len(firings[t]) + 1}
        /\ \A i \in DOMAIN firings[t] : firings'[t][i] = firings[t][i]
        /\ firings'[t][Len(firings[t]) + 1] = f
        /\ \A i \in DOMAIN firings[t] : i \in Nat /\ i < Len(firings[t]) + 1
    BY OneMoreFiring DEF TypeOK
  <1>2. Len(firings[t]) + 1 \notin DOMAIN firings[t]
    BY <1>1
  <1> QED
    BY <1>1, <1>2 DEF Counted

LEMMA SkipStep ==
    ASSUME TypeOK, TypeOK', SkipInv, [Next]_vars
    PROVE  SkipInv'
  <1>c. /\ \A t \in Tasks : Cardinality(Counted(t)) \in Nat
        /\ \A t \in Tasks : row[t].skips <= Cardinality(Counted(t))
        /\ \A e \in Editors : edit[e].op = "patch" =>
               /\ edit[e].task \in Tasks /\ edit[e].doc \in Row /\ edit[e].doc.skips \in Nat
               /\ edit[e].doc.skips <= Cardinality(Counted(edit[e].task))
    <2>1. ASSUME NEW t \in Tasks PROVE Cardinality(Counted(t)) \in Nat
      <3>1. firings[t] \in Seq(Firing) /\ Counted(t) \in SUBSET DOMAIN firings[t]
        BY DEF Counted, TypeOK
      <3> QED
        BY <3>1, FiringsFinite
    <2>2. \A e \in Editors : edit[e].op = "patch" =>
              edit[e].task \in Tasks /\ edit[e].doc \in Row /\ edit[e].doc.skips \in Nat
      BY CopyTyped DEF Row
    <2> QED
      BY <2>1, <2>2 DEF SkipInv, RowCounts, CopyCounts
  <1>1. ASSUME UNCHANGED firings, \A t \in Tasks : row'[t].skips <= Cardinality(Counted(t)),
               \A e \in Editors : edit'[e].op = "patch" =>
                   edit'[e].task \in Tasks /\ edit'[e].doc.skips \in Nat
                       /\ edit'[e].doc.skips <= Cardinality(Counted(edit'[e].task))
        PROVE  SkipInv'
    <2>1. \A t \in Tasks : Counted(t)' = Counted(t)
      BY <1>1 DEF Counted
    <2> QED
      BY <1>1, <2>1, SkipFrame
  <1>2. ASSUME NEW c \in Claimers, Advance(c) PROVE SkipInv'
    <2> DEFINE new(t) == FiringOf(t, row[t].next, tick[c].moment)
    <2>1. /\ \A t \in Tasks : \/ firings'[t] = firings[t]
                              \/ firings'[t] = Append(firings[t], new(t))
          /\ \A t \in Tasks : row'[t].skips = row[t].skips
          /\ edit' = edit
      <3>1. PICK next \in [Picked(c) -> NextFire(tick[c].moment)] :
                row' = [t \in Tasks |-> IF t \in Picked(c)
                                        THEN [row[t] EXCEPT !.next = next[t]] ELSE row[t]]
        BY <1>2 DEF Advance
      <3>2. \A t \in Tasks : row'[t].skips = row[t].skips
        BY <3>1 DEF TypeOK, Row
      <3> QED
        BY <1>2, <3>2 DEF Advance
    <2>2. ASSUME NEW t \in Tasks
          PROVE  new(t) \in Firing /\ new(t).phase = "claimed" /\ new(t).skips = row[t].skips
      BY ConstantsAssumption DEF FiringOf, Firing, TypeOK, Row, Phases, Outcomes
    <2> HIDE DEF new
    <2>3. ASSUME NEW t \in Tasks
          PROVE  /\ Counted(t) \subseteq Counted(t)'
                 /\ \A i \in DOMAIN firings'[t] :
                        \/ i \in DOMAIN firings[t] /\ firings'[t][i].skips = firings[t][i].skips
                        \/ i \notin Counted(t) /\ firings'[t][i].skips <= Cardinality(Counted(t))
      <3>1. CASE firings'[t] = firings[t]
        BY <3>1 DEF Counted
      <3>2. CASE firings'[t] = Append(firings[t], new(t))
        BY <3>2, <2>2, <1>c, NewFiringCounts
      <3> QED
        BY <2>1, <3>1, <3>2
    <2> QED
      BY <1>c, <2>1, <2>3, SkipFrame
  <1>3. ASSUME NEW e \in Editors, NEW t \in Tasks, RunNow(e, t) PROVE SkipInv'
    <2> DEFINE new == FiringOf(t, OnDemand, now)
    <2>1. /\ firings'[t] = Append(firings[t], new)
          /\ \A u \in Tasks \ {t} : firings'[u] = firings[u]
          /\ row' = row /\ edit' = edit
      BY <1>3 DEF RunNow, TypeOK
    <2>2. new \in Firing /\ new.phase = "claimed" /\ new.skips = row[t].skips
      BY DEF FiringOf, Firing, TypeOK, Row, Phases, Outcomes
    <2> HIDE DEF new
    <2>3. /\ Counted(t)' = Counted(t)
          /\ \A i \in DOMAIN firings'[t] :
                 \/ i \in DOMAIN firings[t] /\ firings'[t][i].skips = firings[t][i].skips
                 \/ i \notin Counted(t) /\ firings'[t][i].skips <= Cardinality(Counted(t))
      BY <1>c, <2>1, <2>2, NewFiringCounts
    <2>4. \A u \in Tasks \ {t} : Counted(u)' = Counted(u)
      BY <2>1 DEF Counted
    <2> QED
      BY <1>c, <2>1, <2>3, <2>4, SkipFrame
  <1>4. ASSUME NEW t \in Tasks, NEW i \in DOMAIN firings[t], FiringStep(t, i) PROVE SkipInv'
    <2>1. /\ \A u \in Tasks : Counted(u) \subseteq Counted(u)'
          /\ \A u \in Tasks : /\ DOMAIN firings'[u] = DOMAIN firings[u]
                              /\ \A j \in DOMAIN firings[u] :
                                     firings'[u][j].skips = firings[u][j].skips
          /\ edit' = edit
      BY <1>4, FiringStepCounts, FiringStepFrame
    <2>2. CASE ~(CountOutcome(t, i) /\ firings[t][i].outcome = "skipped")
      <3>1. \A u \in Tasks : row'[u].skips = row[u].skips \/ row'[u].skips = 0
        <4>1. CASE CountOutcome(t, i)
          <5>1. row' = [row EXCEPT ![t].skips = 0]
            BY <2>2, <4>1 DEF CountOutcome
          <5> QED
            BY <5>1 DEF TypeOK, Row
        <4>2. CASE ApplyLimits(t, i)
          <5>1. CASE row' = row
            BY <5>1
          <5>2. CASE row' = [row EXCEPT ![t].enabled = FALSE]
            BY <5>2 DEF TypeOK, Row
          <5> QED
            BY <4>2, <5>1, <5>2 DEF ApplyLimits
        <4>3. CASE row' = row
          BY <4>3
        <4> QED
          BY <1>4, <4>1, <4>2, <4>3 DEF FiringStep, Decline, Start, Finish, CountFails,
                                        CrashFiring
      <3>2. \A u \in Tasks : row'[u].skips <= Cardinality(Counted(u))
        BY <1>c, <3>1
      <3> QED
        BY <1>c, <2>1, <3>2, SkipFrame
    <2>3. CASE CountOutcome(t, i) /\ firings[t][i].outcome = "skipped"
      <3>1. i \notin Counted(t) /\ i \in Counted(t)'
        BY <1>4, <2>3, FiringStepCounts
      <3>2. row'[t].skips = row[t].skips + 1 /\ \A u \in Tasks \ {t} : row'[u] = row[u]
        BY <2>3 DEF CountOutcome, TypeOK, Row
      <3>3. row'[t].skips <= Cardinality(Counted(t)')
        <4>1. firings'[t] \in Seq(Firing) /\ Counted(t)' \in SUBSET DOMAIN firings'[t]
          BY DEF Counted, TypeOK
        <4>2. IsFiniteSet(Counted(t)') /\ Cardinality(Counted(t)') \in Nat
          BY <4>1, FiringsFinite
        <4>3. Counted(t) \cup {i} \subseteq Counted(t)'
          BY <2>1, <3>1
        <4>4. IsFiniteSet(Counted(t)) /\ Cardinality(Counted(t) \cup {i}) = Cardinality(Counted(t)) + 1
          <5>1. IsFiniteSet(Counted(t))
            BY <4>2, <4>3, FS_Subset
          <5> QED
            BY <3>1, <5>1, FS_AddElement
        <4>5. Cardinality(Counted(t) \cup {i}) <= Cardinality(Counted(t)')
          BY <4>2, <4>3, FS_Subset
        <4>6. row[t].skips \in Nat
          BY DEF TypeOK, Row
        <4> QED
          BY <1>c, <3>2, <4>2, <4>4, <4>5, <4>6
      <3> QED
        BY <1>c, <2>1, <3>2, <3>3, SkipFrame
    <2> QED
      BY <2>2, <2>3
  <1>5. ASSUME NEW e \in Editors, PatchWrite(e) PROVE SkipInv'
    <2>1. PICK next \in Times \cup {Never} :
              row' = [row EXCEPT ![edit[e].task] = [edit[e].doc EXCEPT !.enabled = edit[e].enabled,
                                                                       !.next = next]]
      <3>1. \E next : row' = [row EXCEPT ![edit[e].task] =
                                  [edit[e].doc EXCEPT !.enabled = edit[e].enabled, !.next = next]]
        BY <1>5 DEF PatchWrite
      <3>2. PICK next : row' = [row EXCEPT ![edit[e].task] =
                                    [edit[e].doc EXCEPT !.enabled = edit[e].enabled, !.next = next]]
        BY <3>1
      <3>3. edit[e].op = "patch"
        BY <1>5 DEF PatchWrite
      <3>4. row'[edit[e].task].next = next
        BY <1>c, <3>2, <3>3 DEF TypeOK, Row
      <3>5. next \in Times \cup {Never}
        BY <1>c, <3>3, <3>4 DEF TypeOK, Row
      <3> QED
        BY <3>2, <3>5
    <2>2. edit[e].op = "patch" /\ firings' = firings /\ edit' = [edit EXCEPT ![e] = Idle]
      BY <1>5 DEF PatchWrite
    <2>3. \A t \in Tasks : row'[t].skips <= Cardinality(Counted(t))
      BY <1>c, <2>1, <2>2 DEF TypeOK, Row
    <2>4. \A d \in Editors : edit'[d] = edit[d] \/ edit'[d].op = "idle"
      BY <2>2 DEF Idle, TypeOK
    <2> QED
      BY <1>1, <1>c, <2>2, <2>3, <2>4
  <1>6. ASSUME NEW e \in Editors, ResumeWrite(e) PROVE SkipInv'
    <2>1. edit'[e].op = "idle" /\ \A d \in Editors \ {e} : edit'[d] = edit[d]
      BY <1>6 DEF ResumeWrite, Idle, TypeOK
    <2>2. firings' = firings /\ \A t \in Tasks : row'[t].skips = row[t].skips
      BY <1>6 DEF ResumeWrite, TypeOK, Row
    <2> QED
      BY <1>1, <1>c, <2>1, <2>2
  <1>7. ASSUME NEW e \in Editors, NEW t \in Tasks, ResumeRead(e, t) \/ PatchRead(e, t)
        PROVE  SkipInv'
    <2>1. row' = row /\ firings' = firings /\ \A d \in Editors \ {e} : edit'[d] = edit[d]
      BY <1>7 DEF ResumeRead, PatchRead, TypeOK
    <2>2. edit'[e].op = "patch" => edit'[e].task = t /\ edit'[e].doc = row[t]
      BY <1>7 DEF ResumeRead, PatchRead, TypeOK
    <2>3. row[t].skips \in Nat
      BY DEF TypeOK, Row
    <2> QED
      BY <1>1, <1>c, <2>1, <2>2, <2>3
  <1>8. ASSUME NEW e \in Editors, NEW t \in Tasks, Pause(e, t) PROVE SkipInv'
    <2>1. firings' = firings /\ edit' = edit /\ \A u \in Tasks : row'[u].skips = row[u].skips
      BY <1>8 DEF Pause, TypeOK, Row
    <2> QED
      BY <1>1, <1>c, <2>1
  <1>9. ASSUME UNCHANGED <<firings, row, edit>> PROVE SkipInv'
    BY <1>1, <1>c, <1>9
  <1>10. CASE UNCHANGED vars
    BY <1>9, <1>10 DEF vars
  <1>11. CASE \/ ClockTick
              \/ \E c \in Claimers : StartTick(c) \/ Pick(c) \/ CrashTick(c)
    BY <1>9, <1>11 DEF ClockTick, StartTick, Pick, CrashTick
  <1> QED
    BY <1>2, <1>3, <1>4, <1>5, <1>6, <1>7, <1>8, <1>10, <1>11, NextCases DEF FiringStep

(* The firing that reaches the limit is skipped itself, and is none of      *)
(* those it was claimed after.                                              *)
LEMMA LimitNeedsSkips ==
    ASSUME TypeOK, SkipInv, NEW t \in Tasks, NEW i \in DOMAIN firings[t],
           ApplyLimits(t, i), row[t].enabled, ~row'[t].enabled
    PROVE  Cardinality(SkippedFirings(t)) >= SkipLimit
  <1> DEFINE before == Counted(t) \ {i}
  <1>1. Disables(firings[t][i])
    BY DEF ApplyLimits
  <1>2. firings[t][i] \in Firing /\ firings[t] \in Seq(Firing)
    BY DEF TypeOK
  <1>3. before \cup {i} \in SUBSET SkippedFirings(t) /\ i \notin before
    BY <1>1 DEF Disables, SkippedFirings, Counted
  <1>4. /\ SkippedFirings(t) \in SUBSET DOMAIN firings[t]
        /\ before \in SUBSET DOMAIN firings[t]
    BY DEF SkippedFirings, Counted
  <1>5. /\ IsFiniteSet(SkippedFirings(t)) /\ Cardinality(SkippedFirings(t)) \in Nat
        /\ IsFiniteSet(before) /\ Cardinality(before) \in Nat
    <2> HIDE DEF before
    <2> QED
      BY <1>2, <1>4, FiringsFinite
  <1>6. firings[t][i].skips <= Cardinality(before) /\ firings[t][i].skips \in Nat
    BY <1>2 DEF SkipInv, ClaimCounts, Firing
  <1> HIDE DEF before
  <1>7. /\ Cardinality(before \cup {i}) = Cardinality(before) + 1
        /\ Cardinality(before \cup {i}) <= Cardinality(SkippedFirings(t))
    BY <1>3, <1>5, FS_AddElement, FS_Subset
  <1> QED
    BY <1>1, <1>5, <1>6, <1>7, ConstantsAssumption DEF Disables

(* The engine disables a task (_apply_limits) only after SkipLimit of its   *)
(* firings were skipped, in whatever order overlapping ticks claim, firings *)
(* write their outcomes, die or fail to write, and requests pause, resume,  *)
(* run or patch the task.                                                   *)
THEOREM SkipsComeFirst == Spec => DisablesAfterSkips
  <1>1. Init => SkipInv
    <2> SUFFICES ASSUME Init PROVE SkipInv
      OBVIOUS
    <2>1. ASSUME NEW t \in Tasks
          PROVE  row[t].skips = 0 /\ DOMAIN firings[t] = {} /\ Cardinality(Counted(t)) = 0
      <3>1. row[t].skips = 0
        <4> DEFINE next == 1 .. Never
        <4>1. row[t] \in [enabled : {TRUE}, next : next, skips : {0}]
          BY DEF Init
        <4> HIDE DEF next
        <4> QED
          BY <4>1
      <3>2. firings[t] = <<>>
        BY DEF Init
      <3>3. Counted(t) = {}
        BY <3>2 DEF Counted
      <3> QED
        BY <3>1, <3>2, <3>3, FS_EmptySet
    <2>2. \A e \in Editors : edit[e].op = "idle"
      BY DEF Init, Idle
    <2> QED
      BY <2>1, <2>2 DEF SkipInv, RowCounts, ClaimCounts, CopyCounts
  <1>2. TypeOK /\ TypeOK' /\ SkipInv /\ [Next]_vars => SkipInv'
    BY SkipStep
  <1>3. TypeOK /\ SkipInv /\ [Next]_vars =>
            [\A t \in Tasks : \A i \in DOMAIN firings[t] :
                 ApplyLimits(t, i) /\ row[t].enabled /\ ~row'[t].enabled
                     => Cardinality(SkippedFirings(t)) >= SkipLimit]_vars
    BY LimitNeedsSkips
  <1> QED
    BY <1>1, <1>2, <1>3, Typing, PTL DEF Spec, DisablesAfterSkips
=============================================================================
