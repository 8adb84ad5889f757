----------------------------- MODULE Queues_proofs -----------------------------
(***************************************************************************)
(* Proofs about the work that waits for workers: the consumer group, the   *)
(* runs of the maintenance operations, the scores, the resyncs and the     *)
(* promotes. Each part has its types, the invariant that its properties    *)
(* need, and one step for every action.                                    *)
(***************************************************************************)
EXTENDS MaintenanceRuns, ScoreQueue, SyncQueue, PromoteWatch,
        FiniteSetTheorems, SequenceTheorems, WellFoundedInduction, TLAPS

(* A set of numbers that is not empty has a first one.                     *)
LEMMA FirstOne ==
    ASSUME NEW S \in SUBSET Nat, S # {}
    PROVE  (CHOOSE e \in S : \A f \in S : e <= f) \in S
  <1>1. \E x \in S : \A y \in S : ~ (<<y, x>> \in OpToRel(<, Nat))
    BY NatLessThanWellFounded, WFMin
  <1>2. PICK x \in S : \A y \in S : ~ (<<y, x>> \in OpToRel(<, Nat))
    BY <1>1
  <1>3. ASSUME NEW y \in S PROVE x <= y
    <2>1. ~ (y < x)
      BY <1>2 DEF OpToRel
    <2> QED
      BY <2>1
  <1> QED
    BY <1>3

(* ConsumerGroup. The ids in the stream were given out, and an entry that  *)
(* is pending was read.                                                    *)
GroupTypes ==
    /\ added \in 0..MaxEntries
    /\ unread \subseteq 1..added /\ Pending \subseteq 1..added
    /\ unread \cap Pending = {}
    /\ deliveries \in [Entries -> Nat]

LEMMA GroupStarts ==
    ASSUME GroupInit
    PROVE  GroupTypes /\ Pending = {}
  BY GroupAssumption DEF GroupInit, GroupTypes, Pending

(* What each command does to the entries that are to be read and those     *)
(* that are pending.                                                       *)
LEMMA AddsOne ==
    ASSUME GroupTypes, XAdd
    PROVE  /\ GroupTypes' /\ Pending' = Pending /\ dead' = dead
           /\ added' = added + 1 /\ unread' = unread \cup {added'}
           /\ added' \in Entries /\ added' \notin 1..added /\ 1..added \subseteq 1..added'
           /\ added' \notin unread \cup Pending /\ deliveries' = deliveries
  <1>1. /\ added' = added + 1 /\ unread' = unread \cup {added'} /\ dead' = dead
        /\ deliveries' = deliveries /\ added \in 0..MaxEntries /\ added < MaxEntries
    BY DEF XAdd, GroupTypes
  <1>2. /\ added' \in Entries /\ added' \notin 1..added /\ 1..added \subseteq 1..added'
        /\ added' \in 0..MaxEntries /\ added' \in 1..added'
    BY <1>1, GroupAssumption DEF Entries
  <1>3. Pending' = Pending
    BY <1>1 DEF Pending
  <1>4. unread \subseteq 1..added /\ Pending \subseteq 1..added
    BY DEF GroupTypes
  <1>5. added' \notin unread \cup Pending
    BY <1>2, <1>4
  <1> QED
    BY <1>1, <1>2, <1>3, <1>4, <1>5 DEF GroupTypes

LEMMA ReadsThem ==
    ASSUME GroupTypes, NEW es, NEW n, XReadGroup(es, n)
    PROVE  /\ GroupTypes' /\ es # {} /\ es \subseteq unread /\ es \subseteq 1..added
           /\ unread' = unread \ es /\ Pending' = Pending \cup es
           /\ added' = added /\ dead' = dead
  <1>1. /\ es # {} /\ es \subseteq unread /\ unread' = unread \ es
        /\ added' = added /\ dead' = dead
        /\ deliveries' = [e \in Entries |-> IF e \in es THEN 1 ELSE deliveries[e]]
    BY DEF XReadGroup
  <1>2. unread \subseteq 1..added /\ 1..added \subseteq Entries
    BY GroupAssumption DEF GroupTypes, Entries
  <1>3. es \subseteq Entries
    BY <1>1, <1>2
  <1>4. Pending' = Pending \cup es
    BY <1>1, <1>3 DEF Pending
  <1>5. deliveries' \in [Entries -> Nat]
    BY <1>1 DEF GroupTypes
  <1> QED
    BY <1>1, <1>2, <1>4, <1>5 DEF GroupTypes

LEMMA ClaimsThem ==
    ASSUME GroupTypes, NEW es, XAutoClaim(es)
    PROVE  /\ GroupTypes' /\ es # {} /\ es \subseteq Pending /\ es \subseteq 1..added
           /\ Pending' = Pending /\ unread' = unread /\ added' = added /\ dead' = dead
  <1>1. /\ es # {} /\ es \subseteq Pending /\ unread' = unread
        /\ added' = added /\ dead' = dead
        /\ deliveries' = [e \in Entries |->
               IF e \in es /\ deliveries[e] < MaxDeliveries THEN deliveries[e] + 1
                                                            ELSE deliveries[e]]
    BY DEF XAutoClaim
  <1>2. deliveries \in [Entries -> Nat]
    BY DEF GroupTypes
  <1>3. deliveries' \in [Entries -> Nat]
    BY <1>1, <1>2
  <1>4. \A e \in Entries : deliveries'[e] > 0 <=> deliveries[e] > 0
    BY <1>1, <1>2 DEF Pending
  <1>5. Pending' = Pending
    BY <1>4 DEF Pending
  <1> QED
    BY <1>1, <1>3, <1>5 DEF GroupTypes

LEMMA LeavesPending ==
    ASSUME GroupTypes, NEW e, XAck(e) \/ DeadLetter(e)
    PROVE  /\ GroupTypes' /\ Pending' = Pending \ {e}
           /\ unread' = unread /\ added' = added
           /\ dead' \in {dead, dead \cup {e}} /\ (DeadLetter(e) => e \in dead')
  <1>1. /\ deliveries' = [deliveries EXCEPT ![e] = 0] /\ unread' = unread /\ added' = added
        /\ dead' \in {dead, dead \cup {e}} /\ (DeadLetter(e) => e \in dead')
    BY DEF XAck, DeadLetter
  <1>2. deliveries \in [Entries -> Nat]
    BY DEF GroupTypes
  <1>3. deliveries' \in [Entries -> Nat]
    BY <1>1, <1>2
  <1>4. \A f \in Entries : deliveries'[f] > 0 <=> (deliveries[f] > 0 /\ f # e)
    BY <1>1, <1>2
  <1>5. Pending' = Pending \ {e}
    BY <1>4 DEF Pending
  <1> QED
    BY <1>1, <1>3, <1>5 DEF GroupTypes

LEMMA GroupStays ==
    ASSUME GroupTypes, UNCHANGED groupVars
    PROVE  /\ GroupTypes' /\ Pending' = Pending /\ unread' = unread
           /\ added' = added /\ dead' = dead
  BY DEF GroupTypes, groupVars, Pending
-----------------------------------------------------------------------------

(* MaintenanceRuns. The steps of a worker in which it has no project, and  *)
(* those in which in_flight counts it.                                     *)
BetweenItems == {"idle", "taking", "checking", "finishing"}
AtWork == {"working", "recording", "deferring", "returning", "compensating"}
MaintRows == [at : BetweenItems \cup AtWork \cup {"popped"},
              project : Projects \cup {"none"}]

(* The cases of MaintNext.                                                 *)
LEMMA MaintNextCases ==
    ASSUME MaintNext
    PROVE  \/ \E a \in Admins : \/ TakeRunLock(a) \/ Seed(a)
                                \/ AskCancelRun(a) \/ ClearPending(a) \/ FinishCancel(a)
           \/ \E w \in MaintWorkers :
                  \/ BeginTick(w) \/ Pop(w) \/ CountOut(w) \/ ItemEnds(w)
                  \/ ItemDeferred(w) \/ Defer(w) \/ RecordOutcome(w) \/ RecordFails(w)
                  \/ Compensate(w) \/ CheckDrained(w) \/ Finalize(w) \/ CrashInstance(w)
                  \/ CountCutShort(w) \/ ItemCutShort(w) \/ RequeueCutShort(w)
           \/ RunPauseEnds \/ LockLapses
  BY DEF MaintNext

(* A worker that moves keeps its project.                                  *)
LEMMA MoveIsWith ==
    ASSUME ticker \in [MaintWorkers -> MaintRows], NEW w \in MaintWorkers, NEW at,
           Move(w, at)
    PROVE  ticker' = [ticker EXCEPT ![w] = With(at, ticker[w].project)]
  <1>1. ticker[w] = [at |-> ticker[w].at, project |-> ticker[w].project]
    BY DEF MaintRows
  <1>2. [ticker[w] EXCEPT !.at = at] = [at |-> at, project |-> ticker[w].project]
    BY <1>1
  <1>3. ticker' = [ticker EXCEPT ![w] = [ticker[w] EXCEPT !.at = at]]
    BY DEF Move
  <1> QED
    BY <1>2, <1>3 DEF With

(* What one worker's step does to the projects in hand and to the workers  *)
(* that are counted.                                                       *)
LEMMA OneWorkerMoves ==
    ASSUME ticker \in [MaintWorkers -> MaintRows], NEW w \in MaintWorkers,
           NEW at \in BetweenItems \cup AtWork \cup {"popped"},
           NEW p \in Projects \cup {"none"},
           ticker' = [ticker EXCEPT ![w] = With(at, p)]
    PROVE  /\ ticker' \in [MaintWorkers -> MaintRows]
           /\ ticker'[w].at = at /\ ticker'[w].project = p
           /\ \A v \in MaintWorkers \ {w} : ticker'[v] = ticker[v]
           /\ Held \ {ticker[w].project} \subseteq Held'
           /\ p # "none" => p \in Held'
           /\ Busy' = (Busy \ {w}) \cup (IF at \in AtWork THEN {w} ELSE {})
           /\ w \in Busy <=> ticker[w].at \in AtWork
  <1>1. With(at, p) \in MaintRows /\ With(at, p).at = at /\ With(at, p).project = p
    BY DEF With, MaintRows
  <1>2. /\ ticker' \in [MaintWorkers -> MaintRows]
        /\ ticker'[w].at = at /\ ticker'[w].project = p
        /\ \A v \in MaintWorkers \ {w} : ticker'[v] = ticker[v]
    BY <1>1
  <1>3. Held \ {ticker[w].project} \subseteq Held' /\ (p # "none" => p \in Held')
    BY <1>2 DEF Held
  <1>4. Busy' = (Busy \ {w}) \cup (IF at \in AtWork THEN {w} ELSE {})
    BY <1>2 DEF Busy, AtWork
  <1>5. w \in Busy <=> ticker[w].at \in AtWork
    BY DEF Busy, AtWork
  <1> QED
    BY <1>2, <1>3, <1>4, <1>5

(* The types, with those of the workers.                                   *)
MaintInv == MaintTypeOK /\ ticker \in [MaintWorkers -> MaintRows]

OpRows == [state : {"idle", "running", "completed", "cancelled"},
           inFlight : Int, counted : SUBSET Projects]

(* What is left of an outcome that was not recorded takes nothing back that *)
(* was counted.                                                            *)
LEMMA PartIsRecorded ==
    ASSUME MaintInv, NEW w \in MaintWorkers, ticker[w].project \in Projects,
           PartOfRecord(w)
    PROVE  /\ opRun' \in OpRows /\ opRun'.inFlight <= opRun.inFlight
           /\ opRun'.state = opRun.state /\ opRun.counted \subseteq opRun'.counted
<1>1. opRun \in OpRows
  BY DEF MaintInv, MaintTypeOK, OpRows
<1>2. CASE UNCHANGED opRun
  BY <1>1, <1>2 DEF OpRows
<1>3. ASSUME NEW counted \in {{}, {ticker[w].project}},
             opRun' = [opRun EXCEPT !.inFlight = @ - 1, !.counted = @ \cup counted]
      PROVE  /\ opRun' \in OpRows /\ opRun'.inFlight <= opRun.inFlight
             /\ opRun'.state = opRun.state /\ opRun.counted \subseteq opRun'.counted
  <2>1. opRun.counted \cup counted \in SUBSET Projects
    BY <1>1, <1>3 DEF OpRows
  <2>2. opRun.inFlight \in Int /\ opRun.inFlight - 1 \in Int
    BY <1>1 DEF OpRows
  <2>3. /\ opRun'.inFlight = opRun.inFlight - 1 /\ opRun'.state = opRun.state
        /\ opRun'.counted = opRun.counted \cup counted
    BY <1>1, <1>3 DEF OpRows
  <2>4. opRun' \in OpRows
    BY <1>1, <1>3, <2>1, <2>2 DEF OpRows
  <2> QED
    BY <2>2, <2>3, <2>4
<1> QED
  BY <1>2, <1>3 DEF PartOfRecord

(* Whatever cuts a worker off, its project is remembered, and nothing else *)
(* of the run is taken back.                                               *)
LEMMA WorkerIsCutOff ==
    ASSUME MaintInv, NEW w \in MaintWorkers,
           CrashInstance(w) \/ CountCutShort(w) \/ ItemCutShort(w) \/ RequeueCutShort(w)
    PROVE  /\ ticker' = [ticker EXCEPT ![w] = With("idle", "none")]
           /\ ticker[w].project \in Projects /\ gone' = gone \cup {ticker[w].project}
           /\ UNCHANGED <<lock, started, pausedRun, admin>>
           /\ opRun' \in OpRows /\ opRun'.state = opRun.state
           /\ opRun.counted \subseteq opRun'.counted
           /\ waiting \subseteq waiting' /\ waiting' \subseteq Projects
<1>1. CutOff(w)
  BY DEF CrashInstance, CountCutShort, ItemCutShort, RequeueCutShort
<1>2. /\ ticker' = [ticker EXCEPT ![w] = With("idle", "none")]
      /\ ticker[w].project \in Projects /\ gone' = gone \cup {ticker[w].project}
      /\ UNCHANGED <<lock, started, pausedRun, admin>>
  BY <1>1 DEF CutOff, AtRest, With, MaintInv, MaintRows
<1>3. waiting \subseteq waiting' /\ waiting' \subseteq Projects
  BY <1>2 DEF CrashInstance, CountCutShort, ItemCutShort, RequeueCutShort, MaintInv,
              MaintTypeOK
<1>4. opRun \in OpRows
  BY DEF MaintInv, MaintTypeOK, OpRows
<1> DEFINE Kept == /\ opRun' \in OpRows /\ opRun'.state = opRun.state
                   /\ opRun.counted \subseteq opRun'.counted
<1>5. ASSUME NEW n \in Int, opRun' = [opRun EXCEPT !.inFlight = n] PROVE Kept
  BY <1>4, <1>5 DEF OpRows
<1>6. ASSUME UNCHANGED opRun PROVE Kept
  BY <1>4, <1>6
<1>7. opRun.inFlight + 1 \in Int /\ opRun.inFlight - 1 \in Int
  BY <1>4 DEF OpRows
<1>8. ASSUME PartOfRecord(w) PROVE Kept
  BY <1>2, <1>8, PartIsRecorded
<1>9. Kept
  <2>1. CASE CrashInstance(w)
    BY <1>6, <2>1 DEF CrashInstance
  <2>2. CASE CountCutShort(w)
    BY <1>5, <1>6, <1>7, <2>2 DEF CountCutShort
  <2>3. CASE ItemCutShort(w)
    BY <1>6, <1>8, <2>3 DEF ItemCutShort
  <2>4. CASE RequeueCutShort(w)
    BY <1>5, <1>6, <1>7, <2>4 DEF RequeueCutShort
  <2> QED
    BY <2>1, <2>2, <2>3, <2>4
<1> QED
  BY <1>2, <1>3, <1>9

(* What a worker adds to the number of those that are counted.             *)
Share(at) == IF at \in AtWork THEN 1 ELSE 0

(* A step of one worker that begins or ends its work as it takes or gives  *)
(* up a project.                                                           *)
LEMMA WorkerStep ==
    ASSUME MaintInv, NEW w \in MaintWorkers,
           NEW at \in BetweenItems \cup AtWork \cup {"popped"},
           NEW p \in Projects \cup {"none"}, p = "none" <=> at \in BetweenItems,
           ticker' = [ticker EXCEPT ![w] = With(at, p)]
    PROVE  /\ ticker' \in [MaintWorkers -> MaintRows]
           /\ \A v \in MaintWorkers :
                 ticker'[v].project = "none" <=> ticker'[v].at \in BetweenItems
           /\ Cardinality(Busy) \in Nat /\ Cardinality(Busy') \in Nat
           /\ Cardinality(Busy') = Cardinality(Busy) - Share(ticker[w].at) + Share(at)
  <1> USE MaintAssumption
  <1>1. /\ ticker' \in [MaintWorkers -> MaintRows]
        /\ ticker'[w].at = at /\ ticker'[w].project = p
        /\ \A v \in MaintWorkers \ {w} : ticker'[v] = ticker[v]
        /\ Busy' = (Busy \ {w}) \cup (IF at \in AtWork THEN {w} ELSE {})
        /\ w \in Busy <=> ticker[w].at \in AtWork
    BY OneWorkerMoves DEF MaintInv
  <1>2. \A v \in MaintWorkers :
           ticker'[v].project = "none" <=> ticker'[v].at \in BetweenItems
    BY <1>1 DEF MaintInv, MaintTypeOK, BetweenItems
  <1>3. IsFiniteSet(Busy) /\ Cardinality(Busy) \in Nat
    BY FS_Subset, FS_CardinalityType DEF Busy
  <1> DEFINE rest == Busy \ {w}
  <1>4. /\ IsFiniteSet(rest) /\ Cardinality(rest) \in Nat
        /\ Cardinality(rest) = IF w \in Busy THEN Cardinality(Busy) - 1 ELSE Cardinality(Busy)
    BY <1>3, FS_RemoveElement, FS_CardinalityType
  <1>5. w \notin rest
    OBVIOUS
  <1> HIDE DEF rest
  <1>6. Cardinality(rest \cup {w}) = Cardinality(rest) + 1
    <2>1. IsFiniteSet(rest)
      BY <1>4
    <2> QED
      BY <1>5, <2>1, FS_AddElement
  <1>7. Busy' = rest \cup (IF at \in AtWork THEN {w} ELSE {})
    BY <1>1 DEF rest
  <1>8. Cardinality(rest) = Cardinality(Busy) - Share(ticker[w].at)
    BY <1>1, <1>3, <1>4 DEF Share
  <1>9. Cardinality(Busy') = Cardinality(rest) + Share(at) /\ Cardinality(Busy') \in Nat
    <2>1. CASE at \in AtWork
      BY <1>4, <1>6, <1>7, <2>1 DEF Share
    <2>2. CASE at \notin AtWork
      <3>1. Busy' = rest
        BY <1>7, <2>2
      <3> QED
        BY <1>4, <2>2, <3>1 DEF Share
    <2> QED
      BY <2>1, <2>2
  <1>10. Cardinality(Busy') = Cardinality(Busy) - Share(ticker[w].at) + Share(at)
    BY <1>8, <1>9
  <1> QED
    BY <1>1, <1>2, <1>3, <1>9, <1>10

(* The invariant of the types, for the theorems that follow.               *)
LEMMA TypesHold ==
    MaintSpec => []MaintInv
<1> USE MaintAssumption
<1>1. MaintInit => MaintInv
  <2> SUFFICES ASSUME MaintInit PROVE MaintInv
    OBVIOUS
  <2>1. ticker \in [MaintWorkers -> MaintRows]
    BY DEF MaintInit, AtRest, MaintRows, BetweenItems
  <2>2. IsFiniteSet(Busy) /\ Cardinality(Busy) \in Nat
    BY FS_Subset, FS_CardinalityType DEF Busy
  <2>3. \A w \in MaintWorkers : ticker[w].project = "none" /\ ticker[w].at = "idle"
    BY DEF MaintInit, AtRest
  <2>4. /\ started \in 0..MaxRuns /\ lock \in 0..started
        /\ waiting \subseteq Projects /\ gone \subseteq Projects
        /\ admin \in [Admins -> {"none", "seeding", "clearing", "cancelling"}]
    BY DEF MaintInit
  <2>6. pausedRun \in BOOLEAN
    BY DEF MaintInit
  <2>5. /\ opRun \in [state : {"idle", "running", "completed", "cancelled"},
                     inFlight : Int, counted : SUBSET Projects]
        /\ opRun.inFlight = 0
    BY DEF MaintInit
  <2> QED
    BY <2>1, <2>2, <2>3, <2>4, <2>5, <2>6 DEF MaintInv, MaintTypeOK, BetweenItems
<1>2. MaintInv /\ [MaintNext]_maintVars => MaintInv'
  <2> SUFFICES ASSUME MaintInv, [MaintNext]_maintVars PROVE MaintInv'
    OBVIOUS
  <2> DEFINE RunRows == [state : {"idle", "running", "completed", "cancelled"},
                         inFlight : Int, counted : SUBSET Projects]
             AdminAts == {"none", "seeding", "clearing", "cancelling"}
  <2>1. ASSUME NEW w \in MaintWorkers,
               NEW at \in BetweenItems \cup AtWork \cup {"popped"},
               NEW p \in Projects \cup {"none"}, p = "none" <=> at \in BetweenItems,
               ticker' = [ticker EXCEPT ![w] = With(at, p)],
               opRun' \in RunRows, waiting' \in SUBSET Projects, pausedRun' \in BOOLEAN,
               opRun'.inFlight + Share(ticker[w].at) <= opRun.inFlight + Share(at),
               lock' \in {lock, 0}, UNCHANGED <<started, admin, gone>>
        PROVE  MaintInv'
    <3>1. /\ ticker' \in [MaintWorkers -> MaintRows]
          /\ \A v \in MaintWorkers :
                ticker'[v].project = "none" <=> ticker'[v].at \in BetweenItems
          /\ Cardinality(Busy) \in Nat /\ Cardinality(Busy') \in Nat
          /\ Cardinality(Busy') = Cardinality(Busy) - Share(ticker[w].at) + Share(at)
      BY <2>1, WorkerStep
    <3>2. gone = {} => opRun'.inFlight <= Cardinality(Busy')
      <4>1. Share(ticker[w].at) \in Int /\ Share(at) \in Int
        BY DEF Share
      <4>2. opRun.inFlight \in Int /\ opRun'.inFlight \in Int
        BY <2>1 DEF MaintInv, MaintTypeOK
      <4>3. gone = {} => opRun.inFlight <= Cardinality(Busy)
        BY DEF MaintInv, MaintTypeOK
      <4> QED
        BY <2>1, <3>1, <4>1, <4>2, <4>3
    <3>3. /\ started \in 0..MaxRuns /\ lock \in 0..started
          /\ gone \subseteq Projects
          /\ admin \in [Admins -> {"none", "seeding", "clearing", "cancelling"}]
      BY DEF MaintInv, MaintTypeOK
    <3>4. \A v \in MaintWorkers :
              ticker'[v].project = "none" <=>
                  ticker'[v].at \in {"idle", "taking", "checking", "finishing"}
      BY <3>1 DEF BetweenItems
    <3>5. opRun' \in RunRows /\ waiting' \subseteq Projects
      BY <2>1
    <3>6. pausedRun' \in BOOLEAN
      BY <2>1
    <3>7. lock' \in 0..started /\ UNCHANGED <<started, admin, gone>>
      BY <2>1, <3>3
    <3>8. MaintTypeOK'
      BY <3>2, <3>3, <3>4, <3>5, <3>6, <3>7 DEF MaintTypeOK
    <3> QED
      BY <3>1, <3>8 DEF MaintInv
  <2>2. /\ started \in 0..MaxRuns /\ lock \in 0..started
        /\ waiting \in SUBSET Projects /\ gone \in SUBSET Projects
        /\ admin \in [Admins -> AdminAts] /\ opRun \in RunRows
    BY DEF MaintInv, MaintTypeOK
  <2>3. pausedRun \in BOOLEAN
    BY DEF MaintInv, MaintTypeOK
  <2>4. ASSUME NEW w \in MaintWorkers
        PROVE  /\ ticker[w].at \in BetweenItems \cup AtWork \cup {"popped"}
               /\ ticker[w].project \in Projects \cup {"none"}
               /\ ticker[w].project = "none" <=> ticker[w].at \in BetweenItems
    BY DEF MaintInv, MaintTypeOK, MaintRows, BetweenItems
  <2>5. ASSUME NEW w \in MaintWorkers,
               NEW at \in BetweenItems \cup AtWork, Move(w, at),
               at \in BetweenItems <=> ticker[w].at \in BetweenItems,
               opRun' \in RunRows, lock' \in {lock, 0},
               opRun'.inFlight + Share(ticker[w].at) <= opRun.inFlight + Share(at),
               UNCHANGED <<started, waiting, pausedRun, admin, gone>>
        PROVE  MaintInv'
    <3>1. ticker' = [ticker EXCEPT ![w] = With(at, ticker[w].project)]
      BY <2>5, MoveIsWith DEF MaintInv
    <3>2. pausedRun' \in BOOLEAN
      BY <2>3, <2>5
    <3> QED
      BY <2>1, <2>2, <2>4, <2>5, <3>1, <3>2
  <2>6. ASSUME NEW w \in MaintWorkers, BeginTick(w) PROVE MaintInv'
    <3>1. PICK at \in {"checking", "taking"} : Move(w, at)
      BY <2>6 DEF BeginTick
    <3>2. ticker[w].at = "idle" /\ UNCHANGED <<started, waiting, pausedRun, admin, gone>>
      BY <2>6 DEF BeginTick
    <3>3. opRun' \in RunRows /\ lock' \in {lock, 0} /\ opRun'.inFlight = opRun.inFlight
      BY <2>6, <2>2 DEF BeginTick
    <3>4. Share(at) = 0 /\ Share(ticker[w].at) = 0
      BY <3>1, <3>2 DEF Share, AtWork
    <3> QED
      BY <2>2, <2>5, <3>1, <3>2, <3>3, <3>4 DEF BetweenItems, AtWork
  <2>7. ASSUME NEW w \in MaintWorkers, CountOut(w) PROVE MaintInv'
    <3>1. PICK at \in {"working"} : Move(w, at)
      BY <2>7 DEF CountOut
    <3>2. ticker[w].at = "popped" /\ UNCHANGED <<started, waiting, pausedRun, admin, gone>>
      BY <2>7 DEF CountOut
    <3>3. opRun' \in RunRows /\ lock' \in {lock, 0} /\ opRun'.inFlight = opRun.inFlight + 1
      BY <2>7, <2>2 DEF CountOut
    <3>4. Share(at) = 1 /\ Share(ticker[w].at) = 0
      BY <3>1, <3>2 DEF Share, AtWork
    <3> QED
      BY <2>2, <2>5, <3>1, <3>2, <3>3, <3>4 DEF BetweenItems, AtWork
  <2>8. ASSUME NEW w \in MaintWorkers, ItemEnds(w) PROVE MaintInv'
    <3>1. PICK at \in {"recording"} : Move(w, at)
      BY <2>8 DEF ItemEnds
    <3>2. ticker[w].at = "working" /\ UNCHANGED <<started, waiting, pausedRun, admin, gone>>
      BY <2>8 DEF ItemEnds
    <3>3. opRun' \in RunRows /\ lock' \in {lock, 0} /\ opRun'.inFlight = opRun.inFlight
      BY <2>8, <2>2 DEF ItemEnds
    <3>4. Share(at) = 1 /\ Share(ticker[w].at) = 1
      BY <3>1, <3>2 DEF Share, AtWork
    <3> QED
      BY <2>2, <2>5, <3>1, <3>2, <3>3, <3>4 DEF BetweenItems, AtWork
  <2>9. ASSUME NEW w \in MaintWorkers, ItemDeferred(w) PROVE MaintInv'
    <3>1. PICK at \in {"deferring", "returning"} : Move(w, at)
      BY <2>9 DEF ItemDeferred
    <3>2. ticker[w].at = "working" /\ UNCHANGED <<started, waiting, pausedRun, admin, gone>>
      BY <2>9 DEF ItemDeferred
    <3>3. opRun' \in RunRows /\ lock' \in {lock, 0} /\ opRun'.inFlight = opRun.inFlight
      BY <2>9, <2>2 DEF ItemDeferred
    <3>4. Share(at) = 1 /\ Share(ticker[w].at) = 1
      BY <3>1, <3>2 DEF Share, AtWork
    <3> QED
      BY <2>2, <2>5, <3>1, <3>2, <3>3, <3>4 DEF BetweenItems, AtWork
  <2>10. ASSUME NEW w \in MaintWorkers, CheckDrained(w) PROVE MaintInv'
    <3>1. PICK at \in {"finishing", "idle"} : Move(w, at)
      BY <2>10 DEF CheckDrained
    <3>2. ticker[w].at = "checking" /\ UNCHANGED <<started, waiting, pausedRun, admin, gone>>
      BY <2>10 DEF CheckDrained
    <3>3. opRun' \in RunRows /\ lock' \in {lock, 0} /\ opRun'.inFlight = opRun.inFlight
      BY <2>10, <2>2 DEF CheckDrained
    <3>4. Share(at) = 0 /\ Share(ticker[w].at) = 0
      BY <3>1, <3>2 DEF Share, AtWork
    <3> QED
      BY <2>2, <2>5, <3>1, <3>2, <3>3, <3>4 DEF BetweenItems, AtWork
  <2>11. ASSUME NEW w \in MaintWorkers, Finalize(w) PROVE MaintInv'
    <3>1. Move(w, "idle") /\ ticker[w].at = "finishing"
          /\ UNCHANGED <<started, waiting, pausedRun, admin, gone>>
      BY <2>11 DEF Finalize
    <3>2. opRun' \in RunRows /\ lock' \in {lock, 0} /\ opRun'.inFlight = opRun.inFlight
      BY <2>11, <2>2 DEF Finalize, FinishAs
    <3>3. Share("idle") = 0 /\ Share(ticker[w].at) = 0
      BY <3>1 DEF Share, AtWork
    <3> QED
      BY <2>2, <2>5, <3>1, <3>2, <3>3 DEF BetweenItems, AtWork
  <2>12. ASSUME NEW w \in MaintWorkers, RecordFails(w) PROVE MaintInv'
    <3>1. Move(w, "compensating") /\ ticker[w].at = "recording"
          /\ UNCHANGED <<lock, started, waiting, pausedRun, admin, gone>>
      BY <2>12 DEF RecordFails
    <3>2. ticker[w].project \in Projects
      BY <2>4, <3>1 DEF BetweenItems
    <3>3. opRun' \in RunRows /\ opRun'.inFlight <= opRun.inFlight
      BY <2>12, <3>2, PartIsRecorded DEF RecordFails, OpRows
    <3>4. Share("compensating") = 1 /\ Share(ticker[w].at) = 1
      BY <3>1 DEF Share, AtWork
    <3> QED
      BY <2>2, <2>5, <3>1, <3>3, <3>4 DEF BetweenItems, AtWork
  <2>13. ASSUME NEW w \in MaintWorkers, Pop(w) PROVE MaintInv'
    <3>1. ticker[w].at = "taking"
          /\ UNCHANGED <<lock, started, opRun, pausedRun, admin, gone>>
      BY <2>13 DEF Pop
    <3>2. /\ Share("checking") = 0 /\ Share("popped") = 0 /\ Share(ticker[w].at) = 0
      BY <3>1 DEF Share, AtWork
    <3>3. CASE UNCHANGED waiting /\ Move(w, "checking")
      BY <2>2, <2>5, <3>1, <3>2, <3>3 DEF BetweenItems, AtWork
    <3>4. ASSUME NEW p \in waiting, waiting' = waiting \ {p},
                 ticker' = [ticker EXCEPT ![w] = With("popped", p)]
          PROVE  MaintInv'
      <4>1. p \in Projects /\ waiting' \in SUBSET Projects
        BY <2>2, <3>4
      <4>2. pausedRun' \in BOOLEAN
        BY <2>3, <3>1
      <4>3. p = "none" <=> "popped" \in BetweenItems
        BY <4>1 DEF BetweenItems
      <4>4. /\ opRun' \in RunRows /\ lock' \in {lock, 0}
            /\ opRun'.inFlight + Share(ticker[w].at) <= opRun.inFlight + Share("popped")
        BY <2>2, <3>1, <3>2
      <4> QED
        BY <2>1, <3>1, <3>4, <4>1, <4>2, <4>3, <4>4
    <3> QED
      BY <2>13, <3>3, <3>4 DEF Pop
  <2>14. ASSUME NEW w \in MaintWorkers, NEW at \in {"idle", "checking"},
                RequeueItem(w, at), ticker[w].at \in {"deferring", "returning", "compensating"},
                pausedRun' \in BOOLEAN
         PROVE  MaintInv'
    <3>1. /\ ticker' = [ticker EXCEPT ![w] = With(at, "none")]
          /\ UNCHANGED <<lock, started, admin, gone>>
      BY <2>14 DEF RequeueItem
    <3>2. ticker[w].project \in Projects
      BY <2>4, <2>14 DEF BetweenItems
    <3>3. /\ opRun' \in RunRows /\ opRun'.inFlight = opRun.inFlight - 1
          /\ waiting' \in SUBSET Projects
      BY <2>2, <2>14, <3>2 DEF RequeueItem
    <3>4. Share(at) = 0 /\ Share(ticker[w].at) = 1
      BY <2>14 DEF Share, AtWork
    <3>5. at \in BetweenItems
      BY <2>14 DEF BetweenItems
    <3>6. opRun'.inFlight + Share(ticker[w].at) <= opRun.inFlight + Share(at)
      BY <2>2, <3>3, <3>4
    <3>7. pausedRun' \in BOOLEAN
      BY <2>14
    <3> QED
      BY <2>1, <3>1, <3>3, <3>5, <3>6, <3>7
  <2>15. ASSUME NEW w \in MaintWorkers, Defer(w) PROVE MaintInv'
    <3>1. pausedRun' \in BOOLEAN
      <4>1. (pausedRun \/ ticker[w].at = "deferring") \in BOOLEAN
        BY <2>3
      <4> QED
        BY <2>3, <2>15, <4>1 DEF Defer
    <3>2. RequeueItem(w, "idle") /\ ticker[w].at \in {"deferring", "returning"}
      BY <2>15 DEF Defer
    <3> QED
      BY <2>14, <3>1, <3>2
  <2>16. ASSUME NEW w \in MaintWorkers, Compensate(w) PROVE MaintInv'
    <3>1. pausedRun' \in BOOLEAN
      BY <2>3, <2>16 DEF Compensate
    <3>2. RequeueItem(w, "checking") /\ ticker[w].at = "compensating"
      BY <2>16 DEF Compensate
    <3> QED
      BY <2>14, <3>1, <3>2
  <2>17. ASSUME NEW w \in MaintWorkers, RecordOutcome(w) PROVE MaintInv'
    <3>1. /\ ticker' = [ticker EXCEPT ![w] = With("checking", "none")]
          /\ ticker[w].at = "recording"
          /\ UNCHANGED <<lock, started, waiting, pausedRun, admin, gone>>
      BY <2>17 DEF RecordOutcome
    <3>2. ticker[w].project \in Projects
      BY <2>4, <3>1 DEF BetweenItems
    <3>3. opRun' \in RunRows /\ opRun'.inFlight = opRun.inFlight - 1
      <4>1. opRun' = [opRun EXCEPT !.inFlight = @ - 1, !.counted = @ \cup {ticker[w].project}]
        BY <2>17 DEF RecordOutcome
      <4>2. opRun.counted \cup {ticker[w].project} \in SUBSET Projects
            /\ opRun.inFlight - 1 \in Int
        BY <2>2, <3>2
      <4> QED
        BY <2>2, <4>1, <4>2
    <3>4. Share("checking") = 0 /\ Share(ticker[w].at) = 1 /\ "checking" \in BetweenItems
      BY <3>1 DEF Share, AtWork, BetweenItems
    <3>5. pausedRun' \in BOOLEAN
      BY <2>3, <3>1
    <3>6. opRun'.inFlight + Share(ticker[w].at) <= opRun.inFlight + Share("checking")
      BY <2>2, <3>3, <3>4
    <3>7. waiting' \in SUBSET Projects /\ lock' \in {lock, 0}
      BY <2>2, <3>1
    <3> QED
      BY <2>1, <3>1, <3>3, <3>4, <3>5, <3>6, <3>7
  <2>18. ASSUME NEW w \in MaintWorkers,
                \/ CrashInstance(w) \/ CountCutShort(w) \/ ItemCutShort(w)
                \/ RequeueCutShort(w)
         PROVE  MaintInv'
    <3>1. /\ ticker' = [ticker EXCEPT ![w] = With("idle", "none")]
          /\ ticker[w].project \in Projects /\ gone' = gone \cup {ticker[w].project}
          /\ UNCHANGED <<lock, started, pausedRun, admin>>
          /\ opRun' \in RunRows /\ waiting' \subseteq Projects
      BY <2>18, WorkerIsCutOff DEF OpRows
    <3>2. /\ ticker' \in [MaintWorkers -> MaintRows]
          /\ \A v \in MaintWorkers :
                ticker'[v].project = "none" <=> ticker'[v].at \in BetweenItems
      <4>1. "idle" \in BetweenItems
        BY DEF BetweenItems
      <4> QED
        BY <3>1, <4>1, WorkerStep
    <3>3. gone' # {} /\ gone' \subseteq Projects
      BY <2>2, <3>1
    <3>4. pausedRun' \in BOOLEAN
      BY <2>3, <3>1
    <3>5. MaintTypeOK'
      BY <2>2, <3>1, <3>2, <3>3, <3>4 DEF MaintTypeOK, BetweenItems
    <3> QED
      BY <3>2, <3>5 DEF MaintInv
  <2>19. ASSUME UNCHANGED ticker, pausedRun' \in BOOLEAN,
                opRun' \in RunRows, waiting' \in SUBSET Projects,
                started' \in 0..MaxRuns, lock' \in 0..started',
                admin' \in [Admins -> AdminAts],
                \/ UNCHANGED gone /\ opRun'.inFlight = opRun.inFlight
                \/ gone' = {} /\ opRun'.inFlight = 0
         PROVE  MaintInv'
    <3>1. Busy' = Busy /\ Cardinality(Busy) \in Nat
      BY <2>19, FS_Subset, FS_CardinalityType DEF Busy
    <3>2. gone' = {} => opRun'.inFlight <= Cardinality(Busy')
      BY <2>19, <3>1 DEF MaintInv, MaintTypeOK
    <3>3. gone' \subseteq Projects
      BY <2>2, <2>19
    <3>4. \A v \in MaintWorkers :
              ticker'[v].project = "none" <=>
                  ticker'[v].at \in {"idle", "taking", "checking", "finishing"}
      BY <2>4, <2>19 DEF BetweenItems
    <3>5. MaintTypeOK'
      BY <2>19, <3>2, <3>3, <3>4 DEF MaintTypeOK
    <3> QED
      BY <2>19, <3>5 DEF MaintInv
  <2>20. ASSUME NEW a \in Admins,
                \/ TakeRunLock(a) \/ Seed(a) \/ AskCancelRun(a) \/ ClearPending(a)
                \/ FinishCancel(a)
         PROVE  MaintInv'
    <3>1. UNCHANGED <<ticker, pausedRun>>
      BY <2>20 DEF TakeRunLock, Seed, AskCancelRun, ClearPending, FinishCancel
    <3>2. pausedRun' \in BOOLEAN
      BY <2>3, <3>1
    <3>3. \E at \in AdminAts : admin' = [admin EXCEPT ![a] = at]
      BY <2>20 DEF TakeRunLock, Seed, AskCancelRun, ClearPending, FinishCancel
    <3>4. admin' \in [Admins -> AdminAts]
      BY <2>2, <3>3
    <3>5. CASE TakeRunLock(a)
      BY <2>2, <2>19, <3>1, <3>2, <3>4, <3>5 DEF TakeRunLock
    <3>6. CASE Seed(a)
      BY <2>2, <2>19, <3>1, <3>2, <3>4, <3>6 DEF Seed
    <3>7. CASE AskCancelRun(a)
      BY <2>2, <2>19, <3>1, <3>2, <3>4, <3>7 DEF AskCancelRun
    <3>8. CASE ClearPending(a)
      BY <2>2, <2>19, <3>1, <3>2, <3>4, <3>8 DEF ClearPending
    <3>9. CASE FinishCancel(a)
      BY <2>2, <2>19, <3>1, <3>2, <3>4, <3>9 DEF FinishCancel, FinishAs
    <3> QED
      BY <2>20, <3>5, <3>6, <3>7, <3>8, <3>9
  <2>21. CASE RunPauseEnds
    <3>1. pausedRun' \in BOOLEAN
      BY <2>21 DEF RunPauseEnds
    <3> QED
      BY <2>2, <2>19, <2>21, <3>1 DEF RunPauseEnds
  <2>22. CASE LockLapses
    <3>1. pausedRun' \in BOOLEAN
      BY <2>3, <2>22 DEF LockLapses
    <3> QED
      BY <2>2, <2>19, <2>22, <3>1 DEF LockLapses
  <2>23. CASE UNCHANGED maintVars
    <3>1. pausedRun' \in BOOLEAN
      BY <2>3, <2>23 DEF maintVars
    <3> QED
      BY <2>2, <2>19, <2>23, <3>1 DEF maintVars
  <2>24. CASE MaintNext
    BY <2>6, <2>7, <2>8, <2>9, <2>10, <2>11, <2>12, <2>13, <2>15, <2>16, <2>17, <2>18,
       <2>20, <2>21, <2>22, <2>24, MaintNextCases
  <2> QED
    BY <2>23, <2>24
<1> QED
  BY <1>1, <1>2, PTL DEF MaintSpec

(* The types of one maintenance operation; and the count of what is in     *)
(* flight is never more than the workers that are at an item, unless one   *)
(* went down with its item: no run waits for an item that nobody has.      *)
THEOREM InFlightIsAtWork ==
    MaintSpec => []MaintTypeOK
<1>1. MaintInv => MaintTypeOK
  BY DEF MaintInv
<1> QED
  BY <1>1, TypesHold, PTL

(* A step of one worker that hands its project on forgets none.            *)
LEMMA HandedOn ==
    ASSUME MaintInv, ProjectsAccounted,
           NEW w \in MaintWorkers,
           NEW at \in BetweenItems \cup AtWork \cup {"popped"},
           NEW p \in Projects \cup {"none"},
           ticker' = [ticker EXCEPT ![w] = With(at, p)],
           UNCHANGED admin, opRun'.state \in {opRun.state, "completed"},
           waiting \ {p} \subseteq waiting', opRun.counted \subseteq opRun'.counted,
           gone \subseteq gone',
           ticker[w].project \in {p, "none"} \cup waiting' \cup opRun'.counted \cup gone'
    PROVE  ProjectsAccounted'
  <1> USE MaintAssumption
  <1>1. Held \ {ticker[w].project} \subseteq Held' /\ (p # "none" => p \in Held')
    BY OneWorkerMoves DEF MaintInv
  <1> SUFFICES ASSUME opRun'.state = "running", \A a \in Admins : admin'[a] # "cancelling",
                      NEW q \in Projects
               PROVE  q \in waiting' \cup Held' \cup opRun'.counted \cup gone'
    BY DEF ProjectsAccounted
  <1>2. opRun.state = "running" /\ \A a \in Admins : admin[a] # "cancelling"
    OBVIOUS
  <1>3. q \in waiting \cup Held \cup opRun.counted \cup gone
    BY <1>2 DEF ProjectsAccounted
  <1>4. q # "none"
    OBVIOUS
  <1>5. CASE q = p
    BY <1>1, <1>4, <1>5
  <1>6. CASE q = ticker[w].project /\ q # p
    BY <1>4, <1>6
  <1>7. CASE q # ticker[w].project /\ q # p
    BY <1>1, <1>3, <1>7
  <1> QED
    BY <1>5, <1>6, <1>7

(* No project of a maintenance run is forgotten unless a worker is cut off *)
(* while it has it: while the run goes on and nobody cancels it, each is   *)
(* pending, in hand, counted, or was in the hands of a worker that was     *)
(* killed, shut down outside of the operation, or ended by a checkout or a *)
(* requeue that raised. Nothing else loses one.                            *)
THEOREM EachProjectIsAccounted ==
    MaintSpec => []ProjectsAccounted
<1> USE MaintAssumption
<1>1. MaintInit => ProjectsAccounted
  BY DEF MaintInit, ProjectsAccounted
<1>2. MaintInv /\ ProjectsAccounted /\ [MaintNext]_maintVars => ProjectsAccounted'
  <2> SUFFICES ASSUME MaintInv, ProjectsAccounted, [MaintNext]_maintVars
               PROVE  ProjectsAccounted'
    OBVIOUS
  <2>1. ASSUME NEW w \in MaintWorkers
        PROVE  ticker[w].project \in Projects \cup {"none"}
    BY DEF MaintInv, MaintRows
  <2>2. ASSUME NEW w \in MaintWorkers, NEW at \in BetweenItems \cup AtWork, Move(w, at),
               opRun'.state \in {opRun.state, "completed"},
               opRun.counted \subseteq opRun'.counted, UNCHANGED <<waiting, admin, gone>>
        PROVE  ProjectsAccounted'
    <3>1. ticker' = [ticker EXCEPT ![w] = With(at, ticker[w].project)]
      BY <2>2, MoveIsWith DEF MaintInv
    <3> QED
      BY <2>1, <2>2, <3>1, HandedOn
  <2>3. ASSUME NEW w \in MaintWorkers,
               \/ BeginTick(w) \/ CountOut(w) \/ ItemEnds(w) \/ ItemDeferred(w)
               \/ CheckDrained(w) \/ Finalize(w) \/ RecordFails(w)
        PROVE  ProjectsAccounted'
    <3>1. \E at \in BetweenItems \cup AtWork : Move(w, at)
      BY <2>3 DEF BeginTick, CountOut, ItemEnds, ItemDeferred, CheckDrained, Finalize,
                  RecordFails, BetweenItems, AtWork
    <3>2. opRun \in [state : {"idle", "running", "completed", "cancelled"},
                   inFlight : Int, counted : SUBSET Projects]
      BY DEF MaintInv, MaintTypeOK
    <3>3. opRun'.state \in {opRun.state, "completed"} /\ opRun.counted \subseteq opRun'.counted
      BY <2>3, <3>2 DEF BeginTick, CountOut, ItemEnds, ItemDeferred, CheckDrained,
                        Finalize, FinishAs, RecordFails, PartOfRecord
    <3>4. UNCHANGED <<waiting, admin, gone>>
      BY <2>3 DEF BeginTick, CountOut, ItemEnds, ItemDeferred, CheckDrained, Finalize,
                  RecordFails
    <3> QED
      BY <2>2, <3>1, <3>3, <3>4
  <2>4. ASSUME NEW w \in MaintWorkers, Pop(w) PROVE ProjectsAccounted'
    <3>1. UNCHANGED <<opRun, admin, gone>> /\ ticker[w].at = "taking"
      BY <2>4 DEF Pop
    <3>2. CASE UNCHANGED waiting /\ Move(w, "checking")
      BY <2>2, <3>1, <3>2 DEF BetweenItems
    <3>3. ASSUME NEW p \in waiting, waiting' = waiting \ {p},
                 ticker' = [ticker EXCEPT ![w] = With("popped", p)]
          PROVE  ProjectsAccounted'
      <4>1. ticker[w].project = "none" /\ p \in Projects
        BY <3>1 DEF MaintInv, MaintTypeOK
      <4> QED
        BY <3>1, <3>3, <4>1, HandedOn
    <3> QED
      BY <2>4, <3>2, <3>3 DEF Pop
  <2>5. ASSUME NEW w \in MaintWorkers, Defer(w) \/ Compensate(w) PROVE ProjectsAccounted'
    <3>1. PICK at \in {"idle", "checking"} : RequeueItem(w, at) /\ UNCHANGED <<admin, gone>>
      BY <2>5 DEF Defer, Compensate, RequeueItem
    <3>2. opRun \in [state : {"idle", "running", "completed", "cancelled"},
                   inFlight : Int, counted : SUBSET Projects]
      BY DEF MaintInv, MaintTypeOK
    <3>3. /\ waiting \subseteq waiting' /\ ticker[w].project \in waiting'
          /\ ticker' = [ticker EXCEPT ![w] = With(at, "none")]
          /\ opRun'.state = opRun.state /\ opRun'.counted = opRun.counted
      BY <3>1, <3>2 DEF RequeueItem
    <3>4. at \in BetweenItems
      BY DEF BetweenItems
    <3> QED
      BY <3>1, <3>3, <3>4, HandedOn
  <2>6. ASSUME NEW w \in MaintWorkers, RecordOutcome(w) PROVE ProjectsAccounted'
    <3>1. opRun \in [state : {"idle", "running", "completed", "cancelled"},
                   inFlight : Int, counted : SUBSET Projects]
      BY DEF MaintInv, MaintTypeOK
    <3>2. /\ UNCHANGED <<waiting, admin, gone>>
          /\ ticker' = [ticker EXCEPT ![w] = With("checking", "none")]
          /\ opRun'.state = opRun.state /\ opRun'.counted = opRun.counted \cup {ticker[w].project}
      BY <2>6, <3>1 DEF RecordOutcome
    <3>3. "checking" \in BetweenItems
      BY DEF BetweenItems
    <3> QED
      BY <3>2, <3>3, HandedOn
  <2>7. ASSUME NEW w \in MaintWorkers,
               \/ CrashInstance(w) \/ CountCutShort(w) \/ ItemCutShort(w)
               \/ RequeueCutShort(w)
        PROVE  ProjectsAccounted'
    <3>1. /\ UNCHANGED admin /\ waiting \subseteq waiting'
          /\ opRun'.state = opRun.state /\ opRun.counted \subseteq opRun'.counted
          /\ ticker' = [ticker EXCEPT ![w] = With("idle", "none")]
          /\ gone' = gone \cup {ticker[w].project}
      BY <2>7, WorkerIsCutOff
    <3>2. "idle" \in BetweenItems
      BY DEF BetweenItems
    <3> QED
      BY <3>1, <3>2, HandedOn
  <2>8. ASSUME NEW a \in Admins, TakeRunLock(a) \/ AskCancelRun(a) PROVE ProjectsAccounted'
    <3>1. /\ UNCHANGED <<waiting, ticker, opRun, gone>>
          /\ admin[a] = "none" /\ admin' \in {[admin EXCEPT ![a] = "seeding"],
                                              [admin EXCEPT ![a] = "clearing"]}
      BY <2>8 DEF TakeRunLock, AskCancelRun
    <3>2. \A b \in Admins : admin'[b] = "cancelling" <=> admin[b] = "cancelling"
      BY <3>1 DEF MaintInv, MaintTypeOK
    <3>3. Held' = Held
      BY <3>1 DEF Held
    <3> QED
      BY <3>1, <3>2, <3>3 DEF ProjectsAccounted
  <2>9. ASSUME NEW a \in Admins, Seed(a) PROVE ProjectsAccounted'
    BY <2>9 DEF Seed, ProjectsAccounted
  <2>10. ASSUME NEW a \in Admins, ClearPending(a) PROVE ProjectsAccounted'
    <3>1. admin'[a] = "cancelling"
      BY <2>10 DEF ClearPending, MaintInv, MaintTypeOK
    <3> QED
      BY <3>1 DEF ProjectsAccounted
  <2>11. ASSUME NEW a \in Admins, FinishCancel(a) PROVE ProjectsAccounted'
    <3>1. opRun'.state = "cancelled"
      BY <2>11 DEF FinishCancel, FinishAs, MaintInv, MaintTypeOK
    <3> QED
      BY <3>1 DEF ProjectsAccounted
  <2>12. CASE RunPauseEnds \/ LockLapses \/ UNCHANGED maintVars
    <3>1. UNCHANGED <<waiting, ticker, opRun, admin, gone>>
      BY <2>12 DEF RunPauseEnds, LockLapses, maintVars
    <3> QED
      BY <3>1 DEF ProjectsAccounted, Held
  <2>13. CASE MaintNext
    BY <2>3, <2>4, <2>5, <2>6, <2>7, <2>8, <2>9, <2>10, <2>11, <2>12, <2>13,
       MaintNextCases
  <2> QED
    BY <2>12, <2>13
<1> QED
  BY <1>1, <1>2, TypesHold, PTL DEF MaintSpec
-----------------------------------------------------------------------------

(* ScoreQueue.                                                             *)
ScorerRows == [at : {"idle", "next", "locked", "keyless", "read", "done"},
               batch : SUBSET Nat, claimed : BOOLEAN, seen : Nat]

(* The types, with those of the stream and of the workers, whose batches   *)
(* are of entries that were added.                                         *)
ScoreTypes ==
    /\ ScoreTypeOK /\ GroupTypes
    /\ scorer \in [Scorers -> ScorerRows]
    /\ \A w \in Scorers : scorer[w].batch \subseteq 1..added

LEMMA ScoreNextCases ==
    ASSUME ScoreNext
    PROVE  \/ \E p \in Writers : SaveProject(p) \/ SetDebounce(p) \/ AddRecompute(p)
           \/ \E w \in Scorers :
                  \/ ReadJobs(w) \/ ClaimJobs(w) \/ DropSpent(w) \/ TakeLock(w)
                  \/ WaitInVain(w) \/ ReleaseKey(w) \/ ReadProject(w) \/ WriteScore(w)
                  \/ AckJob(w) \/ RecomputeFails(w) \/ CrashScorer(w)
           \/ DebounceExpires \/ LockExpires
  BY DEF ScoreNext, ScorerStep

(* The entry of a worker is one of its batch.                              *)
LEMMA CurrentIsThere ==
    ASSUME ScoreTypes, NEW w \in Scorers, scorer[w].at # "idle"
    PROVE  Current(w) \in scorer[w].batch
  <1>1. scorer[w].batch \in SUBSET Nat /\ scorer[w].batch # {}
    BY DEF ScoreTypes, ScoreTypeOK, ScorerRows
  <1> QED
    BY <1>1, FirstOne DEF Current

(* A worker that is between two entries, or has none: what Passed and      *)
(* Resting are.                                                            *)
Between(row, from) ==
    /\ row \in ScorerRows /\ row.at \in {"idle", "next"} /\ row.seen = 0
    /\ (row.at = "idle") = (row.batch = {})
    /\ row.batch \subseteq from.batch

LEMMA PassedIsBetween ==
    ASSUME ScoreTypes, NEW w \in Scorers
    PROVE  Between(Passed(w), scorer[w]) /\ Between(Resting, scorer[w])
  <1>1. Between(Resting, scorer[w])
    BY DEF Between, Resting, ScorerRows
  <1> DEFINE left == scorer[w].batch \ {Current(w)}
             row == [scorer[w] EXCEPT !.at = "next", !.batch = left, !.seen = 0]
  <1>2. scorer[w] \in ScorerRows /\ left \in SUBSET Nat /\ left \subseteq scorer[w].batch
    BY DEF ScoreTypes, ScorerRows
  <1> HIDE DEF left
  <1>3. row \in ScorerRows /\ row.at = "next" /\ row.seen = 0 /\ row.batch = left
    BY <1>2 DEF ScorerRows
  <1>4. Passed(w) = IF left = {} THEN Resting ELSE row
    BY DEF Passed, left
  <1>5. left # {} => Between(row, scorer[w])
    BY <1>2, <1>3 DEF Between
  <1> HIDE DEF row
  <1> QED
    BY <1>1, <1>4, <1>5

(* The row of a worker that has taken a batch.                             *)
LEMMA TakenRow ==
    ASSUME NEW es \in SUBSET Nat, NEW claimed \in BOOLEAN,
           NEW row,
           row = [Resting EXCEPT !.at = "next", !.batch = es, !.claimed = claimed]
    PROVE  row \in ScorerRows /\ row.at = "next" /\ row.batch = es /\ row.seen = 0
  BY DEF Resting, ScorerRows

(* What a worker does to its row.                                          *)
Steps(w, at, n) ==
    \/ scorer' = [scorer EXCEPT ![w].at = at, ![w].seen = n]
    \/ scorer' = [scorer EXCEPT ![w].at = at] /\ n = scorer[w].seen

LEMMA ScorerMoves ==
    ASSUME ScoreTypes, NEW w \in Scorers,
           NEW at \in {"next", "locked", "keyless", "read", "done"}, NEW n \in Nat,
           scorer[w].at # "idle",
           Steps(w, at, n)
    PROVE  \E row \in ScorerRows :
               /\ scorer' = [scorer EXCEPT ![w] = row]
               /\ row.at = at /\ row.seen = n /\ row.batch = scorer[w].batch
               /\ row.batch # {}
  <1>1. scorer[w] \in ScorerRows /\ scorer[w].batch # {}
    BY DEF ScoreTypes, ScoreTypeOK
  <1> DEFINE row == [scorer[w] EXCEPT !.at = at, !.seen = n]
  <1>2. row \in ScorerRows /\ row.at = at /\ row.seen = n /\ row.batch = scorer[w].batch
    BY <1>1 DEF ScorerRows
  <1>3. scorer' = [scorer EXCEPT ![w] = row]
    <2>1. CASE scorer' = [scorer EXCEPT ![w].at = at, ![w].seen = n]
      BY <2>1 DEF ScoreTypes
    <2>2. CASE scorer' = [scorer EXCEPT ![w].at = at] /\ n = scorer[w].seen
      <3>1. [scorer[w] EXCEPT !.at = at] = row
        BY <1>1, <2>2 DEF ScorerRows
      <3> QED
        BY <2>2, <3>1 DEF ScoreTypes
    <2> QED
      BY <2>1, <2>2 DEF Steps
  <1> HIDE DEF row
  <1> QED
    BY <1>1, <1>2, <1>3

(* The types are kept by a step of one worker, whatever it does to the     *)
(* queue, the key, the score and the lock.                                 *)
LEMMA ScorerKeepsTypes ==
    ASSUME ScoreTypes, NEW w \in Scorers, NEW row \in ScorerRows,
           scorer' = [scorer EXCEPT ![w] = row],
           row.batch \subseteq 1..added, row.seen \in 0..version,
           (row.at = "idle") = (row.batch = {}),
           GroupTypes', added' = added, version' = version, writer' = writer,
           score' \in {score, scorer[w].seen}, debounce' \in {debounce, FALSE},
           scoreLock' \in {scoreLock, w, NoScorer}
    PROVE  ScoreTypes'
  <1>1. scorer' \in [Scorers -> ScorerRows]
    BY DEF ScoreTypes
  <1>2. \A v \in Scorers :
           /\ scorer'[v].batch \subseteq 1..added /\ scorer'[v].seen \in 0..version
           /\ (scorer'[v].at = "idle") = (scorer'[v].batch = {})
    BY DEF ScoreTypes, ScoreTypeOK
  <1>3. version' \in 0..MaxVersion /\ score' \in 0..version'
    BY DEF ScoreTypes, ScoreTypeOK
  <1>4. debounce' \in BOOLEAN
    BY DEF ScoreTypes, ScoreTypeOK
  <1>5. writer' \in [Writers -> {"idle", "saved", "keyed"}]
    BY DEF ScoreTypes, ScoreTypeOK
  <1>6. scoreLock' \in Scorers \cup {NoScorer}
    BY DEF ScoreTypes, ScoreTypeOK
  <1>7. ScoreTypeOK'
    BY <1>2, <1>3, <1>4, <1>5, <1>6 DEF ScoreTypeOK
  <1> QED
    BY <1>1, <1>2, <1>7 DEF ScoreTypes

(* The types of the score queue.                                           *)
LEMMA ScoreTypesHold ==
    ScoreSpec => []ScoreTypes
<1> MaxVersion \in Nat
  BY ScoreAssumption
<1>1. ScoreInit => ScoreTypes
  <2> SUFFICES ASSUME ScoreInit PROVE ScoreTypes
    OBVIOUS
  <2>1. GroupTypes
    BY GroupStarts DEF ScoreInit
  <2>2. scorer \in [Scorers -> ScorerRows] /\ \A w \in Scorers : scorer[w] = Resting
    BY DEF ScoreInit, Resting, ScorerRows
  <2>3. version = 0 /\ score = 0 /\ scoreLock = NoScorer
        /\ writer \in [Writers -> {"idle", "saved", "keyed"}]
    BY DEF ScoreInit
  <2>4. debounce \in BOOLEAN
    BY DEF ScoreInit
  <2>5. ScoreTypeOK
    BY <2>2, <2>3, <2>4 DEF ScoreTypeOK, Resting
  <2> QED
    BY <2>1, <2>2, <2>5 DEF ScoreTypes, Resting
<1>2. ScoreTypes /\ [ScoreNext]_<<scoreVars, groupVars>> => ScoreTypes'
  <2> SUFFICES ASSUME ScoreTypes, [ScoreNext]_<<scoreVars, groupVars>> PROVE ScoreTypes'
    OBVIOUS
  <2>1. /\ version \in 0..MaxVersion /\ score \in 0..version /\ GroupTypes
        /\ writer \in [Writers -> {"idle", "saved", "keyed"}]
        /\ scoreLock \in Scorers \cup {NoScorer}
        /\ scorer \in [Scorers -> ScorerRows] /\ debounce \in BOOLEAN
        /\ \A w \in Scorers :
              /\ scorer[w].batch \subseteq 1..added /\ scorer[w].seen \in 0..version
              /\ (scorer[w].at = "idle") = (scorer[w].batch = {})
    BY DEF ScoreTypes, ScoreTypeOK
  <2>2. ASSUME NEW w \in Scorers, NEW at \in {"next", "locked", "keyless", "read", "done"},
               NEW n \in 0..version, scorer[w].at # "idle",
               Steps(w, at, n),
               GroupTypes', added' = added, version' = version, writer' = writer,
               score' \in {score, scorer[w].seen}, debounce' \in {debounce, FALSE},
               scoreLock' \in {scoreLock, w, NoScorer}
        PROVE  ScoreTypes'
    <3>1. n \in Nat
      BY <2>1
    <3>2. scorer[w].at # "idle" /\ Steps(w, at, n)
      BY <2>2
    <3>3. PICK row \in ScorerRows :
              /\ scorer' = [scorer EXCEPT ![w] = row]
              /\ row.at = at /\ row.seen = n /\ row.batch = scorer[w].batch
              /\ row.batch # {}
      BY <3>1, <3>2, ScorerMoves
    <3> QED
      BY <2>1, <2>2, <3>3, ScorerKeepsTypes
  <2>3. ASSUME NEW w \in Scorers, scorer' \in {[scorer EXCEPT ![w] = Passed(w)],
                                               [scorer EXCEPT ![w] = Resting]},
               GroupTypes', added' = added, version' = version, writer' = writer,
               score' \in {score, scorer[w].seen}, debounce' = debounce,
               scoreLock' \in {scoreLock, NoScorer}
        PROVE  ScoreTypes'
    <3>1. PICK row : scorer' = [scorer EXCEPT ![w] = row] /\ Between(row, scorer[w])
      BY <2>3, PassedIsBetween
    <3>2. /\ row \in ScorerRows /\ row.seen = 0 /\ row.batch \subseteq scorer[w].batch
          /\ (row.at = "idle") = (row.batch = {})
      BY <3>1 DEF Between
    <3>3. row.batch \subseteq 1..added /\ row.seen \in 0..version
      BY <2>1, <3>2
    <3> QED
      BY <2>3, <3>1, <3>2, <3>3, ScorerKeepsTypes
  <2>4. ASSUME NEW w \in Scorers, ReadJobs(w) \/ ClaimJobs(w) PROVE ScoreTypes'
    <3>1. PICK es \in SUBSET (unread \cup Pending), claimed \in BOOLEAN :
              Take(w, es, claimed) /\ (XReadGroup(es, 16) \/ XAutoClaim(es))
      BY <2>4 DEF ReadJobs, ClaimJobs
    <3>2. GroupTypes' /\ es # {} /\ es \subseteq 1..added /\ added' = added
      BY <2>1, <3>1, ReadsThem, ClaimsThem
    <3> DEFINE row == [Resting EXCEPT !.at = "next", !.batch = es, !.claimed = claimed]
    <3>3. scorer' = [scorer EXCEPT ![w] = row]
      BY <3>1 DEF Take
    <3>4. es \in SUBSET Nat
      BY <3>2
    <3>5. row \in ScorerRows /\ row.at = "next" /\ row.batch = es /\ row.seen = 0
      BY <3>4, TakenRow
    <3> HIDE DEF row
    <3>6. UNCHANGED <<version, score, debounce, writer, scoreLock>> /\ 0 \in 0..version
      BY <2>1, <3>1 DEF Take
    <3> QED
      BY <3>2, <3>3, <3>5, <3>6, ScorerKeepsTypes
  <2>5. ASSUME NEW w \in Scorers, DropSpent(w) \/ AckJob(w) PROVE ScoreTypes'
    <3>1. GroupTypes' /\ added' = added
      BY <2>1, <2>5, LeavesPending DEF DropSpent, AckJob
    <3> QED
      BY <2>3, <2>5, <3>1 DEF DropSpent, AckJob
  <2>6. ASSUME NEW w \in Scorers, TakeLock(w) \/ ReleaseKey(w) \/ ReadProject(w)
        PROVE  ScoreTypes'
    <3>1. GroupTypes' /\ added' = added
      BY <2>1, <2>6, GroupStays DEF TakeLock, ReleaseKey, ReadProject
    <3>2. scorer[w].seen \in 0..version /\ version \in 0..version
      BY <2>1
    <3>3. CASE TakeLock(w)
      BY <2>2, <3>1, <3>2, <3>3 DEF TakeLock, Steps
    <3>4. CASE ReleaseKey(w)
      BY <2>2, <3>1, <3>2, <3>4 DEF ReleaseKey, Steps
    <3>5. CASE ReadProject(w)
      BY <2>2, <3>1, <3>2, <3>5 DEF ReadProject, Steps
    <3> QED
      BY <2>6, <3>3, <3>4, <3>5
  <2>7. ASSUME NEW w \in Scorers, WriteScore(w) PROVE ScoreTypes'
    <3>1. GroupTypes' /\ added' = added
      BY <2>1, <2>7, GroupStays DEF WriteScore
    <3>2. scorer[w].seen \in 0..version
      BY <2>1
    <3>3. CASE scoreLock = w
      BY <2>2, <2>7, <3>1, <3>2, <3>3 DEF WriteScore, Unlock, Steps
    <3>4. CASE scoreLock # w
      BY <2>3, <2>7, <3>1, <3>4 DEF WriteScore, Unlock
    <3> QED
      BY <3>3, <3>4
  <2>8. ASSUME NEW w \in Scorers, WaitInVain(w) \/ RecomputeFails(w) \/ CrashScorer(w)
        PROVE  ScoreTypes'
    <3>1. GroupTypes' /\ added' = added
      BY <2>1, <2>8, GroupStays DEF WaitInVain, RecomputeFails, CrashScorer
    <3> QED
      BY <2>3, <2>8, <3>1 DEF WaitInVain, RecomputeFails, Unlock, CrashScorer
  <2>9. ASSUME NEW p \in Writers, SaveProject(p) PROVE ScoreTypes'
    <3>1. GroupTypes' /\ added' = added /\ UNCHANGED <<score, scorer, scoreLock>>
      BY <2>1, <2>9, GroupStays DEF SaveProject
    <3>2. version' \in 0..MaxVersion /\ 0..version \subseteq 0..version'
      BY <2>1, <2>9 DEF SaveProject
    <3>3. writer' \in [Writers -> {"idle", "saved", "keyed"}]
      BY <2>1, <2>9 DEF SaveProject
    <3>4. debounce' \in BOOLEAN
      BY <2>1, <2>9 DEF SaveProject
    <3>5. ScoreTypeOK'
      BY <2>1, <3>1, <3>2, <3>3, <3>4 DEF ScoreTypeOK
    <3> QED
      BY <2>1, <3>1, <3>5 DEF ScoreTypes
  <2>10. ASSUME UNCHANGED <<version, score, scorer>>, debounce' \in BOOLEAN,
                scoreLock' \in {scoreLock, NoScorer},
                GroupTypes', 1..added \subseteq 1..added',
                writer' \in [Writers -> {"idle", "saved", "keyed"}]
         PROVE  ScoreTypes'
    <3>1. \A w \in Scorers : scorer'[w].batch \subseteq 1..added'
      BY <2>1, <2>10
    <3>2. debounce' \in BOOLEAN
      BY <2>10
    <3>3. ScoreTypeOK'
      BY <2>1, <2>10, <3>2 DEF ScoreTypeOK
    <3> QED
      BY <2>1, <2>10, <3>1, <3>3 DEF ScoreTypes
  <2>11. ASSUME NEW p \in Writers, SetDebounce(p) PROVE ScoreTypes'
    <3>1. GroupTypes' /\ added' = added /\ UNCHANGED <<version, score, scorer, scoreLock>>
      BY <2>1, <2>11, GroupStays DEF SetDebounce
    <3>2. debounce' \in BOOLEAN
      BY <2>11 DEF SetDebounce
    <3>3. writer' \in [Writers -> {"idle", "saved", "keyed"}]
      BY <2>1, <2>11 DEF SetDebounce
    <3> QED
      BY <2>10, <3>1, <3>2, <3>3
  <2>12. ASSUME NEW p \in Writers, AddRecompute(p) PROVE ScoreTypes'
    <3>1. GroupTypes' /\ 1..added \subseteq 1..added'
      BY <2>1, <2>12, AddsOne DEF AddRecompute
    <3>2. UNCHANGED <<version, score, debounce, scorer, scoreLock>>
      BY <2>12 DEF AddRecompute
    <3>3. debounce' \in BOOLEAN
      BY <2>1, <3>2
    <3>4. writer' \in [Writers -> {"idle", "saved", "keyed"}]
      BY <2>1, <2>12 DEF AddRecompute
    <3> QED
      BY <2>10, <3>1, <3>2, <3>3, <3>4
  <2>13. CASE DebounceExpires \/ LockExpires \/ UNCHANGED <<scoreVars, groupVars>>
    <3>1. UNCHANGED <<version, score, scorer, writer>> /\ scoreLock' \in {scoreLock, NoScorer}
      BY <2>13 DEF DebounceExpires, LockExpires, scoreVars
    <3>2. UNCHANGED groupVars
      BY <2>13 DEF DebounceExpires, LockExpires
    <3>3. debounce' \in {debounce, FALSE}
      BY <2>13 DEF DebounceExpires, LockExpires, scoreVars
    <3>4. debounce' \in BOOLEAN
      BY <2>1, <3>3
    <3>5. GroupTypes' /\ added' = added
      BY <2>1, <3>2, GroupStays
    <3> QED
      BY <2>1, <2>10, <3>1, <3>4, <3>5
  <2> QED
    BY <2>4, <2>5, <2>6, <2>7, <2>8, <2>9, <2>11, <2>12, <2>13, ScoreNextCases
<1> QED
  BY <1>1, <1>2, PTL DEF ScoreSpec

(* The types of the score queue: a score is never that of a version to     *)
(* come, and a batch is of entries that were added.                        *)
THEOREM ScoreTyping == ScoreSpec => []ScoreTypeOK
<1>1. ScoreTypes => ScoreTypeOK
  BY DEF ScoreTypes
<1> QED
  BY <1>1, ScoreTypesHold, PTL

(* One recompute at a time: who is at one holds the lock, so that what it  *)
(* has read is no older than the score.                                    *)
InTurn ==
    \A w \in Scorers :
        /\ HoldsLock(w) => scoreLock = w
        /\ scorer[w].at = "read" => score <= scorer[w].seen

LEMMA TakesItsTurn ==
    ASSUME ScoreTypes, InTurn,
           NEW w \in Scorers, NEW row \in ScorerRows,
           scorer' = [scorer EXCEPT ![w] = row],
           scoreLock' # scoreLock => scoreLock \in {w, NoScorer},
           score' # score => scoreLock = w,
           row.at \in {"locked", "keyless", "read"} => scoreLock' = w,
           row.at = "read" => score' <= row.seen
    PROVE  InTurn'
  <1> NoScorer \notin Scorers
    BY ScoreAssumption
  <1>1. scorer'[w] = row /\ \A v \in Scorers \ {w} : scorer'[v] = scorer[v]
    BY DEF ScoreTypes
  <1>2. ASSUME NEW v \in Scorers \ {w}
        PROVE  /\ HoldsLock(v)' => scoreLock' = v
               /\ scorer'[v].at = "read" => score' <= scorer'[v].seen
    <2>1. HoldsLock(v) => scoreLock = v /\ v # NoScorer /\ v # w
      BY DEF InTurn
    <2> QED
      BY <1>1, <2>1 DEF InTurn, HoldsLock
  <1> QED
    BY <1>1, <1>2 DEF InTurn, HoldsLock

LEMMA InTurnHolds ==
    ASSUME "stall" \notin ScoreFaults
    PROVE  ScoreSpec => []InTurn
<1> NoScorer \notin Scorers
  BY ScoreAssumption
<1>1. ScoreInit => InTurn
  BY DEF ScoreInit, Resting, InTurn, HoldsLock
<1>2. ScoreTypes /\ InTurn /\ [ScoreNext]_<<scoreVars, groupVars>> => InTurn'
  <2> SUFFICES ASSUME ScoreTypes, InTurn, [ScoreNext]_<<scoreVars, groupVars>>
               PROVE  InTurn'
    OBVIOUS
  <2>1. ASSUME NEW w \in Scorers, scorer' \in {[scorer EXCEPT ![w] = Passed(w)],
                                               [scorer EXCEPT ![w] = Resting]},
               score' = score, scoreLock' = scoreLock \/ Unlock(w)
        PROVE  InTurn'
    <3>1. PICK row : scorer' = [scorer EXCEPT ![w] = row] /\ Between(row, scorer[w])
      BY <2>1, PassedIsBetween
    <3>2. row \in ScorerRows /\ row.at \notin {"locked", "keyless", "read"}
      BY <3>1 DEF Between
    <3> QED
      BY <2>1, <3>1, <3>2, TakesItsTurn DEF Unlock
  <2>2. ASSUME NEW w \in Scorers, NEW at \in {"next", "locked", "keyless", "read", "done"},
               NEW n \in Nat, scorer[w].at # "idle", Steps(w, at, n),
               scoreLock' # scoreLock => scoreLock \in {w, NoScorer},
               score' # score => scoreLock = w,
               at \in {"locked", "keyless", "read"} => scoreLock' = w,
               at = "read" => score' <= n
        PROVE  InTurn'
    <3>1. PICK row \in ScorerRows :
              /\ scorer' = [scorer EXCEPT ![w] = row]
              /\ row.at = at /\ row.seen = n /\ row.batch = scorer[w].batch
              /\ row.batch # {}
      BY <2>2, ScorerMoves
    <3> QED
      BY <2>2, <3>1, TakesItsTurn
  <2>3. ASSUME NEW w \in Scorers, ReadJobs(w) \/ ClaimJobs(w) PROVE InTurn'
    <3>1. PICK es \in SUBSET (unread \cup Pending), claimed \in BOOLEAN :
              Take(w, es, claimed) /\ (XReadGroup(es, 16) \/ XAutoClaim(es))
      BY <2>3 DEF ReadJobs, ClaimJobs
    <3> DEFINE row == [Resting EXCEPT !.at = "next", !.batch = es, !.claimed = claimed]
    <3>2. scorer' = [scorer EXCEPT ![w] = row]
      BY <3>1 DEF Take
    <3>3. es \in SUBSET Nat
      BY <3>1, ReadsThem, ClaimsThem DEF ScoreTypes
    <3>4. row \in ScorerRows /\ row.at = "next"
      BY <3>3, TakenRow
    <3>5. UNCHANGED <<score, scoreLock>>
      BY <3>1 DEF Take
    <3> HIDE DEF row
    <3> QED
      BY <3>2, <3>4, <3>5, TakesItsTurn
  <2>4. ASSUME NEW w \in Scorers,
               \/ DropSpent(w) \/ AckJob(w) \/ WaitInVain(w) \/ RecomputeFails(w)
               \/ CrashScorer(w)
        PROVE  InTurn'
    BY <2>1, <2>4 DEF DropSpent, AckJob, WaitInVain, RecomputeFails, CrashScorer
  <2>5. ASSUME NEW w \in Scorers PROVE scorer[w].seen \in Nat /\ scorer[w].seen \in 0..version
    BY DEF ScoreTypes, ScoreTypeOK, ScorerRows
  <2>6. ASSUME NEW w \in Scorers, TakeLock(w) PROVE InTurn'
    BY <2>2, <2>5, <2>6 DEF TakeLock, Steps
  <2>7. ASSUME NEW w \in Scorers, ReleaseKey(w) PROVE InTurn'
    <3>1. scoreLock = w
      BY <2>7 DEF ReleaseKey, InTurn, HoldsLock
    <3> QED
      BY <2>2, <2>5, <2>7, <3>1 DEF ReleaseKey, Steps
  <2>8. ASSUME NEW w \in Scorers, ReadProject(w) PROVE InTurn'
    <3>1. scoreLock = w
      BY <2>8 DEF ReadProject, InTurn, HoldsLock
    <3>2. version \in Nat /\ score <= version
      BY DEF ScoreTypes, ScoreTypeOK
    <3> QED
      BY <2>2, <2>8, <3>1, <3>2 DEF ReadProject, Steps
  <2>9. ASSUME NEW w \in Scorers, WriteScore(w) PROVE InTurn'
    <3>1. scoreLock = w
      BY <2>9 DEF WriteScore, InTurn, HoldsLock
    <3> QED
      BY <2>2, <2>5, <2>9, <3>1 DEF WriteScore, Steps
  <2>10. CASE UNCHANGED <<score, scorer, scoreLock>>
    BY <2>10 DEF InTurn, HoldsLock
  <2>11. CASE LockExpires
    <3>1. scoreLock # NoScorer /\ ~HoldsLock(scoreLock)
          /\ UNCHANGED <<score, scorer>>
      BY <2>11 DEF LockExpires
    <3>2. \A w \in Scorers : ~HoldsLock(w)
      BY <3>1 DEF InTurn
    <3> QED
      BY <3>1, <3>2 DEF InTurn, HoldsLock
  <2>12. ASSUME NEW p \in Writers, SaveProject(p) \/ SetDebounce(p) \/ AddRecompute(p)
         PROVE  InTurn'
    BY <2>10, <2>12 DEF SaveProject, SetDebounce, AddRecompute
  <2>13. CASE DebounceExpires \/ UNCHANGED <<scoreVars, groupVars>>
    BY <2>10, <2>13 DEF DebounceExpires, scoreVars
  <2> QED
    BY <2>3, <2>4, <2>6, <2>7, <2>8, <2>9, <2>11, <2>12, <2>13, ScoreNextCases
<1> QED
  BY <1>1, <1>2, ScoreTypesHold, PTL DEF ScoreSpec

(* A score never goes back to that of an older version of its project, as  *)
(* long as no lock is lost while it is held: workers die at any moment, an *)
(* entry is claimed by several, but what is written last was read last.    *)
THEOREM NoScoreGoesBack ==
    ASSUME "stall" \notin ScoreFaults
    PROVE  ScoreSpec => ScoreNeverGoesBack
<1>1. ScoreTypes /\ InTurn /\ [ScoreNext]_<<scoreVars, groupVars>> => [score' >= score]_score
  <2> SUFFICES ASSUME ScoreTypes, InTurn, [ScoreNext]_<<scoreVars, groupVars>>,
                      score' # score
               PROVE  score' >= score
    OBVIOUS
  <2>1. PICK w \in Scorers : WriteScore(w)
    BY ScoreNextCases DEF SaveProject, SetDebounce, AddRecompute, ReadJobs, ClaimJobs, Take,
       DropSpent, TakeLock, WaitInVain, ReleaseKey, ReadProject, AckJob, RecomputeFails,
       CrashScorer, DebounceExpires, LockExpires, scoreVars
  <2>2. scorer[w].at = "read" /\ score' = scorer[w].seen
    BY <2>1 DEF WriteScore
  <2> QED
    BY <2>2 DEF InTurn, ScoreTypes, ScoreTypeOK
<1> QED
  BY <1>1, ScoreTypesHold, InTurnHolds, PTL DEF ScoreSpec, ScoreNeverGoesBack

(* The worker is at the entry.                                             *)
AtJob(w, e) == scorer[w].batch # {} /\ Current(w) = e

(* No recompute for the entry has released the key, and none for it has    *)
(* read an old version or is done.                                         *)
KeyHeld(e) == \A w \in Scorers :
    AtJob(w, e) => scorer[w].at \notin {"keyless", "read", "done"}
CatchesUp(e) == \A w \in Scorers :
    AtJob(w, e) => /\ scorer[w].at # "done"
                   /\ scorer[w].at = "read" => scorer[w].seen = version

(* The strengthening: a key that is set stands for a job that will release *)
(* it, and a score that is behind for one that will see the project.       *)
KeyHasJob ==
    debounce => \/ \E p \in Writers : writer[p] = "keyed"
                \/ dead # {}
                \/ \E e \in unread \cup Pending : KeyHeld(e)
StaleHasJob ==
    score # version => \/ \E p \in Writers : writer[p] # "idle"
                       \/ dead # {}
                       \/ \E e \in unread \cup Pending : CatchesUp(e)

(* Another worker is where it was, and so is a worker with the same batch. *)
FirstIn(S) == CHOOSE e \in S : \A f \in S : e <= f

LEMMA SameJob ==
    ASSUME NEW v \in Scorers, scorer'[v].batch = scorer[v].batch, NEW e
    PROVE  AtJob(v, e)' <=> AtJob(v, e)
  <1>1. Current(v) = FirstIn(scorer[v].batch)
    BY DEF Current, FirstIn
  <1>2. Current(v)' = FirstIn(scorer'[v].batch)
    BY DEF Current, FirstIn
  <1> QED
    BY <1>1, <1>2 DEF AtJob

(* The job of a key, and the job of a score, through a step of a worker.   *)
LEMMA JobStays ==
    ASSUME ScoreTypes, NEW w \in Scorers, NEW row \in ScorerRows,
           scorer' = [scorer EXCEPT ![w] = row], version' = version, NEW e
    PROVE  /\ /\ KeyHeld(e)
              /\ \/ row.at \in {"idle", "next", "locked"}
                 \/ /\ row.batch = scorer[w].batch
                    /\ scorer[w].at \in {"keyless", "read", "done"}
              => KeyHeld(e)'
           /\ /\ CatchesUp(e)
              /\ \/ row.at \in {"idle", "next", "locked", "keyless"}
                 \/ row.at = "read" /\ row.seen = version
                 \/ row.at = "done" /\ ~AtJob(w, e) /\ row.batch = scorer[w].batch
              => CatchesUp(e)'
  <1>1. scorer'[w] = row /\ \A v \in Scorers \ {w} : scorer'[v] = scorer[v]
    BY DEF ScoreTypes
  <1>2. \A v \in Scorers \ {w} : AtJob(v, e)' <=> AtJob(v, e)
    BY <1>1, SameJob
  <1>3. row.batch = scorer[w].batch => (AtJob(w, e)' <=> AtJob(w, e))
    BY <1>1, SameJob
  <1>4. ASSUME KeyHeld(e), NEW v \in Scorers, AtJob(v, e)',
               \/ row.at \in {"idle", "next", "locked"}
               \/ /\ row.batch = scorer[w].batch
                  /\ scorer[w].at \in {"keyless", "read", "done"}
        PROVE  scorer'[v].at \notin {"keyless", "read", "done"}
    <2>1. CASE v = w
      BY <1>1, <1>3, <1>4, <2>1 DEF KeyHeld
    <2>2. CASE v # w
      BY <1>1, <1>2, <1>4, <2>2 DEF KeyHeld
    <2> QED
      BY <2>1, <2>2
  <1>5. ASSUME CatchesUp(e), NEW v \in Scorers, AtJob(v, e)',
               \/ row.at \in {"idle", "next", "locked", "keyless"}
               \/ row.at = "read" /\ row.seen = version
               \/ row.at = "done" /\ ~AtJob(w, e) /\ row.batch = scorer[w].batch
        PROVE  /\ scorer'[v].at # "done"
               /\ scorer'[v].at = "read" => scorer'[v].seen = version'
    <2>1. CASE v = w
      BY <1>1, <1>3, <1>5, <2>1 DEF CatchesUp
    <2>2. CASE v # w
      BY <1>1, <1>2, <1>5, <2>2 DEF CatchesUp
    <2> QED
      BY <2>1, <2>2
  <1> QED
    BY <1>4, <1>5 DEF KeyHeld, CatchesUp

(* A score that is behind its project has a writer at work, or a job in    *)
(* the queue or among the dead letters: no change is swallowed by the      *)
(* debounce key of a job that has read the project before it.              *)
THEOREM NoChangeIsSwallowed ==
    ASSUME "stall" \notin ScoreFaults
    PROVE  ScoreSpec => []StaleIsQueued
<1>1. ScoreInit => KeyHasJob /\ StaleHasJob
  BY DEF ScoreInit, KeyHasJob, StaleHasJob
<1>2. /\ ScoreTypes /\ InTurn /\ KeyHasJob /\ StaleHasJob
      /\ [ScoreNext]_<<scoreVars, groupVars>>
      => KeyHasJob' /\ StaleHasJob'
  <2> SUFFICES ASSUME ScoreTypes, InTurn, KeyHasJob, StaleHasJob,
                      [ScoreNext]_<<scoreVars, groupVars>>
               PROVE  KeyHasJob' /\ StaleHasJob'
    OBVIOUS
  <2> DEFINE Live == unread \cup Pending
  <2>1. GroupTypes
    BY DEF ScoreTypes
  <2>2. ASSUME NEW w \in Scorers, NEW row \in ScorerRows,
               scorer' = [scorer EXCEPT ![w] = row], row.at \in {"idle", "next", "locked"},
               UNCHANGED <<version, score, debounce, writer>>,
               dead \subseteq dead', Live \subseteq Live'
        PROVE  KeyHasJob' /\ StaleHasJob'
    <3>1. \A e : (KeyHeld(e) => KeyHeld(e)') /\ (CatchesUp(e) => CatchesUp(e)')
      BY <2>2, JobStays
    <3> QED
      BY <2>2, <3>1 DEF KeyHasJob, StaleHasJob
  <2>3. ASSUME NEW w \in Scorers, WaitInVain(w) \/ RecomputeFails(w) \/ CrashScorer(w)
        PROVE  KeyHasJob' /\ StaleHasJob'
    <3>1. /\ UNCHANGED <<version, score, debounce, writer, groupVars>>
          /\ scorer' \in {[scorer EXCEPT ![w] = Passed(w)], [scorer EXCEPT ![w] = Resting]}
      BY <2>3 DEF WaitInVain, RecomputeFails, CrashScorer
    <3>2. PICK row : scorer' = [scorer EXCEPT ![w] = row] /\ Between(row, scorer[w])
      BY <3>1, PassedIsBetween
    <3>3. row \in ScorerRows /\ row.at \in {"idle", "next"}
      BY <3>2 DEF Between
    <3>4. Live' = Live /\ dead' = dead
      BY <2>1, <3>1, GroupStays
    <3> QED
      BY <2>2, <3>1, <3>2, <3>3, <3>4
  <2>4. ASSUME NEW w \in Scorers, ReadJobs(w) \/ ClaimJobs(w)
        PROVE  KeyHasJob' /\ StaleHasJob'
    <3>1. PICK es \in SUBSET (unread \cup Pending), claimed \in BOOLEAN :
              Take(w, es, claimed) /\ (XReadGroup(es, 16) \/ XAutoClaim(es))
      BY <2>4 DEF ReadJobs, ClaimJobs
    <3> DEFINE row == [Resting EXCEPT !.at = "next", !.batch = es, !.claimed = claimed]
    <3>2. /\ scorer' = [scorer EXCEPT ![w] = row]
          /\ UNCHANGED <<version, score, debounce, writer>>
      BY <3>1 DEF Take
    <3>3. es \subseteq 1..added /\ dead' = dead /\ Live' = Live
      BY <2>1, <3>1, ReadsThem, ClaimsThem
    <3>4. es \in SUBSET Nat
      BY <3>3
    <3>5. row \in ScorerRows /\ row.at = "next"
      BY <3>4, TakenRow
    <3> HIDE DEF row
    <3> QED
      BY <2>2, <3>2, <3>3, <3>5
  <2>5. ASSUME NEW w \in Scorers, DropSpent(w) PROVE KeyHasJob' /\ StaleHasJob'
    <3>1. dead' # {}
      BY <2>1, <2>5, LeavesPending DEF DropSpent
    <3> QED
      BY <3>1 DEF KeyHasJob, StaleHasJob
  <2>6. ASSUME NEW w \in Scorers, AckJob(w) PROVE KeyHasJob' /\ StaleHasJob'
    <3>1. PICK row : scorer' = [scorer EXCEPT ![w] = row] /\ Between(row, scorer[w])
      BY <2>6, PassedIsBetween DEF AckJob
    <3>2. row \in ScorerRows /\ row.at \in {"idle", "next"}
      BY <3>1 DEF Between
    <3>3. \A e : (KeyHeld(e) => KeyHeld(e)') /\ (CatchesUp(e) => CatchesUp(e)')
      BY <2>6, <3>1, <3>2, JobStays DEF AckJob
    <3>4. Live \ {Current(w)} \subseteq Live' /\ dead' = dead
          /\ UNCHANGED <<version, score, debounce, writer>>
      BY <2>1, <2>6, LeavesPending DEF AckJob, XAck
    <3>5. AtJob(w, Current(w)) /\ scorer[w].at = "done"
      BY <2>6 DEF AckJob, AtJob, ScoreTypes, ScoreTypeOK
    <3>6. ~KeyHeld(Current(w)) /\ ~CatchesUp(Current(w))
      BY <3>5 DEF KeyHeld, CatchesUp
    <3> QED
      BY <3>3, <3>4, <3>6 DEF KeyHasJob, StaleHasJob
  <2>7. ASSUME NEW w \in Scorers,
               TakeLock(w) \/ ReleaseKey(w) \/ ReadProject(w) \/ WriteScore(w)
        PROVE  /\ Live' = Live /\ dead' = dead /\ scorer[w].at # "idle"
               /\ UNCHANGED <<version, writer>>
               /\ scorer[w].seen \in Nat /\ scorer[w].seen <= version /\ version \in Nat
               /\ score \in Nat /\ score <= version
    <3>1. Live' = Live /\ dead' = dead
      BY <2>1, <2>7, GroupStays DEF TakeLock, ReleaseKey, ReadProject, WriteScore
    <3>2. scorer[w].at # "idle" /\ UNCHANGED <<version, writer>>
      BY <2>7 DEF TakeLock, ReleaseKey, ReadProject, WriteScore
    <3> QED
      BY <3>1, <3>2 DEF ScoreTypes, ScoreTypeOK, ScorerRows
  <2>8. ASSUME NEW w \in Scorers, TakeLock(w) PROVE KeyHasJob' /\ StaleHasJob'
    <3>1. Steps(w, "locked", scorer[w].seen) /\ UNCHANGED <<score, debounce>>
      BY <2>8 DEF TakeLock, Steps
    <3>2. PICK row \in ScorerRows :
              scorer' = [scorer EXCEPT ![w] = row] /\ row.at = "locked"
      BY <2>7, <2>8, <3>1, ScorerMoves
    <3> QED
      BY <2>2, <2>7, <2>8, <3>1, <3>2
  <2>9. ASSUME NEW w \in Scorers, ReleaseKey(w) PROVE KeyHasJob' /\ StaleHasJob'
    <3>1. /\ Steps(w, "keyless", scorer[w].seen) /\ UNCHANGED score
          /\ debounce' = FALSE
      BY <2>9 DEF ReleaseKey, Steps
    <3>2. PICK row \in ScorerRows :
              scorer' = [scorer EXCEPT ![w] = row] /\ row.at = "keyless"
      BY <2>7, <2>9, <3>1, ScorerMoves
    <3>3. \A e : CatchesUp(e) => CatchesUp(e)'
      BY <2>7, <2>9, <3>2, JobStays
    <3> QED
      BY <2>7, <2>9, <3>1, <3>3 DEF KeyHasJob, StaleHasJob
  <2>10. ASSUME NEW w \in Scorers, ReadProject(w) PROVE KeyHasJob' /\ StaleHasJob'
    <3>1. /\ Steps(w, "read", version) /\ UNCHANGED <<score, debounce>>
          /\ scorer[w].at = "keyless"
      BY <2>10 DEF ReadProject, Steps
    <3>2. PICK row \in ScorerRows :
              /\ scorer' = [scorer EXCEPT ![w] = row]
              /\ row.at = "read" /\ row.seen = version /\ row.batch = scorer[w].batch
      BY <2>7, <2>10, <3>1, ScorerMoves
    <3>3. \A e : (KeyHeld(e) => KeyHeld(e)') /\ (CatchesUp(e) => CatchesUp(e)')
      BY <2>7, <2>10, <3>1, <3>2, JobStays
    <3> QED
      BY <2>7, <2>10, <3>1, <3>3 DEF KeyHasJob, StaleHasJob
  <2>11. ASSUME NEW w \in Scorers, WriteScore(w) PROVE KeyHasJob' /\ StaleHasJob'
    <3>1. /\ Steps(w, "done", scorer[w].seen) /\ UNCHANGED debounce
          /\ scorer[w].at = "read" /\ score' = scorer[w].seen
      <4>1. scoreLock = w
        BY <2>11 DEF WriteScore, InTurn, HoldsLock
      <4> QED
        BY <2>11, <4>1 DEF WriteScore, Steps
    <3>2. PICK row \in ScorerRows :
              /\ scorer' = [scorer EXCEPT ![w] = row]
              /\ row.at = "done" /\ row.batch = scorer[w].batch
      BY <2>7, <2>11, <3>1, ScorerMoves
    <3>3. \A e : KeyHeld(e) => KeyHeld(e)'
      BY <2>7, <2>11, <3>1, <3>2, JobStays
    <3>4. \A e : CatchesUp(e) => CatchesUp(e)' \/ scorer[w].seen = version
      <4>1. \A e : CatchesUp(e) /\ ~AtJob(w, e) => CatchesUp(e)'
        BY <2>7, <2>11, <3>2, JobStays
      <4>2. \A e : CatchesUp(e) /\ AtJob(w, e) => scorer[w].seen = version
        BY <3>1 DEF CatchesUp
      <4> QED
        BY <4>1, <4>2
    <3>5. score = version => score' = version
      <4>1. score <= scorer[w].seen
        BY <3>1 DEF InTurn
      <4> QED
        BY <2>7, <2>11, <3>1, <4>1
    <3>6. KeyHasJob'
      BY <2>7, <2>11, <3>1, <3>3 DEF KeyHasJob
    <3>7. StaleHasJob'
      BY <2>7, <2>11, <3>1, <3>4, <3>5 DEF StaleHasJob
    <3> QED
      BY <3>6, <3>7
  <2>12. ASSUME NEW p \in Writers, SaveProject(p) PROVE KeyHasJob' /\ StaleHasJob'
    <3>1. /\ writer' = [writer EXCEPT ![p] = "saved"] /\ writer[p] = "idle"
          /\ UNCHANGED <<scorer, debounce>>
      BY <2>12 DEF SaveProject
    <3>2. Live' = Live /\ dead' = dead
      BY <2>1, <2>12, GroupStays DEF SaveProject
    <3>3. \A e : KeyHeld(e) => KeyHeld(e)'
      BY <3>1 DEF KeyHeld, AtJob, Current
    <3>4. writer'[p] # "idle" /\ \A q \in Writers : writer[q] = "keyed" => writer'[q] = "keyed"
      BY <3>1 DEF ScoreTypes, ScoreTypeOK
    <3> QED
      BY <3>1, <3>2, <3>3, <3>4 DEF KeyHasJob, StaleHasJob
  <2>13. ASSUME NEW p \in Writers, SetDebounce(p) PROVE KeyHasJob' /\ StaleHasJob'
    <3>1. /\ writer' = [writer EXCEPT ![p] = IF debounce THEN "idle" ELSE "keyed"]
          /\ writer[p] = "saved" /\ UNCHANGED <<version, score, scorer>>
      BY <2>13 DEF SetDebounce
    <3>2. Live' = Live /\ dead' = dead
      BY <2>1, <2>13, GroupStays DEF SetDebounce
    <3>3. \A e : (KeyHeld(e) => KeyHeld(e)') /\ (CatchesUp(e) => CatchesUp(e)')
      BY <3>1 DEF KeyHeld, CatchesUp, AtJob, Current
    <3>4. \A e : KeyHeld(e) => CatchesUp(e)
      BY DEF KeyHeld, CatchesUp
    <3>5. \A q \in Writers : writer[q] = "keyed" => writer'[q] = "keyed"
      BY <3>1 DEF ScoreTypes, ScoreTypeOK
    <3>6. CASE debounce
      BY <3>1, <3>2, <3>3, <3>4, <3>5, <3>6 DEF KeyHasJob, StaleHasJob
    <3>7. CASE ~debounce
      <4>1. writer'[p] = "keyed"
        BY <3>1, <3>7 DEF ScoreTypes, ScoreTypeOK
      <4> QED
        BY <4>1 DEF KeyHasJob, StaleHasJob
    <3> QED
      BY <3>6, <3>7
  <2>14. ASSUME NEW p \in Writers, AddRecompute(p) PROVE KeyHasJob' /\ StaleHasJob'
    <3>1. UNCHANGED <<version, score, debounce, scorer>>
      BY <2>14 DEF AddRecompute
    <3>2. PICK e : e \in Live' /\ e \notin 1..added
      BY <2>1, <2>14, AddsOne DEF AddRecompute
    <3>3. ASSUME NEW w \in Scorers PROVE ~AtJob(w, e)'
      <4>1. scorer[w].batch \subseteq 1..added
            /\ ((scorer[w].at = "idle") = (scorer[w].batch = {}))
        BY DEF ScoreTypes, ScoreTypeOK
      <4>2. CASE scorer[w].batch = {}
        BY <3>1, <4>2 DEF AtJob
      <4>3. CASE scorer[w].batch # {}
        <5>1. Current(w) \in scorer[w].batch
          BY <4>1, <4>3, CurrentIsThere
        <5>2. Current(w)' = Current(w)
          BY <3>1 DEF Current
        <5> QED
          BY <3>2, <4>1, <5>1, <5>2 DEF AtJob
      <4> QED
        BY <4>2, <4>3
    <3>4. KeyHeld(e)' /\ CatchesUp(e)'
      BY <3>3 DEF KeyHeld, CatchesUp
    <3> QED
      BY <3>2, <3>4 DEF KeyHasJob, StaleHasJob
  <2>15. CASE DebounceExpires \/ LockExpires \/ UNCHANGED <<scoreVars, groupVars>>
    <3>1. UNCHANGED <<version, score, scorer, writer>> /\ UNCHANGED groupVars
      BY <2>15 DEF DebounceExpires, LockExpires, scoreVars
    <3>2. debounce' => debounce
      BY <2>15 DEF DebounceExpires, LockExpires, scoreVars
    <3>3. Live' = Live /\ dead' = dead
      BY <2>1, <3>1, GroupStays
    <3>4. \A e : (KeyHeld(e) => KeyHeld(e)') /\ (CatchesUp(e) => CatchesUp(e)')
      BY <3>1 DEF KeyHeld, CatchesUp, AtJob, Current
    <3> QED
      BY <3>1, <3>2, <3>3, <3>4 DEF KeyHasJob, StaleHasJob
  <2> QED
    BY <2>3, <2>4, <2>5, <2>6, <2>8, <2>9, <2>10, <2>11, <2>12, <2>13, <2>14, <2>15,
       ScoreNextCases
<1>3. StaleHasJob => StaleIsQueued
  BY DEF StaleHasJob, StaleIsQueued
<1> QED
  BY <1>1, <1>2, <1>3, ScoreTypesHold, InTurnHolds, PTL DEF ScoreSpec
-----------------------------------------------------------------------------

(* SyncQueue.                                                              *)
SyncStates == {"idle", "queued", "running", "success", "failed"}
SyncerRows == [at : {"idle", "next", "running", "done"}, batch : SUBSET Nat,
               claimed : BOOLEAN]
RequestRows == [at : {"idle", "asked", "keyed", "added"},
                project : SyncProjects \cup {NoProject}, overtaken : BOOLEAN]

(* An entry of a batch is pending, and nobody else has it.                 *)
OwnBatches ==
    /\ \A w \in Syncers : syncer[w].batch \subseteq Pending
    /\ \A w, v \in Syncers : w # v => syncer[w].batch \cap syncer[v].batch = {}

SyncTypes ==
    /\ SyncTypeOK /\ GroupTypes
    /\ syncJob \in [Entries -> SyncProjects \cup {NoProject}]
    /\ requester \in [Requesters -> RequestRows]
    /\ \A r \in Requesters : requester[r].at # "idle" => requester[r].project \in SyncProjects
    /\ syncer \in [Syncers -> SyncerRows]
    /\ OwnBatches

LEMMA SyncNextCases ==
    ASSUME SyncNext
    PROVE  \/ \E r \in Requesters : Debounce(r) \/ AddResync(r) \/ WriteQueued(r)
           \/ \E r \in Requesters : \E p \in SyncProjects : AskResync(r, p)
           \/ \E w \in Syncers :
                  \/ ReadResyncs(w) \/ ClaimResyncs(w) \/ DropResync(w) \/ StartResync(w)
                  \/ EndResync(w) \/ AckResync(w) \/ ResyncFails(w) \/ ResyncLimited(w)
                  \/ CrashSyncer(w)
           \/ KeyExpires \/ SyncPauseEnds
  BY DEF SyncNext, SyncerStep, RequesterStep

(* The entry of a worker is one of its batch, and of a project.            *)
LEMMA AtEntryIsThere ==
    ASSUME SyncTypes, NEW w \in Syncers, syncer[w].at # "idle"
    PROVE  /\ AtEntry(w) \in syncer[w].batch /\ AtEntry(w) \in Pending
           /\ AtEntry(w) \in Entries /\ AtEntry(w) \in 1..added
           /\ syncJob[AtEntry(w)] \in SyncProjects
  <1>1. syncer[w].batch \in SUBSET Nat /\ syncer[w].batch # {}
    BY DEF SyncTypes, SyncTypeOK, SyncerRows
  <1>2. AtEntry(w) \in syncer[w].batch
    BY <1>1, FirstOne DEF AtEntry
  <1>3. AtEntry(w) \in Pending /\ AtEntry(w) \in Entries /\ AtEntry(w) \in 1..added
    BY <1>2 DEF SyncTypes, OwnBatches, Pending, GroupTypes
  <1>4. AtEntry(w) <= added
    BY <1>3
  <1>5. syncJob[AtEntry(w)] # NoProject
    BY <1>3, <1>4 DEF SyncTypes, SyncTypeOK
  <1> QED
    BY <1>2, <1>3, <1>5 DEF SyncTypes

(* A worker after its entry; without a batch; with one; and at work on it.  *)
LEMMA AfterEntry ==
    ASSUME SyncTypes, NEW w \in Syncers, NextEntry(w)
    PROVE  \E row \in SyncerRows :
               /\ syncer' = [syncer EXCEPT ![w] = row]
               /\ row.at \in {"idle", "next"} /\ row.batch = syncer[w].batch \ {AtEntry(w)}
               /\ (row.at = "idle") = (row.batch = {})
  <1> DEFINE left == syncer[w].batch \ {AtEntry(w)}
             row == [syncer[w] EXCEPT !.at = "next", !.batch = left]
  <1>1. syncer[w] \in SyncerRows /\ left \in SUBSET Nat
    BY DEF SyncTypes, SyncerRows
  <1>2. syncer' = [syncer EXCEPT ![w] = IF left = {} THEN Unbusy ELSE row]
    BY DEF NextEntry
  <1> HIDE DEF left
  <1>3. row \in SyncerRows /\ row.at = "next" /\ row.batch = left
    BY <1>1 DEF SyncerRows
  <1>4. Unbusy \in SyncerRows /\ Unbusy.at = "idle" /\ Unbusy.batch = {}
    BY DEF Unbusy, SyncerRows
  <1>5. CASE left = {}
    BY <1>2, <1>4, <1>5 DEF left
  <1>6. CASE left # {}
    BY <1>2, <1>3, <1>6 DEF left
  <1> QED
    BY <1>5, <1>6

LEMMA UnbusyRow ==
    Unbusy \in SyncerRows /\ Unbusy.at = "idle" /\ Unbusy.batch = {}
  BY DEF Unbusy, SyncerRows

LEMMA SyncerMoves ==
    ASSUME SyncTypes, NEW w \in Syncers, NEW at \in {"running", "done"},
           syncer[w].at # "idle", syncer' = [syncer EXCEPT ![w].at = at]
    PROVE  \E row \in SyncerRows :
               /\ syncer' = [syncer EXCEPT ![w] = row]
               /\ row.at = at /\ row.batch = syncer[w].batch /\ row.batch # {}
  <1> DEFINE row == [syncer[w] EXCEPT !.at = at]
  <1>1. syncer[w] \in SyncerRows /\ syncer[w].batch # {}
    BY DEF SyncTypes, SyncTypeOK
  <1>2. row \in SyncerRows /\ row.at = at /\ row.batch = syncer[w].batch
    BY <1>1 DEF SyncerRows
  <1>3. syncer' = [syncer EXCEPT ![w] = row]
    BY DEF SyncTypes
  <1> HIDE DEF row
  <1> QED
    BY <1>1, <1>2, <1>3

(* What a status write does: whoever noted the time before is overtaken.   *)
LEMMA StatusWritten ==
    ASSUME SyncTypes, NEW p \in SyncProjects, NEW status \in SyncStates,
           SetStatus(p, status)
    PROVE  /\ syncStatus' \in [SyncProjects -> SyncStates]
           /\ syncStatus'[p] = status
           /\ \A q \in SyncProjects \ {p} : syncStatus'[q] = syncStatus[q]
           /\ requester' \in [Requesters -> RequestRows]
           /\ \A r \in Requesters :
                 /\ requester'[r].at = requester[r].at
                 /\ requester'[r].project = requester[r].project
                 /\ requester[r].project = p => requester'[r].overtaken = TRUE
                 /\ requester[r].project # p => requester'[r] = requester[r]
  <1>1. /\ syncStatus' \in [SyncProjects -> SyncStates]
        /\ syncStatus'[p] = status
        /\ \A q \in SyncProjects \ {p} : syncStatus'[q] = syncStatus[q]
    BY DEF SetStatus, SyncTypes, SyncTypeOK, SyncStates
  <1>2. ASSUME NEW r \in Requesters
        PROVE  /\ requester[r] \in RequestRows
               /\ [requester[r] EXCEPT !.overtaken = TRUE] \in RequestRows
               /\ [requester[r] EXCEPT !.overtaken = TRUE].at = requester[r].at
               /\ [requester[r] EXCEPT !.overtaken = TRUE].project = requester[r].project
               /\ [requester[r] EXCEPT !.overtaken = TRUE].overtaken = TRUE
    BY DEF SyncTypes, RequestRows
  <1>3. requester' = [r \in Requesters |->
            IF requester[r].project = p THEN [requester[r] EXCEPT !.overtaken = TRUE]
                                        ELSE requester[r]]
    BY DEF SetStatus
  <1>4. requester' \in [Requesters -> RequestRows]
    BY <1>2, <1>3
  <1> QED
    BY <1>1, <1>2, <1>3, <1>4

(* The types are kept by a step of one worker.                             *)
LEMMA SyncerKeepsTypes ==
    ASSUME SyncTypes, NEW w \in Syncers, NEW row \in SyncerRows,
           syncer' = [syncer EXCEPT ![w] = row],
           (row.at = "idle") = (row.batch = {}), row.batch \subseteq Pending',
           \A v \in Syncers \ {w} : /\ row.batch \cap syncer[v].batch = {}
                                   /\ syncer[v].batch \subseteq Pending',
           GroupTypes', added' = added, syncJob' = syncJob,
           syncStatus' \in [SyncProjects -> SyncStates],
           requester' \in [Requesters -> RequestRows],
           \A r \in Requesters : /\ requester'[r].at = requester[r].at
                                /\ requester'[r].project = requester[r].project
    PROVE  SyncTypes'
  <1>1. /\ syncer' \in [Syncers -> SyncerRows] /\ syncer'[w] = row
        /\ \A v \in Syncers \ {w} : syncer'[v] = syncer[v]
    BY DEF SyncTypes
  <1>2. OwnBatches'
    <2>1. \A v \in Syncers : syncer'[v].batch \subseteq Pending'
      BY <1>1
    <2>2. ASSUME NEW u \in Syncers, NEW v \in Syncers, u # v
          PROVE  syncer'[u].batch \cap syncer'[v].batch = {}
      <3>1. CASE u = w
        BY <1>1, <2>2, <3>1
      <3>2. CASE v = w
        BY <1>1, <2>2, <3>2
      <3>3. CASE u # w /\ v # w
        BY <1>1, <2>2, <3>3 DEF SyncTypes, OwnBatches
      <3> QED
        BY <3>1, <3>2, <3>3
    <2> QED
      BY <2>1, <2>2 DEF OwnBatches
  <1>3. \A v \in Syncers :
           /\ syncer'[v].batch \subseteq 1..added'
           /\ (syncer'[v].at = "idle") = (syncer'[v].batch = {})
    <2>1. Pending' \subseteq 1..added'
      BY DEF GroupTypes
    <2> QED
      BY <1>1, <1>2, <2>1 DEF OwnBatches, SyncTypes, SyncTypeOK
  <1>4. \A e \in Entries : (e <= added') = (syncJob'[e] # NoProject)
    BY DEF SyncTypes, SyncTypeOK
  <1>5. SyncTypeOK'
    BY <1>3, <1>4 DEF SyncTypeOK, SyncStates
  <1>6. \A r \in Requesters : requester'[r].at # "idle" => requester'[r].project \in SyncProjects
    BY DEF SyncTypes
  <1>7. syncJob' \in [Entries -> SyncProjects \cup {NoProject}]
    BY DEF SyncTypes
  <1> QED
    BY <1>1, <1>2, <1>5, <1>6, <1>7 DEF SyncTypes

(* The steps of the requests, and those of nobody.                         *)
LEMMA NoSyncerMoves ==
    ASSUME SyncTypes, UNCHANGED syncer, GroupTypes', Pending \subseteq Pending',
           1..added \subseteq 1..added', syncStatus' \in [SyncProjects -> SyncStates],
           requester' \in [Requesters -> RequestRows],
           \A r \in Requesters : requester'[r].at # "idle" => requester'[r].project \in SyncProjects,
           syncJob' \in [Entries -> SyncProjects \cup {NoProject}],
           \A e \in Entries : (e <= added') = (syncJob'[e] # NoProject)
    PROVE  SyncTypes'
  <1>1. OwnBatches'
    BY DEF SyncTypes, OwnBatches
  <1>2. \A w \in Syncers :
           /\ syncer'[w].batch \subseteq 1..added'
           /\ (syncer'[w].at = "idle") = (syncer'[w].batch = {})
    BY DEF SyncTypes, SyncTypeOK
  <1>3. SyncTypeOK'
    BY <1>2 DEF SyncTypeOK, SyncStates
  <1>4. syncer' \in [Syncers -> SyncerRows]
    BY DEF SyncTypes
  <1> QED
    BY <1>1, <1>3, <1>4 DEF SyncTypes

LEMMA SyncTypesHold ==
    ASSUME "wait" \notin SyncFaults
    PROVE  SyncSpec => []SyncTypes
<1> USE SyncAssumption
<1>1. SyncInit => SyncTypes
  <2> SUFFICES ASSUME SyncInit PROVE SyncTypes
    OBVIOUS
  <2>1. GroupTypes /\ added = 0
    BY GroupStarts DEF SyncInit, GroupInit
  <2>2. /\ syncer \in [Syncers -> SyncerRows]
        /\ \A w \in Syncers : syncer[w].at = "idle" /\ syncer[w].batch = {}
    BY UnbusyRow DEF SyncInit
  <2>3. /\ requester \in [Requesters -> RequestRows]
        /\ \A r \in Requesters : requester[r].at = "idle"
    BY DEF SyncInit, Unasked, RequestRows
  <2>4. /\ syncStatus \in [SyncProjects -> SyncStates]
        /\ syncJob \in [Entries -> SyncProjects \cup {NoProject}]
        /\ \A e \in Entries : syncJob[e] = NoProject /\ ~ (e <= added)
    BY <2>1 DEF SyncInit, SyncStates, Entries
  <2>5. OwnBatches
    BY <2>2 DEF OwnBatches
  <2>6. SyncTypeOK
    BY <2>2, <2>4 DEF SyncTypeOK, SyncStates
  <2> QED
    BY <2>1, <2>2, <2>3, <2>4, <2>5, <2>6 DEF SyncTypes
<1>2. SyncTypes /\ [SyncNext]_<<syncVars, groupVars>> => SyncTypes'
  <2> SUFFICES ASSUME SyncTypes, [SyncNext]_<<syncVars, groupVars>> PROVE SyncTypes'
    OBVIOUS
  <2>1. /\ GroupTypes /\ syncStatus \in [SyncProjects -> SyncStates]
        /\ requester \in [Requesters -> RequestRows] /\ syncer \in [Syncers -> SyncerRows]
        /\ syncJob \in [Entries -> SyncProjects \cup {NoProject}]
        /\ \A r \in Requesters : requester[r].at # "idle" => requester[r].project \in SyncProjects
        /\ \A e \in Entries : (e <= added) = (syncJob[e] # NoProject)
        /\ \A w \in Syncers : syncer[w].batch \subseteq Pending
        /\ \A w, v \in Syncers : w # v => syncer[w].batch \cap syncer[v].batch = {}
    BY DEF SyncTypes, SyncTypeOK, SyncStates, OwnBatches
  <2>2. ASSUME NEW w \in Syncers, NEW status \in SyncStates, syncer[w].at # "idle",
               SetStatus(syncJob[AtEntry(w)], status)
        PROVE  /\ syncStatus' \in [SyncProjects -> SyncStates]
               /\ requester' \in [Requesters -> RequestRows]
               /\ \A r \in Requesters : /\ requester'[r].at = requester[r].at
                                       /\ requester'[r].project = requester[r].project
    BY <2>2, AtEntryIsThere, StatusWritten
  <2>3. ASSUME NEW w \in Syncers, ReadResyncs(w) \/ ClaimResyncs(w) PROVE SyncTypes'
    <3>1. PICK es \in SUBSET (unread \cup Pending), claimed \in BOOLEAN :
              /\ TakeBatch(w, es, claimed)
              /\ \/ XReadGroup(es, 16)
                 \/ XAutoClaim(es) /\ es \in SUBSET Stale
      BY <2>3 DEF ReadResyncs, ClaimResyncs, Stale
    <3>2. /\ GroupTypes' /\ es # {} /\ es \subseteq 1..added /\ added' = added
          /\ es \subseteq Pending' /\ Pending \subseteq Pending'
          /\ es \subseteq unread \/ es \in SUBSET Stale
      BY <2>1, <3>1, ReadsThem, ClaimsThem
    <3>3. \A v \in Syncers : es \cap syncer[v].batch = {}
      <4>1. CASE es \subseteq unread
        BY <2>1, <4>1 DEF GroupTypes
      <4>2. CASE es \in SUBSET Stale
        <5>1. \A v \in Syncers : Fresh(v) = syncer[v].batch
          BY DEF Fresh
        <5> QED
          BY <4>2, <5>1 DEF Stale
      <4> QED
        BY <3>2, <4>1, <4>2
    <3> DEFINE row == [at |-> "next", batch |-> es, claimed |-> claimed]
    <3>4. syncer' = [syncer EXCEPT ![w] = row]
          /\ UNCHANGED <<syncJob, syncStatus, requester>>
      BY <3>1 DEF TakeBatch
    <3>5. es \in SUBSET Nat
      BY <3>2
    <3>6. row \in SyncerRows /\ row.at = "next" /\ row.batch = es
      BY <3>5 DEF SyncerRows
    <3> HIDE DEF row
    <3>7. (row.at = "idle") = (row.batch = {})
      BY <3>2, <3>6
    <3>8. /\ row.batch \subseteq Pending'
          /\ \A v \in Syncers \ {w} : /\ row.batch \cap syncer[v].batch = {}
                                     /\ syncer[v].batch \subseteq Pending'
      BY <2>1, <3>2, <3>3, <3>6
    <3>9. /\ syncStatus' \in [SyncProjects -> SyncStates]
          /\ requester' \in [Requesters -> RequestRows]
          /\ \A r \in Requesters : /\ requester'[r].at = requester[r].at
                                  /\ requester'[r].project = requester[r].project
      BY <2>1, <3>4
    <3> QED
      BY <3>2, <3>4, <3>6, <3>7, <3>8, <3>9, SyncerKeepsTypes
  <2>4. ASSUME NEW w \in Syncers, DropResync(w) \/ AckResync(w) PROVE SyncTypes'
    <3>1. /\ syncer[w].at # "idle" /\ NextEntry(w)
          /\ XAck(AtEntry(w)) \/ DeadLetter(AtEntry(w))
          /\ UNCHANGED <<syncJob, syncStatus, requester>>
      BY <2>4 DEF DropResync, AckResync
    <3>2. GroupTypes' /\ added' = added /\ Pending' = Pending \ {AtEntry(w)}
      BY <2>1, <3>1, LeavesPending
    <3>3. PICK row \in SyncerRows :
              /\ syncer' = [syncer EXCEPT ![w] = row]
              /\ row.at \in {"idle", "next"} /\ row.batch = syncer[w].batch \ {AtEntry(w)}
              /\ (row.at = "idle") = (row.batch = {})
      BY <3>1, AfterEntry
    <3>4. AtEntry(w) \in syncer[w].batch
      BY <3>1, AtEntryIsThere
    <3>5. /\ row.batch \subseteq Pending'
          /\ \A v \in Syncers \ {w} : /\ row.batch \cap syncer[v].batch = {}
                                     /\ syncer[v].batch \subseteq Pending'
      BY <2>1, <3>2, <3>3, <3>4
    <3>6. /\ syncStatus' \in [SyncProjects -> SyncStates]
          /\ requester' \in [Requesters -> RequestRows]
          /\ \A r \in Requesters : /\ requester'[r].at = requester[r].at
                                  /\ requester'[r].project = requester[r].project
      BY <2>1, <3>1
    <3>7. GroupTypes' /\ added' = added /\ syncJob' = syncJob
      BY <3>1, <3>2
    <3>8. syncer' = [syncer EXCEPT ![w] = row] /\ (row.at = "idle") = (row.batch = {})
      BY <3>3
    <3> QED
      BY <3>5, <3>6, <3>7, <3>8, SyncerKeepsTypes
  <2>5. ASSUME NEW w \in Syncers, NEW row \in SyncerRows,
               syncer' = [syncer EXCEPT ![w] = row],
               (row.at = "idle") = (row.batch = {}), row.batch \subseteq syncer[w].batch,
               UNCHANGED <<syncJob, groupVars>>,
               syncStatus' \in [SyncProjects -> SyncStates],
               requester' \in [Requesters -> RequestRows],
               \A r \in Requesters : /\ requester'[r].at = requester[r].at
                                    /\ requester'[r].project = requester[r].project
        PROVE  SyncTypes'
    <3>1. GroupTypes' /\ added' = added /\ Pending' = Pending
      BY <2>1, <2>5, GroupStays
    <3>2. /\ row.batch \subseteq Pending'
          /\ \A v \in Syncers \ {w} : /\ row.batch \cap syncer[v].batch = {}
                                     /\ syncer[v].batch \subseteq Pending'
      BY <2>1, <2>5, <3>1
    <3> QED
      BY <2>5, <3>1, <3>2, SyncerKeepsTypes
  <2>6. ASSUME NEW w \in Syncers, StartResync(w) \/ EndResync(w) PROVE SyncTypes'
    <3>1. PICK at \in {"running", "done"}, status \in SyncStates :
              /\ syncer' = [syncer EXCEPT ![w].at = at]
              /\ SetStatus(syncJob[AtEntry(w)], status)
              /\ syncer[w].at # "idle" /\ UNCHANGED <<syncJob, groupVars>>
      BY <2>6 DEF StartResync, EndResync, SyncStates
    <3>2. PICK row \in SyncerRows :
              /\ syncer' = [syncer EXCEPT ![w] = row]
              /\ row.at = at /\ row.batch = syncer[w].batch /\ row.batch # {}
      BY <3>1, SyncerMoves
    <3> QED
      BY <2>2, <2>5, <3>1, <3>2
  <2>7. ASSUME NEW w \in Syncers, ResyncFails(w) PROVE SyncTypes'
    <3>1. /\ SetStatus(syncJob[AtEntry(w)], "failed") /\ NextEntry(w)
          /\ syncer[w].at # "idle" /\ UNCHANGED <<syncJob, groupVars>>
          /\ "failed" \in SyncStates
      BY <2>7 DEF ResyncFails, SyncStates
    <3>2. PICK row \in SyncerRows :
              /\ syncer' = [syncer EXCEPT ![w] = row]
              /\ row.at \in {"idle", "next"} /\ row.batch = syncer[w].batch \ {AtEntry(w)}
              /\ (row.at = "idle") = (row.batch = {})
      BY <3>1, AfterEntry
    <3> QED
      BY <2>2, <2>5, <3>1, <3>2
  <2>8. ASSUME NEW w \in Syncers, ResyncLimited(w) PROVE SyncTypes'
    <3>1. /\ SetStatus(syncJob[AtEntry(w)], "queued")
          /\ syncer' = [syncer EXCEPT ![w] = Unbusy]
          /\ syncer[w].at # "idle" /\ UNCHANGED <<syncJob, groupVars>>
          /\ "queued" \in SyncStates
      BY <2>8 DEF ResyncLimited, SyncStates
    <3> QED
      BY <2>2, <2>5, <3>1, UnbusyRow
  <2>9. ASSUME NEW w \in Syncers, CrashSyncer(w) PROVE SyncTypes'
    <3>1. /\ syncer' = [syncer EXCEPT ![w] = Unbusy]
          /\ UNCHANGED <<syncJob, syncStatus, requester, groupVars>>
      BY <2>9 DEF CrashSyncer
    <3> QED
      BY <2>1, <2>5, <3>1, UnbusyRow
  <2>10. ASSUME NEW r \in Requesters, NEW row \in RequestRows,
                requester' = [requester EXCEPT ![r] = row],
                row.at # "idle" => row.project \in SyncProjects,
                UNCHANGED <<syncer, syncJob, groupVars>>,
                syncStatus' \in [SyncProjects -> SyncStates]
         PROVE  SyncTypes'
    <3>1. GroupTypes' /\ added' = added /\ Pending' = Pending
      BY <2>1, <2>10, GroupStays
    <3>2. /\ requester' \in [Requesters -> RequestRows]
          /\ \A q \in Requesters :
                 requester'[q].at # "idle" => requester'[q].project \in SyncProjects
      BY <2>1, <2>10
    <3> QED
      BY <2>1, <2>10, <3>1, <3>2, NoSyncerMoves
  <2>11. Unasked \in RequestRows /\ Unasked.at = "idle"
    BY DEF Unasked, RequestRows
  <2>12. ASSUME NEW r \in Requesters, NEW p \in SyncProjects, AskResync(r, p)
         PROVE  SyncTypes'
    <3> DEFINE row == [at |-> "asked", project |-> p, overtaken |-> FALSE]
    <3>1. row \in RequestRows /\ row.project = p
      BY DEF RequestRows
    <3>2. /\ requester' = [requester EXCEPT ![r] = row]
          /\ UNCHANGED <<syncer, syncJob, groupVars, syncStatus>>
      BY <2>12 DEF AskResync
    <3> HIDE DEF row
    <3> QED
      BY <2>1, <2>10, <3>1, <3>2
  <2>13. ASSUME NEW r \in Requesters, NEW at \in {"keyed", "added"}, requester[r].at # "idle"
         PROVE  /\ [requester[r] EXCEPT !.at = at] \in RequestRows
                /\ [requester[r] EXCEPT !.at = at].project \in SyncProjects
                /\ [requester EXCEPT ![r].at = at]
                       = [requester EXCEPT ![r] = [requester[r] EXCEPT !.at = at]]
    BY <2>1, <2>13 DEF RequestRows
  <2>14. ASSUME NEW r \in Requesters, Debounce(r) PROVE SyncTypes'
    <3>1. /\ requester[r].at # "idle" /\ UNCHANGED <<syncer, syncJob, groupVars, syncStatus>>
          /\ requester' = [requester EXCEPT ![r] =
                 IF requester[r].project \in syncKey THEN Unasked
                 ELSE [requester[r] EXCEPT !.at = "keyed"]]
      BY <2>14 DEF Debounce
    <3>2. CASE requester[r].project \in syncKey
      BY <2>1, <2>10, <2>11, <3>1, <3>2
    <3>3. CASE requester[r].project \notin syncKey
      BY <2>1, <2>10, <2>13, <3>1, <3>3
    <3> QED
      BY <3>2, <3>3
  <2>15. ASSUME NEW r \in Requesters, WriteQueued(r) PROVE SyncTypes'
    <3>1. /\ requester' = [requester EXCEPT ![r] = Unasked]
          /\ UNCHANGED <<syncer, syncJob, groupVars>>
      BY <2>15 DEF WriteQueued
    <3>2. syncStatus' \in [SyncProjects -> SyncStates]
      BY <2>1, <2>15 DEF WriteQueued, SyncStates
    <3> QED
      BY <2>10, <2>11, <3>1, <3>2
  <2>16. ASSUME NEW r \in Requesters, AddResync(r) PROVE SyncTypes'
    <3>1. /\ GroupTypes' /\ Pending' = Pending /\ added' = added + 1
          /\ added' \in Entries /\ 1..added \subseteq 1..added' /\ added \in Nat
      BY <2>1, <2>16, AddsOne DEF AddResync, GroupTypes
    <3>2. /\ requester' = [requester EXCEPT ![r] = [requester[r] EXCEPT !.at = "added"]]
          /\ requester[r].at = "keyed" /\ UNCHANGED <<syncer, syncStatus>>
          /\ syncJob' = [syncJob EXCEPT ![added'] = requester[r].project]
      BY <2>13, <2>16 DEF AddResync
    <3>3. requester[r].project \in SyncProjects
      BY <2>1, <3>2
    <3>4. /\ syncJob' \in [Entries -> SyncProjects \cup {NoProject}]
          /\ \A e \in Entries : syncJob'[e] = IF e = added' THEN requester[r].project
                                              ELSE syncJob[e]
      BY <2>1, <3>1, <3>2, <3>3
    <3>5. \A e \in Entries : (e <= added') = (syncJob'[e] # NoProject)
      <4>1. \A e \in Entries : e \in Nat /\ (e <= added' <=> e <= added \/ e = added')
        BY <3>1 DEF Entries
      <4> QED
        BY <2>1, <3>3, <3>4, <4>1
    <3>6. /\ requester' \in [Requesters -> RequestRows]
          /\ \A q \in Requesters :
                 requester'[q].at # "idle" => requester'[q].project \in SyncProjects
      BY <2>1, <2>13, <3>2
    <3> QED
      BY <2>1, <3>1, <3>2, <3>4, <3>5, <3>6, NoSyncerMoves
  <2>17. CASE UNCHANGED <<syncJob, syncStatus, requester, syncer, groupVars>>
    <3>1. GroupTypes' /\ added' = added /\ Pending' = Pending
      BY <2>1, <2>17, GroupStays
    <3> QED
      BY <2>1, <2>17, <3>1, NoSyncerMoves
  <2>18. CASE KeyExpires \/ SyncPauseEnds \/ UNCHANGED <<syncVars, groupVars>>
    BY <2>17, <2>18 DEF KeyExpires, SyncPauseEnds, syncVars
  <2> QED
    BY <2>3, <2>4, <2>6, <2>7, <2>8, <2>9, <2>12, <2>14, <2>15, <2>16, <2>18, SyncNextCases
<1> QED
  BY <1>1, <1>2, PTL DEF SyncSpec

(* The types of the sync queue, whatever requests and workers do.          *)
THEOREM SyncTyping ==
    ASSUME "wait" \notin SyncFaults
    PROVE  SyncSpec => []SyncTypeOK
<1>1. SyncTypes => SyncTypeOK
  BY DEF SyncTypes
<1> QED
  BY <1>1, SyncTypesHold, PTL

(* The worker is at the entry; no resync of it is done; none has begun.     *)
IsAt(w, e) == syncer[w].batch # {} /\ AtEntry(w) = e
NotDone(e) == \A w \in Syncers : IsAt(w, e) => syncer[w].at # "done"
NotBegun(e) == \A w \in Syncers : IsAt(w, e) => syncer[w].at = "next"

(* The strengthening: what a project shows as queued or running has a job  *)
(* that is not done, and a request that nobody overtook has one that has   *)
(* not begun.                                                              *)
ShownHasJob == \A p \in SyncProjects :
    syncStatus[p] \in {"queued", "running"} => \E e \in LiveOf(p) : NotDone(e)
AskedHasJob == \A r \in Requesters :
    requester[r].at = "added" /\ ~requester[r].overtaken =>
        \E e \in LiveOf(requester[r].project) : NotBegun(e)
SettledInv == ShownHasJob /\ AskedHasJob /\ dead \subseteq 1..added

FirstEntry(S) == CHOOSE e \in S : \A f \in S : e <= f

LEMMA SameEntry ==
    ASSUME NEW v \in Syncers, syncer'[v].batch = syncer[v].batch, NEW e
    PROVE  IsAt(v, e)' <=> IsAt(v, e)
  <1>1. AtEntry(v) = FirstEntry(syncer[v].batch)
    BY DEF AtEntry, FirstEntry
  <1>2. AtEntry(v)' = FirstEntry(syncer'[v].batch)
    BY DEF AtEntry, FirstEntry
  <1> QED
    BY <1>1, <1>2 DEF IsAt

LEMMA EntryStays ==
    ASSUME SyncTypes, NEW w \in Syncers, NEW row \in SyncerRows,
           syncer' = [syncer EXCEPT ![w] = row], row.at = "idle" => row.batch = {}, NEW e
    PROVE  /\ /\ NotDone(e)
              /\ \/ row.at \in {"idle", "next", "running"}
                 \/ ~IsAt(w, e) /\ row.batch = syncer[w].batch
              => NotDone(e)'
           /\ /\ NotBegun(e)
              /\ \/ row.at \in {"idle", "next"}
                 \/ ~IsAt(w, e) /\ row.batch = syncer[w].batch
              => NotBegun(e)'
  <1>1. syncer'[w] = row /\ \A v \in Syncers \ {w} : syncer'[v] = syncer[v]
    BY DEF SyncTypes
  <1>2. \A v \in Syncers \ {w} : IsAt(v, e)' <=> IsAt(v, e)
    BY <1>1, SameEntry
  <1>3. row.batch = syncer[w].batch => (IsAt(w, e)' <=> IsAt(w, e))
    BY <1>1, SameEntry
  <1>4. row.at = "idle" => ~IsAt(w, e)'
    BY <1>1 DEF IsAt
  <1>5. ASSUME NotDone(e), NEW v \in Syncers, IsAt(v, e)',
               \/ row.at \in {"idle", "next", "running"}
               \/ ~IsAt(w, e) /\ row.batch = syncer[w].batch
        PROVE  syncer'[v].at # "done"
    <2>1. CASE v = w
      BY <1>1, <1>3, <1>5, <2>1
    <2>2. CASE v # w
      BY <1>1, <1>2, <1>5, <2>2 DEF NotDone
    <2> QED
      BY <2>1, <2>2
  <1>6. ASSUME NotBegun(e), NEW v \in Syncers, IsAt(v, e)',
               \/ row.at \in {"idle", "next"}
               \/ ~IsAt(w, e) /\ row.batch = syncer[w].batch
        PROVE  syncer'[v].at = "next"
    <2>1. CASE v = w
      BY <1>1, <1>3, <1>4, <1>6, <2>1
    <2>2. CASE v # w
      BY <1>1, <1>2, <1>6, <2>2 DEF NotBegun
    <2> QED
      BY <2>1, <2>2
  <1> QED
    BY <1>5, <1>6 DEF NotDone, NotBegun

(* The entry that a worker is at is nobody else's.                         *)
LEMMA MineAlone ==
    ASSUME SyncTypes, NEW w \in Syncers, syncer[w].at # "idle",
           NEW v \in Syncers \ {w}
    PROVE  ~IsAt(v, AtEntry(w))
  <1> SUFFICES ASSUME IsAt(v, AtEntry(w)) PROVE FALSE
    OBVIOUS
  <1>1. AtEntry(w) \in syncer[w].batch
    BY AtEntryIsThere
  <1>2. syncer[v].at # "idle" /\ AtEntry(v) = AtEntry(w)
    BY DEF IsAt, SyncTypes, SyncTypeOK
  <1>3. AtEntry(v) \in syncer[v].batch
    BY <1>2, AtEntryIsThere
  <1>4. syncer[w].batch \cap syncer[v].batch = {}
    BY DEF SyncTypes, OwnBatches
  <1> QED
    BY <1>1, <1>2, <1>3, <1>4

(* A step that writes the status of the project of a worker's entry: the   *)
(* other projects keep their jobs.                                         *)
LEMMA StatusStep ==
    ASSUME SyncTypes, SettledInv, NEW w \in Syncers, syncer[w].at # "idle",
           NEW row \in SyncerRows, syncer' = [syncer EXCEPT ![w] = row],
           row.at = "idle" => row.batch = {},
           row.at \in {"idle", "next"} \/ row.batch = syncer[w].batch,
           NEW status \in SyncStates, SetStatus(syncJob[AtEntry(w)], status),
           UNCHANGED <<syncJob, groupVars>>,
           NEW mine, mine = AtEntry(w),
           status \in {"queued", "running"} => NotDone(mine)'
    PROVE  SettledInv'
  <1> DEFINE p == syncJob[AtEntry(w)]
  <1>1. /\ p \in SyncProjects /\ AtEntry(w) \in Pending
    BY AtEntryIsThere
  <1>2. /\ syncStatus'[p] = status
        /\ \A q \in SyncProjects \ {p} : syncStatus'[q] = syncStatus[q]
        /\ \A r \in Requesters :
              /\ requester'[r].at = requester[r].at
              /\ requester'[r].project = requester[r].project
              /\ requester[r].project = p => requester'[r].overtaken = TRUE
              /\ requester[r].project # p => requester'[r] = requester[r]
    BY <1>1, StatusWritten
  <1>3. Pending' = Pending /\ unread' = unread /\ dead' = dead /\ added' = added
    BY GroupStays DEF SyncTypes
  <1>4. \A q : LiveOf(q)' = LiveOf(q)
    BY <1>3 DEF LiveOf
  <1>5. ASSUME NEW e, syncJob[e] # p
        PROVE  (NotDone(e) => NotDone(e)') /\ (NotBegun(e) => NotBegun(e)')
    <2>1. ~IsAt(w, e)
      BY <1>5 DEF IsAt
    <2> QED
      BY <2>1, EntryStays
  <1>6. ASSUME NEW q \in SyncProjects, syncStatus'[q] \in {"queued", "running"}
        PROVE  \E e \in LiveOf(q)' : NotDone(e)'
    <2>1. CASE q = p
      <3>1. mine \in LiveOf(p)
        BY <1>1 DEF LiveOf
      <3>2. NotDone(mine)'
        BY <1>2, <1>6, <2>1
      <3> QED
        BY <1>4, <2>1, <3>1, <3>2
    <2>2. CASE q # p
      <3>1. PICK e \in LiveOf(q) : NotDone(e)
        BY <1>2, <1>6, <2>2 DEF SettledInv, ShownHasJob
      <3>2. syncJob[e] # p
        BY <2>2, <3>1 DEF LiveOf
      <3> QED
        BY <1>4, <1>5, <3>1, <3>2
    <2> QED
      BY <2>1, <2>2
  <1>7. ASSUME NEW r \in Requesters, requester'[r].at = "added", ~requester'[r].overtaken
        PROVE  (\E e \in LiveOf(requester[r].project) : NotBegun(e))'
    <2>1. requester[r].project # p /\ requester'[r] = requester[r]
      BY <1>2, <1>7
    <2>2. PICK q : q = requester[r].project
      OBVIOUS
    <2>3. PICK e \in LiveOf(q) : NotBegun(e)
      BY <1>7, <2>1, <2>2 DEF SettledInv, AskedHasJob
    <2>4. syncJob[e] # p
      BY <2>1, <2>2, <2>3 DEF LiveOf
    <2>5. e \in LiveOf(q)' /\ NotBegun(e)' /\ q = requester'[r].project
      BY <1>4, <1>5, <2>1, <2>2, <2>3, <2>4
    <2> QED
      BY <2>5 DEF LiveOf
  <1> QED
    BY <1>3, <1>6, <1>7 DEF SettledInv, ShownHasJob, AskedHasJob

(* The jobs stay where the step of a worker writes no status, and takes    *)
(* nothing from the queue but an entry that is done.                       *)
LEMMA QuietStep ==
    ASSUME SyncTypes, SettledInv, NEW w \in Syncers, NEW row \in SyncerRows,
           syncer' = [syncer EXCEPT ![w] = row],
           row.at = "idle" => row.batch = {}, row.at \in {"idle", "next"},
           UNCHANGED <<syncJob, syncStatus, requester>>, added' = added,
           dead' \subseteq 1..added,
           \A e \in unread \cup Pending \cup dead :
               e \in (unread \cup Pending \cup dead)' \/ (~NotDone(e) /\ ~NotBegun(e))
    PROVE  SettledInv'
  <1>1. \A e : (NotDone(e) => NotDone(e)') /\ (NotBegun(e) => NotBegun(e)')
    BY EntryStays
  <1>2. ASSUME NEW q, NEW e \in LiveOf(q), NotDone(e) \/ NotBegun(e)
        PROVE  e \in LiveOf(q)'
    BY <1>2 DEF LiveOf
  <1>3. ShownHasJob'
    BY <1>1, <1>2 DEF SettledInv, ShownHasJob
  <1>4. ASSUME NEW r \in Requesters, requester[r].at = "added", ~requester[r].overtaken
        PROVE  \E e \in LiveOf(requester[r].project) : NotBegun(e) /\ NotBegun(e)'
    BY <1>1, <1>4 DEF SettledInv, AskedHasJob
  <1>5. AskedHasJob'
    <2> SUFFICES ASSUME NEW r \in Requesters, requester[r].at = "added",
                        ~requester[r].overtaken
                 PROVE  (\E e \in LiveOf(requester[r].project) : NotBegun(e))'
      BY DEF AskedHasJob
    <2>1. PICK q : q = requester[r].project
      OBVIOUS
    <2>2. PICK e \in LiveOf(q) : NotBegun(e) /\ NotBegun(e)'
      BY <1>4, <2>1
    <2>3. e \in LiveOf(q)' /\ requester'[r].project = q
      BY <1>2, <2>1, <2>2
    <2> QED
      BY <2>2, <2>3 DEF LiveOf
  <1> QED
    BY <1>3, <1>5 DEF SettledInv

(* The jobs stay where no worker moves: a request gets its own.            *)
LEMMA AskingStep ==
    ASSUME SyncTypes, SettledInv, UNCHANGED syncer, dead' = dead,
           1..added \subseteq 1..added',
           unread \subseteq unread', Pending \subseteq Pending',
           \A e \in 1..added : syncJob'[e] = syncJob[e],
           \A p \in SyncProjects : syncStatus'[p] \in {"queued", "running"} =>
               syncStatus'[p] = syncStatus[p] \/ \E e \in LiveOf(p) : NotBegun(e),
           \A r \in Requesters : requester'[r].at = "added" =>
               \/ requester'[r] = requester[r]
               \/ \E q, e : /\ q = requester'[r].project
                          /\ e \in LiveOf(q)' /\ NotBegun(e)'
    PROVE  SettledInv'
  <1>1. \A e : (NotDone(e)' <=> NotDone(e)) /\ (NotBegun(e)' <=> NotBegun(e))
    BY DEF NotDone, NotBegun, IsAt, AtEntry
  <1>2. \A q : LiveOf(q) \subseteq LiveOf(q)'
    BY DEF LiveOf, SettledInv, SyncTypes, GroupTypes
  <1>3. \A e : NotBegun(e) => NotDone(e)
    BY DEF NotDone, NotBegun
  <1>4. ShownHasJob'
    BY <1>1, <1>2, <1>3 DEF SettledInv, ShownHasJob
  <1>5. AskedHasJob'
    <2> SUFFICES ASSUME NEW r \in Requesters, requester'[r].at = "added",
                        ~requester'[r].overtaken
                 PROVE  (\E e \in LiveOf(requester[r].project) : NotBegun(e))'
      BY DEF AskedHasJob
    <2>1. \E q, e : q = requester'[r].project /\ e \in LiveOf(q)' /\ NotBegun(e)'
      <3>1. CASE requester'[r] = requester[r]
        <4>1. PICK q : q = requester[r].project
          OBVIOUS
        <4>2. PICK e \in LiveOf(q) : NotBegun(e)
          BY <3>1, <4>1 DEF SettledInv, AskedHasJob
        <4> QED
          BY <1>1, <1>2, <3>1, <4>1, <4>2
      <3> QED
        BY <3>1
    <2> QED
      BY <2>1 DEF LiveOf
  <1> QED
    BY <1>4, <1>5 DEF SettledInv

(* A project of which no job is left, in the queue or among the dead       *)
(* letters, does not show one as queued or running: neither does a late    *)
(* "queued" land on a resync that has ended meanwhile, nor does a worker   *)
(* that dies, fails or is limited leave one behind.                        *)
THEOREM NothingLeftIsSettled ==
    ASSUME "wait" \notin SyncFaults
    PROVE  SyncSpec => []Settled
<1> USE SyncAssumption
<1>1. SyncInit => SettledInv
  BY DEF SyncInit, Unasked, SettledInv, ShownHasJob, AskedHasJob, GroupInit
<1>2. SyncTypes /\ SettledInv /\ [SyncNext]_<<syncVars, groupVars>> => SettledInv'
  <2> SUFFICES ASSUME SyncTypes, SettledInv, [SyncNext]_<<syncVars, groupVars>>
               PROVE  SettledInv'
    OBVIOUS
  <2>1. GroupTypes /\ dead \subseteq 1..added
    BY DEF SyncTypes, SettledInv
  <2>2. ASSUME NEW w \in Syncers, ReadResyncs(w) \/ ClaimResyncs(w) PROVE SettledInv'
    <3>1. PICK es \in SUBSET (unread \cup Pending), claimed \in BOOLEAN :
              TakeBatch(w, es, claimed) /\ (XReadGroup(es, 16) \/ XAutoClaim(es))
      BY <2>2 DEF ReadResyncs, ClaimResyncs, Stale
    <3>2. /\ es \subseteq 1..added /\ added' = added /\ dead' = dead
          /\ unread' \cup Pending' = unread \cup Pending
      BY <2>1, <3>1, ReadsThem, ClaimsThem
    <3> DEFINE row == [at |-> "next", batch |-> es, claimed |-> claimed]
    <3>3. syncer' = [syncer EXCEPT ![w] = row]
          /\ UNCHANGED <<syncJob, syncStatus, requester>>
      BY <3>1 DEF TakeBatch
    <3>4. es \in SUBSET Nat
      BY <3>2
    <3>5. row \in SyncerRows /\ row.at = "next"
      BY <3>4 DEF SyncerRows
    <3> HIDE DEF row
    <3> QED
      BY <2>1, <3>2, <3>3, <3>5, QuietStep
  <2>3. ASSUME NEW w \in Syncers, DropResync(w) \/ AckResync(w) PROVE SettledInv'
    <3>1. /\ syncer[w].at # "idle" /\ NextEntry(w)
          /\ UNCHANGED <<syncJob, syncStatus, requester>>
          /\ \/ DeadLetter(AtEntry(w))
             \/ XAck(AtEntry(w)) /\ syncer[w].at = "done"
      BY <2>3 DEF DropResync, AckResync
    <3>2. PICK row \in SyncerRows :
              /\ syncer' = [syncer EXCEPT ![w] = row]
              /\ row.at \in {"idle", "next"} /\ row.batch = syncer[w].batch \ {AtEntry(w)}
              /\ (row.at = "idle") = (row.batch = {})
      BY <3>1, AfterEntry
    <3>3. AtEntry(w) \in 1..added
      BY <3>1, AtEntryIsThere
    <3>4. /\ added' = added /\ unread' = unread /\ Pending' = Pending \ {AtEntry(w)}
          /\ dead' \in {dead, dead \cup {AtEntry(w)}}
          /\ DeadLetter(AtEntry(w)) => AtEntry(w) \in dead'
      BY <2>1, <3>1, LeavesPending
    <3>5. syncer[w].at = "done" => ~NotDone(AtEntry(w)) /\ ~NotBegun(AtEntry(w))
      BY <3>1 DEF NotDone, NotBegun, IsAt, SyncTypes, SyncTypeOK
    <3>6. \A e \in unread \cup Pending \cup dead :
             e \in (unread \cup Pending \cup dead)' \/ (~NotDone(e) /\ ~NotBegun(e))
      BY <3>1, <3>4, <3>5
    <3>7. dead' \subseteq 1..added
      BY <2>1, <3>3, <3>4
    <3> QED
      BY <3>1, <3>2, <3>4, <3>6, <3>7, QuietStep
  <2>4. ASSUME NEW w \in Syncers, CrashSyncer(w) PROVE SettledInv'
    <3>1. /\ syncer' = [syncer EXCEPT ![w] = Unbusy]
          /\ UNCHANGED <<syncJob, syncStatus, requester, groupVars>>
      BY <2>4 DEF CrashSyncer
    <3>2. added' = added /\ dead' = dead /\ unread' = unread /\ Pending' = Pending
      BY <2>1, <3>1, GroupStays
    <3> QED
      BY <2>1, <3>1, <3>2, UnbusyRow, QuietStep
  <2>5. ASSUME NEW w \in Syncers, StartResync(w) PROVE SettledInv'
    <3>1. /\ syncer' = [syncer EXCEPT ![w].at = "running"] /\ syncer[w].at # "idle"
          /\ SetStatus(syncJob[AtEntry(w)], "running") /\ UNCHANGED <<syncJob, groupVars>>
      BY <2>5 DEF StartResync
    <3>2. PICK row \in SyncerRows :
              /\ syncer' = [syncer EXCEPT ![w] = row]
              /\ row.at = "running" /\ row.batch = syncer[w].batch /\ row.batch # {}
      BY <3>1, SyncerMoves
    <3>3. PICK mine : mine = AtEntry(w)
      OBVIOUS
    <3>4. NotDone(mine)'
      <4>1. syncer'[w] = row /\ \A v \in Syncers \ {w} : syncer'[v] = syncer[v]
        BY <3>2 DEF SyncTypes
      <4>2. \A v \in Syncers \ {w} : ~IsAt(v, mine)'
        BY <3>1, <3>3, <4>1, MineAlone, SameEntry
      <4> QED
        BY <3>2, <4>1, <4>2 DEF NotDone
    <3>5. "running" \in SyncStates
      BY DEF SyncStates
    <3> QED
      BY <3>1, <3>2, <3>3, <3>4, <3>5, StatusStep
  <2>6. ASSUME NEW w \in Syncers, EndResync(w) PROVE SettledInv'
    <3>1. PICK status \in {"success", "failed"} :
              /\ syncer' = [syncer EXCEPT ![w].at = "done"] /\ syncer[w].at # "idle"
              /\ SetStatus(syncJob[AtEntry(w)], status) /\ UNCHANGED <<syncJob, groupVars>>
      BY <2>6 DEF EndResync
    <3>2. PICK row \in SyncerRows :
              /\ syncer' = [syncer EXCEPT ![w] = row]
              /\ row.at = "done" /\ row.batch = syncer[w].batch /\ row.batch # {}
      BY <3>1, SyncerMoves
    <3>3. status \in SyncStates
      BY DEF SyncStates
    <3> QED
      BY <3>1, <3>2, <3>3, StatusStep
  <2>7. ASSUME NEW w \in Syncers, ResyncFails(w) PROVE SettledInv'
    <3>1. /\ SetStatus(syncJob[AtEntry(w)], "failed") /\ NextEntry(w)
          /\ syncer[w].at # "idle" /\ UNCHANGED <<syncJob, groupVars>>
          /\ "failed" \in SyncStates
      BY <2>7 DEF ResyncFails, SyncStates
    <3>2. PICK row \in SyncerRows :
              /\ syncer' = [syncer EXCEPT ![w] = row]
              /\ row.at \in {"idle", "next"} /\ row.batch = syncer[w].batch \ {AtEntry(w)}
              /\ (row.at = "idle") = (row.batch = {})
      BY <3>1, AfterEntry
    <3> QED
      BY <3>1, <3>2, StatusStep
  <2>8. ASSUME NEW w \in Syncers, ResyncLimited(w) PROVE SettledInv'
    <3>1. /\ SetStatus(syncJob[AtEntry(w)], "queued")
          /\ syncer' = [syncer EXCEPT ![w] = Unbusy]
          /\ syncer[w].at # "idle" /\ UNCHANGED <<syncJob, groupVars>>
          /\ "queued" \in SyncStates
      BY <2>8 DEF ResyncLimited, SyncStates
    <3>2. PICK mine : mine = AtEntry(w)
      OBVIOUS
    <3>3. NotDone(mine)'
      <4>1. syncer'[w] = Unbusy /\ \A v \in Syncers \ {w} : syncer'[v] = syncer[v]
        BY <3>1 DEF SyncTypes
      <4>2. \A v \in Syncers \ {w} : ~IsAt(v, mine)'
        BY <3>1, <3>2, <4>1, MineAlone, SameEntry
      <4>3. ~IsAt(w, mine)'
        BY <4>1, UnbusyRow DEF IsAt
      <4> QED
        BY <4>2, <4>3 DEF NotDone
    <3> QED
      BY <3>1, <3>2, <3>3, UnbusyRow, StatusStep
  <2>9. ASSUME NEW r \in Requesters, NEW p \in SyncProjects, AskResync(r, p)
        PROVE  SettledInv'
    <3>1. /\ UNCHANGED <<syncJob, syncStatus, syncer, groupVars>>
          /\ \A q \in Requesters :
                requester'[q] = requester[q] \/ requester'[q].at = "asked"
      BY <2>9 DEF AskResync, SyncTypes
    <3>2. added' = added /\ dead' = dead /\ unread' = unread /\ Pending' = Pending
      BY <2>1, <3>1, GroupStays
    <3> QED
      BY <3>1, <3>2, AskingStep
  <2>10. ASSUME NEW r \in Requesters, Debounce(r) PROVE SettledInv'
    <3>1. /\ UNCHANGED <<syncJob, syncStatus, syncer, groupVars>>
          /\ requester' = [requester EXCEPT ![r] =
                 IF requester[r].project \in syncKey THEN Unasked
                 ELSE [requester[r] EXCEPT !.at = "keyed"]]
      BY <2>10 DEF Debounce
    <3>2. Unasked.at = "idle" /\ [requester[r] EXCEPT !.at = "keyed"].at = "keyed"
      BY DEF Unasked, SyncTypes, RequestRows
    <3>3. \A q \in Requesters : requester'[q] = requester[q] \/ requester'[q].at # "added"
      BY <3>1, <3>2 DEF SyncTypes
    <3>4. added' = added /\ dead' = dead /\ unread' = unread /\ Pending' = Pending
      BY <2>1, <3>1, GroupStays
    <3> QED
      BY <3>1, <3>3, <3>4, AskingStep
  <2>11. ASSUME NEW r \in Requesters, WriteQueued(r) PROVE SettledInv'
    <3>1. /\ UNCHANGED <<syncJob, syncer, groupVars>> /\ requester[r].at = "added"
          /\ requester' = [requester EXCEPT ![r] = Unasked]
          /\ syncStatus' = IF ~requester[r].overtaken
                           THEN [syncStatus EXCEPT ![requester[r].project] = "queued"]
                           ELSE syncStatus
      BY <2>11 DEF WriteQueued, Guarded
    <3>2. \A q \in Requesters : requester'[q] = requester[q] \/ requester'[q].at # "added"
      BY <3>1 DEF SyncTypes, Unasked
    <3>3. ASSUME NEW p \in SyncProjects, syncStatus'[p] # syncStatus[p]
          PROVE  \E e \in LiveOf(p) : NotBegun(e)
      <4>1. p = requester[r].project /\ ~requester[r].overtaken
        BY <3>1, <3>3 DEF SyncTypes, SyncTypeOK
      <4> QED
        BY <3>1, <4>1 DEF SettledInv, AskedHasJob
    <3>4. added' = added /\ dead' = dead /\ unread' = unread /\ Pending' = Pending
      BY <2>1, <3>1, GroupStays
    <3> QED
      BY <3>1, <3>2, <3>3, <3>4, AskingStep
  <2>12. ASSUME NEW r \in Requesters, AddResync(r) PROVE SettledInv'
    <3>1. /\ Pending' = Pending /\ dead' = dead /\ unread' = unread \cup {added'}
          /\ added' \in Entries /\ added' \notin 1..added /\ 1..added \subseteq 1..added'
      BY <2>1, <2>12, AddsOne DEF AddResync
    <3>2. /\ UNCHANGED <<syncer, syncStatus>>
          /\ requester' = [requester EXCEPT ![r].at = "added"]
          /\ syncJob' = [syncJob EXCEPT ![added'] = requester[r].project]
      BY <2>12 DEF AddResync
    <3>3. PICK new : new = added'
      OBVIOUS
    <3>4. ASSUME NEW w \in Syncers PROVE ~IsAt(w, new)'
      <4>1. syncer[w].batch # {} => AtEntry(w) \in 1..added
        BY AtEntryIsThere DEF SyncTypes, SyncTypeOK
      <4>2. ~IsAt(w, new)
        BY <3>1, <3>3, <4>1 DEF IsAt
      <4> QED
        BY <3>2, <4>2, SameEntry
    <3>5. NotBegun(new)'
      BY <3>4 DEF NotBegun
    <3>6. \A e \in 1..added : syncJob'[e] = syncJob[e]
      BY <3>1, <3>2 DEF SyncTypes
    <3>7. /\ \A q \in Requesters \ {r} : requester'[q] = requester[q]
          /\ requester'[r].project = requester[r].project
      BY <3>2 DEF SyncTypes, RequestRows
    <3>8. \E q, e : q = requester'[r].project /\ e \in LiveOf(q)' /\ NotBegun(e)'
      <4>1. PICK q : q = requester[r].project
        OBVIOUS
      <4>2. new \in LiveOf(q)'
        BY <3>1, <3>2, <3>3, <4>1 DEF LiveOf, SyncTypes
      <4> QED
        BY <3>5, <3>7, <4>1, <4>2
    <3> QED
      BY <3>1, <3>2, <3>6, <3>7, <3>8, AskingStep
  <2>13. CASE KeyExpires \/ SyncPauseEnds \/ UNCHANGED <<syncVars, groupVars>>
    <3>1. UNCHANGED <<syncJob, syncStatus, requester, syncer>> /\ UNCHANGED groupVars
      BY <2>13 DEF KeyExpires, SyncPauseEnds, syncVars
    <3>2. added' = added /\ dead' = dead /\ unread' = unread /\ Pending' = Pending
      BY <2>1, <3>1, GroupStays
    <3> QED
      BY <3>1, <3>2, AskingStep
  <2> QED
    BY <2>2, <2>3, <2>4, <2>5, <2>6, <2>7, <2>8, <2>9, <2>10, <2>11, <2>12, <2>13,
       SyncNextCases
<1>3. SyncTypes /\ SettledInv => Settled
  BY DEF SettledInv, ShownHasJob, Settled, SyncTypes, SyncTypeOK
<1> QED
  BY <1>1, <1>2, <1>3, SyncTypesHold, PTL DEF SyncSpec
-----------------------------------------------------------------------------

(* PromoteWatch.                                                           *)
WatchAts == {"none", "build", "complete", "trigger", "record", "rollout", "late", "ack"}
            \cup Outcomes
WatchRows == [at : WatchAts, run : Nat]
NodeStates == {"none", "in_progress", "success", "failed"}
RolloutRows == [of : Entries, remote : {"running"} \cup Ended, node : NodeStates,
                origin : {"none", "gateway", "promote", "promote-watcher"},
                closed : BOOLEAN]

PromoteTypes ==
    /\ GroupTypes
    /\ rollouts \in Seq(RolloutRows)
    /\ watch \in [Watchers -> [Entries -> WatchRows]]
    /\ abandoning \in [Watchers -> SUBSET (1..added)]
    /\ asked \in [Entries -> {"no", "queued", "answered"}]
    /\ build \in [Entries -> {"none", "running"} \cup Ended]

(* A worker that is at a rollout is at one of its entry.                   *)
AtItsRollout == \A w \in Watchers, e \in Entries :
    watch[w][e].at \in {"record", "rollout", "late"} =>
        watch[w][e].run \in DOMAIN rollouts /\ rollouts[watch[w][e].run].of = e

(* A node has an origin from its first status on.                          *)
HasOrigin == \A r \in DOMAIN rollouts :
    (rollouts[r].node = "none") = (rollouts[r].origin = "none")

(* An entry in flight is pending, and one worker drives it.                *)
OneDriver ==
    /\ \A w \in Watchers : InFlight(w) \subseteq Pending
    /\ \A w, v \in Watchers : w # v => InFlight(w) \cap InFlight(v) = {}

(* The Deployments that a watch of the entry has recorded and nobody has   *)
(* closed yet: their nodes tell that they are in progress.                 *)
Own(e) == {r \in DOMAIN rollouts : /\ rollouts[r].of = e
                                   /\ rollouts[r].origin = "promote" /\ ~rollouts[r].closed}
OpenInProgress == \A r \in DOMAIN rollouts :
    ~rollouts[r].closed => rollouts[r].node \in {"none", "in_progress"}

(* Who dispatches has found none of those; what is recorded, or is about   *)
(* to be, is the last Deployment of its entry.                             *)
LastOf(e, r) == \A s \in DOMAIN rollouts : rollouts[s].of = e => s <= r
DispatchesAlone == \A w \in Watchers, e \in Entries :
    watch[w][e].at \in {"trigger", "record"} => Own(e) = {}
RecordsLast == \A w \in Watchers, e \in Entries :
    watch[w][e].at = "record" => LastOf(e, watch[w][e].run)
OwnIsLast == \A e \in Entries : \A r \in Own(e) : LastOf(e, r)

RolloutInv == /\ AtItsRollout /\ HasOrigin /\ OpenInProgress /\ OneDriver
              /\ DispatchesAlone /\ RecordsLast /\ OwnIsLast

(* What is over was answered before; who is about to ack has left its mark *)
(* unless a later promote has; what is given up is in the queue no more.   *)
EndsAnswered == \A e \in Entries :
    /\ e <= added => build[e] # "none"
    /\ build[e] \in Ended => asked[e] = "answered"
    /\ asked[e] = "queued" => e \in unread \cup Pending
    /\ \A w \in Watchers : watch[w][e].at \notin {"none", "build"} => asked[e] = "answered"
AcksMarked == \A w \in Watchers, e \in Entries :
    watch[w][e].at = "ack" /\ promoteStatus.of = e => promoteStatus.state \in Outcomes
GivenUp == \A w \in Watchers : abandoning[w] \cap (unread \cup Pending) = {}

SpinInv == EndsAnswered /\ AcksMarked /\ GivenUp /\ NoSpinner

(* The cases of PromoteNext.                                               *)
LEMMA PromoteNextCases ==
    ASSUME PromoteNext
    PROVE  \/ StartPromote \/ PauseEnds
           \/ \E e \in Entries : AnswerPromote(e) \/ BuildEnds(e)
           \/ \E r \in DOMAIN rollouts : RolloutEnds(r) \/ Webhook(r)
           \/ \E w \in Watchers : ReadPromote(w) \/ CrashWatcher(w)
           \/ \E w \in Watchers : \E e \in Entries :
                 \/ ClaimPromote(w, e) \/ RetirePromote(w, e) \/ Abandon(w, e)
                 \/ PollFailure(w, e) \/ PollSuccess(w, e) \/ LookForDeployment(w, e)
                 \/ TriggerDeployment(w, e) \/ RecordDeployment(w, e) \/ GiveUpRollout(w, e)
                 \/ CloseDeployment(w, e) \/ MarkOutcome(w, e) \/ AckPromote(w, e)
                 \/ PollRunning(w, e) \/ PollRollout(w, e) \/ PollRaises(w, e)
                 \/ CompletionRaises(w, e) \/ RetireRaises(w, e)
  BY DEF PromoteNext, WatchStep

(* A step of one worker with one entry.                                    *)
LEMMA WatchMoves ==
    ASSUME PromoteTypes, NEW w \in Watchers, NEW e \in Entries, NEW row \in WatchRows,
           watch' = [watch EXCEPT ![w][e] = row]
    PROVE  /\ watch' \in [Watchers -> [Entries -> WatchRows]]
           /\ watch'[w][e] = row
           /\ \A v \in Watchers, f \in Entries :
                 v # w \/ f # e => watch'[v][f] = watch[v][f]
  BY DEF PromoteTypes

LEMMA GoesTo ==
    ASSUME PromoteTypes, NEW w \in Watchers, NEW e \in Entries, NEW at \in WatchAts,
           Go(w, e, at)
    PROVE  \E row \in WatchRows : /\ watch' = [watch EXCEPT ![w][e] = row]
                                  /\ row.at = at /\ row.run = watch[w][e].run
  <1> DEFINE row == [watch[w][e] EXCEPT !.at = at]
  <1>1. watch[w][e] \in WatchRows
    BY DEF PromoteTypes
  <1>2. row \in WatchRows /\ row.at = at /\ row.run = watch[w][e].run
    BY <1>1 DEF WatchRows
  <1>3. watch' = [watch EXCEPT ![w][e] = row]
    BY DEF Go
  <1> HIDE DEF row
  <1> QED
    BY <1>2, <1>3

LEMMA AwayRow == Away \in WatchRows /\ Away.at = "none"
  BY DEF Away, WatchRows, WatchAts

LEMMA SpawnsAt ==
    ASSUME PromoteTypes, NEW w \in Watchers, NEW e \in Entries, Spawn(w, e)
    PROVE  \E row \in WatchRows :
               /\ watch' = [watch EXCEPT ![w][e] = row]
               /\ row.at # "none"
               /\ row = watch[w][e] \/ row.at = "build"
  <1> DEFINE row == [Away EXCEPT !.at = "build"]
  <1>1. row \in WatchRows /\ row.at = "build"
    BY DEF Away, WatchRows, WatchAts
  <1>2. watch' = [watch EXCEPT ![w][e] = IF e \in InFlight(w) THEN watch[w][e] ELSE row]
    BY DEF Spawn
  <1>3. watch[w][e] \in WatchRows /\ (e \in InFlight(w) <=> watch[w][e].at # "none")
    BY DEF PromoteTypes, InFlight
  <1> HIDE DEF row
  <1>4. CASE e \in InFlight(w)
    BY <1>2, <1>3, <1>4
  <1>5. CASE e \notin InFlight(w)
    BY <1>1, <1>2, <1>5
  <1> QED
    BY <1>4, <1>5

(* What upsert_deployment does to the Deployments.                         *)
LEMMA Upserts ==
    ASSUME rollouts \in Seq(RolloutRows), NEW r \in DOMAIN rollouts,
           NEW status \in NodeStates \ {"none"},
           NEW source \in {"gateway", "promote", "promote-watcher"},
           Upsert(r, status, source)
    PROVE  /\ rollouts' \in Seq(RolloutRows) /\ DOMAIN rollouts' = DOMAIN rollouts
           /\ \A s \in DOMAIN rollouts \ {r} : rollouts'[s] = rollouts[s]
           /\ rollouts'[r].of = rollouts[r].of /\ rollouts'[r].node = status
           /\ rollouts'[r].remote = rollouts[r].remote
           /\ rollouts'[r].origin = IF rollouts[r].origin = "none" THEN source
                                    ELSE rollouts[r].origin
           /\ ~rollouts'[r].closed => ~rollouts[r].closed /\ status = "in_progress"
  <1>1. PICK row : row = [rollouts[r] EXCEPT !.node = status,
                             !.origin = IF @ = "none" THEN source ELSE @,
                             !.closed = @ \/ status # "in_progress"]
    OBVIOUS
  <1>2. rollouts[r] \in RolloutRows
    OBVIOUS
  <1>3. /\ row \in RolloutRows /\ row.of = rollouts[r].of /\ row.node = status
        /\ row.remote = rollouts[r].remote
        /\ row.origin = IF rollouts[r].origin = "none" THEN source ELSE rollouts[r].origin
        /\ ~row.closed => ~rollouts[r].closed /\ status = "in_progress"
    BY <1>1, <1>2 DEF RolloutRows
  <1>4. rollouts' = [rollouts EXCEPT ![r] = row]
    BY <1>1, <1>2 DEF Upsert, RolloutRows
  <1> QED
    BY <1>3, <1>4

LEMMA Reports ==
    ASSUME NEW r, rollouts[r].remote \in {"running"} \cup Ended, Webhook(r)
    PROVE  \E report \in NodeStates \ {"none"} : Upsert(r, report, "gateway")
  <1>1. NodeStatus(rollouts[r].remote) \in NodeStates \ {"none"}
    BY DEF NodeStatus, NodeStates, Ended
  <1>2. "in_progress" \in NodeStates \ {"none"}
    BY DEF NodeStates
  <1> QED
    BY <1>1, <1>2 DEF Webhook

(* What close_in_flight does to them.                                      *)
Closes(e) == rollouts' = [r \in DOMAIN rollouts |->
    IF rollouts[r].of = e /\ rollouts[r].node = "in_progress"
    THEN [rollouts[r] EXCEPT !.node = "failed", !.closed = TRUE] ELSE rollouts[r]]

LEMMA ClosesThem ==
    ASSUME rollouts \in Seq(RolloutRows), NEW e, Closes(e)
    PROVE  /\ rollouts' \in Seq(RolloutRows) /\ DOMAIN rollouts' = DOMAIN rollouts
           /\ \A r \in DOMAIN rollouts :
                 /\ rollouts'[r].of = rollouts[r].of
                 /\ rollouts'[r].origin = rollouts[r].origin
                 /\ \/ rollouts'[r] = rollouts[r]
                    \/ /\ rollouts[r].node # "none" /\ rollouts'[r].node # "none"
                       /\ rollouts'[r].closed = TRUE
  <1>1. ASSUME NEW r \in DOMAIN rollouts
        PROVE  /\ rollouts'[r] \in RolloutRows
               /\ rollouts'[r].of = rollouts[r].of
               /\ rollouts'[r].origin = rollouts[r].origin
               /\ \/ rollouts'[r] = rollouts[r]
                  \/ /\ rollouts[r].node # "none" /\ rollouts'[r].node # "none"
                     /\ rollouts'[r].closed = TRUE
    <2>1. PICK row : row = [rollouts[r] EXCEPT !.node = "failed", !.closed = TRUE]
      OBVIOUS
    <2>2. rollouts[r] \in RolloutRows
      BY <1>1
    <2>3. /\ row \in RolloutRows /\ row.of = rollouts[r].of /\ row.node = "failed"
          /\ row.origin = rollouts[r].origin /\ row.closed = TRUE
      BY <2>1, <2>2 DEF RolloutRows, NodeStates
    <2>4. \/ rollouts'[r] = rollouts[r]
          \/ rollouts'[r] = row /\ rollouts[r].node = "in_progress"
      BY <1>1, <2>1 DEF Closes
    <2>5. CASE rollouts'[r] = rollouts[r]
      BY <2>2, <2>5
    <2>6. CASE rollouts'[r] = row /\ rollouts[r].node = "in_progress"
      <3>1. /\ rollouts'[r] \in RolloutRows /\ rollouts'[r].of = rollouts[r].of
            /\ rollouts'[r].origin = rollouts[r].origin
        BY <2>3, <2>6
      <3>2. rollouts[r].node # "none" /\ rollouts'[r].node # "none"
        BY <2>3, <2>6
      <3>3. rollouts'[r].closed = TRUE
        BY <2>3, <2>6, Zenon
      <3> QED
        BY <3>1, <3>2, <3>3, Zenon
    <2> QED
      BY <2>4, <2>5, <2>6, Zenon
  <1>2. DOMAIN rollouts = 1..Len(rollouts) /\ Len(rollouts) \in Nat
    OBVIOUS
  <1>3. /\ DOMAIN rollouts' = DOMAIN rollouts
        /\ rollouts' = [r \in DOMAIN rollouts |-> rollouts'[r]]
    BY Zenon DEF Closes
  <1>4. rollouts' \in [1..Len(rollouts) -> RolloutRows]
    BY <1>1, <1>2, <1>3, Zenon
  <1>5. rollouts' \in Seq(RolloutRows)
    BY <1>2, <1>4, SeqDef
  <1> QED
    BY <1>1, <1>3, <1>5, Zenon

LEMMA Appends ==
    ASSUME rollouts \in Seq(RolloutRows), NEW row \in RolloutRows,
           rollouts' = Append(rollouts, row)
    PROVE  /\ rollouts' \in Seq(RolloutRows) /\ Len(rollouts') = Len(rollouts) + 1
           /\ DOMAIN rollouts' = DOMAIN rollouts \cup {Len(rollouts')}
           /\ Len(rollouts') \notin DOMAIN rollouts /\ rollouts'[Len(rollouts')] = row
           /\ Len(rollouts') \in Nat
           /\ \A s \in DOMAIN rollouts : rollouts'[s] = rollouts[s]
  OBVIOUS

(* A dead-lettering that raises leaves the queue as it is.                 *)
LEMMA RaisesStays ==
    ASSUME GroupTypes, NEW w, NEW e, RetireRaises(w, e)
    PROVE  /\ GroupTypes' /\ added' = added /\ unread' = unread /\ Pending' = Pending
           /\ e \in Pending
  <1>1. /\ e \in Pending /\ added' = added /\ unread' = unread
        /\ deliveries' = [deliveries EXCEPT ![e] = MaxDeliveries]
        /\ dead' \in {dead, dead \cup {e}}
    BY DEF RetireRaises, MayClaim
  <1> QED
    BY <1>1, GroupAssumption DEF GroupTypes, Pending

(* The types hold on.                                                      *)
LEMMA PromoteTypesStep ==
    ASSUME PromoteTypes, AtItsRollout, [PromoteNext]_<<promoteVars, groupVars>>
    PROVE  PromoteTypes'
<1>1. /\ GroupTypes /\ rollouts \in Seq(RolloutRows)
      /\ watch \in [Watchers -> [Entries -> WatchRows]]
      /\ abandoning \in [Watchers -> SUBSET (1..added)]
      /\ asked \in [Entries -> {"no", "queued", "answered"}]
      /\ build \in [Entries -> {"none", "running"} \cup Ended]
  BY DEF PromoteTypes
<1>2. Outcomes \subseteq WatchAts
  BY DEF WatchAts
<1>3. CASE StartPromote
  <2>1. /\ GroupTypes' /\ added' \in Entries /\ 1..added \subseteq 1..added'
    BY <1>1, <1>3, AddsOne DEF StartPromote
  <2>2. /\ asked' = [asked EXCEPT ![added'] = "queued"]
        /\ build' = [build EXCEPT ![added'] = "running"]
        /\ UNCHANGED <<rollouts, watch, abandoning>>
    BY <1>3 DEF StartPromote
  <2>3. abandoning' \in [Watchers -> SUBSET (1..added')]
    BY <1>1, <2>1, <2>2
  <2> QED
    BY <1>1, <2>1, <2>2, <2>3 DEF PromoteTypes
<1>4. ASSUME NEW e \in Entries, AnswerPromote(e) \/ BuildEnds(e)
      PROVE  PromoteTypes'
  <2>1. UNCHANGED <<rollouts, watch, abandoning, groupVars>>
    BY <1>4 DEF AnswerPromote, BuildEnds
  <2>2. \/ asked' = asked
        \/ asked' = [asked EXCEPT ![e] = "answered"]
    BY <1>4 DEF AnswerPromote, BuildEnds
  <2>3. \/ build' = build
        \/ \E r \in Ended : build' = [build EXCEPT ![e] = r]
    BY <1>4 DEF AnswerPromote, BuildEnds
  <2>4. GroupTypes' /\ added' = added
    BY <1>1, <2>1, GroupStays
  <2>5. asked' \in [Entries -> {"no", "queued", "answered"}]
    BY <1>1, <2>2
  <2>6. build' \in [Entries -> {"none", "running"} \cup Ended]
    BY <1>1, <2>3
  <2> QED
    BY <1>1, <2>1, <2>4, <2>5, <2>6 DEF PromoteTypes
<1>5. ASSUME NEW r \in DOMAIN rollouts, RolloutEnds(r) \/ Webhook(r)
      PROVE  PromoteTypes'
  <2>1. UNCHANGED <<asked, build, watch, abandoning, groupVars>>
    BY <1>5 DEF RolloutEnds, Webhook
  <2>2. GroupTypes' /\ added' = added
    BY <1>1, <2>1, GroupStays
  <2>3. rollouts[r] \in RolloutRows
    BY <1>1
  <2>4. CASE RolloutEnds(r)
    <3>1. PICK o \in Ended : rollouts' = [rollouts EXCEPT ![r].remote = o]
      BY <2>4 DEF RolloutEnds
    <3>2. PICK row : row = [rollouts[r] EXCEPT !.remote = o]
      OBVIOUS
    <3>3. row \in RolloutRows
      BY <2>3, <3>2 DEF RolloutRows
    <3>4. rollouts' = [rollouts EXCEPT ![r] = row]
      BY <3>1, <3>2
    <3>5. rollouts' \in Seq(RolloutRows)
      BY <1>1, <1>5, <3>3, <3>4
    <3> QED
      BY <1>1, <2>1, <2>2, <3>5 DEF PromoteTypes
  <2>5. CASE Webhook(r)
    <3>1. PICK report \in NodeStates \ {"none"} : Upsert(r, report, "gateway")
      BY <2>3, <2>5, Reports DEF RolloutRows
    <3>2. rollouts' \in Seq(RolloutRows)
      BY <1>1, <1>5, <3>1, Upserts
    <3> QED
      BY <1>1, <2>1, <2>2, <3>2 DEF PromoteTypes
  <2> QED
    BY <1>5, <2>4, <2>5
<1>6. ASSUME NEW w \in Watchers, ReadPromote(w)
      PROVE  PromoteTypes'
  <2>1. PICK e \in unread : XReadGroup({e}, 1) /\ Spawn(w, e)
    BY <1>6 DEF ReadPromote
  <2>2. GroupTypes' /\ added' = added /\ e \in Entries
    BY <1>1, <2>1, ReadsThem, GroupAssumption DEF GroupTypes, Entries
  <2>3. watch' \in [Watchers -> [Entries -> WatchRows]]
    BY <2>1, <2>2, SpawnsAt, WatchMoves
  <2>4. UNCHANGED <<asked, build, rollouts, abandoning>>
    BY <1>6 DEF ReadPromote
  <2> QED
    BY <1>1, <2>2, <2>3, <2>4 DEF PromoteTypes
<1>7. ASSUME NEW w \in Watchers, CrashWatcher(w)
      PROVE  PromoteTypes'
  <2>1. /\ UNCHANGED <<asked, build, rollouts, groupVars>>
        /\ watch' = [watch EXCEPT ![w] = [e \in Entries |-> Away]]
        /\ abandoning' = [abandoning EXCEPT ![w] = {}]
    BY <1>7 DEF CrashWatcher
  <2>2. GroupTypes' /\ added' = added
    BY <1>1, <2>1, GroupStays
  <2>3. watch' \in [Watchers -> [Entries -> WatchRows]]
    BY <1>1, <2>1, AwayRow
  <2>4. abandoning' \in [Watchers -> SUBSET (1..added)]
    BY <1>1, <2>1
  <2> QED
    BY <1>1, <2>1, <2>2, <2>3, <2>4 DEF PromoteTypes
<1>8. ASSUME NEW w \in Watchers, NEW e \in Entries,
             ClaimPromote(w, e) \/ AckPromote(w, e)
      PROVE  PromoteTypes'
  <2>1. GroupTypes' /\ added' = added
    BY <1>1, <1>8, ClaimsThem, LeavesPending DEF ClaimPromote, AckPromote
  <2>2. watch' \in [Watchers -> [Entries -> WatchRows]]
    BY <1>8, SpawnsAt, AwayRow, WatchMoves DEF ClaimPromote, AckPromote, Leave
  <2>3. UNCHANGED <<asked, build, rollouts, abandoning>>
    BY <1>8 DEF ClaimPromote, AckPromote
  <2> QED
    BY <1>1, <2>1, <2>2, <2>3 DEF PromoteTypes
<1>9. ASSUME NEW w \in Watchers, NEW e \in Entries, RetirePromote(w, e)
      PROVE  PromoteTypes'
  <2>1. GroupTypes' /\ added' = added /\ e \in 1..added
    BY <1>1, <1>9, LeavesPending DEF RetirePromote, MayClaim, GroupTypes
  <2>2. /\ UNCHANGED <<asked, build, rollouts, watch>>
        /\ abandoning' = [abandoning EXCEPT ![w] = @ \cup {e}]
    BY <1>9 DEF RetirePromote
  <2>3. abandoning' \in [Watchers -> SUBSET (1..added)]
    BY <1>1, <2>1, <2>2
  <2> QED
    BY <1>1, <2>1, <2>2, <2>3 DEF PromoteTypes
<1>10. ASSUME NEW w \in Watchers, NEW e \in Entries, Abandon(w, e)
       PROVE  PromoteTypes'
  <2>1. /\ UNCHANGED <<asked, build, watch, groupVars>>
        /\ abandoning' = [abandoning EXCEPT ![w] = @ \ {e}]
        /\ rollouts' = rollouts \/ Closes(e)
    BY <1>10 DEF Abandon, Closes
  <2>2. GroupTypes' /\ added' = added
    BY <1>1, <2>1, GroupStays
  <2>3. abandoning' \in [Watchers -> SUBSET (1..added)]
    BY <1>1, <2>1
  <2>4. rollouts' \in Seq(RolloutRows)
    BY <1>1, <2>1, ClosesThem
  <2> QED
    BY <1>1, <2>1, <2>2, <2>3, <2>4 DEF PromoteTypes
<1>11. ASSUME NEW w \in Watchers, NEW e \in Entries,
              \/ PollFailure(w, e) \/ PollSuccess(w, e) \/ LookForDeployment(w, e)
              \/ GiveUpRollout(w, e) \/ MarkOutcome(w, e)
              \/ PollRunning(w, e) \/ PollRollout(w, e)
              \/ PollRaises(w, e) \/ CompletionRaises(w, e)
       PROVE  PromoteTypes'
  <2>1. UNCHANGED <<asked, build, rollouts, abandoning, groupVars>>
    BY <1>11 DEF PollFailure, PollSuccess, LookForDeployment, GiveUpRollout, MarkOutcome,
                 PollRunning, PollRollout, PollRaises, CompletionRaises
  <2>2. GroupTypes' /\ added' = added
    BY <1>1, <2>1, GroupStays
  <2>3. \/ watch' = watch \/ Leave(w, e)
        \/ \E at \in WatchAts : Go(w, e, at)
        \/ \E r \in Reusable(e) : watch' = [watch EXCEPT ![w][e] = [at |-> "rollout", run |-> r]]
    BY <1>11, <1>2 DEF PollFailure, PollSuccess, LookForDeployment, GiveUpRollout, MarkOutcome,
                 PollRunning, PollRollout, PollRaises, CompletionRaises, WatchAts, Outcomes
  <2>4. \A r \in Reusable(e) : [at |-> "rollout", run |-> r] \in WatchRows
    <3>1. Reusable(e) \subseteq Nat
      BY <1>1 DEF Reusable
    <3> QED
      BY <3>1 DEF WatchRows, WatchAts
  <2>5. watch' \in [Watchers -> [Entries -> WatchRows]]
    BY <1>1, <2>3, <2>4, GoesTo, AwayRow, WatchMoves DEF Leave
  <2> QED
    BY <1>1, <2>1, <2>2, <2>5 DEF PromoteTypes
<1>12. ASSUME NEW w \in Watchers, NEW e \in Entries, TriggerDeployment(w, e)
       PROVE  PromoteTypes'
  <2> DEFINE row == [of |-> e, remote |-> "running", node |-> "none",
                     origin |-> "none", closed |-> FALSE]
             mine == [at |-> "record", run |-> Len(rollouts')]
  <2>1. /\ UNCHANGED <<asked, build, abandoning, groupVars>>
        /\ rollouts' = Append(rollouts, row) /\ watch' = [watch EXCEPT ![w][e] = mine]
    BY <1>12 DEF TriggerDeployment
  <2>2. GroupTypes' /\ added' = added
    BY <1>1, <2>1, GroupStays
  <2>3. row \in RolloutRows
    BY DEF RolloutRows, NodeStates
  <2>4. rollouts' \in Seq(RolloutRows) /\ Len(rollouts') \in Nat
    BY <1>1, <2>1, <2>3, Appends
  <2>5. mine \in WatchRows
    BY <2>4 DEF WatchRows, WatchAts
  <2>6. watch' \in [Watchers -> [Entries -> WatchRows]]
    BY <2>1, <2>5, WatchMoves
  <2> QED
    BY <1>1, <2>1, <2>2, <2>4, <2>6 DEF PromoteTypes
<1>13. ASSUME NEW w \in Watchers, NEW e \in Entries,
              RecordDeployment(w, e) \/ CloseDeployment(w, e)
       PROVE  PromoteTypes'
  <2>1. UNCHANGED <<asked, build, abandoning, groupVars>>
    BY <1>13 DEF RecordDeployment, CloseDeployment
  <2>2. GroupTypes' /\ added' = added
    BY <1>1, <2>1, GroupStays
  <2>3. watch[w][e].at \in {"record", "rollout", "late"}
    BY <1>13 DEF RecordDeployment, CloseDeployment
  <2>4. watch[w][e].run \in DOMAIN rollouts
    BY <2>3 DEF AtItsRollout
  <2>5. \/ rollouts' = rollouts
        \/ \E status \in NodeStates \ {"none"}, source \in {"promote", "promote-watcher"} :
              Upsert(watch[w][e].run, status, source)
    BY <1>13 DEF RecordDeployment, CloseDeployment, NodeStates
  <2>6. rollouts' \in Seq(RolloutRows)
    BY <1>1, <2>4, <2>5, Upserts
  <2>7. \E at \in WatchAts : Go(w, e, at)
    BY <1>13, <1>2 DEF RecordDeployment, CloseDeployment, WatchAts, Outcomes
  <2>8. watch' \in [Watchers -> [Entries -> WatchRows]]
    BY <2>7, GoesTo, WatchMoves
  <2> QED
    BY <1>1, <2>1, <2>2, <2>6, <2>8 DEF PromoteTypes
<1>14. CASE PauseEnds \/ UNCHANGED <<promoteVars, groupVars>>
  <2>1. UNCHANGED <<asked, build, rollouts, watch, abandoning, groupVars>>
    BY <1>14 DEF PauseEnds, promoteVars
  <2> QED
    BY <1>1, <2>1, GroupStays DEF PromoteTypes
<1>15. ASSUME NEW w \in Watchers, NEW e \in Entries, RetireRaises(w, e)
       PROVE  PromoteTypes'
  <2>1. /\ UNCHANGED <<asked, build, rollouts, abandoning>>
        /\ watch' = [watch EXCEPT ![w] = [f \in Entries |-> Away]]
    BY <1>15 DEF RetireRaises
  <2>2. GroupTypes' /\ added' = added
    BY <1>1, <1>15, RaisesStays
  <2>3. watch' \in [Watchers -> [Entries -> WatchRows]]
    BY <1>1, <2>1, AwayRow
  <2> QED
    BY <1>1, <2>1, <2>2, <2>3 DEF PromoteTypes
<1> QED
  BY <1>3, <1>4, <1>5, <1>6, <1>7, <1>8, <1>9, <1>10, <1>11, <1>12, <1>13, <1>14,
     <1>15, PromoteNextCases

(* An entry keeps its one driver where a worker takes it that nobody has,  *)
(* goes on with it, or leaves it.                                          *)
LEMMA DriverStep ==
    ASSUME PromoteTypes, OneDriver, NEW w \in Watchers, NEW e \in Entries,
           NEW row \in WatchRows, watch' = [watch EXCEPT ![w][e] = row],
           Pending \ {e} \subseteq Pending', row.at # "none" => e \in Pending',
           e \in InFlight(w) \/ \A v \in Watchers : e \notin InFlight(v)
    PROVE  OneDriver'
  <1>1. /\ watch'[w][e] = row
        /\ \A v \in Watchers, f \in Entries : v # w \/ f # e => watch'[v][f] = watch[v][f]
    BY DEF PromoteTypes
  <1>2. \A v \in Watchers : v # w => InFlight(v)' = InFlight(v)
    BY <1>1 DEF InFlight
  <1>3. InFlight(w)' = (InFlight(w) \ {e}) \cup (IF row.at = "none" THEN {} ELSE {e})
    BY <1>1 DEF InFlight
  <1>4. \A v \in Watchers : v # w => e \notin InFlight(v)
    BY DEF OneDriver
  <1>5. \A v \in Watchers : InFlight(v) \subseteq Pending
    BY DEF OneDriver
  <1>6. \A v \in Watchers : InFlight(v)' \subseteq Pending'
    BY <1>2, <1>3, <1>4, <1>5
  <1>7. \A u, v \in Watchers : u # v => InFlight(u)' \cap InFlight(v)' = {}
    BY <1>2, <1>3, <1>4 DEF OneDriver
  <1> QED
    BY <1>6, <1>7 DEF OneDriver

LEMMA DriversStay ==
    ASSUME OneDriver, UNCHANGED watch,
           \A w \in Watchers : InFlight(w) \subseteq Pending => InFlight(w) \subseteq Pending'
    PROVE  OneDriver'
  <1>1. \A w \in Watchers : InFlight(w)' = InFlight(w)
    BY DEF InFlight
  <1> QED
    BY <1>1 DEF OneDriver

(* A step without a dispatch, in which each worker stays where it is or    *)
(* comes to where it may be, and no entry gets a recorded Deployment but   *)
(* its last one, when nobody is about to dispatch another.                 *)
LEMMA RolloutStep ==
    ASSUME PromoteTypes, RolloutInv, HasOrigin', OpenInProgress', OneDriver',
           DOMAIN rollouts' = DOMAIN rollouts,
           \A r \in DOMAIN rollouts : rollouts'[r].of = rollouts[r].of,
           \A v \in Watchers, f \in Entries :
               \/ watch'[v][f] = watch[v][f]
               \/ /\ watch'[v][f].at # "record"
                  /\ watch'[v][f].at = "trigger" => Own(f) = {}
                  /\ watch'[v][f].at \in {"rollout", "late"} =>
                         /\ watch'[v][f].run \in DOMAIN rollouts
                         /\ rollouts[watch'[v][f].run].of = f,
           \A f \in Entries :
               \/ Own(f)' \subseteq Own(f)
               \/ /\ \A r \in Own(f)' : LastOf(f, r)
                  /\ \A v \in Watchers : watch'[v][f].at \notin {"trigger", "record"}
    PROVE  RolloutInv'
  <1>1. AtItsRollout'
    <2> SUFFICES ASSUME NEW v \in Watchers, NEW f \in Entries,
                        watch'[v][f].at \in {"record", "rollout", "late"}
                 PROVE  /\ watch'[v][f].run \in DOMAIN rollouts'
                        /\ rollouts'[watch'[v][f].run].of = f
      BY DEF AtItsRollout
    <2>1. CASE watch'[v][f] = watch[v][f]
      BY <2>1 DEF RolloutInv, AtItsRollout
    <2>2. CASE watch'[v][f] # watch[v][f]
      BY <2>2
    <2> QED
      BY <2>1, <2>2
  <1>2. ASSUME NEW v \in Watchers, NEW f \in Entries,
               watch'[v][f].at \in {"trigger", "record"}
        PROVE  Own(f)' = {}
    <2>1. Own(f) = {}
      BY <1>2 DEF RolloutInv, DispatchesAlone
    <2>2. Own(f)' \subseteq Own(f)
      BY <1>2
    <2> QED
      BY <2>1, <2>2
  <1>3. ASSUME NEW f, NEW r PROVE LastOf(f, r) => LastOf(f, r)'
    BY DEF LastOf
  <1>4. ASSUME NEW v \in Watchers, NEW f \in Entries, watch'[v][f].at = "record"
        PROVE  LastOf(f, watch[v][f].run)' /\ watch'[v][f].run = watch[v][f].run
    <2>1. watch'[v][f] = watch[v][f] /\ LastOf(f, watch[v][f].run)
      BY <1>4 DEF RolloutInv, RecordsLast
    <2> QED
      BY <2>1 DEF LastOf
  <1>5. RecordsLast'
    BY <1>4 DEF RecordsLast, LastOf
  <1>6. ASSUME NEW f \in Entries, NEW r \in Own(f)' PROVE LastOf(f, r)'
    <2>1. LastOf(f, r)
      BY <1>6 DEF RolloutInv, OwnIsLast
    <2> QED
      BY <2>1 DEF LastOf
  <1>7. OwnIsLast'
    BY <1>6 DEF OwnIsLast, LastOf
  <1> QED
    BY <1>1, <1>2, <1>5, <1>7 DEF RolloutInv, DispatchesAlone

(* Nobody drives what may be claimed.                                      *)
LEMMA MayClaimIsFree ==
    ASSUME "stall" \notin PromoteFaults, NEW w \in Watchers, NEW e \in Entries, MayClaim(w, e)
    PROVE  e \in Pending /\ Answered(e) /\ \A v \in Watchers : e \notin InFlight(v)
  BY DEF MayClaim, Renewed

(* Who finds nothing in progress has no Deployment of its own.             *)
LEMMA OwnIsReusable ==
    ASSUME HasOrigin, OpenInProgress, NEW e
    PROVE  Own(e) \subseteq Reusable(e)
  BY DEF Own, Reusable, HasOrigin, OpenInProgress

LEMMA RolloutInvStep ==
    ASSUME "stall" \notin PromoteFaults, PromoteTypes, RolloutInv,
           [PromoteNext]_<<promoteVars, groupVars>>
    PROVE  RolloutInv'
<1>1. /\ GroupTypes /\ rollouts \in Seq(RolloutRows)
      /\ watch \in [Watchers -> [Entries -> WatchRows]]
      /\ HasOrigin /\ OpenInProgress /\ OneDriver /\ AtItsRollout
  BY DEF PromoteTypes, RolloutInv
<1>2. \A w \in Watchers, e \in Entries : e \in InFlight(w) <=> watch[w][e].at # "none"
  BY DEF InFlight
(* Nothing of it moves.                                                    *)
<1>3. ASSUME UNCHANGED <<rollouts, watch>>,
             \A w \in Watchers : InFlight(w) \subseteq Pending => InFlight(w) \subseteq Pending'
      PROVE  RolloutInv'
  <2>1. OneDriver'
    BY <1>1, <1>3, DriversStay
  <2>2. \A f : Own(f)' = Own(f)
    BY <1>3 DEF Own
  <2>3. HasOrigin' /\ OpenInProgress'
    BY <1>1, <1>3 DEF HasOrigin, OpenInProgress
  <2> QED
    BY <1>3, <2>1, <2>2, <2>3, RolloutStep
(* A worker moves with an entry of its own, or with one that nobody has.   *)
<1>4. ASSUME NEW w \in Watchers, NEW e \in Entries, NEW row \in WatchRows,
             watch' = [watch EXCEPT ![w][e] = row], UNCHANGED rollouts,
             Pending \ {e} \subseteq Pending', row.at # "none" => e \in Pending',
             e \in InFlight(w) \/ \A v \in Watchers : e \notin InFlight(v),
             \/ row = watch[w][e]
             \/ /\ row.at # "record" /\ (row.at = "trigger" => Own(e) = {})
                /\ row.at \in {"rollout", "late"} =>
                       row.run \in DOMAIN rollouts /\ rollouts[row.run].of = e
      PROVE  RolloutInv'
  <2>1. OneDriver'
    BY <1>1, <1>4, DriverStep
  <2>2. \A f : Own(f)' = Own(f)
    BY <1>4 DEF Own
  <2>3. HasOrigin' /\ OpenInProgress'
    BY <1>1, <1>4 DEF HasOrigin, OpenInProgress
  <2>4. /\ watch'[w][e] = row
        /\ \A v \in Watchers, f \in Entries : v # w \/ f # e => watch'[v][f] = watch[v][f]
    BY <1>1, <1>4
  <2>5. ASSUME NEW v \in Watchers, NEW f \in Entries
        PROVE  \/ watch'[v][f] = watch[v][f]
               \/ /\ watch'[v][f].at # "record"
                  /\ watch'[v][f].at = "trigger" => Own(f) = {}
                  /\ watch'[v][f].at \in {"rollout", "late"} =>
                         /\ watch'[v][f].run \in DOMAIN rollouts
                         /\ rollouts[watch'[v][f].run].of = f
    <3>1. CASE v = w /\ f = e
      BY <1>4, <2>4, <3>1
    <3>2. CASE v # w \/ f # e
      BY <2>4, <3>2
    <3> QED
      BY <3>1, <3>2
  <2> QED
    BY <1>4, <2>1, <2>2, <2>3, <2>5, RolloutStep
<1>5. CASE StartPromote
  BY <1>1, <1>3, <1>5, AddsOne DEF StartPromote
<1>6. ASSUME NEW e \in Entries, AnswerPromote(e) \/ BuildEnds(e) PROVE RolloutInv'
  <2>1. UNCHANGED <<rollouts, watch, groupVars>>
    BY <1>6 DEF AnswerPromote, BuildEnds
  <2> QED
    BY <1>1, <1>3, <2>1, GroupStays
<1>7. CASE PauseEnds \/ UNCHANGED <<promoteVars, groupVars>>
  <2>1. UNCHANGED <<rollouts, watch, groupVars>>
    BY <1>7 DEF PauseEnds, promoteVars
  <2> QED
    BY <1>1, <1>3, <2>1, GroupStays
<1>8. ASSUME NEW w \in Watchers, NEW e \in Entries, PollRunning(w, e) \/ PollRollout(w, e)
      PROVE  RolloutInv'
  <2>1. UNCHANGED <<rollouts, watch, groupVars>>
    BY <1>8 DEF PollRunning, PollRollout
  <2> QED
    BY <1>1, <1>3, <2>1, GroupStays
<1>9. ASSUME NEW w \in Watchers, NEW e \in Entries, RetirePromote(w, e) PROVE RolloutInv'
  <2>1. /\ \A v \in Watchers : e \notin InFlight(v)
        /\ UNCHANGED <<rollouts, watch>> /\ DeadLetter(e)
    BY <1>9, MayClaimIsFree DEF RetirePromote
  <2>2. Pending' = Pending \ {e}
    BY <1>1, <2>1, LeavesPending
  <2> QED
    BY <1>3, <2>1, <2>2
<1>10. ASSUME NEW w \in Watchers, ReadPromote(w) PROVE RolloutInv'
  <2>1. PICK e \in unread : XReadGroup({e}, 1) /\ Spawn(w, e)
    BY <1>10 DEF ReadPromote
  <2>2. /\ e \in Entries /\ e \notin Pending /\ Pending' = Pending \cup {e}
    <3>1. Pending' = Pending \cup {e}
      BY <1>1, <2>1, ReadsThem
    <3> QED
      BY <1>1, <2>1, <3>1, GroupAssumption DEF GroupTypes, Entries
  <2>3. \A v \in Watchers : e \notin InFlight(v)
    BY <1>1, <2>2 DEF OneDriver
  <2>4. PICK row \in WatchRows : /\ watch' = [watch EXCEPT ![w][e] = row]
                                 /\ row = watch[w][e] \/ row.at = "build"
    BY <2>1, <2>2, SpawnsAt
  <2>5. UNCHANGED rollouts
    BY <1>10 DEF ReadPromote
  <2> QED
    BY <1>4, <2>2, <2>3, <2>4, <2>5
<1>11. ASSUME NEW w \in Watchers, NEW e \in Entries, ClaimPromote(w, e) PROVE RolloutInv'
  <2>1. /\ e \in Pending /\ \A v \in Watchers : e \notin InFlight(v)
        /\ XAutoClaim({e}) /\ Spawn(w, e) /\ UNCHANGED rollouts
    BY <1>11, MayClaimIsFree DEF ClaimPromote
  <2>2. PICK row \in WatchRows : /\ watch' = [watch EXCEPT ![w][e] = row]
                                 /\ row = watch[w][e] \/ row.at = "build"
    BY <2>1, SpawnsAt
  <2>3. Pending' = Pending
    BY <1>1, <2>1, ClaimsThem
  <2> QED
    BY <1>4, <2>1, <2>2, <2>3
<1>12. ASSUME NEW w \in Watchers, NEW e \in Entries,
              AckPromote(w, e) \/ PollRaises(w, e)
       PROVE  RolloutInv'
  <2>1. /\ watch' = [watch EXCEPT ![w][e] = Away] /\ UNCHANGED rollouts
        /\ watch[w][e].at # "none"
        /\ XAck(e) \/ UNCHANGED groupVars
    BY <1>12 DEF AckPromote, PollRaises, Leave
  <2>2. Pending \ {e} \subseteq Pending'
    BY <1>1, <2>1, LeavesPending, GroupStays
  <2> QED
    BY <1>2, <1>4, <2>1, <2>2, AwayRow
<1>13. ASSUME NEW w \in Watchers, NEW e \in Entries,
              \/ PollFailure(w, e) \/ PollSuccess(w, e) \/ GiveUpRollout(w, e)
              \/ MarkOutcome(w, e) \/ CompletionRaises(w, e)
       PROVE  RolloutInv'
  <2>1. /\ UNCHANGED <<rollouts, groupVars>> /\ watch[w][e].at # "none"
        /\ \E at \in {"build_failed", "complete", "late", "ack", "failed"} :
              Go(w, e, at) /\ (at = "late" => watch[w][e].at = "rollout")
    BY <1>13 DEF PollFailure, PollSuccess, GiveUpRollout, MarkOutcome, CompletionRaises,
                 Outcomes
  <2>2. PICK at \in {"build_failed", "complete", "late", "ack", "failed"} :
              Go(w, e, at) /\ (at = "late" => watch[w][e].at = "rollout")
    BY <2>1
  <2>3. at \in WatchAts
    BY DEF WatchAts, Outcomes
  <2>4. PICK row \in WatchRows : /\ watch' = [watch EXCEPT ![w][e] = row]
                                 /\ row.at = at /\ row.run = watch[w][e].run
    BY <2>2, <2>3, GoesTo
  <2>5. at = "late" => row.run \in DOMAIN rollouts /\ rollouts[row.run].of = e
    BY <1>1, <2>2, <2>4 DEF AtItsRollout
  <2>6. Pending' = Pending /\ e \in InFlight(w) /\ e \in Pending
    BY <1>1, <1>2, <2>1, GroupStays DEF OneDriver
  <2> QED
    BY <1>4, <2>1, <2>4, <2>5, <2>6
<1>14. ASSUME NEW w \in Watchers, NEW e \in Entries, LookForDeployment(w, e)
       PROVE  RolloutInv'
  <2>1. UNCHANGED <<rollouts, groupVars>> /\ watch[w][e].at # "none"
    BY <1>14 DEF LookForDeployment
  <2>2. Pending' = Pending /\ e \in InFlight(w) /\ e \in Pending
    BY <1>1, <1>2, <2>1, GroupStays DEF OneDriver
  <2>3. CASE Reusable(e) = {}
    <3>1. Go(w, e, "trigger") /\ "trigger" \in WatchAts
      BY <1>14, <2>3 DEF LookForDeployment, WatchAts
    <3>2. PICK row \in WatchRows : watch' = [watch EXCEPT ![w][e] = row] /\ row.at = "trigger"
      BY <3>1, GoesTo
    <3>3. Own(e) = {}
      BY <1>1, <2>3, OwnIsReusable
    <3> QED
      BY <1>4, <2>1, <2>2, <3>2, <3>3
  <2>4. CASE Reusable(e) # {}
    <3>1. PICK r \in Reusable(e) : watch' = [watch EXCEPT ![w][e] = [at |-> "rollout", run |-> r]]
      BY <1>14, <2>4 DEF LookForDeployment
    <3>2. PICK row : row = [at |-> "rollout", run |-> r]
      OBVIOUS
    <3>3. r \in DOMAIN rollouts /\ rollouts[r].of = e /\ r \in Nat
      BY <1>1 DEF Reusable
    <3>4. row \in WatchRows /\ row.at = "rollout" /\ row.run = r
      BY <3>2, <3>3 DEF WatchRows, WatchAts
    <3>5. watch' = [watch EXCEPT ![w][e] = row]
      BY <3>1, <3>2
    <3>6. /\ row.at \notin {"trigger", "record"}
          /\ row.run \in DOMAIN rollouts /\ rollouts[row.run].of = e
      BY <3>3, <3>4
    <3>7. UNCHANGED rollouts /\ Pending \ {e} \subseteq Pending' /\ e \in Pending'
      BY <2>1, <2>2
    <3> QED
      BY <1>4, <2>2, <3>4, <3>5, <3>6, <3>7
  <2> QED
    BY <2>3, <2>4
(* A status of one Deployment is written.                                  *)
<1>15. ASSUME NEW r \in DOMAIN rollouts, NEW status \in NodeStates \ {"none"},
              NEW source \in {"gateway", "promote", "promote-watcher"},
              Upsert(r, status, source)
       PROVE  /\ HasOrigin' /\ OpenInProgress' /\ DOMAIN rollouts' = DOMAIN rollouts
              /\ \A s \in DOMAIN rollouts : rollouts'[s].of = rollouts[s].of
              /\ \A f : Own(f)' \subseteq Own(f) \cup {r}
              /\ \A f : rollouts[r].of # f => Own(f)' \subseteq Own(f)
              /\ source # "promote" => \A f : Own(f)' \subseteq Own(f)
  <2>1. /\ DOMAIN rollouts' = DOMAIN rollouts
        /\ \A s \in DOMAIN rollouts \ {r} : rollouts'[s] = rollouts[s]
        /\ rollouts'[r].of = rollouts[r].of /\ rollouts'[r].node = status
        /\ rollouts'[r].origin = IF rollouts[r].origin = "none" THEN source
                                 ELSE rollouts[r].origin
        /\ ~rollouts'[r].closed => ~rollouts[r].closed /\ status = "in_progress"
    BY <1>1, <1>15, Upserts
  <2>2. HasOrigin' /\ OpenInProgress'
    BY <1>1, <1>15, <2>1 DEF HasOrigin, OpenInProgress
  <2>3. ASSUME NEW f, NEW s \in Own(f)', s # r PROVE s \in Own(f)
    BY <2>1, <2>3 DEF Own
  <2>4. ASSUME NEW f, r \in Own(f)'
        PROVE  rollouts[r].of = f /\ (source # "promote" => r \in Own(f))
    BY <2>1, <2>4 DEF Own
  <2> QED
    BY <2>1, <2>2, <2>3, <2>4
<1>16. ASSUME UNCHANGED watch, Pending' = Pending, HasOrigin', OpenInProgress',
              DOMAIN rollouts' = DOMAIN rollouts,
              \A s \in DOMAIN rollouts : rollouts'[s].of = rollouts[s].of,
              \A f : Own(f)' \subseteq Own(f)
       PROVE  RolloutInv'
  <2>1. OneDriver'
    BY <1>1, <1>16, DriversStay
  <2> QED
    BY <1>16, <2>1, RolloutStep
<1>17. ASSUME NEW r \in DOMAIN rollouts, RolloutEnds(r) PROVE RolloutInv'
  <2>1. PICK o \in Ended : rollouts' = [rollouts EXCEPT ![r].remote = o]
    BY <1>17 DEF RolloutEnds
  <2>2. UNCHANGED <<watch, groupVars>>
    BY <1>17 DEF RolloutEnds
  <2>3. Pending' = Pending
    BY <1>1, <2>2, GroupStays
  <2>4. DOMAIN rollouts' = DOMAIN rollouts
    BY <2>1
  <2>5. ASSUME NEW s \in DOMAIN rollouts
        PROVE  /\ rollouts'[s].of = rollouts[s].of /\ rollouts'[s].node = rollouts[s].node
               /\ rollouts'[s].origin = rollouts[s].origin
               /\ rollouts'[s].closed = rollouts[s].closed
    <3>1. rollouts[s] \in RolloutRows
      BY <1>1
    <3> QED
      BY <2>1, <3>1 DEF RolloutRows
  <2>6. HasOrigin' /\ OpenInProgress'
    BY <1>1, <2>4, <2>5 DEF HasOrigin, OpenInProgress
  <2>7. \A f : Own(f)' \subseteq Own(f)
    BY <2>4, <2>5 DEF Own
  <2> QED
    BY <1>16, <2>2, <2>3, <2>4, <2>5, <2>6, <2>7
<1>18. ASSUME NEW r \in DOMAIN rollouts, Webhook(r) PROVE RolloutInv'
  <2>1. UNCHANGED <<watch, groupVars>>
    BY <1>18 DEF Webhook
  <2>2. rollouts[r].remote \in {"running"} \cup Ended
    <3>1. rollouts[r] \in RolloutRows
      BY <1>1, <1>18
    <3> QED
      BY <3>1 DEF RolloutRows
  <2>3. PICK report \in NodeStates \ {"none"} : Upsert(r, report, "gateway")
    BY <1>18, <2>2, Reports
  <2>4. Pending' = Pending
    BY <1>1, <2>1, GroupStays
  <2> QED
    BY <1>15, <1>16, <2>1, <2>3, <2>4
<1>19. ASSUME NEW w \in Watchers, NEW e \in Entries, Abandon(w, e) PROVE RolloutInv'
  <2>1. UNCHANGED <<watch, groupVars>> /\ (UNCHANGED rollouts \/ Closes(e))
    BY <1>19 DEF Abandon, Closes
  <2>2. Pending' = Pending
    BY <1>1, <2>1, GroupStays
  <2>3. CASE UNCHANGED rollouts
    BY <1>3, <2>1, <2>2, <2>3
  <2>4. CASE Closes(e)
    <3>1. /\ DOMAIN rollouts' = DOMAIN rollouts
          /\ \A s \in DOMAIN rollouts :
                /\ rollouts'[s].of = rollouts[s].of
                /\ rollouts'[s].origin = rollouts[s].origin
                /\ \/ rollouts'[s] = rollouts[s]
                   \/ /\ rollouts[s].node # "none" /\ rollouts'[s].node # "none"
                      /\ rollouts'[s].closed = TRUE
      BY <1>1, <2>4, ClosesThem
    <3>2. HasOrigin' /\ OpenInProgress'
      BY <1>1, <3>1 DEF HasOrigin, OpenInProgress
    <3>3. \A f : Own(f)' \subseteq Own(f)
      BY <3>1 DEF Own
    <3> QED
      BY <1>16, <2>1, <2>2, <3>1, <3>2, <3>3
  <2> QED
    BY <2>1, <2>3, <2>4
(* A Deployment is dispatched, recorded and closed.                        *)
<1>20. ASSUME NEW w \in Watchers, NEW e \in Entries, TriggerDeployment(w, e)
       PROVE  RolloutInv'
  <2>1. PICK new : new = [of |-> e, remote |-> "running", node |-> "none",
                          origin |-> "none", closed |-> FALSE]
    OBVIOUS
  <2>2. PICK row : row = [at |-> "record", run |-> Len(rollouts')]
    OBVIOUS
  <2>3. /\ watch[w][e].at = "trigger" /\ UNCHANGED groupVars
        /\ rollouts' = Append(rollouts, new) /\ watch' = [watch EXCEPT ![w][e] = row]
    BY <1>20, <2>1, <2>2 DEF TriggerDeployment
  <2>4. /\ new \in RolloutRows /\ new.of = e /\ new.node = "none" /\ new.origin = "none"
        /\ ~new.closed
    BY <2>1 DEF RolloutRows, NodeStates
  <2>5. PICK n \in Nat : /\ n = Len(rollouts')
                         /\ DOMAIN rollouts' = DOMAIN rollouts \cup {n}
                         /\ n \notin DOMAIN rollouts /\ rollouts'[n] = new
                         /\ \A s \in DOMAIN rollouts : rollouts'[s] = rollouts[s] /\ s <= n
    <3>1. /\ Len(rollouts') \in Nat /\ Len(rollouts') = Len(rollouts) + 1
          /\ DOMAIN rollouts' = DOMAIN rollouts \cup {Len(rollouts')}
          /\ Len(rollouts') \notin DOMAIN rollouts /\ rollouts'[Len(rollouts')] = new
          /\ \A s \in DOMAIN rollouts : rollouts'[s] = rollouts[s]
      BY <1>1, <2>3, <2>4, Appends
    <3>2. \A s \in DOMAIN rollouts : s <= Len(rollouts) + 1
      BY <1>1
    <3> QED
      BY <3>1, <3>2
  <2>6. row \in WatchRows /\ row.at = "record" /\ row.run = n
    BY <2>2, <2>5 DEF WatchRows, WatchAts
  <2>7. Pending' = Pending /\ e \in InFlight(w) /\ e \in Pending
    BY <1>1, <1>2, <2>3, GroupStays DEF OneDriver
  <2>8. OneDriver'
    BY <1>1, <2>3, <2>6, <2>7, DriverStep
  <2>9. HasOrigin' /\ OpenInProgress'
    BY <1>1, <2>4, <2>5 DEF HasOrigin, OpenInProgress
  <2>10. \A f : Own(f)' = Own(f)
    BY <2>4, <2>5 DEF Own
  <2>11. Own(e) = {}
    BY <2>3 DEF RolloutInv, DispatchesAlone
  <2>12. /\ watch'[w][e] = row
         /\ \A v \in Watchers, f \in Entries : v # w \/ f # e => watch'[v][f] = watch[v][f]
    BY <1>1, <2>3, <2>6, WatchMoves
  <2>13. \A v \in Watchers : v # w => watch'[v][e].at = "none"
    <3> SUFFICES ASSUME NEW v \in Watchers, v # w PROVE watch'[v][e].at = "none"
      OBVIOUS
    <3>1. e \notin InFlight(v)
      BY <1>1, <2>7 DEF OneDriver
    <3> QED
      BY <1>2, <2>12, <3>1
  <2>14. \A f \in Entries : \A r : f # e /\ LastOf(f, r) => LastOf(f, r)'
    BY <2>4, <2>5 DEF LastOf
  <2>15. LastOf(e, n)'
    BY <2>5 DEF LastOf
  <2>16. ASSUME NEW v \in Watchers, NEW f \in Entries
         PROVE  /\ watch'[v][f].at \in {"record", "rollout", "late"} =>
                       /\ watch'[v][f].run \in DOMAIN rollouts'
                       /\ rollouts'[watch'[v][f].run].of = f
                /\ watch'[v][f].at \in {"trigger", "record"} => Own(f)' = {}
                /\ watch'[v][f].at = "record" =>
                       \A s \in DOMAIN rollouts' :
                           rollouts'[s].of = f => s <= watch'[v][f].run
    <3>1. CASE v = w /\ f = e
      <4>1. watch'[v][f].run = n
        BY <2>6, <2>12, <3>1
      <4> QED
        BY <2>4, <2>5, <2>10, <2>11, <2>15, <3>1, <4>1 DEF LastOf
    <3>2. CASE v # w /\ f = e
      BY <2>13, <3>2
    <3>3. CASE f # e
      <4>1. watch'[v][f] = watch[v][f]
        BY <2>12, <3>3
      <4>2. /\ watch[v][f].at \in {"record", "rollout", "late"} =>
                   watch[v][f].run \in DOMAIN rollouts /\ rollouts[watch[v][f].run].of = f
            /\ watch[v][f].at \in {"trigger", "record"} => Own(f) = {}
            /\ watch[v][f].at = "record" => LastOf(f, watch[v][f].run)
        BY DEF RolloutInv, AtItsRollout, DispatchesAlone, RecordsLast
      <4> QED
        BY <2>4, <2>5, <2>10, <3>3, <4>1, <4>2 DEF LastOf
    <3> QED
      BY <3>1, <3>2, <3>3
  <2>17. AtItsRollout' /\ DispatchesAlone' /\ RecordsLast'
    BY <2>16 DEF AtItsRollout, DispatchesAlone, RecordsLast, LastOf
  <2>18. OwnIsLast'
    <3> SUFFICES ASSUME NEW f \in Entries, NEW r \in Own(f)' PROVE LastOf(f, r)'
      BY DEF OwnIsLast, LastOf
    <3>1. r \in Own(f) /\ f # e
      BY <2>10, <2>11
    <3>2. LastOf(f, r)
      BY <3>1 DEF RolloutInv, OwnIsLast
    <3> QED
      BY <2>14, <3>1, <3>2
  <2> QED
    BY <2>8, <2>9, <2>17, <2>18 DEF RolloutInv
<1>21. ASSUME NEW w \in Watchers, NEW e \in Entries,
              RecordDeployment(w, e) \/ CloseDeployment(w, e)
       PROVE  RolloutInv'
  <2>1. PICK r : r = watch[w][e].run
    OBVIOUS
  <2>2. watch[w][e].at \in {"record", "rollout", "late"} /\ UNCHANGED groupVars
    BY <1>21 DEF RecordDeployment, CloseDeployment
  <2>3. r \in DOMAIN rollouts /\ rollouts[r].of = e
    BY <1>1, <2>1, <2>2 DEF AtItsRollout
  <2>4. Pending' = Pending /\ e \in InFlight(w) /\ e \in Pending
    BY <1>1, <1>2, <2>2, GroupStays DEF OneDriver
  <2>5. CASE RecordDeployment(w, e)
    <3>1. /\ Go(w, e, "rollout") /\ watch[w][e].at = "record" /\ "rollout" \in WatchAts
          /\ Upsert(r, "in_progress", "promote") \/ UNCHANGED rollouts
      BY <2>1, <2>5 DEF RecordDeployment, WatchAts
    <3>2. PICK row \in WatchRows : /\ watch' = [watch EXCEPT ![w][e] = row]
                                   /\ row.at = "rollout" /\ row.run = r
      BY <2>1, <3>1, GoesTo
    <3>3. CASE UNCHANGED rollouts
      BY <1>4, <2>3, <2>4, <3>2, <3>3
    <3>4. CASE Upsert(r, "in_progress", "promote")
      <4>1. "in_progress" \in NodeStates \ {"none"}
        BY DEF NodeStates
      <4>2. /\ HasOrigin' /\ OpenInProgress' /\ DOMAIN rollouts' = DOMAIN rollouts
            /\ \A s \in DOMAIN rollouts : rollouts'[s].of = rollouts[s].of
            /\ \A f : Own(f)' \subseteq Own(f) \cup {r}
            /\ \A f : f # e => Own(f)' \subseteq Own(f)
        BY <1>15, <2>3, <3>4, <4>1
      <4>3. OneDriver'
        BY <1>1, <2>4, <3>2, DriverStep
      <4>4. Own(e) = {} /\ LastOf(e, r)
        BY <2>1, <3>1 DEF RolloutInv, DispatchesAlone, RecordsLast
      <4>5. /\ watch'[w][e] = row
            /\ \A v \in Watchers, f \in Entries :
                  v # w \/ f # e => watch'[v][f] = watch[v][f]
        BY <1>1, <3>2
      <4>6. ASSUME NEW v \in Watchers
            PROVE  watch'[v][e].at \notin {"trigger", "record"}
        <5>1. CASE v = w
          BY <3>2, <4>5, <5>1
        <5>2. CASE v # w
          <6>1. e \notin InFlight(v)
            BY <1>1, <2>4, <5>2 DEF OneDriver
          <6> QED
            BY <1>2, <4>5, <5>2, <6>1
        <5> QED
          BY <5>1, <5>2
      <4>7. ASSUME NEW f \in Entries
            PROVE  \/ Own(f)' \subseteq Own(f)
                   \/ /\ \A s \in Own(f)' : LastOf(f, s)
                      /\ \A v \in Watchers : watch'[v][f].at \notin {"trigger", "record"}
        <5>1. CASE f = e
          BY <4>2, <4>4, <4>6, <5>1
        <5>2. CASE f # e
          BY <4>2, <5>2
        <5> QED
          BY <5>1, <5>2
      <4>8. ASSUME NEW v \in Watchers, NEW f \in Entries
            PROVE  \/ watch'[v][f] = watch[v][f]
                   \/ /\ watch'[v][f].at = "rollout" /\ watch'[v][f].run \in DOMAIN rollouts
                      /\ rollouts[watch'[v][f].run].of = f
        <5>1. CASE v = w /\ f = e
          BY <2>3, <3>2, <4>5, <5>1
        <5>2. CASE v # w \/ f # e
          BY <4>5, <5>2
        <5> QED
          BY <5>1, <5>2
      <4> QED
        BY <4>2, <4>3, <4>7, <4>8, RolloutStep
    <3> QED
      BY <3>1, <3>3, <3>4
  <2>6. CASE CloseDeployment(w, e)
    <3>1. PICK status \in {"success", "failed"}, at \in {"success", "deploy_failed"} :
              /\ Upsert(r, status, "promote-watcher") \/ UNCHANGED rollouts
              /\ Go(w, e, at)
      BY <2>1, <2>6 DEF CloseDeployment
    <3>2. at \in WatchAts /\ status \in NodeStates \ {"none"}
      BY DEF WatchAts, Outcomes, NodeStates
    <3>3. PICK row \in WatchRows : watch' = [watch EXCEPT ![w][e] = row] /\ row.at = at
      BY <3>1, <3>2, GoesTo
    <3>4. CASE UNCHANGED rollouts
      BY <1>4, <2>4, <3>3, <3>4
    <3>5. CASE Upsert(r, status, "promote-watcher")
      <4>1. /\ HasOrigin' /\ OpenInProgress' /\ DOMAIN rollouts' = DOMAIN rollouts
            /\ \A s \in DOMAIN rollouts : rollouts'[s].of = rollouts[s].of
            /\ \A f : Own(f)' \subseteq Own(f)
        BY <1>15, <2>3, <3>2, <3>5
      <4>2. OneDriver'
        BY <1>1, <2>4, <3>3, DriverStep
      <4>3. ASSUME NEW v \in Watchers, NEW f \in Entries
            PROVE  \/ watch'[v][f] = watch[v][f]
                   \/ watch'[v][f].at \in {"success", "deploy_failed"}
        BY <1>1, <3>1, <3>3
      <4> QED
        BY <4>1, <4>2, <4>3, RolloutStep
    <3> QED
      BY <3>1, <3>4, <3>5
  <2> QED
    BY <1>21, <2>5, <2>6
(* A worker dies, or its consumer loop ends.                               *)
<1>22. ASSUME NEW w \in Watchers, CrashWatcher(w) \/ \E e \in Entries : RetireRaises(w, e)
       PROVE  RolloutInv'
  <2>1. /\ UNCHANGED rollouts
        /\ watch' = [watch EXCEPT ![w] = [e \in Entries |-> Away]]
    BY <1>22 DEF CrashWatcher, RetireRaises
  <2>2. \A v \in Watchers, f \in Entries :
           watch'[v][f] = watch[v][f] \/ watch'[v][f].at = "none"
    BY <1>1, <2>1, AwayRow
  <2>3. \A v \in Watchers : InFlight(v)' \subseteq InFlight(v)
    BY <2>2 DEF InFlight
  <2>4. Pending' = Pending
    BY <1>1, <1>22, GroupStays, RaisesStays DEF CrashWatcher
  <2>5. OneDriver'
    BY <1>1, <2>3, <2>4 DEF OneDriver
  <2>6. HasOrigin' /\ OpenInProgress' /\ \A f : Own(f)' = Own(f)
    BY <1>1, <2>1 DEF HasOrigin, OpenInProgress, Own
  <2> QED
    BY <2>1, <2>2, <2>5, <2>6, RolloutStep
<1> QED
  BY <1>5, <1>6, <1>7, <1>8, <1>9, <1>10, <1>11, <1>12, <1>13, <1>14, <1>17, <1>18,
     <1>19, <1>20, <1>21, <1>22, PromoteNextCases

(* The initial state.                                                      *)
LEMMA PromoteStarts ==
    ASSUME PromoteInit
    PROVE  PromoteTypes /\ RolloutInv
  <1>1. GroupTypes /\ rollouts = <<>>
    BY GroupStarts DEF PromoteInit
  <1>2. rollouts \in Seq(RolloutRows) /\ DOMAIN rollouts = {}
    BY <1>1
  <1>3. /\ watch \in [Watchers -> [Entries -> WatchRows]]
        /\ \A w \in Watchers, e \in Entries : watch[w][e].at = "none"
    BY AwayRow DEF PromoteInit
  <1>4. /\ abandoning \in [Watchers -> SUBSET (1..added)]
        /\ asked \in [Entries -> {"no", "queued", "answered"}]
        /\ build \in [Entries -> {"none", "running"} \cup Ended]
    BY DEF PromoteInit
  <1>5. RolloutInv
    BY <1>2, <1>3 DEF RolloutInv, AtItsRollout, HasOrigin, OpenInProgress, OneDriver,
                      InFlight, DispatchesAlone, RecordsLast, OwnIsLast, Own
  <1> QED
    BY <1>1, <1>2, <1>3, <1>4, <1>5 DEF PromoteTypes

(* The entries that the state names have been added, and the rollouts that *)
(* are watched are there.                                                  *)
InBounds ==
    /\ blocked \subseteq 1..added
    /\ \A r \in DOMAIN rollouts : rollouts[r].of \in 1..added
    /\ \A w \in Watchers, e \in Entries : watch[w][e].run \in {0} \cup DOMAIN rollouts

LEMMA InBoundsStay ==
    ASSUME InBounds, 1..added \subseteq 1..added', blocked' \subseteq blocked \cup 1..added',
           DOMAIN rollouts \subseteq DOMAIN rollouts',
           \A r \in DOMAIN rollouts' :
               \/ rollouts'[r].of \in 1..added'
               \/ r \in DOMAIN rollouts /\ rollouts'[r].of = rollouts[r].of,
           \A w \in Watchers, e \in Entries :
               watch'[w][e].run \in {0, watch[w][e].run} \cup DOMAIN rollouts'
    PROVE  InBounds'
  BY DEF InBounds

LEMMA RunsOf ==
    ASSUME PromoteTypes, NEW w \in Watchers, NEW e \in Entries, NEW row \in WatchRows,
           watch' = [watch EXCEPT ![w][e] = row],
           row.run \in {0, watch[w][e].run} \cup DOMAIN rollouts'
    PROVE  \A v \in Watchers, f \in Entries :
               watch'[v][f].run \in {0, watch[v][f].run} \cup DOMAIN rollouts'
  BY WatchMoves

LEMMA InBoundsStep ==
    ASSUME PromoteTypes, RolloutInv, InBounds, [PromoteNext]_<<promoteVars, groupVars>>
    PROVE  InBounds'
<1>1. /\ GroupTypes /\ rollouts \in Seq(RolloutRows) /\ Away.run = 0 /\ Away \in WatchRows
      /\ \A r \in DOMAIN rollouts : rollouts[r] \in RolloutRows
      /\ \A w \in Watchers, e \in Entries : watch[w][e] \in WatchRows
  BY AwayRow DEF PromoteTypes, Away
<1>2. \A w \in Watchers, e \in Entries : watch[w][e].at # "none" => e \in 1..added
  BY <1>1 DEF RolloutInv, OneDriver, InFlight, GroupTypes
<1>3. CASE \/ StartPromote \/ PauseEnds \/ UNCHANGED <<promoteVars, groupVars>>
           \/ \E e \in Entries : AnswerPromote(e) \/ BuildEnds(e)
           \/ \E w \in Watchers, e \in Entries : RetirePromote(w, e) \/ PollRunning(w, e)
                                                 \/ PollRollout(w, e)
  <2>1. UNCHANGED <<rollouts, watch, blocked>>
    BY <1>3 DEF StartPromote, PauseEnds, promoteVars, AnswerPromote, BuildEnds,
                RetirePromote, PollRunning, PollRollout
  <2>2. added' = added \/ XAdd
    BY <1>3 DEF StartPromote, PauseEnds, groupVars, AnswerPromote, BuildEnds,
                RetirePromote, PollRunning, PollRollout, DeadLetter
  <2>3. 1..added \subseteq 1..added'
    BY <1>1, <2>2 DEF XAdd, GroupTypes
  <2> QED
    BY <2>1, <2>3 DEF InBounds
<1>4. ASSUME NEW r \in DOMAIN rollouts, RolloutEnds(r) \/ Webhook(r)
      PROVE  InBounds'
  <2>1. UNCHANGED <<watch, blocked, added>>
    BY <1>4 DEF RolloutEnds, Webhook, groupVars
  <2>2. CASE RolloutEnds(r)
    <3>1. PICK o \in Ended : rollouts' = [rollouts EXCEPT ![r].remote = o]
      BY <2>2 DEF RolloutEnds
    <3>2. /\ DOMAIN rollouts' = DOMAIN rollouts
          /\ \A s \in DOMAIN rollouts : rollouts'[s].of = rollouts[s].of
      BY <1>1, <3>1 DEF RolloutRows
    <3> QED
      BY <2>1, <3>2 DEF InBounds
  <2>3. CASE Webhook(r)
    <3>1. PICK report \in NodeStates \ {"none"} : Upsert(r, report, "gateway")
      BY <1>1, <2>3, Reports DEF RolloutRows
    <3>2. /\ DOMAIN rollouts' = DOMAIN rollouts
          /\ \A s \in DOMAIN rollouts \ {r} : rollouts'[s] = rollouts[s]
          /\ rollouts'[r].of = rollouts[r].of
      BY <1>1, <1>4, <3>1, Upserts
    <3>3. \A s \in DOMAIN rollouts : rollouts'[s].of = rollouts[s].of
      BY <3>2
    <3> QED
      BY <2>1, <3>2, <3>3 DEF InBounds
  <2> QED
    BY <1>4, <2>2, <2>3
<1>5. ASSUME NEW w \in Watchers, NEW e \in Entries, Abandon(w, e) PROVE InBounds'
  <2>1. UNCHANGED <<watch, blocked, added>> /\ (UNCHANGED rollouts \/ Closes(e))
    BY <1>5 DEF Abandon, Closes, groupVars
  <2>2. /\ DOMAIN rollouts' = DOMAIN rollouts
        /\ \A r \in DOMAIN rollouts : rollouts'[r].of = rollouts[r].of
    BY <1>1, <2>1, ClosesThem
  <2> QED
    BY <2>1, <2>2 DEF InBounds
<1>6. ASSUME NEW w \in Watchers, ReadPromote(w) \/ CrashWatcher(w)
             \/ \E e \in Entries :
                   \/ ClaimPromote(w, e) \/ PollFailure(w, e) \/ PollSuccess(w, e)
                   \/ LookForDeployment(w, e) \/ GiveUpRollout(w, e) \/ MarkOutcome(w, e)
                   \/ AckPromote(w, e) \/ PollRaises(w, e) \/ CompletionRaises(w, e)
                   \/ RetireRaises(w, e)
      PROVE  InBounds'
  <2>1. UNCHANGED <<rollouts, added>>
    BY <1>6 DEF ReadPromote, CrashWatcher, ClaimPromote, PollFailure, PollSuccess,
                LookForDeployment, GiveUpRollout, MarkOutcome, AckPromote, PollRaises,
                CompletionRaises, RetireRaises, groupVars, XReadGroup, XAutoClaim, XAck
  <2>2. blocked' \subseteq blocked \cup 1..added
    BY <1>2, <1>6 DEF ReadPromote, CrashWatcher, ClaimPromote, PollFailure, PollSuccess,
                LookForDeployment, GiveUpRollout, MarkOutcome, AckPromote, PollRaises,
                CompletionRaises, RetireRaises
  <2>3. \A v \in Watchers, f \in Entries :
            watch'[v][f].run \in {0, watch[v][f].run} \cup DOMAIN rollouts'
    <3>1. CASE CrashWatcher(w) \/ \E e \in Entries : RetireRaises(w, e)
      <4>1. watch' = [watch EXCEPT ![w] = [e \in Entries |-> Away]]
        BY <3>1 DEF CrashWatcher, RetireRaises
      <4> QED
        BY <1>1, <4>1 DEF PromoteTypes
    <3>2. CASE ReadPromote(w) \/ \E e \in Entries : ClaimPromote(w, e)
      <4> unread \subseteq Entries
        BY <1>1, GroupAssumption DEF GroupTypes, Entries
      <4>1. PICK e \in Entries : Spawn(w, e)
        BY <3>2 DEF ReadPromote, ClaimPromote
      <4>2. watch' = [watch EXCEPT ![w][e] =
                         IF e \in InFlight(w) THEN watch[w][e] ELSE [Away EXCEPT !.at = "build"]]
        BY <4>1 DEF Spawn
      <4>3. PICK row : row = IF e \in InFlight(w) THEN watch[w][e]
                             ELSE [Away EXCEPT !.at = "build"]
        OBVIOUS
      <4>4. row \in WatchRows /\ row.run \in {0, watch[w][e].run}
        BY <1>1, <4>3 DEF Away, WatchRows, WatchAts
      <4> QED
        BY <4>2, <4>3, <4>4, RunsOf
    <3>3. ASSUME NEW e \in Entries, NEW at \in WatchAts, Go(w, e, at)
          PROVE  \A v \in Watchers, f \in Entries :
                     watch'[v][f].run \in {0, watch[v][f].run} \cup DOMAIN rollouts'
      BY <3>3, GoesTo, RunsOf
    <3>4. ASSUME NEW e \in Entries, Leave(w, e)
          PROVE  \A v \in Watchers, f \in Entries :
                     watch'[v][f].run \in {0, watch[v][f].run} \cup DOMAIN rollouts'
      BY <1>1, <3>4, RunsOf DEF Leave
    <3>5. ASSUME NEW e \in Entries, NEW r \in Reusable(e),
                 watch' = [watch EXCEPT ![w][e] = [at |-> "rollout", run |-> r]]
          PROVE  \A v \in Watchers, f \in Entries :
                     watch'[v][f].run \in {0, watch[v][f].run} \cup DOMAIN rollouts'
      BY <2>1, <3>5 DEF Reusable, PromoteTypes
    <3>6. \/ CrashWatcher(w) \/ ReadPromote(w)
          \/ \E e \in Entries : ClaimPromote(w, e) \/ RetireRaises(w, e)
          \/ \E e \in Entries : \/ \E at \in WatchAts : Go(w, e, at)
                                \/ Leave(w, e)
                                \/ \E r \in Reusable(e) :
                                     watch' = [watch EXCEPT ![w][e] = [at |-> "rollout", run |-> r]]
      BY <1>6 DEF PollFailure, PollSuccess, LookForDeployment, GiveUpRollout, MarkOutcome,
                  AckPromote, PollRaises, CompletionRaises, WatchAts, Outcomes
    <3> QED
      BY <3>1, <3>2, <3>3, <3>4, <3>5, <3>6
  <2> QED
    BY <2>1, <2>2, <2>3, InBoundsStay
<1>7. ASSUME NEW w \in Watchers, NEW e \in Entries, TriggerDeployment(w, e)
      PROVE  InBounds'
  <2>1. PICK row : row = [of |-> e, remote |-> "running", node |-> "none",
                          origin |-> "none", closed |-> FALSE]
    OBVIOUS
  <2>2. UNCHANGED <<blocked, added>> /\ rollouts' = Append(rollouts, row)
    BY <1>7, <2>1 DEF TriggerDeployment, groupVars
  <2>3. row \in RolloutRows /\ row.of = e
    BY <2>1 DEF RolloutRows, NodeStates
  <2>4. PICK n \in Nat :
            /\ n = Len(rollouts') /\ DOMAIN rollouts' = DOMAIN rollouts \cup {n}
            /\ rollouts'[n] = row /\ \A s \in DOMAIN rollouts : rollouts'[s] = rollouts[s]
    BY <1>1, <2>2, <2>3, Appends
  <2>5. watch' = [watch EXCEPT ![w][e] = [at |-> "record", run |-> n]]
    BY <1>7, <2>4 DEF TriggerDeployment
  <2>6. e \in 1..added
    BY <1>2, <1>7 DEF TriggerDeployment
  <2>7. \A v \in Watchers, f \in Entries :
            watch'[v][f].run \in {0, watch[v][f].run} \cup DOMAIN rollouts'
    <3>1. PICK mine : mine = [at |-> "record", run |-> n]
      OBVIOUS
    <3>2. mine \in WatchRows /\ mine.run \in DOMAIN rollouts'
      BY <2>4, <3>1 DEF WatchRows, WatchAts
    <3> QED
      BY <2>5, <3>1, <3>2, RunsOf
  <2>8. \A r \in DOMAIN rollouts' :
            \/ rollouts'[r].of \in 1..added'
            \/ r \in DOMAIN rollouts /\ rollouts'[r].of = rollouts[r].of
    BY <2>2, <2>3, <2>4, <2>6
  <2>9. DOMAIN rollouts \subseteq DOMAIN rollouts' /\ 1..added \subseteq 1..added'
        /\ blocked' \subseteq blocked \cup 1..added'
    BY <2>2, <2>4
  <2> QED
    BY <2>7, <2>8, <2>9, InBoundsStay
<1>8. ASSUME NEW w \in Watchers, NEW e \in Entries,
             RecordDeployment(w, e) \/ CloseDeployment(w, e)
      PROVE  InBounds'
  <2>1. UNCHANGED <<blocked, added>>
    BY <1>8 DEF RecordDeployment, CloseDeployment, groupVars
  <2>2. watch[w][e].run \in DOMAIN rollouts
    BY <1>8 DEF RecordDeployment, CloseDeployment, RolloutInv, AtItsRollout
  <2>3. \/ rollouts' = rollouts
        \/ \E status \in NodeStates \ {"none"}, source \in {"promote", "promote-watcher"} :
              Upsert(watch[w][e].run, status, source)
    BY <1>8 DEF RecordDeployment, CloseDeployment, NodeStates
  <2>4. /\ DOMAIN rollouts' = DOMAIN rollouts
        /\ \A s \in DOMAIN rollouts : rollouts'[s].of = rollouts[s].of
    <3>1. CASE rollouts' = rollouts
      BY <3>1
    <3>2. ASSUME NEW status \in NodeStates \ {"none"},
                 NEW source \in {"promote", "promote-watcher"},
                 Upsert(watch[w][e].run, status, source)
          PROVE  /\ DOMAIN rollouts' = DOMAIN rollouts
                 /\ \A s \in DOMAIN rollouts : rollouts'[s].of = rollouts[s].of
      <4>1. /\ DOMAIN rollouts' = DOMAIN rollouts
            /\ \A s \in DOMAIN rollouts \ {watch[w][e].run} : rollouts'[s] = rollouts[s]
            /\ rollouts'[watch[w][e].run].of = rollouts[watch[w][e].run].of
        BY <1>1, <2>2, <3>2, Upserts
      <4> QED
        BY <4>1
    <3> QED
      BY <2>3, <3>1, <3>2
  <2>5. \E at \in WatchAts : Go(w, e, at)
    BY <1>8 DEF RecordDeployment, CloseDeployment, WatchAts, Outcomes
  <2>6. \A v \in Watchers, f \in Entries :
            watch'[v][f].run \in {0, watch[v][f].run} \cup DOMAIN rollouts'
    BY <2>5, GoesTo, RunsOf
  <2> QED
    BY <2>1, <2>4, <2>6, InBoundsStay
<1> QED
  BY <1>3, <1>4, <1>5, <1>6, <1>7, <1>8, PromoteNextCases

(* The types of the promote queue: what was recorded, watched or blocked   *)
(* belongs to entries that were added, and a node has an origin.           *)
THEOREM PromoteTyping ==
    ASSUME "stall" \notin PromoteFaults
    PROVE  PromoteSpec => []PromoteTypeOK
<1>1. PromoteInit => PromoteTypes /\ RolloutInv /\ InBounds
  <2> SUFFICES ASSUME PromoteInit PROVE InBounds
    BY PromoteStarts
  <2>1. \A w \in Watchers, e \in Entries : watch[w][e].run = 0
    BY DEF PromoteInit, Away
  <2> QED
    BY <2>1 DEF PromoteInit, InBounds
<1>2. PromoteTypes /\ RolloutInv /\ InBounds /\ [PromoteNext]_<<promoteVars, groupVars>>
      => (PromoteTypes /\ RolloutInv /\ InBounds)'
  BY PromoteTypesStep, RolloutInvStep, InBoundsStep DEF RolloutInv
<1>3. PromoteTypes /\ RolloutInv /\ InBounds => PromoteTypeOK
  <2> SUFFICES ASSUME PromoteTypes, RolloutInv, InBounds PROVE PromoteTypeOK
    OBVIOUS
  <2>1. /\ asked \in [Entries -> {"no", "queued", "answered"}]
        /\ DOMAIN rollouts = 1..Len(rollouts) /\ Len(rollouts) \in Nat
        /\ added \in Nat /\ Pending \subseteq 1..added
    BY GroupAssumption DEF PromoteTypes, GroupTypes
  <2>2. \A r \in DOMAIN rollouts : (rollouts[r].node = "none") = (rollouts[r].origin = "none")
    BY DEF RolloutInv, HasOrigin
  <2>3. \A w \in Watchers, e \in Entries : watch[w][e].run \in 0..Len(rollouts)
    BY <2>1 DEF InBounds
  <2>4. \A w \in Watchers, e \in Entries : e \in InFlight(w) => e <= added
    BY <2>1 DEF RolloutInv, OneDriver
  <2> QED
    BY <2>1, <2>2, <2>3, <2>4 DEF InBounds, PromoteTypeOK
<1> QED
  BY <1>1, <1>2, <1>3, PTL DEF PromoteSpec

(* Where no claim lapses while a worker drives the entry, what a watch has *)
(* recorded is reused: a promote has a second Deployment only if each      *)
(* earlier one was never recorded by its watch (which died or failed after *)
(* the dispatch, or came after the gateway), or has had its node closed.   *)
(* This holds however late, and in whatever order, the gateway reports.    *)
THEOREM ReusesWhatIsInFlight ==
    ASSUME "stall" \notin PromoteFaults
    PROVE  PromoteSpec => []RecordedIsReused
<1>1. PromoteInit => PromoteTypes /\ RolloutInv
  BY PromoteStarts
<1>2. PromoteTypes /\ RolloutInv /\ [PromoteNext]_<<promoteVars, groupVars>>
      => (PromoteTypes /\ RolloutInv)'
  BY PromoteTypesStep, RolloutInvStep DEF RolloutInv
<1>3. PromoteTypes /\ RolloutInv => RecordedIsReused
  <2> SUFFICES ASSUME PromoteTypes, RolloutInv,
                      NEW r \in DOMAIN rollouts, NEW s \in DOMAIN rollouts,
                      r < s, rollouts[r].of = rollouts[s].of,
                      rollouts[r].origin = "promote"
               PROVE  rollouts[r].closed
    BY DEF RecordedIsReused
  <2>1. rollouts[r].of \in Entries /\ r \in Nat /\ s \in Nat
    <3>1. rollouts \in Seq(RolloutRows)
      BY DEF PromoteTypes
    <3>2. rollouts[r] \in RolloutRows /\ r \in Nat /\ s \in Nat
      BY <3>1
    <3> QED
      BY <3>2 DEF RolloutRows
  <2>2. SUFFICES ASSUME ~rollouts[r].closed PROVE FALSE
    OBVIOUS
  <2>3. r \in Own(rollouts[r].of)
    BY <2>2 DEF Own
  <2>4. s <= r
    BY <2>1, <2>3 DEF RolloutInv, OwnIsLast, LastOf
  <2> QED
    BY <2>1, <2>4
<1> QED
  BY <1>1, <1>2, <1>3, PTL DEF PromoteSpec

(* What a worker does with an entry leaves every promote that is shown as  *)
(* going on in the queue.                                                  *)
LEMMA SpinStep ==
    ASSUME PromoteTypes, OneDriver, SpinInv, NEW w \in Watchers, NEW e \in Entries,
           NEW row \in WatchRows, watch' = [watch EXCEPT ![w][e] = row],
           e \in InFlight(w) \/ \A v \in Watchers : e \notin InFlight(v),
           UNCHANGED <<asked, build, abandoning, added>>,
           (unread \cup Pending)' \subseteq unread \cup Pending,
           (unread \cup Pending) \ {e} \subseteq (unread \cup Pending)',
           row.at \notin {"none", "build"} => asked[e] = "answered",
           promoteStatus' = promoteStatus \/ promoteStatus'.of = e,
           row.at = "ack" /\ promoteStatus'.of = e => promoteStatus'.state \in Outcomes,
           \/ e \in (unread \cup Pending)'
           \/ /\ promoteStatus' = promoteStatus /\ asked[e] = "answered"
              /\ promoteStatus.of = e => promoteStatus.state \in Outcomes
    PROVE  SpinInv'
  <1>1. /\ watch'[w][e] = row
        /\ \A v \in Watchers, f \in Entries : v # w \/ f # e => watch'[v][f] = watch[v][f]
    BY DEF PromoteTypes
  <1>2. \A v \in Watchers : v # w => watch'[v][e].at = "none"
    <2> SUFFICES ASSUME NEW v \in Watchers, v # w PROVE watch'[v][e].at = "none"
      OBVIOUS
    <2>1. e \notin InFlight(v)
      BY DEF OneDriver
    <2> QED
      BY <1>1, <2>1 DEF InFlight
  <1>3. EndsAnswered'
    <2> SUFFICES ASSUME NEW f \in Entries
                 PROVE  /\ f <= added => build[f] # "none"
                        /\ build[f] \in Ended => asked[f] = "answered"
                        /\ asked[f] = "queued" => f \in (unread \cup Pending)'
                        /\ \A v \in Watchers : watch'[v][f].at \notin {"none", "build"}
                                                  => asked[f] = "answered"
      BY DEF EndsAnswered
    <2>1. /\ f <= added => build[f] # "none"
          /\ build[f] \in Ended => asked[f] = "answered"
          /\ asked[f] = "queued" => f \in unread \cup Pending
          /\ \A v \in Watchers : watch[v][f].at \notin {"none", "build"}
                                    => asked[f] = "answered"
      BY DEF SpinInv, EndsAnswered
    <2>2. asked[f] = "queued" => f \in (unread \cup Pending)'
      BY <2>1
    <2>3. ASSUME NEW v \in Watchers, watch'[v][f].at \notin {"none", "build"}
          PROVE  asked[f] = "answered"
      <3>1. CASE v = w /\ f = e
        BY <1>1, <2>3, <3>1
      <3>2. CASE v # w \/ f # e
        BY <1>1, <2>1, <2>3, <3>2
      <3> QED
        BY <3>1, <3>2
    <2> QED
      BY <2>1, <2>2, <2>3
  <1>4. AcksMarked'
    <2> SUFFICES ASSUME NEW v \in Watchers, NEW f \in Entries, watch'[v][f].at = "ack",
                        promoteStatus'.of = f
                 PROVE  promoteStatus'.state \in Outcomes
      BY DEF AcksMarked
    <2>1. CASE f = e
      BY <1>1, <1>2, <2>1
    <2>2. CASE f # e
      BY <1>1, <2>2 DEF SpinInv, AcksMarked
    <2> QED
      BY <2>1, <2>2
  <1>5. GivenUp'
    BY DEF SpinInv, GivenUp
  <1>6. NoSpinner'
    <2> SUFFICES ASSUME NEW f \in Entries, promoteStatus'.of = f, asked[f] = "answered",
                        f \notin (unread \cup Pending)',
                        \A v \in Watchers : f \notin abandoning[v]
                 PROVE  promoteStatus'.state \in Outcomes
      BY DEF NoSpinner
    <2>1. CASE f = e
      BY <2>1
    <2>2. CASE f # e
      BY <2>2 DEF SpinInv, NoSpinner
    <2> QED
      BY <2>1, <2>2
  <1> QED
    BY <1>3, <1>4, <1>5, <1>6 DEF SpinInv

(* Where the endpoint has answered before a build ends, no claim lapses    *)
(* while a worker drives the entry, and no worker dies between giving up a *)
(* job and saying so, the project never shows as going on what nobody      *)
(* watches any more: the watch of it ends with an outcome, or its entry is *)
(* still in the queue.                                                     *)
THEOREM ShownIsWatched ==
    ASSUME PromoteFaults \cap {"stall", "early", "abandon"} = {}
    PROVE  PromoteSpec => []NoSpinner
<1> DEFINE Queued == unread \cup Pending
<1>1. PromoteInit => PromoteTypes /\ RolloutInv /\ SpinInv
  <2> SUFFICES ASSUME PromoteInit PROVE SpinInv
    BY PromoteStarts
  <2>1. \A w \in Watchers, e \in Entries : watch[w][e].at = "none"
    BY AwayRow DEF PromoteInit
  <2>2. /\ promoteStatus.of = 0 /\ added = 0
        /\ \A e \in Entries : asked[e] = "no" /\ build[e] = "none"
        /\ \A w \in Watchers : abandoning[w] = {}
    BY DEF PromoteInit, GroupInit
  <2>3. EndsAnswered
    BY <2>1, <2>2 DEF EndsAnswered, Ended, Entries
  <2> QED
    BY <2>1, <2>2, <2>3 DEF SpinInv, AcksMarked, GivenUp, NoSpinner, Entries
<1>2. PromoteTypes /\ RolloutInv /\ SpinInv /\ [PromoteNext]_<<promoteVars, groupVars>>
      => SpinInv'
  <2> SUFFICES ASSUME PromoteTypes, RolloutInv, SpinInv,
                      [PromoteNext]_<<promoteVars, groupVars>>
               PROVE  SpinInv'
    OBVIOUS
  <2>1. /\ GroupTypes /\ OneDriver /\ abandoning \in [Watchers -> SUBSET (1..added)]
        /\ EndsAnswered /\ AcksMarked /\ GivenUp /\ NoSpinner
    BY DEF PromoteTypes, RolloutInv, SpinInv
  <2>2. /\ \A w \in Watchers, e \in Entries : e \in InFlight(w) <=> watch[w][e].at # "none"
        /\ \A w \in Watchers : InFlight(w) \subseteq Pending
        /\ \A e \in Entries : Answered(e) => asked[e] = "answered"
    BY <2>1 DEF InFlight, OneDriver, Answered
  <2>3. CASE StartPromote
    <3>1. PICK new : new = added'
      OBVIOUS
    <3>2. /\ added' = new /\ unread' = unread \cup {new} /\ Pending' = Pending
          /\ new \in Entries /\ new \notin 1..added /\ new \notin Queued
          /\ new = added + 1 /\ added \in Nat
      BY <2>1, <2>3, <3>1, AddsOne DEF StartPromote, GroupTypes
    <3>3. /\ asked' = [asked EXCEPT ![new] = "queued"]
          /\ build' = [build EXCEPT ![new] = "running"]
          /\ UNCHANGED <<promoteStatus, watch, abandoning>>
      BY <2>3, <3>1 DEF StartPromote
    <3>4. /\ asked'[new] = "queued" /\ build'[new] = "running"
          /\ \A e \in Entries \ {new} : asked'[e] = asked[e] /\ build'[e] = build[e]
      BY <3>2, <3>3 DEF PromoteTypes
    <3>5. \A w \in Watchers : watch[w][new].at = "none"
      BY <2>2, <3>2
    <3>6. \A e \in Entries : e <= added' /\ e # new => e <= added
      BY <3>2 DEF Entries
    <3>7. EndsAnswered'
      <4> SUFFICES ASSUME NEW e \in Entries
                   PROVE  /\ e <= added' => build'[e] # "none"
                          /\ build'[e] \in Ended => asked'[e] = "answered"
                          /\ asked'[e] = "queued" => e \in Queued'
                          /\ \A w \in Watchers : watch'[w][e].at \notin {"none", "build"}
                                => asked'[e] = "answered"
        BY DEF EndsAnswered
      <4>1. CASE e = new
        BY <3>2, <3>3, <3>4, <3>5, <4>1 DEF Ended
      <4>2. CASE e # new
        BY <2>1, <3>2, <3>3, <3>4, <3>6, <4>2 DEF EndsAnswered
      <4> QED
        BY <4>1, <4>2
    <3>8. AcksMarked'
      BY <2>1, <3>3 DEF AcksMarked
    <3>9. GivenUp'
      BY <2>1, <3>2, <3>3 DEF GivenUp
    <3>10. NoSpinner'
      BY <2>1, <3>2, <3>3, <3>4 DEF NoSpinner
    <3> QED
      BY <3>7, <3>8, <3>9, <3>10 DEF SpinInv
  <2>4. ASSUME NEW e \in Entries, AnswerPromote(e) PROVE SpinInv'
    <3>1. /\ asked[e] = "queued" /\ asked' = [asked EXCEPT ![e] = "answered"]
          /\ promoteStatus' = [of |-> e, state |-> "building"]
          /\ UNCHANGED <<build, watch, abandoning, groupVars>>
      BY <2>4 DEF AnswerPromote, Mark
    <3>2. added' = added /\ unread' = unread /\ Pending' = Pending
      BY <2>1, <3>1, GroupStays
    <3>3. /\ asked'[e] = "answered"
          /\ \A f \in Entries \ {e} : asked'[f] = asked[f]
      BY <3>1 DEF PromoteTypes
    <3>4. e \in Queued /\ \A w \in Watchers : watch[w][e].at # "ack"
      BY <2>1, <3>1 DEF EndsAnswered
    <3>5. EndsAnswered'
      BY <2>1, <3>1, <3>2, <3>3 DEF EndsAnswered
    <3>6. AcksMarked'
      BY <2>1, <3>1, <3>4 DEF AcksMarked
    <3>7. GivenUp' /\ NoSpinner'
      BY <2>1, <3>1, <3>2, <3>4 DEF GivenUp, NoSpinner
    <3> QED
      BY <3>5, <3>6, <3>7 DEF SpinInv
  <2>5. ASSUME NEW e \in Entries, BuildEnds(e) PROVE SpinInv'
    <3>1. /\ asked[e] = "answered" /\ \E r \in Ended : build' = [build EXCEPT ![e] = r]
          /\ UNCHANGED <<asked, promoteStatus, watch, abandoning, groupVars>>
      BY <2>2, <2>5 DEF BuildEnds
    <3>2. added' = added /\ unread' = unread /\ Pending' = Pending
      BY <2>1, <3>1, GroupStays
    <3>3. /\ build'[e] # "none"
          /\ \A f \in Entries \ {e} : build'[f] = build[f]
      BY <3>1 DEF PromoteTypes, Ended
    <3>4. EndsAnswered'
      BY <2>1, <3>1, <3>2, <3>3 DEF EndsAnswered
    <3> QED
      BY <2>1, <3>1, <3>2, <3>4 DEF SpinInv, AcksMarked, GivenUp, NoSpinner
  <2>6. ASSUME UNCHANGED <<asked, build, promoteStatus, watch, abandoning, groupVars>>
        PROVE  SpinInv'
    <3>1. added' = added /\ unread' = unread /\ Pending' = Pending
      BY <2>1, <2>6, GroupStays
    <3> QED
      BY <2>1, <2>6, <3>1 DEF SpinInv, EndsAnswered, AcksMarked, GivenUp, NoSpinner
  <2>7. CASE PauseEnds \/ UNCHANGED <<promoteVars, groupVars>>
    BY <2>6, <2>7 DEF PauseEnds, promoteVars
  <2>8. ASSUME NEW r \in DOMAIN rollouts, RolloutEnds(r) \/ Webhook(r) PROVE SpinInv'
    BY <2>6, <2>8 DEF RolloutEnds, Webhook
  <2>21. ASSUME NEW w \in Watchers,
                watch' = [watch EXCEPT ![w] = [e \in Entries |-> Away]],
                UNCHANGED <<asked, build, promoteStatus, abandoning>>,
                added' = added, unread' = unread, Pending' = Pending
         PROVE  SpinInv'
    <3>1. \A v \in Watchers, f \in Entries :
             watch'[v][f] = watch[v][f] \/ watch'[v][f].at = "none"
      BY <2>21, AwayRow DEF PromoteTypes
    <3>2. EndsAnswered'
      BY <2>1, <2>21, <3>1 DEF EndsAnswered
    <3>3. AcksMarked'
      BY <2>1, <2>21, <3>1 DEF AcksMarked
    <3> QED
      BY <2>1, <2>21, <3>2, <3>3 DEF SpinInv, GivenUp, NoSpinner
  <2>9. ASSUME NEW w \in Watchers, CrashWatcher(w) PROVE SpinInv'
    <3>1. /\ abandoning[w] = {} /\ abandoning' = [abandoning EXCEPT ![w] = {}]
          /\ watch' = [watch EXCEPT ![w] = [e \in Entries |-> Away]]
          /\ UNCHANGED <<asked, build, promoteStatus, groupVars>>
      BY <2>9 DEF CrashWatcher
    <3>2. added' = added /\ unread' = unread /\ Pending' = Pending
      BY <2>1, <3>1, GroupStays
    <3>3. abandoning' = abandoning
      BY <2>1, <3>1
    <3> QED
      BY <2>21, <3>1, <3>2, <3>3
  <2>10. ASSUME NEW w \in Watchers, NEW e \in Entries, RetirePromote(w, e) PROVE SpinInv'
    <3>1. /\ e \in Pending /\ asked[e] = "answered" /\ DeadLetter(e)
          /\ \A v \in Watchers : e \notin InFlight(v)
          /\ abandoning' = [abandoning EXCEPT ![w] = @ \cup {e}]
          /\ UNCHANGED <<asked, build, promoteStatus, watch>>
      BY <2>2, <2>10, MayClaimIsFree DEF RetirePromote
    <3>2. /\ added' = added /\ unread' = unread /\ Pending' = Pending \ {e}
          /\ unread \cap Pending = {}
      BY <2>1, <3>1, LeavesPending DEF GroupTypes
    <3>3. /\ abandoning'[w] = abandoning[w] \cup {e}
          /\ \A v \in Watchers \ {w} : abandoning'[v] = abandoning[v]
      BY <2>1, <3>1
    <3>4. EndsAnswered'
      BY <2>1, <3>1, <3>2 DEF EndsAnswered
    <3>5. AcksMarked'
      BY <2>1, <3>1 DEF AcksMarked
    <3>6. GivenUp'
      BY <2>1, <3>1, <3>2, <3>3 DEF GivenUp
    <3>7. NoSpinner'
      BY <2>1, <3>1, <3>2, <3>3 DEF NoSpinner
    <3> QED
      BY <3>4, <3>5, <3>6, <3>7 DEF SpinInv
  <2>11. ASSUME NEW w \in Watchers, NEW e \in Entries, Abandon(w, e) PROVE SpinInv'
    <3>1. /\ e \in abandoning[w] /\ abandoning' = [abandoning EXCEPT ![w] = @ \ {e}]
          /\ promoteStatus' = [of |-> e, state |-> "failed"]
          /\ UNCHANGED <<asked, build, watch, groupVars>>
      BY <2>11 DEF Abandon, Mark
    <3>2. added' = added /\ unread' = unread /\ Pending' = Pending
      BY <2>1, <3>1, GroupStays
    <3>3. \A v \in Watchers : abandoning'[v] \subseteq abandoning[v]
      BY <2>1, <3>1
    <3>4. "failed" \in Outcomes
      BY DEF Outcomes
    <3>5. EndsAnswered'
      BY <2>1, <3>1, <3>2 DEF EndsAnswered
    <3>6. AcksMarked' /\ NoSpinner'
      BY <3>1, <3>4 DEF AcksMarked, NoSpinner
    <3>7. GivenUp'
      BY <2>1, <3>2, <3>3 DEF GivenUp
    <3> QED
      BY <3>5, <3>6, <3>7 DEF SpinInv
  <2>20. ASSUME NEW w \in Watchers, NEW e \in Entries, RetireRaises(w, e) PROVE SpinInv'
    <3>1. /\ watch' = [watch EXCEPT ![w] = [f \in Entries |-> Away]]
          /\ UNCHANGED <<asked, build, promoteStatus, abandoning>>
      BY <2>20 DEF RetireRaises
    <3>2. added' = added /\ unread' = unread /\ Pending' = Pending
      BY <2>1, <2>20, RaisesStays
    <3> QED
      BY <2>21, <3>1, <3>2
  (* A worker and an entry.                                                *)
  <2>12. ASSUME NEW w \in Watchers, ReadPromote(w) PROVE SpinInv'
    <3>1. PICK e \in unread : XReadGroup({e}, 1) /\ Spawn(w, e)
      BY <2>12 DEF ReadPromote
    <3>2. /\ e \in Entries /\ e \notin Pending /\ Pending' = Pending \cup {e}
          /\ unread' = unread \ {e} /\ added' = added
      <4>1. Pending' = Pending \cup {e} /\ unread' = unread \ {e} /\ added' = added
        BY <2>1, <3>1, ReadsThem
      <4>2. e \in Entries /\ e \notin Pending
        BY <2>1, <3>1, GroupAssumption DEF GroupTypes, Entries
      <4> QED
        BY <4>1, <4>2
    <3>3. /\ \A v \in Watchers : e \notin InFlight(v)
          /\ watch[w][e].at = "none"
      BY <2>2, <3>2
    <3>4. PICK row \in WatchRows : /\ watch' = [watch EXCEPT ![w][e] = row]
                                   /\ row.at \in {"none", "build"}
      BY <3>1, <3>2, <3>3, SpawnsAt
    <3>5. UNCHANGED <<asked, build, abandoning, promoteStatus>>
      BY <2>12 DEF ReadPromote
    <3>6. Queued' = Queued
      BY <3>1, <3>2
    <3> QED
      BY <2>1, <3>2, <3>3, <3>4, <3>5, <3>6, SpinStep
  <2>13. ASSUME NEW w \in Watchers, NEW e \in Entries, ClaimPromote(w, e) PROVE SpinInv'
    <3>1. /\ e \in Pending /\ \A v \in Watchers : e \notin InFlight(v)
          /\ XAutoClaim({e}) /\ Spawn(w, e)
          /\ UNCHANGED <<asked, build, abandoning, promoteStatus>>
      BY <2>13, MayClaimIsFree DEF ClaimPromote
    <3>2. watch[w][e].at = "none"
      BY <2>2, <3>1
    <3>3. PICK row \in WatchRows : /\ watch' = [watch EXCEPT ![w][e] = row]
                                   /\ row.at \in {"none", "build"}
      BY <3>1, <3>2, SpawnsAt
    <3>4. /\ added' = added /\ Queued' = Queued
      BY <2>1, <3>1, ClaimsThem
    <3> QED
      BY <2>1, <3>1, <3>3, <3>4, SpinStep
  <2>14. ASSUME NEW w \in Watchers, NEW e \in Entries, AckPromote(w, e) PROVE SpinInv'
    <3>1. /\ watch[w][e].at = "ack" /\ XAck(e)
          /\ watch' = [watch EXCEPT ![w][e] = Away]
          /\ UNCHANGED <<asked, build, abandoning, promoteStatus>>
      BY <2>14 DEF AckPromote, Leave
    <3>2. /\ added' = added /\ unread' = unread /\ Pending' = Pending \ {e}
      BY <2>1, <3>1, LeavesPending
    <3>3. Queued' \subseteq Queued /\ Queued \ {e} \subseteq Queued'
      BY <3>2
    <3>4. /\ e \in InFlight(w) /\ asked[e] = "answered"
          /\ promoteStatus.of = e => promoteStatus.state \in Outcomes
      BY <2>1, <2>2, <3>1 DEF EndsAnswered, AcksMarked
    <3> QED
      BY <2>1, <3>1, <3>2, <3>3, <3>4, AwayRow, SpinStep
  (* Where it goes on with an entry that stays in the queue.               *)
  <2>15. ASSUME NEW w \in Watchers, NEW e \in Entries, NEW row \in WatchRows,
                watch' = [watch EXCEPT ![w][e] = row], watch[w][e].at # "none",
                UNCHANGED <<asked, build, abandoning, groupVars>>,
                promoteStatus' = promoteStatus \/ promoteStatus'.of = e,
                row.at \notin {"none", "build"} => asked[e] = "answered",
                row.at = "ack" => promoteStatus'.state \in Outcomes
         PROVE  SpinInv'
    <3>1. e \in InFlight(w) /\ e \in Pending
      BY <2>2, <2>15
    <3>2. added' = added /\ Queued' = Queued /\ e \in Queued'
      BY <2>1, <2>15, <3>1, GroupStays
    <3> QED
      BY <2>1, <2>15, <3>1, <3>2, SpinStep
  <2>16. ASSUME NEW w \in Watchers, NEW e \in Entries, PollRunning(w, e) \/ PollRollout(w, e)
         PROVE  SpinInv'
    <3>1. /\ watch[w][e].at \in {"build", "rollout"} /\ promoteStatus'.of = e
          /\ UNCHANGED <<asked, build, abandoning, watch, groupVars>>
      BY <2>16 DEF PollRunning, PollRollout, Mark
    <3>2. watch[w][e] \in WatchRows /\ watch' = [watch EXCEPT ![w][e] = watch[w][e]]
      BY <3>1 DEF PromoteTypes
    <3>3. watch[w][e].at \notin {"none", "build"} => asked[e] = "answered"
      BY <2>1 DEF EndsAnswered
    <3> QED
      BY <2>15, <3>1, <3>2, <3>3
  <2>17. ASSUME NEW w \in Watchers, NEW e \in Entries, PollRaises(w, e) PROVE SpinInv'
    <3>1. /\ watch[w][e].at = "build" /\ watch' = [watch EXCEPT ![w][e] = Away]
          /\ UNCHANGED <<asked, build, abandoning, promoteStatus, groupVars>>
      BY <2>17 DEF PollRaises, Leave
    <3> QED
      BY <2>15, <3>1, AwayRow
  <2>18. ASSUME NEW w \in Watchers, NEW e \in Entries, MarkOutcome(w, e) PROVE SpinInv'
    <3>1. /\ watch[w][e].at \in Outcomes /\ Go(w, e, "ack")
          /\ promoteStatus'.of = e /\ promoteStatus'.state \in Outcomes
          /\ UNCHANGED <<asked, build, abandoning, groupVars>>
      BY <2>18 DEF MarkOutcome, Mark
    <3>2. watch[w][e].at \notin {"none", "build"} /\ "ack" \in WatchAts
      BY <3>1 DEF Outcomes, WatchAts
    <3>3. PICK row \in WatchRows : watch' = [watch EXCEPT ![w][e] = row] /\ row.at = "ack"
      BY <3>1, <3>2, GoesTo
    <3>4. asked[e] = "answered"
      BY <2>1, <3>2 DEF EndsAnswered
    <3> QED
      BY <2>15, <3>1, <3>2, <3>3, <3>4
  <2>19. ASSUME NEW w \in Watchers, NEW e \in Entries,
                \/ PollFailure(w, e) \/ PollSuccess(w, e) \/ GiveUpRollout(w, e)
                \/ LookForDeployment(w, e) \/ TriggerDeployment(w, e)
                \/ RecordDeployment(w, e) \/ CloseDeployment(w, e) \/ CompletionRaises(w, e)
         PROVE  SpinInv'
    <3>1. /\ UNCHANGED <<asked, build, abandoning, groupVars>> /\ watch[w][e].at # "none"
          /\ promoteStatus' = promoteStatus \/ promoteStatus'.of = e
      BY <2>19 DEF PollFailure, PollSuccess, GiveUpRollout, LookForDeployment,
                   TriggerDeployment, RecordDeployment, CloseDeployment, CompletionRaises, Mark
    <3>2. asked[e] = "answered"
      <4>1. CASE watch[w][e].at # "build"
        BY <2>1, <3>1, <4>1 DEF EndsAnswered
      <4>2. CASE watch[w][e].at = "build"
        <5>1. build[e] = "success" \/ (build[e] = "running" => Answered(e))
          BY <2>19, <4>2 DEF PollFailure, PollSuccess, GiveUpRollout, LookForDeployment,
                             TriggerDeployment, RecordDeployment, CloseDeployment,
                             CompletionRaises
        <5>2. e \in 1..added /\ added \in Nat
          BY <2>1, <2>2, <4>2 DEF GroupTypes
        <5>3. build[e] \in {"running"} \cup Ended
          BY <2>1, <5>2 DEF EndsAnswered, PromoteTypes
        <5> QED
          BY <2>1, <2>2, <5>1, <5>3 DEF EndsAnswered, Ended
      <4> QED
        BY <4>1, <4>2
    <3>3. \E row \in WatchRows : watch' = [watch EXCEPT ![w][e] = row] /\ row.at # "ack"
      <4>1. CASE \E at \in WatchAts \ {"ack"} : Go(w, e, at)
        BY <4>1, GoesTo
      <4>2. CASE \E at \in {"rollout", "record"}, r \in Nat :
                    watch' = [watch EXCEPT ![w][e] = [at |-> at, run |-> r]]
        BY <4>2 DEF WatchRows, WatchAts
      <4>3. \/ \E at \in WatchAts \ {"ack"} : Go(w, e, at)
            \/ \E at \in {"rollout", "record"}, r \in Nat :
                  watch' = [watch EXCEPT ![w][e] = [at |-> at, run |-> r]]
        <5>1. CASE LookForDeployment(w, e)
          <6>1. Reusable(e) \subseteq Nat
            BY DEF Reusable, PromoteTypes
          <6> QED
            BY <5>1, <6>1 DEF LookForDeployment, WatchAts
        <5>2. CASE TriggerDeployment(w, e)
          <6>1. Len(rollouts') \in Nat
            BY <5>2 DEF TriggerDeployment, PromoteTypes
          <6> QED
            BY <5>2, <6>1 DEF TriggerDeployment
        <5>3. CASE \/ PollFailure(w, e) \/ PollSuccess(w, e) \/ GiveUpRollout(w, e)
                   \/ RecordDeployment(w, e) \/ CloseDeployment(w, e)
                   \/ CompletionRaises(w, e)
          BY <5>3 DEF PollFailure, PollSuccess, GiveUpRollout, RecordDeployment,
                      CloseDeployment, CompletionRaises, WatchAts, Outcomes
        <5> QED
          BY <2>19, <5>1, <5>2, <5>3
      <4> QED
        BY <4>1, <4>2, <4>3
    <3> QED
      BY <2>15, <3>1, <3>2, <3>3
  <2> QED
    BY <2>3, <2>4, <2>5, <2>7, <2>8, <2>9, <2>10, <2>11, <2>12, <2>13, <2>14, <2>16,
       <2>17, <2>18, <2>19, <2>20, PromoteNextCases
<1>3. SpinInv => NoSpinner
  BY DEF SpinInv
<1>4. PromoteTypes /\ RolloutInv /\ [PromoteNext]_<<promoteVars, groupVars>>
      => (PromoteTypes /\ RolloutInv)'
  BY PromoteTypesStep, RolloutInvStep DEF RolloutInv
<1> QED
  BY <1>1, <1>2, <1>3, <1>4, PTL DEF PromoteSpec
=============================================================================
