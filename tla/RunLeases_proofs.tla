--------------------------- MODULE RunLeases_proofs ---------------------------
(***************************************************************************)
(* Theorems of RunLeases, for every number of replicas, tasks and firings, *)
(* and every choice of faults and callers unless a theorem says otherwise. *)
(***************************************************************************)
EXTENDS RunLeases, FiniteSetTheorems, TLAPS

(* A step is one of a firing, of a caller, of a delete or of a fault.       *)
LEMMA NextCases ==
    ASSUME NEW P, Next,
           ASSUME NEW r \in Runs, NEW rep \in Replicas, Fire(r, rep) PROVE P,
           ASSUME NEW r \in Runs, NEW rep \in Replicas, Deliver(rep, r) PROVE P,
           ASSUME NEW r \in Runs, AcquireLock(r) PROVE P,
           ASSUME NEW r \in Runs, AcquireCheck(r) PROVE P,
           ASSUME NEW r \in Runs, AcquireCount(r) PROVE P,
           ASSUME NEW r \in Runs, AcquireInsert(r) PROVE P,
           ASSUME NEW r \in Runs, \/ CheckBeforeQueue(r) \/ Admit(r)
                                  \/ CheckAfterSlot(r) \/ Register(r)
                                  \/ Resume(r) \/ Respond(r) PROVE P,
           ASSUME NEW r \in Runs, Release(r) PROVE P,
           ASSUME NEW r \in Runs, Record(r) PROVE P,
           ASSUME NEW r \in Runs, ShowRunning(r) PROVE P,
           ASSUME NEW r \in Runs, Lapse(r) PROVE P,
           ASSUME NEW r \in Runs, TearDown(r) PROVE P,
           ASSUME NEW r \in Runs, NEW c \in Callers, RequestCancel(r, c) PROVE P,
           ASSUME NEW t \in Tasks, DeleteLock(t) PROVE P,
           ASSUME NEW t \in Tasks, DeleteCommit(t) PROVE P,
           ASSUME NEW rep \in Replicas, Crash(rep) PROVE P,
           ASSUME NEW rep \in Replicas, \/ Restart(rep) \/ LoseListener(rep)
                                        \/ Resubscribe(rep) PROVE P
    PROVE  P
BY DEF Next, Advance

-----------------------------------------------------------------------------
(* Every variable keeps its type.                                           *)
THEOREM Typing == Spec => []TypeOK
<1>1. Init => TypeOK
  BY DEF Init, TypeOK, Phases, Replies, Live, InSlot
<1>2. TypeOK /\ [Next]_vars => TypeOK'
  <2> SUFFICES ASSUME TypeOK, [Next]_vars PROVE TypeOK'
    OBVIOUS
  <2> USE DEF TypeOK
  <2>0. CASE UNCHANGED vars
    BY <2>0 DEF vars
  <2>1. ASSUME NEW r \in Runs, NEW rep \in Replicas, Fire(r, rep) PROVE TypeOK'
    BY <2>1 DEF Fire, Goto, store, process, Phases
  <2>2. ASSUME NEW r \in Runs, NEW rep \in Replicas, Deliver(rep, r) PROVE TypeOK'
    BY <2>2 DEF Deliver, store, process, Phases, Live, InSlot
  <2>3. ASSUME NEW r \in Runs, AcquireLock(r) PROVE TypeOK'
    BY <2>3 DEF AcquireLock, Goto, process, Phases, InAcquire
  <2>4. ASSUME NEW r \in Runs, AcquireCheck(r) PROVE TypeOK'
    BY <2>4 DEF AcquireCheck, Unlock, Goto, process, Phases, InAcquire, Ended
  <2>5. ASSUME NEW r \in Runs, AcquireCount(r) PROVE TypeOK'
    BY <2>5 DEF AcquireCount, DropLeases, LeasesOf, Unlock, Goto, process, Phases, InAcquire, Ended
  <2>6. ASSUME NEW r \in Runs, AcquireInsert(r) PROVE TypeOK'
    BY <2>6 DEF AcquireInsert, Unlock, Goto, process, Phases, Live
  <2>7. ASSUME NEW r \in Runs, \/ CheckBeforeQueue(r) \/ Admit(r)
                               \/ CheckAfterSlot(r) \/ Register(r)
                               \/ Resume(r) \/ Respond(r)
        PROVE TypeOK'
    BY <2>7 DEF CheckBeforeQueue, Admit, CheckAfterSlot, Register, Resume,
                Respond, Goto, store, process, Phases, Live, InSlot
  <2>8. ASSUME NEW r \in Runs, Release(r) PROVE TypeOK'
    BY <2>8 DEF Release, DropLeases, Goto, process, Phases, Ended
  <2>9. ASSUME NEW r \in Runs, Record(r) PROVE TypeOK'
    BY <2>9 DEF Record, Goto, store, process, Phases, Ended
  <2>10. ASSUME NEW r \in Runs, ShowRunning(r) PROVE TypeOK'
    BY <2>10 DEF ShowRunning, store, process
  <2>11. ASSUME NEW r \in Runs, Lapse(r) PROVE TypeOK'
    BY <2>11 DEF Lapse, process
  <2>12. ASSUME NEW r \in Runs, TearDown(r) PROVE TypeOK'
    BY <2>12 DEF TearDown, FreeLocksOf, process, Phases, Ended, Live
  <2>13. ASSUME NEW r \in Runs, NEW c \in Callers, RequestCancel(r, c) PROVE TypeOK'
    <3> DEFINE early == HistoryReply(r, c)
    <3> DEFINE reply == IF early # "none" THEN early
                        ELSE IF r \in leased THEN "accepted" ELSE "not_in_flight"
    <3>1. early \in Replies
      BY DEF HistoryReply, Replies
    <3>2. reply \in Replies
      BY <3>1 DEF Replies
    <3>3. ask' = [ask EXCEPT ![r] = [reply |-> reply, phase |-> pc[r]]]
      BY <2>13 DEF RequestCancel
    <3>4. ask' \in [Runs -> [reply : Replies, phase : Phases]]
      <4> HIDE DEF reply
      <4> QED BY <3>2, <3>3
    <3>5. flagged' \subseteq leased' /\ notices' \subseteq listening' \X Runs
      <4>1. CASE reply = "accepted"
        <5>1. r \in leased
          BY <4>1 DEF HistoryReply
        <5>2. flagged' = flagged \cup {r} /\ notices' = notices \cup (listening \X {r})
          BY <4>1, <2>13 DEF RequestCancel, Broadcast
        <5> HIDE DEF reply
        <5> QED BY <5>1, <5>2, <2>13 DEF RequestCancel
      <4>2. CASE reply # "accepted"
        BY <4>2, <2>13 DEF RequestCancel
      <4> QED BY <4>1, <4>2
    <3> HIDE DEF reply
    <3> QED BY <3>4, <3>5, <2>13 DEF RequestCancel
  <2>14. ASSUME NEW t \in Tasks, DeleteLock(t) PROVE TypeOK'
    BY <2>14 DEF DeleteLock, process
  <2>15. ASSUME NEW t \in Tasks, DeleteCommit(t) PROVE TypeOK'
    BY <2>15 DEF DeleteCommit, DropLeases, LeasesOf, process
  <2>16. ASSUME NEW rep \in Replicas, Crash(rep) PROVE TypeOK'
    BY <2>16 DEF Crash, FreeLocksOf, Phases, Ended
  <2>17. ASSUME NEW rep \in Replicas, \/ Restart(rep) \/ LoseListener(rep)
                                      \/ Resubscribe(rep)
         PROVE TypeOK'
    BY <2>17 DEF Restart, LoseListener, Resubscribe, store
  <2>18. CASE Next
    BY <2>18, <2>1, <2>2, <2>3, <2>4, <2>5, <2>6, <2>7, <2>8, <2>9, <2>10, <2>11,
       <2>12, <2>13, <2>14, <2>15, <2>16, <2>17, NextCases
  <2> QED BY <2>0, <2>18
<1> QED BY <1>1, <1>2, PTL DEF Spec

-----------------------------------------------------------------------------
(***************************************************************************)
(* The lock makes the checks of acquire_lease still true when it inserts:  *)
(* what a firing has read under the lock nobody else can undo before it    *)
(* lets the lock go. LeaseRowsWithinLimit and NoOrphanLease are inductive   *)
(* with that.                                                              *)
(***************************************************************************)
LockHeld == \A r \in Runs : pc[r] \in InAcquire => lock[task[r]] = r
CheckStands == \A r \in Runs : pc[r] \in {"counting", "inserting"} => task[r] \in exists
RoomStands ==
    \A r \in Runs, t \in Tasks :
        pc[r] = "inserting" /\ task[r] = t => Cardinality(LeasesOf(t)) < Limit

LeaseInv ==
    /\ TypeOK
    /\ LockHeld
    /\ CheckStands
    /\ RoomStands
    /\ LeaseRowsWithinLimit
    /\ NoOrphanLease

(* Rows that disappear leave no task with more rows than before.            *)
LEMMA FewerRows ==
    ASSUME TypeOK, TypeOK', leased' \subseteq leased, task' = task
    PROVE  \A t \in Tasks : /\ Cardinality(LeasesOf(t)') \in Nat
                            /\ Cardinality(LeasesOf(t)) \in Nat
                            /\ Cardinality(LeasesOf(t)') <= Cardinality(LeasesOf(t))
<1> SUFFICES ASSUME NEW t \in Tasks
             PROVE  /\ Cardinality(LeasesOf(t)') \in Nat
                    /\ Cardinality(LeasesOf(t)) \in Nat
                    /\ Cardinality(LeasesOf(t)') <= Cardinality(LeasesOf(t))
  OBVIOUS
<1>1. LeasesOf(t)' \subseteq LeasesOf(t) /\ LeasesOf(t) \subseteq Runs
  BY DEF LeasesOf, TypeOK
<1>2. IsFiniteSet(LeasesOf(t))
  BY <1>1, FS_Subset, ConstantsAssumption
<1>3. IsFiniteSet(LeasesOf(t)') /\ Cardinality(LeasesOf(t)') <= Cardinality(LeasesOf(t))
  BY <1>1, <1>2, FS_Subset
<1> QED BY <1>2, <1>3, FS_CardinalityType

(* A step that adds no lease, takes no lock from a firing that keeps it,    *)
(* and lets no firing into the critical section keeps the invariant.        *)
LEMMA QuietStep ==
    ASSUME LeaseInv, TypeOK', leased' \subseteq leased, task' = task,
           exists' = exists,
           \A r \in Runs : pc'[r] \in InAcquire
               => pc'[r] = pc[r] /\ lock'[task[r]] = lock[task[r]]
    PROVE  LeaseInv'
<1> USE DEF LeaseInv
<1>1. LockHeld'
  BY DEF LockHeld
<1>2. CheckStands'
  BY DEF CheckStands, InAcquire
<1>3. RoomStands'
  <2> SUFFICES ASSUME NEW r \in Runs, NEW t \in Tasks, pc'[r] = "inserting", task[r] = t
               PROVE  Cardinality(LeasesOf(t)') < Limit
    BY DEF RoomStands
  <2>1. Cardinality(LeasesOf(t)) < Limit
    BY DEF InAcquire, RoomStands
  <2> QED BY <2>1, FewerRows, ConstantsAssumption
<1>4. LeaseRowsWithinLimit'
  BY FewerRows, ConstantsAssumption DEF LeaseRowsWithinLimit
<1>5. NoOrphanLease'
  BY DEF NoOrphanLease
<1> QED BY <1>1, <1>2, <1>3, <1>4, <1>5

(* LeaseInv holds throughout.                                               *)
THEOREM LeaseInvariance == Spec => []LeaseInv
<1>1. Init => LeaseInv
  <2> SUFFICES ASSUME Init PROVE LeaseInv
    OBVIOUS
  <2>1. \A t \in Tasks : LeasesOf(t) = {}
    BY DEF Init, LeasesOf
  <2>2. LeaseRowsWithinLimit
    BY <2>1, FS_EmptySet, ConstantsAssumption DEF LeaseRowsWithinLimit
  <2>3. TypeOK
    BY DEF Init, TypeOK, Phases, Replies, Live, InSlot
  <2> QED BY <2>2, <2>3 DEF Init, LeaseInv, LockHeld, CheckStands, RoomStands,
                            NoOrphanLease, InAcquire
<1>2. LeaseInv /\ TypeOK' /\ [Next]_vars => LeaseInv'
  <2> SUFFICES ASSUME LeaseInv, TypeOK', [Next]_vars PROVE LeaseInv'
    OBVIOUS
  <2>t. TypeOK
    BY DEF LeaseInv
  <2>0. CASE UNCHANGED vars
    BY <2>0, QuietStep DEF vars
  <2>1. ASSUME NEW r \in Runs, NEW rep \in Replicas, Fire(r, rep) PROVE LeaseInv'
    BY <2>1, <2>t, QuietStep DEF Fire, Goto, store, InAcquire, TypeOK
  <2>2. ASSUME NEW r \in Runs, NEW rep \in Replicas, Deliver(rep, r) PROVE LeaseInv'
    BY <2>2, <2>t, QuietStep DEF Deliver, store, InAcquire, TypeOK
  <2>3. ASSUME NEW r \in Runs, AcquireLock(r) PROVE LeaseInv'
    <3>1. /\ lock[task[r]] = None /\ pc' = [pc EXCEPT ![r] = "checking"]
          /\ lock' = [lock EXCEPT ![task[r]] = r]
          /\ UNCHANGED <<exists, leased, task>>
      BY <2>3 DEF AcquireLock, Goto
    <3>2. LockHeld'
      BY <3>1, <2>t, NamesAssumption DEF LockHeld, LeaseInv, TypeOK, InAcquire
    <3>3. CheckStands' /\ NoOrphanLease'
      BY <3>1, <2>t DEF CheckStands, NoOrphanLease, LeaseInv, TypeOK
    <3>4. RoomStands' /\ LeaseRowsWithinLimit'
      BY <3>1, <2>t DEF RoomStands, LeaseRowsWithinLimit, LeasesOf, LeaseInv, TypeOK
    <3> QED BY <3>2, <3>3, <3>4 DEF LeaseInv
  <2>4. ASSUME NEW r \in Runs, AcquireCheck(r) PROVE LeaseInv'
    <3>1. CASE task[r] \in exists /\ Goto(r, "checking", "counting") /\ UNCHANGED lock
      <4>1. UNCHANGED <<exists, leased, task, lock>> /\ pc[r] = "checking"
            /\ pc' = [pc EXCEPT ![r] = "counting"]
        BY <2>4, <3>1 DEF AcquireCheck, Goto
      <4>2. LockHeld' /\ CheckStands' /\ NoOrphanLease'
        BY <3>1, <4>1, <2>t DEF LockHeld, CheckStands, NoOrphanLease, LeaseInv, TypeOK, InAcquire
      <4>3. RoomStands' /\ LeaseRowsWithinLimit'
        BY <4>1, <2>t DEF RoomStands, LeaseRowsWithinLimit, LeasesOf, LeaseInv, TypeOK
      <4> QED BY <4>2, <4>3 DEF LeaseInv
    <3>2. CASE Goto(r, "checking", "declined") /\ Unlock(r)
      <4>1. UNCHANGED <<exists, leased, task>> /\ pc[r] = "checking"
            /\ pc' = [pc EXCEPT ![r] = "declined"]
            /\ lock' = [lock EXCEPT ![task[r]] = None]
        BY <2>4, <3>2 DEF AcquireCheck, Goto, Unlock
      <4>2. \A q \in Runs : pc'[q] \in InAcquire
                => pc'[q] = pc[q] /\ lock'[task[q]] = lock[task[q]]
        BY <4>1, <2>t DEF LeaseInv, LockHeld, InAcquire, TypeOK
      <4> QED BY <4>1, <4>2, QuietStep
    <3> QED BY <2>4, <3>1, <3>2 DEF AcquireCheck
  <2>5. ASSUME NEW r \in Runs, AcquireCount(r) PROVE LeaseInv'
    <3> DEFINE kept == LeasesOf(task[r]) \ lapsed
    <3>0. /\ leased' = leased \ (LeasesOf(task[r]) \cap lapsed)
          /\ UNCHANGED <<exists, task>> /\ pc[r] = "counting" /\ task[r] \in Tasks
      BY <2>5, <2>t DEF AcquireCount, DropLeases, Goto, TypeOK
    <3>1. CASE Cardinality(kept) < Limit /\ Goto(r, "counting", "inserting") /\ UNCHANGED lock
      <4>1. pc' = [pc EXCEPT ![r] = "inserting"]
        BY <3>1 DEF Goto
      <4>3. LockHeld' /\ CheckStands' /\ NoOrphanLease'
        BY <3>0, <3>1, <4>1, <2>t DEF LockHeld, CheckStands, NoOrphanLease, LeaseInv, TypeOK, InAcquire
      <4>4. RoomStands'
        <5> SUFFICES ASSUME NEW q \in Runs, NEW t \in Tasks, pc'[q] = "inserting", task[q] = t
                     PROVE  Cardinality(LeasesOf(t)') < Limit
          BY <3>0 DEF RoomStands
        <5>1. CASE t = task[r]
          <6>1. LeasesOf(t)' = kept
            BY <5>1, <3>0 DEF LeasesOf
          <6> QED BY <6>1, <3>1
        <5>2. CASE t # task[r]
          <6>1. pc[q] = "inserting"
            BY <5>2, <4>1, <2>t DEF TypeOK
          <6>2. Cardinality(LeasesOf(t)) < Limit
            BY <6>1 DEF RoomStands, LeaseInv
          <6>3. leased' \subseteq leased
            BY <3>0
          <6> QED BY <6>2, <6>3, <3>0, <2>t, FewerRows, ConstantsAssumption
        <5> QED BY <5>1, <5>2
      <4>5. LeaseRowsWithinLimit'
        <5>1. leased' \subseteq leased
          BY <3>0
        <5> QED BY <5>1, <3>0, <2>t, FewerRows, ConstantsAssumption
                DEF LeaseRowsWithinLimit, LeaseInv
      <4> QED BY <4>3, <4>4, <4>5 DEF LeaseInv
    <3>2. CASE Goto(r, "counting", "declined") /\ Unlock(r)
      <4>1. pc' = [pc EXCEPT ![r] = "declined"] /\ lock' = [lock EXCEPT ![task[r]] = None]
        BY <3>2 DEF Goto, Unlock
      <4>2. \A q \in Runs : pc'[q] \in InAcquire
                => pc'[q] = pc[q] /\ lock'[task[q]] = lock[task[q]]
        BY <3>0, <4>1, <2>t DEF LeaseInv, LockHeld, InAcquire, TypeOK
      <4> QED BY <3>0, <4>1, <4>2, QuietStep
    <3> QED BY <2>5, <3>1, <3>2 DEF AcquireCount
  <2>6. ASSUME NEW r \in Runs, AcquireInsert(r) PROVE LeaseInv'
    <3>1. /\ pc[r] = "inserting" /\ pc' = [pc EXCEPT ![r] = "leased"]
          /\ leased' = leased \cup {r} /\ lock' = [lock EXCEPT ![task[r]] = None]
          /\ UNCHANGED <<exists, task>> /\ task[r] \in Tasks
      BY <2>6, <2>t DEF AcquireInsert, Goto, Unlock, TypeOK
    <3>2. \A q \in Runs : pc'[q] \in InAcquire
              => pc'[q] = pc[q] /\ q # r /\ task[q] # task[r]
      BY <3>1, <2>t DEF LeaseInv, LockHeld, InAcquire, TypeOK
    <3>3. LockHeld'
      BY <3>1, <3>2, <2>t DEF LockHeld, LeaseInv, TypeOK
    <3>4. CheckStands' /\ NoOrphanLease'
      BY <3>1, <3>2, <2>t DEF CheckStands, NoOrphanLease, LeaseInv, TypeOK, InAcquire
    <3>5. \A t \in Tasks : t # task[r] => LeasesOf(t)' = LeasesOf(t)
      BY <3>1, <2>t DEF LeasesOf, TypeOK
    <3>6. RoomStands'
      BY <3>1, <3>2, <3>5, <2>t DEF RoomStands, LeaseInv, InAcquire
    <3> DEFINE old == LeasesOf(task[r])
    <3>7. Cardinality(old \cup {r}) <= Limit
      <4>1. old \in SUBSET Runs
        BY <2>t DEF LeasesOf, TypeOK
      <4>2. Cardinality(old) < Limit
        BY <3>1 DEF LeaseInv, RoomStands
      <4> HIDE DEF old
      <4>3. IsFiniteSet(old)
        BY <4>1, FS_Subset, ConstantsAssumption
      <4>4. Cardinality(old) \in Nat
        BY <4>3, FS_CardinalityType
      <4>5. Cardinality(old \cup {r}) = IF r \in old THEN Cardinality(old) ELSE Cardinality(old) + 1
        BY <4>3, FS_AddElement
      <4> QED BY <4>2, <4>4, <4>5, ConstantsAssumption
    <3>8. LeaseRowsWithinLimit'
      <4> SUFFICES ASSUME NEW t \in Tasks PROVE Cardinality(LeasesOf(t)') <= Limit
        BY DEF LeaseRowsWithinLimit
      <4>1. CASE t = task[r]
        <5>1. LeasesOf(t)' = old \cup {r}
          BY <4>1, <3>1, <2>t DEF LeasesOf, TypeOK
        <5> QED BY <5>1, <3>7
      <4>2. CASE t # task[r]
        BY <4>2, <3>5 DEF LeaseRowsWithinLimit, LeaseInv
      <4> QED BY <4>1, <4>2
    <3> QED BY <3>3, <3>4, <3>6, <3>8 DEF LeaseInv
  <2>7. ASSUME NEW r \in Runs, \/ CheckBeforeQueue(r) \/ Admit(r)
                               \/ CheckAfterSlot(r) \/ Register(r)
                               \/ Resume(r) \/ Respond(r)
        PROVE LeaseInv'
    BY <2>7, <2>t, QuietStep DEF CheckBeforeQueue, Admit, CheckAfterSlot,
       Register, Resume, Respond, Goto, store, InAcquire, TypeOK
  <2>8. ASSUME NEW r \in Runs, Release(r) PROVE LeaseInv'
    BY <2>8, <2>t, QuietStep DEF Release, DropLeases, Goto, InAcquire, TypeOK
  <2>9. ASSUME NEW r \in Runs, Record(r) PROVE LeaseInv'
    BY <2>9, <2>t, QuietStep DEF Record, Goto, store, InAcquire, TypeOK
  <2>10. ASSUME NEW r \in Runs, ShowRunning(r) PROVE LeaseInv'
    BY <2>10, QuietStep DEF ShowRunning, store
  <2>11. ASSUME NEW r \in Runs, Lapse(r) PROVE LeaseInv'
    BY <2>11, QuietStep DEF Lapse
  <2>12. ASSUME NEW r \in Runs, TearDown(r) PROVE LeaseInv'
    <3>1. /\ pc' \in {[pc EXCEPT ![r] = "lost"], [pc EXCEPT ![r] = "aborting"]}
          /\ lock' \in {lock, [t \in Tasks |-> IF lock[t] \in {r} THEN None ELSE lock[t]]}
          /\ UNCHANGED <<exists, leased, task>>
      BY <2>12 DEF TearDown, FreeLocksOf
    <3>2. \A q \in Runs : pc'[q] \in InAcquire
              => pc'[q] = pc[q] /\ lock'[task[q]] = lock[task[q]]
      BY <3>1, <2>t DEF LeaseInv, LockHeld, InAcquire, TypeOK
    <3> QED BY <3>1, <3>2, QuietStep
  <2>13. ASSUME NEW r \in Runs, NEW c \in Callers, RequestCancel(r, c) PROVE LeaseInv'
    <3>1. UNCHANGED <<exists, lock, leased, task, pc>>
      BY <2>13 DEF RequestCancel
    <3> QED BY <3>1, QuietStep
  <2>14. ASSUME NEW t \in Tasks, DeleteLock(t) PROVE LeaseInv'
    <3>1. /\ lock[t] = None /\ lock' = [lock EXCEPT ![t] = Deleter]
          /\ UNCHANGED <<exists, leased, task, pc>>
      BY <2>14 DEF DeleteLock
    <3>2. \A q \in Runs : pc'[q] \in InAcquire
              => pc'[q] = pc[q] /\ lock'[task[q]] = lock[task[q]]
      BY <3>1, <2>t, NamesAssumption DEF LeaseInv, LockHeld, TypeOK
    <3> QED BY <3>1, <3>2, QuietStep
  <2>15. ASSUME NEW t \in Tasks, DeleteCommit(t) PROVE LeaseInv'
    <3>1. /\ lock[t] = Deleter /\ lock' = [lock EXCEPT ![t] = None]
          /\ exists' = exists \ {t} /\ leased' = leased \ LeasesOf(t)
          /\ UNCHANGED <<task, pc>>
      BY <2>15 DEF DeleteCommit, DropLeases
    <3>2. \A q \in Runs : pc[q] \in InAcquire => task[q] # t
      BY <3>1, NamesAssumption DEF LeaseInv, LockHeld
    <3>3. LockHeld' /\ CheckStands' /\ NoOrphanLease'
      BY <3>1, <3>2, <2>t DEF LockHeld, CheckStands, NoOrphanLease, LeaseInv, TypeOK, LeasesOf, InAcquire
    <3>4. leased' \subseteq leased
      BY <3>1
    <3>5. LeaseRowsWithinLimit'
      BY <3>1, <3>4, <2>t, FewerRows, ConstantsAssumption
         DEF LeaseRowsWithinLimit, LeaseInv
    <3>6. RoomStands'
      BY <3>1, <3>4, <2>t, FewerRows, ConstantsAssumption DEF RoomStands, LeaseInv
    <3> QED BY <3>3, <3>5, <3>6 DEF LeaseInv
  <2>16. ASSUME NEW rep \in Replicas, Crash(rep) PROVE LeaseInv'
    <3> DEFINE gone == {r \in Runs : owner[r] = rep /\ pc[r] \notin Ended}
    <3>1. /\ pc' = [r \in Runs |-> IF r \in gone THEN "dead" ELSE pc[r]]
          /\ lock' = [t \in Tasks |-> IF lock[t] \in gone THEN None ELSE lock[t]]
          /\ UNCHANGED <<exists, leased, task>>
      BY <2>16 DEF Crash, FreeLocksOf
    <3>2. \A q \in Runs : pc'[q] \in InAcquire
              => pc'[q] = pc[q] /\ lock'[task[q]] = lock[task[q]]
      BY <3>1, <2>t DEF LeaseInv, LockHeld, InAcquire, TypeOK
    <3> QED BY <3>1, <3>2, QuietStep
  <2>17. ASSUME NEW rep \in Replicas, \/ Restart(rep) \/ LoseListener(rep)
                                      \/ Resubscribe(rep)
         PROVE LeaseInv'
    BY <2>17, QuietStep DEF Restart, LoseListener, Resubscribe, store
  <2>18. CASE Next
    BY <2>18, <2>1, <2>2, <2>3, <2>4, <2>5, <2>6, <2>7, <2>8, <2>9, <2>10, <2>11,
       <2>12, <2>13, <2>14, <2>15, <2>16, <2>17, NextCases
  <2> QED BY <2>0, <2>18
<1> QED BY <1>1, <1>2, Typing, PTL DEF Spec

(* The lease table never holds more rows of a task than its limit.          *)
THEOREM RowsWithinLimit == Spec => []LeaseRowsWithinLimit
<1>1. LeaseInv => LeaseRowsWithinLimit
  BY DEF LeaseInv
<1> QED BY <1>1, LeaseInvariance, PTL

(* No lease outlives its task.                                              *)
THEOREM NoOrphans == Spec => []NoOrphanLease
<1>1. LeaseInv => NoOrphanLease
  BY DEF LeaseInv
<1> QED BY <1>1, LeaseInvariance, PTL

-----------------------------------------------------------------------------
(***************************************************************************)
(* max_running_instances. The rows bound the firings at work only while    *)
(* every firing at work of a task that exists has its row, which a firing  *)
(* that outlasts its lease loses; hence the assumption. A deleted task      *)
(* takes the rows of its firings along, but no firing of it starts again.   *)
(***************************************************************************)
LiveLeased == \A r \in Runs : pc[r] \in Live /\ task[r] \in exists => r \in leased
LapsedEnded == \A r \in lapsed : pc[r] \in Ended

LiveInv == LiveLeased /\ LapsedEnded /\ InstancesWithinLimit

(* A step that starts no firing keeps the bound on those at work.           *)
LEMMA NoNewInstance ==
    ASSUME TypeOK, InstancesWithinLimit, task' = task,
           \A r \in Runs : pc'[r] \in Live => pc[r] \in Live
    PROVE  InstancesWithinLimit'
<1> SUFFICES ASSUME NEW t \in Tasks PROVE Cardinality(LiveOf(t)') <= Limit
  BY DEF InstancesWithinLimit
<1>1. LiveOf(t)' \subseteq LiveOf(t) /\ LiveOf(t) \subseteq Runs
  BY DEF LiveOf
<1>2. IsFiniteSet(LiveOf(t))
  BY <1>1, FS_Subset, ConstantsAssumption
<1>3. IsFiniteSet(LiveOf(t)') /\ Cardinality(LiveOf(t)') <= Cardinality(LiveOf(t))
  BY <1>1, <1>2, FS_Subset
<1>4. Cardinality(LiveOf(t)) \in Nat /\ Cardinality(LiveOf(t)') \in Nat
  BY <1>2, <1>3, FS_CardinalityType
<1> QED BY <1>3, <1>4, ConstantsAssumption DEF InstancesWithinLimit

(* One that, besides, marks no lease lapsed, ends what it takes a lease of, *)
(* and revives nothing keeps the whole of LiveInv.                          *)
LEMMA QuietLive ==
    ASSUME TypeOK, TypeOK', LiveInv, task' = task, exists' \subseteq exists,
           lapsed' \subseteq lapsed,
           \A r \in Runs : /\ pc'[r] \in Live => pc[r] \in Live
                           /\ pc[r] \in Ended => pc'[r] \in Ended
                           /\ r \in leased \ leased' /\ pc'[r] \in Live
                                  => task[r] \notin exists'
    PROVE  LiveInv'
<1>1. LiveLeased'
  BY DEF LiveLeased, LiveInv
<1>2. LapsedEnded'
  BY DEF LapsedEnded, LiveInv, TypeOK
<1>3. InstancesWithinLimit'
  BY NoNewInstance DEF LiveInv
<1> QED BY <1>1, <1>2, <1>3 DEF LiveInv

(* If no firing outlasts its lease, no more firings of a task are at work   *)
(* at once than its limit, across replicas, crashes, restarts and deletes.  *)
THEOREM InstanceLimit ==
    ASSUME "lapse" \notin Faults
    PROVE  Spec => []InstancesWithinLimit
<1>1. Init => LiveInv
  <2> SUFFICES ASSUME Init PROVE LiveInv
    OBVIOUS
  <2>1. \A t \in Tasks : LiveOf(t) = {}
    BY DEF Init, LiveOf, Live, InSlot
  <2>2. InstancesWithinLimit
    BY <2>1, FS_EmptySet, ConstantsAssumption DEF InstancesWithinLimit
  <2> QED BY <2>2 DEF Init, LiveInv, LiveLeased, LapsedEnded, Live, InSlot
<1>2. LiveInv /\ LeaseInv /\ TypeOK' /\ LeaseInv' /\ [Next]_vars => LiveInv'
  <2> SUFFICES ASSUME LiveInv, LeaseInv, TypeOK', LeaseInv', [Next]_vars PROVE LiveInv'
    OBVIOUS
  <2>t. TypeOK
    BY DEF LeaseInv
  <2> USE DEF Live, InSlot, Ended
  <2>0. CASE UNCHANGED vars
    BY <2>0, <2>t, QuietLive DEF vars
  <2>1. ASSUME NEW r \in Runs, NEW rep \in Replicas, Fire(r, rep) PROVE LiveInv'
    BY <2>1, <2>t, QuietLive DEF Fire, Goto, store, TypeOK
  <2>2. ASSUME NEW r \in Runs, NEW rep \in Replicas, Deliver(rep, r) PROVE LiveInv'
    BY <2>2, <2>t, QuietLive DEF Deliver, store, TypeOK
  <2>3. ASSUME NEW r \in Runs, AcquireLock(r) PROVE LiveInv'
    BY <2>3, <2>t, QuietLive DEF AcquireLock, Goto, TypeOK
  <2>4. ASSUME NEW r \in Runs, AcquireCheck(r) PROVE LiveInv'
    BY <2>4, <2>t, QuietLive DEF AcquireCheck, Goto, TypeOK
  <2>5. ASSUME NEW r \in Runs, AcquireCount(r) PROVE LiveInv'
    <3>1. /\ pc[r] = "counting"
          /\ pc' \in {[pc EXCEPT ![r] = "inserting"], [pc EXCEPT ![r] = "declined"]}
          /\ leased' = leased \ (LeasesOf(task[r]) \cap lapsed)
          /\ lapsed' = lapsed \ (LeasesOf(task[r]) \cap lapsed)
          /\ UNCHANGED <<task, exists>>
      BY <2>5 DEF AcquireCount, DropLeases, Goto
    <3>2. \A q \in leased \ leased' : pc'[q] \in Ended
      BY <3>1, <2>t DEF LiveInv, LapsedEnded, TypeOK
    <3> QED BY <3>1, <3>2, <2>t, QuietLive DEF TypeOK
  <2>6. ASSUME NEW r \in Runs, AcquireInsert(r) PROVE LiveInv'
    <3>1. /\ pc[r] = "inserting" /\ pc' = [pc EXCEPT ![r] = "leased"]
          /\ leased' = leased \cup {r} /\ task[r] \in Tasks
          /\ UNCHANGED <<exists, task, lapsed>>
      BY <2>6, <2>t DEF AcquireInsert, Goto, TypeOK
    <3>2. LiveLeased' /\ LapsedEnded'
      BY <3>1, <2>t DEF LiveInv, LiveLeased, LapsedEnded, TypeOK
    <3>3. ASSUME NEW t \in Tasks PROVE Cardinality(LiveOf(t)') <= Limit
      <4>1. CASE t = task[r]
        <5>1. t \in exists
          BY <3>1, <4>1 DEF LeaseInv, CheckStands
        <5>2. LiveOf(t)' \subseteq LeasesOf(t)' /\ LeasesOf(t)' \subseteq Runs
          BY <5>1, <3>1, <3>2 DEF LiveLeased, LiveOf, LeasesOf, TypeOK
        <5>3. IsFiniteSet(LeasesOf(t)')
          BY <5>2, FS_Subset, ConstantsAssumption
        <5>4. IsFiniteSet(LiveOf(t)')
              /\ Cardinality(LiveOf(t)') <= Cardinality(LeasesOf(t)')
          BY <5>2, <5>3, FS_Subset
        <5>5. Cardinality(LeasesOf(t)') <= Limit
          BY DEF LeaseInv, LeaseRowsWithinLimit
        <5>6. Cardinality(LiveOf(t)') \in Nat /\ Cardinality(LeasesOf(t)') \in Nat
          BY <5>3, <5>4, FS_CardinalityType
        <5> QED BY <5>4, <5>5, <5>6, ConstantsAssumption
      <4>2. CASE t # task[r]
        <5>1. LiveOf(t)' = LiveOf(t)
          BY <3>1, <4>2, <2>t DEF LiveOf, TypeOK
        <5> QED BY <5>1 DEF LiveInv, InstancesWithinLimit
      <4> QED BY <4>1, <4>2
    <3> QED BY <3>2, <3>3 DEF LiveInv, InstancesWithinLimit
  <2>7. ASSUME NEW r \in Runs, \/ CheckBeforeQueue(r) \/ Admit(r)
                               \/ CheckAfterSlot(r) \/ Register(r)
                               \/ Resume(r) \/ Respond(r)
        PROVE LiveInv'
    BY <2>7, <2>t, QuietLive DEF CheckBeforeQueue, Admit, CheckAfterSlot,
       Register, Resume, Respond, Goto, store, TypeOK
  <2>8. ASSUME NEW r \in Runs, Release(r) PROVE LiveInv'
    BY <2>8, <2>t, QuietLive DEF Release, DropLeases, Goto, TypeOK
  <2>9. ASSUME NEW r \in Runs, Record(r) PROVE LiveInv'
    BY <2>9, <2>t, QuietLive DEF Record, Goto, store, TypeOK
  <2>10. ASSUME NEW r \in Runs, ShowRunning(r) PROVE LiveInv'
    BY <2>10, <2>t, QuietLive DEF ShowRunning, store
  <2>11. ASSUME NEW r \in Runs, Lapse(r) PROVE LiveInv'
    <3>1. /\ pc[r] \in Ended /\ lapsed' = lapsed \cup {r}
          /\ UNCHANGED <<exists, leased, task, pc>>
      BY <2>11 DEF Lapse
    <3>2. LiveLeased' /\ LapsedEnded'
      BY <3>1 DEF LiveInv, LiveLeased, LapsedEnded
    <3>3. InstancesWithinLimit'
      BY <3>1, <2>t, NoNewInstance DEF LiveInv
    <3> QED BY <3>2, <3>3 DEF LiveInv
  <2>12. ASSUME NEW r \in Runs, TearDown(r) PROVE LiveInv'
    BY <2>12, <2>t, QuietLive DEF TearDown, InAcquire, TypeOK
  <2>13. ASSUME NEW r \in Runs, NEW c \in Callers, RequestCancel(r, c) PROVE LiveInv'
    <3>1. UNCHANGED <<exists, leased, lapsed, task, pc>>
      BY <2>13 DEF RequestCancel
    <3> QED BY <3>1, <2>t, QuietLive
  <2>14. ASSUME NEW t \in Tasks, DeleteLock(t) PROVE LiveInv'
    BY <2>14, <2>t, QuietLive DEF DeleteLock
  <2>15. ASSUME NEW t \in Tasks, DeleteCommit(t) PROVE LiveInv'
    BY <2>15, <2>t, QuietLive DEF DeleteCommit, DropLeases, LeasesOf
  <2>16. ASSUME NEW rep \in Replicas, Crash(rep) PROVE LiveInv'
    BY <2>16, <2>t, QuietLive DEF Crash, TypeOK
  <2>17. ASSUME NEW rep \in Replicas, \/ Restart(rep) \/ LoseListener(rep)
                                      \/ Resubscribe(rep)
         PROVE LiveInv'
    BY <2>17, <2>t, QuietLive DEF Restart, LoseListener, Resubscribe, store
  <2>18. CASE Next
    BY <2>18, <2>1, <2>2, <2>3, <2>4, <2>5, <2>6, <2>7, <2>8, <2>9, <2>10, <2>11,
       <2>12, <2>13, <2>14, <2>15, <2>16, <2>17, NextCases
  <2> QED BY <2>0, <2>18
<1>3. LiveInv => InstancesWithinLimit
  BY DEF LiveInv
<1> QED BY <1>1, <1>2, <1>3, Typing, LeaseInvariance, PTL DEF Spec

-----------------------------------------------------------------------------
(***************************************************************************)
(* A cancel that was accepted. Its flag is on the row until the firing     *)
(* reads it, as long as nobody else takes the row; its notification is on  *)
(* the way to the replica that makes the call, as long as that replica     *)
(* listens. A firing never comes back to an earlier phase, so the answer    *)
(* says where it can be now.                                               *)
(***************************************************************************)
Early == {"leased", "queued", "admitted"}
Accepted(r, phases) == ask[r].reply = "accepted" /\ ask[r].phase \in phases

FlagStands == \A r \in Runs : Accepted(r, Early) /\ pc[r] \in Early => r \in flagged

AfterEarly == Early \cup {"withdrawn", "aborting", "recording"} \cup Ended
AfterCall == {"calling", "interrupted", "returned", "releasing", "recording", "aborting"} \cup Ended

PhaseStands ==
    \A r \in Runs : /\ Accepted(r, Early) => pc[r] \in AfterEarly
                    /\ Accepted(r, {"calling"}) => pc[r] \in AfterCall

OwnerHears == \A r \in Runs : pc[r] \notin Ended \cup {"idle"} => owner[r] \in listening
AllHear == up \subseteq listening

CancelInv ==
    /\ LapsedEnded
    /\ FlagStands
    /\ PhaseStands
    /\ OwnerHears
    /\ AllHear
    /\ InterruptOnItsWay

(* A step of a firing that keeps its row, its flag, its notices and what    *)
(* was answered, and goes on from where it is, keeps CancelInv.             *)
LEMMA QuietCancel ==
    ASSUME TypeOK, TypeOK', CancelInv, UNCHANGED <<ask, notices>>,
           lapsed' \subseteq lapsed, listening \subseteq listening', up' \subseteq listening',
           \A r \in Runs :
               /\ pc[r] \in Ended => pc'[r] \in Ended
               /\ pc[r] \in AfterEarly => pc'[r] \in AfterEarly
               /\ pc[r] \in AfterCall => pc'[r] \in AfterCall
               /\ pc'[r] = "calling" => pc[r] \in {"cleared", "calling"}
               /\ pc'[r] \in Early /\ Accepted(r, Early) /\ r \in flagged => r \in flagged'
               /\ pc'[r] \in Early => pc[r] \in Early \cup {"inserting"}
               /\ pc'[r] \notin Ended \cup {"idle"} =>
                      \/ owner'[r] \in listening
                      \/ owner'[r] = owner[r] /\ pc[r] \notin Ended \cup {"idle"}
               /\ owner'[r] # owner[r] => pc'[r] # "calling"
    PROVE  CancelInv'
<1> USE DEF Ended, Early, AfterEarly, AfterCall, Accepted
<1>1. LapsedEnded'
  BY DEF LapsedEnded, CancelInv, TypeOK
<1>2. FlagStands'
  BY DEF FlagStands, PhaseStands, CancelInv
<1>3. PhaseStands'
  BY DEF PhaseStands, CancelInv
<1>4. OwnerHears'
  BY DEF OwnerHears, CancelInv
<1>5. InterruptOnItsWay'
  BY DEF InterruptOnItsWay, PhaseStands, CancelInv
<1> QED BY <1>1, <1>2, <1>3, <1>4, <1>5 DEF CancelInv, AllHear

(* Without deletes nobody else holds a lock.                                *)
NoDeleter == \A t \in Tasks : lock[t] # Deleter

LEMMA NeverDeleting == ASSUME "delete" \notin Faults PROVE Spec => []NoDeleter
<1>1. Init => NoDeleter
  BY NamesAssumption DEF Init, NoDeleter
<1>2. NoDeleter /\ TypeOK /\ [Next]_vars => NoDeleter'
  <2> SUFFICES ASSUME NoDeleter, TypeOK, [Next]_vars PROVE NoDeleter'
    OBVIOUS
  <2> USE NamesAssumption DEF NoDeleter, TypeOK
  <2>0. CASE UNCHANGED vars
    BY <2>0 DEF vars
  <2>1. ASSUME NEW r \in Runs, AcquireLock(r) PROVE NoDeleter'
    BY <2>1 DEF AcquireLock
  <2>2. ASSUME NEW r \in Runs, AcquireCheck(r) \/ AcquireCount(r) \/ AcquireInsert(r)
        PROVE  NoDeleter'
    BY <2>2 DEF AcquireCheck, AcquireCount, AcquireInsert, Unlock
  <2>3. ASSUME NEW t \in Tasks, DeleteLock(t) \/ DeleteCommit(t) PROVE NoDeleter'
    BY <2>3 DEF DeleteLock, DeleteCommit
  <2>4. ASSUME NEW r \in Runs, TearDown(r) PROVE NoDeleter'
    BY <2>4 DEF TearDown, FreeLocksOf
  <2>5. ASSUME NEW rep \in Replicas, Crash(rep) PROVE NoDeleter'
    BY <2>5 DEF Crash, FreeLocksOf
  <2>6. ASSUME UNCHANGED lock PROVE NoDeleter'
    BY <2>6
  <2>7. CASE Next
    BY <2>7, <2>1, <2>2, <2>3, <2>4, <2>5, <2>6
       DEF Next, Advance, Fire, Deliver, CheckBeforeQueue, Admit, CheckAfterSlot,
           Register, Resume, Respond, Release, Record, ShowRunning, Lapse,
           RequestCancel, Restart, LoseListener, Resubscribe, store
  <2> QED BY <2>0, <2>7
<1> QED BY <1>1, <1>2, Typing, PTL DEF Spec

(* As long as no lease runs out under its firing, no task is deleted and no *)
(* listener is lost, an accepted cancel takes hold: whatever crashes,       *)
(* restarts or is torn down on the way.                                     *)
THEOREM CancelAlwaysTakesHold ==
    ASSUME {"lapse", "delete", "deaf"} \cap Faults = {}
    PROVE  Spec => []CancelTakesHold
<1> USE DEF Ended, Early, AfterEarly, AfterCall
<1>1. Init => CancelInv
  BY DEF Init, CancelInv, LapsedEnded, FlagStands, PhaseStands, OwnerHears, AllHear,
         AllHear, InterruptOnItsWay, Accepted
<1>2. CancelInv /\ NoDeleter /\ TypeOK /\ TypeOK' /\ [Next]_vars => CancelInv'
  <2> SUFFICES ASSUME CancelInv, NoDeleter, TypeOK, TypeOK', [Next]_vars PROVE CancelInv'
    OBVIOUS
  <2>0. CASE UNCHANGED vars
    BY <2>0, QuietCancel DEF vars, CancelInv, OwnerHears, AllHear
  <2>1. ASSUME NEW r \in Runs, NEW rep \in Replicas, Fire(r, rep) PROVE CancelInv'
    <3>1. rep \in listening
      BY <2>1 DEF Fire, CancelInv, AllHear
    <3> QED BY <2>1, <3>1, QuietCancel DEF CancelInv, AllHear, Fire, Goto, TypeOK, process, store
  <2>2. ASSUME NEW r \in Runs, NEW rep \in Replicas, Deliver(rep, r) PROVE CancelInv'
    <3>1. /\ notices' = notices \ {<<rep, r>>}
          /\ pc' \in {pc, [pc EXCEPT ![r] = "interrupted"]}
          /\ pc' # pc => pc[r] = "calling"
          /\ pc'[r] = "calling" => owner[r] # rep
          /\ UNCHANGED <<up, leased, lapsed, flagged, owner, ask, listening>>
      BY <2>2 DEF Deliver, TypeOK, store
    <3> USE DEF CancelInv
    <3>2. LapsedEnded' /\ FlagStands' /\ PhaseStands' /\ OwnerHears' /\ AllHear'
      BY <3>1 DEF LapsedEnded, FlagStands, PhaseStands, OwnerHears, AllHear, Accepted, TypeOK
    <3>3. InterruptOnItsWay'
      <4> SUFFICES ASSUME NEW q \in Runs, ask[q].reply = "accepted",
                          ask[q].phase = "calling", pc'[q] = "calling"
                   PROVE  <<owner[q], q>> \in notices'
        BY <3>1 DEF InterruptOnItsWay
      <4>1. pc[q] = "calling" /\ <<owner[q], q>> \in notices
        BY <3>1 DEF InterruptOnItsWay, TypeOK
      <4>2. <<owner[q], q>> # <<rep, r>>
        BY <3>1
      <4> QED BY <3>1, <4>1, <4>2
    <3> QED BY <3>2, <3>3
  <2>3. ASSUME NEW r \in Runs, AcquireLock(r) PROVE CancelInv'
    BY <2>3, QuietCancel DEF CancelInv, AllHear, AcquireLock, Goto, TypeOK, process
  <2>4. ASSUME NEW r \in Runs, AcquireCheck(r) PROVE CancelInv'
    BY <2>4, QuietCancel DEF CancelInv, AllHear, AcquireCheck, Goto, TypeOK, process
  <2>5. ASSUME NEW r \in Runs, AcquireCount(r) PROVE CancelInv'
    <3>1. /\ pc[r] = "counting"
          /\ pc' \in {[pc EXCEPT ![r] = "inserting"], [pc EXCEPT ![r] = "declined"]}
          /\ flagged' = flagged \ (LeasesOf(task[r]) \cap lapsed)
          /\ lapsed' = lapsed \ (LeasesOf(task[r]) \cap lapsed)
          /\ UNCHANGED <<up, owner, ask, notices, listening>>
      BY <2>5 DEF AcquireCount, DropLeases, Goto, process
    <3>2. \A q \in flagged \ flagged' : pc'[q] \in Ended
      BY <3>1 DEF CancelInv, LapsedEnded, TypeOK
    <3> QED BY <3>1, <3>2, QuietCancel DEF CancelInv, AllHear, TypeOK
  <2>6. ASSUME NEW r \in Runs, AcquireInsert(r) PROVE CancelInv'
    BY <2>6, QuietCancel DEF CancelInv, AllHear, AcquireInsert, Goto, TypeOK, process
  <2>7. ASSUME NEW r \in Runs, CheckBeforeQueue(r) \/ CheckAfterSlot(r) PROVE CancelInv'
    <3>1. /\ pc[r] \in {"leased", "admitted"}
          /\ pc' = [pc EXCEPT ![r] = IF r \in flagged THEN "withdrawn" ELSE pc'[r]]
          /\ pc'[r] \in {"withdrawn", "queued", "cleared"}
          /\ pc'[r] = "withdrawn" <=> r \in flagged
          /\ UNCHANGED <<up, leased, lapsed, flagged, owner, ask, listening, notices>>
      BY <2>7 DEF CheckBeforeQueue, CheckAfterSlot, Goto, TypeOK, process, store
    <3>2. LapsedEnded' /\ OwnerHears' /\ AllHear' /\ InterruptOnItsWay'
      BY <3>1 DEF LapsedEnded, OwnerHears, AllHear, InterruptOnItsWay, CancelInv, TypeOK
    <3>3. FlagStands' /\ PhaseStands'
      BY <3>1 DEF FlagStands, PhaseStands, Accepted, CancelInv, TypeOK
    <3> QED BY <3>2, <3>3 DEF CancelInv
  <2>8. ASSUME NEW r \in Runs, \/ Admit(r) \/ Register(r) \/ Resume(r) \/ Respond(r)
        PROVE CancelInv'
    BY <2>8, QuietCancel DEF CancelInv, AllHear, Admit, Register, Resume, Respond, Goto, TypeOK, process, store
  <2>9. ASSUME NEW r \in Runs, Release(r) PROVE CancelInv'
    BY <2>9, QuietCancel DEF CancelInv, AllHear, Release, DropLeases, Goto, TypeOK, process
  <2>10. ASSUME NEW r \in Runs, Record(r) \/ ShowRunning(r) PROVE CancelInv'
    BY <2>10, QuietCancel DEF CancelInv, AllHear, Record, ShowRunning, Goto, TypeOK, process, store
  <2>11. ASSUME NEW r \in Runs, Lapse(r) PROVE CancelInv'
    <3>1. /\ pc[r] \in Ended /\ lapsed' = lapsed \cup {r}
          /\ UNCHANGED <<up, flagged, pc, owner, ask, listening, notices>>
      BY <2>11 DEF Lapse, process
    <3> QED BY <3>1 DEF CancelInv, LapsedEnded, FlagStands, PhaseStands, OwnerHears, AllHear,
                        InterruptOnItsWay, Accepted
  <2>12. ASSUME NEW r \in Runs, TearDown(r) PROVE CancelInv'
    BY <2>12, QuietCancel DEF CancelInv, AllHear, TearDown, InAcquire, TypeOK, process
  <2>13. ASSUME NEW r \in Runs, NEW c \in Callers, RequestCancel(r, c) PROVE CancelInv'
    <3>1. /\ \A q \in Runs \ {r} : ask'[q] = ask[q]
          /\ ask'[r].phase = pc[r]
          /\ ask'[r].reply = "accepted" => /\ r \in flagged'
                                          /\ \A rep \in listening : <<rep, r>> \in notices'
          /\ flagged \subseteq flagged' /\ notices \subseteq notices'
          /\ UNCHANGED <<up, lapsed, pc, owner, listening>>
      BY <2>13 DEF RequestCancel, Broadcast, TypeOK
    <3>2. LapsedEnded' /\ OwnerHears' /\ AllHear'
      BY <3>1 DEF LapsedEnded, OwnerHears, AllHear, CancelInv
    <3>3. FlagStands' /\ PhaseStands'
      BY <3>1 DEF FlagStands, PhaseStands, Accepted, CancelInv
    <3>4. InterruptOnItsWay'
      BY <3>1 DEF InterruptOnItsWay, OwnerHears, CancelInv
    <3> QED BY <3>2, <3>3, <3>4 DEF CancelInv
  <2>14. ASSUME NEW t \in Tasks, DeleteLock(t) PROVE CancelInv'
    BY <2>14 DEF DeleteLock
  <2>15. ASSUME NEW t \in Tasks, DeleteCommit(t) PROVE CancelInv'
    BY <2>15 DEF DeleteCommit, NoDeleter
  <2>16. ASSUME NEW rep \in Replicas, Crash(rep) PROVE CancelInv'
    <3>1. /\ listening' = listening \ {rep} /\ up' = up \ {rep}
          /\ notices' = notices \ ({rep} \X Runs)
          /\ \A q \in Runs : /\ owner[q] = rep => pc'[q] \in Ended
                             /\ owner[q] # rep => pc'[q] = pc[q]
                             /\ pc'[q] \in Ended \/ pc'[q] = pc[q]
                             /\ pc[q] \in Ended => pc'[q] \in Ended
          /\ UNCHANGED <<lapsed, flagged, owner, ask>>
      BY <2>16 DEF Crash, TypeOK
    <3>2. LapsedEnded' /\ FlagStands' /\ PhaseStands'
      BY <3>1 DEF LapsedEnded, FlagStands, PhaseStands, Accepted, CancelInv, TypeOK
    <3>3. OwnerHears' /\ AllHear' /\ InterruptOnItsWay'
      BY <3>1 DEF AllHear, OwnerHears, InterruptOnItsWay, CancelInv
    <3> QED BY <3>2, <3>3 DEF CancelInv
  <2>17. ASSUME NEW rep \in Replicas, Restart(rep) \/ Resubscribe(rep) PROVE CancelInv'
    BY <2>17, QuietCancel DEF CancelInv, AllHear, Restart, Resubscribe, TypeOK, store
  <2>18. ASSUME NEW rep \in Replicas, LoseListener(rep) PROVE CancelInv'
    BY <2>18 DEF LoseListener
  <2>19. CASE Next
    BY <2>19, <2>1, <2>2, <2>3, <2>4, <2>5, <2>6, <2>7, <2>8, <2>9, <2>10, <2>11,
       <2>12, <2>13, <2>14, <2>15, <2>16, <2>17, <2>18, NextCases
  <2> QED BY <2>0, <2>19
<1>3. CancelInv => CancelTakesHold
  BY DEF CancelInv, CancelTakesHold, EarlyCancelWithdraws, PhaseStands, Accepted
<1>4. Spec => []NoDeleter
  BY NeverDeleting
<1> QED BY <1>1, <1>2, <1>3, <1>4, Typing, PTL DEF Spec
=============================================================================
