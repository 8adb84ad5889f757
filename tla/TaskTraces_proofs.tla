--------------------------- MODULE TaskTraces_proofs ---------------------------
(***************************************************************************)
(* Theorems about what an agent task leaves: its log, for any number of    *)
(* events, reports and sweepers (TaskLog), and then the leases of its      *)
(* secrets, for any resolutions, fencers and faults (SecretLeases).        *)
(***************************************************************************)
EXTENDS TaskLog, SecretLeases, FiniteSetTheorems, TLAPS

(* The states of a round, while the last seq is n.                         *)
Rounds(n) == [at : {"none", "tasks", "events", "counted"}, last : 0..n,
              open : BOOLEAN, reports : Nat, whole : BOOLEAN, counted : BOOLEAN]

(* The cases of LogNext, for the proofs that go through its actions.       *)
LEMMA LogNextCases ==
    ASSUME LogNext
    PROVE  \/ WriteEvent \/ CloseTask \/ LateEvent
           \/ \E r \in Reports : ReportUsage(r)
           \/ \E b \in outbox : Publish(b)
           \/ \E s \in Streams : Sink(s)
           \/ \E s \in LogSweepers : \/ ReadUnarchived(s) \/ CountEvents(s)
                                     \/ CountReports(s) \/ Republish(s) \/ Archive(s)
  BY DEF LogNext

(* What a transaction appends is after what there was.                     *)
LEMMA Appended ==
    ASSUME LogTypeOK, NEW n \in 1..3, NEW isNoted \in BOOLEAN,
           NEW reports \in SUBSET Reports,
           AppendRows(n, isNoted, reports)
    PROVE  /\ lastSeq \in Nat \ {0} /\ lastSeq' = lastSeq + n /\ lastSeq' \in 1..MaxEvents
           /\ events' = events \cup (lastSeq + 1 .. lastSeq')
           /\ events' \subseteq 1..lastSeq'
           /\ noted \subseteq noted' /\ noted' \subseteq noted \cup {lastSeq'}
           /\ noted' \subseteq 1..lastSeq'
           /\ ledger' = ledger \cup reports /\ ledger' \subseteq Reports
           /\ outbox' \subseteq [events : SUBSET (1..lastSeq'), reports : SUBSET ledger']
  <1>1. lastSeq \in Nat \ {0} /\ lastSeq' = lastSeq + n /\ lastSeq' \in 1..MaxEvents
    BY LogAssumption DEF LogTypeOK, AppendRows
  <1>2. 1..lastSeq \subseteq 1..lastSeq' /\ lastSeq + 1 .. lastSeq' \subseteq 1..lastSeq'
        /\ lastSeq' \in 1..lastSeq'
    BY <1>1
  <1>3. /\ events' = events \cup (lastSeq + 1 .. lastSeq')
        /\ noted' = noted \cup (IF isNoted THEN {lastSeq'} ELSE {})
        /\ ledger' = ledger \cup reports
        /\ outbox' = outbox \cup {[events |-> lastSeq + 1 .. lastSeq', reports |-> reports]}
    BY <1>1 DEF AppendRows
  <1>4. events \subseteq 1..lastSeq /\ noted \subseteq 1..lastSeq /\ ledger \subseteq Reports
    BY DEF LogTypeOK
  <1>5. outbox \subseteq [events : SUBSET (1..lastSeq), reports : SUBSET ledger]
    BY DEF LogTypeOK
  <1>6. outbox \subseteq [events : SUBSET (1..lastSeq'), reports : SUBSET ledger']
    BY <1>2, <1>3, <1>5
  <1>7. [events |-> lastSeq + 1 .. lastSeq', reports |-> reports]
            \in [events : SUBSET (1..lastSeq'), reports : SUBSET ledger']
    BY <1>2, <1>3
  <1> QED
    BY <1>1, <1>2, <1>3, <1>4, <1>6, <1>7

(* The types a step that appends leaves behind.                            *)
LEMMA AppendTypes ==
    ASSUME LogTypeOK, NEW n \in 1..3, NEW isNoted \in BOOLEAN,
           NEW reports \in SUBSET Reports,
           AppendRows(n, isNoted, reports),
           taskOpen' \in BOOLEAN,
           UNCHANGED <<archived, opslog, topic, stored, round>>
    PROVE  LogTypeOK'
  <1>1. /\ lastSeq \in Nat \ {0} /\ lastSeq' = lastSeq + n /\ lastSeq' \in 1..MaxEvents
        /\ events' \subseteq 1..lastSeq' /\ noted' \subseteq 1..lastSeq'
        /\ noted \subseteq noted' /\ ledger \subseteq ledger' /\ ledger' \subseteq Reports
        /\ outbox' \subseteq [events : SUBSET (1..lastSeq'), reports : SUBSET ledger']
    BY Appended
  <1>2. opslog' \subseteq noted' /\ archived' \in BOOLEAN
    BY <1>1 DEF LogTypeOK
  <1>3. 1..lastSeq \subseteq 1..lastSeq' /\ 0..lastSeq \subseteq 0..lastSeq'
    BY <1>1
  <1>4. /\ topic' \in [events : SUBSET (1..lastSeq'), usage : SUBSET ledger']
        /\ stored' \in [events : SUBSET (1..lastSeq'), usage : SUBSET ledger']
    BY <1>1, <1>3 DEF LogTypeOK
  <1>5. round' \in [LogSweepers ->
           [at : {"none", "tasks", "events", "counted"}, last : 0..lastSeq',
            open : BOOLEAN, reports : Nat, whole : BOOLEAN, counted : BOOLEAN]]
    BY <1>3 DEF LogTypeOK
  <1> QED
    BY <1>1, <1>2, <1>4, <1>5 DEF LogTypeOK

(* What a publish adds to the topics and to the Operations Log.            *)
LEMMA PublishedRows ==
    ASSUME LogTypeOK, NEW es \in SUBSET (1..lastSeq), NEW rs \in SUBSET ledger,
           NEW n \in 0..2, Published(es, rs, n)
    PROVE  /\ opslog \subseteq opslog' /\ opslog' \subseteq noted
           /\ topic' \in [events : SUBSET (1..lastSeq), usage : SUBSET ledger]
           /\ topic.events \subseteq topic'.events /\ topic.usage \subseteq topic'.usage
           /\ NotedBeforeStored => topic'.events \cap noted \subseteq opslog'
  <1>1. /\ opslog' = opslog \cup (IF n >= 1 THEN es \cap noted ELSE {})
        /\ topic' = [events |-> topic.events \cup (IF n >= 2 THEN es ELSE {}),
                     usage |-> topic.usage \cup rs]
    BY DEF Published
  <1>2. /\ opslog \subseteq noted
        /\ topic.events \subseteq 1..lastSeq /\ topic.usage \subseteq ledger
    BY DEF LogTypeOK
  <1>3. opslog \subseteq opslog' /\ opslog' \subseteq noted
    BY <1>1, <1>2
  <1>4. /\ topic'.events = topic.events \cup (IF n >= 2 THEN es ELSE {})
        /\ topic'.usage = topic.usage \cup rs
    BY <1>1
  <1>5. topic' \in [events : SUBSET (1..lastSeq), usage : SUBSET ledger]
    BY <1>1, <1>2
  <1>6. n >= 2 => n >= 1
    OBVIOUS
  <1>7. NotedBeforeStored => topic'.events \cap noted \subseteq opslog'
    BY <1>1, <1>4, <1>6 DEF NotedBeforeStored
  <1> QED
    BY <1>3, <1>4, <1>5, <1>7

(* The rows that a sweep publishes again are rows that are there.          *)
LEMMA RepublishedRows ==
    ASSUME LogTypeOK, NEW s \in LogSweepers, Republish(s)
    PROVE  /\ \E es \in SUBSET (1..lastSeq), rs \in SUBSET ledger, n \in 0..2 :
                  Published(es, rs, n)
           /\ round' = [round EXCEPT ![s] = NoRound]
           /\ UNCHANGED <<events, lastSeq, noted, ledger, taskOpen, archived, outbox,
                          stored>>
  <1>1. PICK n \in 0..2, reported \in BOOLEAN : RepublishTo(s, n, reported)
    BY DEF Republish
  <1> DEFINE es == IF round[s].whole THEN {}
                   ELSE {q \in events : q <= round[s].last} \ stored["events"]
             rs == IF reported THEN IF round[s].counted THEN {} ELSE ledger \ stored["usage"]
                   ELSE {}
  <1>2. Published(es, rs, n)
    BY <1>1 DEF RepublishTo
  <1>3. es \in SUBSET (1..lastSeq) /\ rs \in SUBSET ledger
    BY DEF LogTypeOK
  <1> HIDE DEF es, rs
  <1>4. \E e \in SUBSET (1..lastSeq), r \in SUBSET ledger, m \in 0..2 : Published(e, r, m)
    BY <1>2, <1>3
  <1> QED
    BY <1>1, <1>4 DEF RepublishTo

(* The types of the initial state: a task with the event of its creation.   *)
LEMMA LogInitTypes ==
    ASSUME LogInit
    PROVE  LogTypeOK
  <1>1. 1 \in 1..MaxEvents
    BY LogAssumption
  <1>2. NoRound \in [at : {"none", "tasks", "events", "counted"}, last : 0..1,
                     open : BOOLEAN, reports : Nat, whole : BOOLEAN, counted : BOOLEAN]
    BY DEF NoRound
  <1>3. lastSeq = 1 /\ events = {1} /\ noted = {} /\ opslog = {} /\ ledger = {}
    BY DEF LogInit
  <1>4. {1} \subseteq 1..1 /\ {} \in SUBSET ledger
    OBVIOUS
  <1>5. outbox \subseteq [events : SUBSET (1..lastSeq), reports : SUBSET ledger]
    <2>1. outbox = {[events |-> {1}, reports |-> {}]}
      BY DEF LogInit
    <2> QED
      BY <1>3, <1>4, <2>1
  <1>6. /\ topic \in [events : SUBSET (1..lastSeq), usage : SUBSET ledger]
        /\ stored \in [events : SUBSET (1..lastSeq), usage : SUBSET ledger]
    BY <1>3 DEF LogInit
  <1>7. round \in [LogSweepers ->
           [at : {"none", "tasks", "events", "counted"}, last : 0..lastSeq,
            open : BOOLEAN, reports : Nat, whole : BOOLEAN, counted : BOOLEAN]]
    BY <1>2, <1>3 DEF LogInit
  <1>8. taskOpen \in BOOLEAN /\ archived \in BOOLEAN
    BY DEF LogInit
  <1> QED
    BY <1>1, <1>3, <1>4, <1>5, <1>6, <1>7, <1>8 DEF LogTypeOK

(* Every variable keeps its type: the log has no row whose seq was not     *)
(* given out, and no store has a row that Postgres never had.              *)
THEOREM LogTyping == LogSpec => []LogTypeOK
<1>1. LogInit => LogTypeOK
  BY LogInitTypes
<1>2. LogTypeOK /\ [LogNext]_logVars => LogTypeOK'
  <2> SUFFICES ASSUME LogTypeOK, [LogNext]_logVars PROVE LogTypeOK'
    OBVIOUS
  <2>1. CASE WriteEvent
    <3>1. PICK isNoted \in BOOLEAN : AppendRows(1, isNoted, {})
      BY <2>1 DEF WriteEvent
    <3>2. taskOpen' \in BOOLEAN /\ UNCHANGED <<archived, opslog, topic, stored, round>>
      BY <2>1 DEF WriteEvent, LogTypeOK
    <3>3. 1 \in 1..3 /\ {} \in SUBSET Reports
      OBVIOUS
    <3> QED
      BY <3>1, <3>2, <3>3, AppendTypes
  <2>2. CASE CloseTask
    <3>1. AppendRows(2, TRUE, {})
      BY <2>2 DEF CloseTask
    <3>2. taskOpen' \in BOOLEAN /\ UNCHANGED <<archived, opslog, topic, stored, round>>
      BY <2>2 DEF CloseTask
    <3>3. 2 \in 1..3 /\ {} \in SUBSET Reports
      OBVIOUS
    <3> QED
      BY <3>1, <3>2, <3>3, AppendTypes
  <2>3. CASE LateEvent
    <3>1. AppendRows(1, FALSE, {})
      BY <2>3 DEF LateEvent
    <3>2. taskOpen' \in BOOLEAN /\ UNCHANGED <<archived, opslog, topic, stored, round>>
      BY <2>3 DEF LateEvent, LogTypeOK
    <3>3. 1 \in 1..3 /\ {} \in SUBSET Reports
      OBVIOUS
    <3> QED
      BY <3>1, <3>2, <3>3, AppendTypes
  <2>4. ASSUME NEW r \in Reports, ReportUsage(r) PROVE LogTypeOK'
    <3>1. taskOpen' \in BOOLEAN /\ UNCHANGED <<archived, opslog, topic, stored, round>>
      BY <2>4 DEF ReportUsage
    <3>2. {r} \in SUBSET Reports /\ 1 \in 1..3 /\ 3 \in 1..3
      OBVIOUS
    <3>3. CASE AppendRows(1, FALSE, {r})
      BY <3>1, <3>2, <3>3, AppendTypes
    <3>4. CASE AppendRows(3, TRUE, {r})
      BY <3>1, <3>2, <3>4, AppendTypes
    <3> QED
      BY <2>4, <3>3, <3>4 DEF ReportUsage
  <2>5. ASSUME NEW b \in outbox, Publish(b) PROVE LogTypeOK'
    <3>1. PICK n \in 0..2, rs \in {{}, b.reports} : Published(b.events, rs, n)
      BY <2>5 DEF Publish
    <3>2. b.events \in SUBSET (1..lastSeq) /\ rs \in SUBSET ledger
      BY DEF LogTypeOK
    <3>3. /\ opslog' \subseteq noted
          /\ topic' \in [events : SUBSET (1..lastSeq), usage : SUBSET ledger]
      BY <3>1, <3>2, PublishedRows
    <3> QED
      BY <2>5, <3>3 DEF Publish, LogTypeOK
  <2>6. ASSUME NEW s \in Streams, Sink(s) PROVE LogTypeOK'
    <3>1. stored' = [stored EXCEPT ![s] = topic[s]]
      BY <2>6 DEF Sink
    <3>2. stored' \in [events : SUBSET (1..lastSeq), usage : SUBSET ledger]
      <4>1. CASE s = "events"
        BY <3>1, <4>1 DEF LogTypeOK
      <4>2. CASE s = "usage"
        BY <3>1, <4>2 DEF LogTypeOK
      <4> QED
        BY <4>1, <4>2 DEF Streams
    <3> QED
      BY <2>6, <3>2 DEF Sink, LogTypeOK
  <2>7. ASSUME NEW s \in LogSweepers, ReadUnarchived(s) PROVE LogTypeOK'
    <3>1. Cardinality(ledger) \in Nat
      BY LogAssumption, FS_Subset, FS_CardinalityType DEF LogTypeOK
    <3>2. lastSeq \in 0..lastSeq
      BY DEF LogTypeOK
    <3> QED
      BY <2>7, <3>1, <3>2 DEF ReadUnarchived, NoRound, LogTypeOK
  <2>8. ASSUME NEW s \in LogSweepers, CountEvents(s) PROVE LogTypeOK'
    <3> DEFINE agree == CountsAgree(stored["events"], round[s].last)
    <3>1. agree \in BOOLEAN
      BY DEF CountsAgree
    <3>2. round' = [round EXCEPT ![s].at = "events", ![s].whole = agree]
      BY <2>8 DEF CountEvents
    <3>3. UNCHANGED <<events, lastSeq, noted, ledger, taskOpen, archived, opslog, outbox,
                      topic, stored>>
      BY <2>8 DEF CountEvents
    <3> HIDE DEF agree
    <3>4. [round[s] EXCEPT !.at = "events", !.whole = agree] \in Rounds(lastSeq)
      BY <3>1 DEF LogTypeOK, Rounds
    <3>5. round' = [round EXCEPT ![s] = [round[s] EXCEPT !.at = "events", !.whole = agree]]
      BY <3>2 DEF LogTypeOK
    <3> QED
      BY <3>3, <3>4, <3>5 DEF LogTypeOK, Rounds
  <2>9. ASSUME NEW s \in LogSweepers, CountReports(s) PROVE LogTypeOK'
    <3> DEFINE agree == Cardinality(stored["usage"]) = round[s].reports
    <3>1. agree \in BOOLEAN
      OBVIOUS
    <3>2. round' = [round EXCEPT ![s].at = "counted", ![s].counted = agree]
      BY <2>9 DEF CountReports
    <3>3. UNCHANGED <<events, lastSeq, noted, ledger, taskOpen, archived, opslog, outbox,
                      topic, stored>>
      BY <2>9 DEF CountReports
    <3> HIDE DEF agree
    <3>4. [round[s] EXCEPT !.at = "counted", !.counted = agree] \in Rounds(lastSeq)
      BY <3>1 DEF LogTypeOK, Rounds
    <3>5. round' = [round EXCEPT ![s] = [round[s] EXCEPT !.at = "counted", !.counted = agree]]
      BY <3>2 DEF LogTypeOK
    <3> QED
      BY <3>3, <3>4, <3>5 DEF LogTypeOK, Rounds
  <2>10. ASSUME NEW s \in LogSweepers, Republish(s) PROVE LogTypeOK'
    <3>1. PICK es \in SUBSET (1..lastSeq), rs \in SUBSET ledger, n \in 0..2 :
              Published(es, rs, n)
      BY <2>10, RepublishedRows
    <3>2. /\ opslog' \subseteq noted
          /\ topic' \in [events : SUBSET (1..lastSeq), usage : SUBSET ledger]
      BY <3>1, PublishedRows
    <3>3. NoRound \in [at : {"none", "tasks", "events", "counted"}, last : 0..lastSeq,
                       open : BOOLEAN, reports : Nat, whole : BOOLEAN, counted : BOOLEAN]
      BY DEF NoRound, LogTypeOK
    <3>4. round' = [round EXCEPT ![s] = NoRound]
          /\ UNCHANGED <<events, lastSeq, noted, ledger, taskOpen, archived, outbox, stored>>
      BY <2>10, RepublishedRows
    <3> QED
      BY <3>2, <3>3, <3>4 DEF LogTypeOK
  <2>11. ASSUME NEW s \in LogSweepers, Archive(s) PROVE LogTypeOK'
    <3>1. NoRound \in [at : {"none", "tasks", "events", "counted"}, last : 0..lastSeq,
                       open : BOOLEAN, reports : Nat, whole : BOOLEAN, counted : BOOLEAN]
      BY DEF NoRound, LogTypeOK
    <3>2. archived' \in BOOLEAN /\ events' \subseteq 1..lastSeq
      BY <2>11 DEF Archive, LogTypeOK
    <3> QED
      BY <2>11, <3>1, <3>2 DEF Archive, LogTypeOK
  <2>12. CASE UNCHANGED logVars
    BY <2>12 DEF logVars, LogTypeOK
  <2> QED
    BY <2>1, <2>2, <2>3, <2>4, <2>5, <2>6, <2>7, <2>8, <2>9, <2>10, <2>11, <2>12,
       LogNextCases
<1> QED
  BY <1>1, <1>2, PTL DEF LogSpec
-----------------------------------------------------------------------------
(* What a round has read still holds of the task as it was read: if nothing *)
(* was appended since, as many reports are in the ledger, and what was      *)
(* found whole or counted in ClickHouse is still there.                     *)
RoundAgrees(s) ==
    /\ round[s].at # "none" /\ round[s].last = lastSeq =>
           round[s].reports = Cardinality(ledger)
    /\ round[s].whole => 1..round[s].last \subseteq stored["events"]
    /\ round[s].counted /\ round[s].last = lastSeq => stored["usage"] = ledger

(* The strengthening: what is in ClickHouse went through Iggy, the log of   *)
(* an open task is not archived, and the rounds agree.                      *)
LogInv ==
    /\ LogTypeOK
    /\ LogIsKept
    /\ archived => ~taskOpen
    /\ stored["events"] \subseteq topic["events"]
    /\ stored["usage"] \subseteq topic["usage"]
    /\ \A s \in LogSweepers : RoundAgrees(s)
(* A transaction on a log that is not archived keeps the invariant: no      *)
(* round has read the new last seq, and no topic has it.                    *)
LEMMA AppendKeeps ==
    ASSUME LogInv, LogTypeOK', ~archived,
           NEW n \in 1..3, NEW isNoted \in BOOLEAN, NEW reports \in SUBSET Reports,
           AppendRows(n, isNoted, reports),
           UNCHANGED <<archived, opslog, topic, stored, round>>
    PROVE  LogInv'
  <1>1. /\ lastSeq \in Nat \ {0} /\ lastSeq' = lastSeq + n
        /\ events' = events \cup (lastSeq + 1 .. lastSeq')
        /\ noted' \subseteq noted \cup {lastSeq'}
    BY Appended DEF LogInv
  <1>2. lastSeq' \notin 1..lastSeq /\ lastSeq' \notin 0..lastSeq
    BY <1>1
  <1>3. NothingIsLost'
    <2>1. events = 1..lastSeq
      BY DEF LogInv, LogIsKept, NothingIsLost
    <2>2. 1..lastSeq \cup (lastSeq + 1 .. lastSeq') = 1..lastSeq'
      BY <1>1
    <2> QED
      BY <1>1, <2>1, <2>2 DEF NothingIsLost
  <1>4. NotedBeforeStored'
    <2>1. topic["events"] \subseteq 1..lastSeq
      BY DEF LogInv, LogTypeOK
    <2>2. topic["events"] \cap noted \subseteq opslog
      BY DEF LogInv, LogIsKept, NotedBeforeStored
    <2> QED
      BY <1>1, <1>2, <2>1, <2>2 DEF NotedBeforeStored
  <1>5. ArchivedIsStored' /\ ~archived'
    BY DEF ArchivedIsStored
  <1>6. /\ stored'["events"] \subseteq topic'["events"]
        /\ stored'["usage"] \subseteq topic'["usage"]
    BY DEF LogInv
  <1>7. ASSUME NEW s \in LogSweepers PROVE RoundAgrees(s)'
    <2>1. RoundAgrees(s) /\ round[s].last \in 0..lastSeq
      BY DEF LogInv, LogTypeOK
    <2>2. round'[s].last # lastSeq'
      BY <1>2, <2>1
    <2> QED
      BY <2>1, <2>2 DEF RoundAgrees
  <1> QED
    BY <1>3, <1>4, <1>5, <1>6, <1>7 DEF LogInv, LogIsKept

(* A publish, of a batch or of a sweep, keeps the invariant.                *)
LEMMA PublishKeeps ==
    ASSUME LogInv, LogTypeOK',
           NEW es \in SUBSET (1..lastSeq), NEW rs \in SUBSET ledger, NEW n \in 0..2,
           Published(es, rs, n),
           UNCHANGED <<events, lastSeq, noted, ledger, taskOpen, archived, stored>>,
           \A s \in LogSweepers : round'[s] \in {round[s], NoRound}
    PROVE  LogInv'
  <1>1. /\ opslog \subseteq opslog'
        /\ topic["events"] \subseteq topic'["events"]
        /\ topic["usage"] \subseteq topic'["usage"]
        /\ topic'["events"] \cap noted \subseteq opslog'
    BY PublishedRows DEF LogInv, LogIsKept
  <1>2. NothingIsLost' /\ (archived' => ~taskOpen')
    BY DEF LogInv, LogIsKept, NothingIsLost
  <1>3. ArchivedIsStored'
    BY <1>1 DEF LogInv, LogIsKept, ArchivedIsStored
  <1>4. NotedBeforeStored'
    BY <1>1 DEF NotedBeforeStored
  <1>5. /\ stored'["events"] \subseteq topic'["events"]
        /\ stored'["usage"] \subseteq topic'["usage"]
    BY <1>1 DEF LogInv
  <1>6. ASSUME NEW s \in LogSweepers PROVE RoundAgrees(s)'
    <2>1. CASE round'[s] = round[s]
      BY <2>1 DEF LogInv, RoundAgrees
    <2>2. CASE round'[s] = NoRound
      BY <2>2 DEF RoundAgrees, NoRound
    <2> QED
      BY <2>1, <2>2
  <1> QED
    BY <1>2, <1>3, <1>4, <1>5, <1>6 DEF LogInv, LogIsKept

(* The count and the last seq agree only if every seq is there.             *)
LEMMA AgreeIsWhole ==
    ASSUME LogTypeOK, NEW last \in 0..lastSeq, CountsAgree(stored["events"], last)
    PROVE  stored["events"] = 1..last
  <1> DEFINE seqs == stored["events"]
  <1>1. lastSeq \in Nat /\ last \in Nat /\ seqs \subseteq 1..lastSeq
    BY LogAssumption DEF LogTypeOK
  <1>2. Cardinality(seqs) = last /\ \A q \in seqs : q <= last
    BY DEF CountsAgree
  <1> HIDE DEF seqs
  <1>3. seqs \subseteq 1..last
    BY <1>1, <1>2
  <1>4. IsFiniteSet(1..last) /\ Cardinality(1..last) = last
    BY <1>1, FS_Interval
  <1> QED
    BY <1>2, <1>3, <1>4, FS_Subset DEF seqs

(* A step of a sweep or of the sink that leaves Postgres alone.             *)
LEMMA Unmoved ==
    ASSUME LogInv, LogTypeOK',
           UNCHANGED <<events, lastSeq, noted, ledger, taskOpen, archived, opslog,
                       topic, stored>>,
           \A s \in LogSweepers : RoundAgrees(s)'
    PROVE  LogInv'
  BY DEF LogInv, LogIsKept, NothingIsLost, ArchivedIsStored, NotedBeforeStored
(* A log that is not archived is whole in Postgres; one that is archived is *)
(* whole in ClickHouse and in the Operations Log: however many sweeps       *)
(* overlap, whatever publish fails and wherever a process dies.             *)
THEOREM LogIsKeptAlways == LogSpec => []LogIsKept
<1>1. LogInit => LogInv
  <2> SUFFICES ASSUME LogInit PROVE LogInv
    OBVIOUS
  <2>1. LogTypeOK
    BY LogInitTypes
  <2>2. ASSUME NEW s \in LogSweepers PROVE RoundAgrees(s)
    BY DEF LogInit, NoRound, RoundAgrees
  <2>3. NothingIsLost /\ ArchivedIsStored /\ NotedBeforeStored
    <3>1. {1} = 1..1
      OBVIOUS
    <3> QED
      BY <3>1 DEF LogInit, NothingIsLost, ArchivedIsStored, NotedBeforeStored
  <2> QED
    BY <2>1, <2>2, <2>3 DEF LogInit, LogInv, LogIsKept
<1>2. LogInv /\ LogTypeOK' /\ [LogNext]_logVars => LogInv'
  <2> SUFFICES ASSUME LogInv, LogTypeOK', [LogNext]_logVars PROVE LogInv'
    OBVIOUS
  <2> USE DEF LogInv
  <2>1. CASE WriteEvent
    <3>1. PICK isNoted \in BOOLEAN : AppendRows(1, isNoted, {})
      BY <2>1 DEF WriteEvent
    <3>2. ~archived /\ UNCHANGED <<archived, opslog, topic, stored, round>>
      BY <2>1 DEF WriteEvent
    <3>3. 1 \in 1..3 /\ {} \in SUBSET Reports
      OBVIOUS
    <3> QED
      BY <3>1, <3>2, <3>3, AppendKeeps
  <2>2. CASE CloseTask
    <3>1. AppendRows(2, TRUE, {})
      BY <2>2 DEF CloseTask
    <3>2. ~archived /\ UNCHANGED <<archived, opslog, topic, stored, round>>
      BY <2>2 DEF CloseTask
    <3>3. 2 \in 1..3 /\ {} \in SUBSET Reports
      OBVIOUS
    <3> QED
      BY <3>1, <3>2, <3>3, AppendKeeps
  <2>3. CASE LateEvent
    <3>1. AppendRows(1, FALSE, {})
      BY <2>3 DEF LateEvent
    <3>2. ~archived /\ UNCHANGED <<archived, opslog, topic, stored, round>>
      BY <2>3 DEF LateEvent
    <3>3. 1 \in 1..3 /\ {} \in SUBSET Reports
      OBVIOUS
    <3> QED
      BY <3>1, <3>2, <3>3, AppendKeeps
  <2>4. ASSUME NEW r \in Reports, ReportUsage(r) PROVE LogInv'
    <3>1. ~archived /\ UNCHANGED <<archived, opslog, topic, stored, round>>
      BY <2>4 DEF ReportUsage
    <3>2. {r} \in SUBSET Reports /\ 1 \in 1..3 /\ 3 \in 1..3
      OBVIOUS
    <3>3. CASE AppendRows(1, FALSE, {r})
      BY <3>1, <3>2, <3>3, AppendKeeps
    <3>4. CASE AppendRows(3, TRUE, {r})
      BY <3>1, <3>2, <3>4, AppendKeeps
    <3> QED
      BY <2>4, <3>3, <3>4 DEF ReportUsage
  <2>5. ASSUME NEW b \in outbox, Publish(b) PROVE LogInv'
    <3>1. PICK n \in 0..2, rs \in {{}, b.reports} : Published(b.events, rs, n)
      BY <2>5 DEF Publish
    <3>2. b.events \in SUBSET (1..lastSeq) /\ rs \in SUBSET ledger
      BY DEF LogTypeOK
    <3>3. /\ UNCHANGED <<events, lastSeq, noted, ledger, taskOpen, archived, stored>>
          /\ \A s \in LogSweepers : round'[s] \in {round[s], NoRound}
      BY <2>5 DEF Publish
    <3> QED
      BY <3>1, <3>2, <3>3, PublishKeeps
  <2>6. ASSUME NEW s \in Streams, Sink(s) PROVE LogInv'
    <3>1. stored' = [stored EXCEPT ![s] = topic[s]]
      BY <2>6 DEF Sink
    <3>7. UNCHANGED <<events, lastSeq, noted, ledger, taskOpen, archived, opslog,
                      outbox, topic, round>>
      BY <2>6 DEF Sink
    <3>2. /\ topic["events"] \subseteq 1..lastSeq /\ topic["usage"] \subseteq ledger
          /\ stored["events"] \subseteq topic["events"]
          /\ stored["usage"] \subseteq topic["usage"]
      BY DEF LogTypeOK
    <3>3. /\ stored'["events"] \in {stored["events"], topic["events"]}
          /\ stored'["usage"] \in {stored["usage"], topic["usage"]}
      <4>1. CASE s = "events"
        BY <3>1, <4>1 DEF LogTypeOK
      <4>2. CASE s = "usage"
        BY <3>1, <4>2 DEF LogTypeOK
      <4> QED
        BY <4>1, <4>2 DEF Streams
    <3>4. ArchivedIsStored'
      <4> SUFFICES ASSUME archived PROVE /\ stored'["events"] = 1..lastSeq
                                         /\ stored'["usage"] = ledger
                                         /\ noted \subseteq opslog
        BY <3>7 DEF ArchivedIsStored
      <4>1. stored["events"] = 1..lastSeq /\ stored["usage"] = ledger /\ noted \subseteq opslog
        BY DEF LogIsKept, ArchivedIsStored
      <4>2. topic["events"] = 1..lastSeq /\ topic["usage"] = ledger
        BY <3>2, <4>1
      <4> QED
        BY <3>3, <4>1, <4>2
    <3>5. NothingIsLost' /\ NotedBeforeStored'
      BY <3>7 DEF LogIsKept, NothingIsLost, NotedBeforeStored
    <3>6. ASSUME NEW t \in LogSweepers PROVE RoundAgrees(t)'
      <4>1. RoundAgrees(t)
        OBVIOUS
      <4>2. ASSUME stored["usage"] = ledger PROVE stored'["usage"] = ledger
        <5>1. topic["usage"] = ledger
          BY <3>2, <4>2
        <5> QED
          BY <3>3, <4>2, <5>1
      <4>3. stored["events"] \subseteq stored'["events"]
        BY <3>2, <3>3
      <4> QED
        BY <3>7, <4>1, <4>2, <4>3 DEF RoundAgrees
    <3> QED
      BY <3>7, <3>2, <3>3, <3>4, <3>5, <3>6 DEF LogIsKept
  <2>7. ASSUME NEW s \in LogSweepers, ReadUnarchived(s) PROVE LogInv'
    <3>1. ASSUME NEW t \in LogSweepers PROVE RoundAgrees(t)'
      <4>1. CASE t = s
        BY <2>7, <4>1 DEF ReadUnarchived, NoRound, RoundAgrees, LogTypeOK
      <4>2. CASE t # s
        BY <2>7, <4>2 DEF ReadUnarchived, RoundAgrees, LogTypeOK
      <4> QED
        BY <4>1, <4>2
    <3> QED
      BY <2>7, <3>1, Unmoved DEF ReadUnarchived
  <2>8. ASSUME NEW s \in LogSweepers, CountEvents(s) PROVE LogInv'
    <3>1. ASSUME NEW t \in LogSweepers PROVE RoundAgrees(t)'
      <4>1. CASE t = s
        <5>1. /\ round'[s].at = "events" /\ round[s].at = "tasks"
              /\ round'[s].last = round[s].last /\ round'[s].reports = round[s].reports
              /\ round'[s].counted = round[s].counted
              /\ round'[s].whole = CountsAgree(stored["events"], round[s].last)
              /\ UNCHANGED <<lastSeq, ledger, stored>>
          BY <2>8 DEF CountEvents, LogTypeOK
        <5>2. round'[s].whole => 1..round'[s].last \subseteq stored'["events"]
          BY <5>1, AgreeIsWhole DEF LogTypeOK
        <5> QED
          BY <4>1, <5>1, <5>2 DEF RoundAgrees
      <4>2. CASE t # s
        BY <2>8, <4>2 DEF CountEvents, RoundAgrees, LogTypeOK
      <4> QED
        BY <4>1, <4>2
    <3> QED
      BY <2>8, <3>1, Unmoved DEF CountEvents
  <2>9. ASSUME NEW s \in LogSweepers, CountReports(s) PROVE LogInv'
    <3>1. ASSUME NEW t \in LogSweepers PROVE RoundAgrees(t)'
      <4>1. CASE t = s
        <5>1. /\ round'[s].at = "counted" /\ round[s].at = "events"
              /\ round'[s].last = round[s].last /\ round'[s].reports = round[s].reports
              /\ round'[s].whole = round[s].whole
              /\ round'[s].counted = (Cardinality(stored["usage"]) = round[s].reports)
              /\ UNCHANGED <<lastSeq, ledger, stored>>
          BY <2>9 DEF CountReports, LogTypeOK
        <5>2. stored["usage"] \subseteq ledger /\ IsFiniteSet(ledger)
          BY LogAssumption, FS_Subset DEF LogTypeOK
        <5>3. Cardinality(stored["usage"]) = Cardinality(ledger) => stored["usage"] = ledger
          BY <5>2, FS_Subset
        <5> QED
          BY <4>1, <5>1, <5>3 DEF RoundAgrees
      <4>2. CASE t # s
        BY <2>9, <4>2 DEF CountReports, RoundAgrees, LogTypeOK
      <4> QED
        BY <4>1, <4>2
    <3> QED
      BY <2>9, <3>1, Unmoved DEF CountReports
  <2>10. ASSUME NEW s \in LogSweepers, Republish(s) PROVE LogInv'
    <3>1. PICK es \in SUBSET (1..lastSeq), rs \in SUBSET ledger, n \in 0..2 :
              Published(es, rs, n)
      BY <2>10, RepublishedRows
    <3>2. /\ round' = [round EXCEPT ![s] = NoRound]
          /\ UNCHANGED <<events, lastSeq, noted, ledger, taskOpen, archived, outbox,
                         stored>>
      BY <2>10, RepublishedRows
    <3>3. \A t \in LogSweepers : round'[t] \in {round[t], NoRound}
      BY <3>2 DEF LogTypeOK
    <3> QED
      BY <3>1, <3>2, <3>3, PublishKeeps
  <2>11. ASSUME NEW s \in LogSweepers, Archive(s) PROVE LogInv'
    <3>1. /\ round' = [round EXCEPT ![s] = NoRound]
          /\ UNCHANGED <<lastSeq, noted, ledger, taskOpen, opslog, topic, stored>>
      BY <2>11 DEF Archive
    <3>2. ASSUME NEW t \in LogSweepers PROVE RoundAgrees(t)'
      <4>1. CASE t = s
        BY <3>1, <4>1 DEF NoRound, RoundAgrees, LogTypeOK
      <4>2. CASE t # s
        BY <3>1, <4>2 DEF RoundAgrees, LogTypeOK
      <4> QED
        BY <4>1, <4>2
    <3>3. CASE archived' = archived /\ events' = events
      BY <3>1, <3>2, <3>3, Unmoved
    <3>4. CASE ~taskOpen /\ round[s].last = lastSeq /\ archived' = TRUE
      <4>1. round[s].whole /\ round[s].counted /\ RoundAgrees(s)
        BY <2>11 DEF Archive
      <4>2. /\ stored["events"] \subseteq 1..lastSeq /\ noted \subseteq 1..lastSeq
            /\ stored["events"] \subseteq topic["events"]
        BY DEF LogTypeOK
      <4>3. stored["events"] = 1..lastSeq /\ stored["usage"] = ledger
        BY <3>4, <4>1, <4>2 DEF RoundAgrees
      <4>4. noted \subseteq opslog
        BY <4>2, <4>3 DEF LogIsKept, NotedBeforeStored
      <4>5. NothingIsLost' /\ ArchivedIsStored' /\ NotedBeforeStored'
        BY <3>1, <3>4, <4>3, <4>4
           DEF LogIsKept, NothingIsLost, ArchivedIsStored, NotedBeforeStored
      <4> QED
        BY <3>1, <3>2, <3>4, <4>5 DEF LogIsKept
    <3> QED
      BY <2>11, <3>3, <3>4 DEF Archive
  <2>12. CASE UNCHANGED logVars
    BY <2>12 DEF logVars, LogIsKept, NothingIsLost, ArchivedIsStored, NotedBeforeStored,
                 RoundAgrees
  <2> QED
    BY <2>1, <2>2, <2>3, <2>4, <2>5, <2>6, <2>7, <2>8, <2>9, <2>10, <2>11, <2>12,
       LogNextCases
<1>3. LogInv => LogIsKept
  BY DEF LogInv
<1> QED
  BY <1>1, <1>2, <1>3, LogTyping, PTL DEF LogSpec
-----------------------------------------------------------------------------
Rows == [state : {"absent", "active", "released", "expired", "failed"},
         used : BOOLEAN, mark : {"none", "fresh", "old"},
         revocation : {"not_applicable", "pending", "failed", "succeeded"}]
Calls == {"none", "creating", "sent", "asking", "issued", "unsaved", "failing"}
LeaseStates == {"none", "live", "revoked", "orphan"}

(* The type invariant, variable by variable.                               *)
LEMMA SecretTypes ==
    SecretsTypeOK <=>
        /\ taskClosed \in BOOLEAN /\ runnerLost \in BOOLEAN /\ fencersOk \in BOOLEAN
        /\ resolution \in [Resolutions -> Rows] /\ call \in [Resolutions -> Calls]
        /\ lease \in [Resolutions -> LeaseStates] /\ errand \in [Revokers -> Errands]
        /\ late \subseteq Resolutions /\ given \subseteq Resolutions
        /\ \A r \in Resolutions :
               \/ resolution[r].used
               \/ call[r] \in {"none", "creating", "sent"} /\ lease[r] = "none"
                      /\ resolution[r].revocation = "not_applicable"
  BY DEF SecretsTypeOK, Rows, Calls, LeaseStates

(* The cases of SecretsNext: the steps of a resolution, and of a revoker.  *)
ResolutionStep(r) ==
    \/ SendCreate(r) \/ CreateResolution(r) \/ SendMaterialize(r) \/ TakeHandle(r)
    \/ Issue(r) \/ KeepLease(r) \/ DropLease(r) \/ RevokeUnsaved(r) \/ Fail(r)
    \/ CrashCall(r) \/ Expires(r) \/ MarkAges(r)

LEMMA SecretsNextCases ==
    ASSUME SecretsNext
    PROVE  \/ EndTask \/ LoseRunner
           \/ \E r \in Resolutions : ResolutionStep(r)
           \/ \E a \in Releasers, r \in Resolutions : ReleaseResolution(a, r) \/ RevokeNow(a, r)
           \/ \E a \in Hooks : RunHook(a)
           \/ \E s \in SecretSweepers : SweepSecrets(s)
           \/ \E f \in Fencers : FenceRelease(f) \/ FenceRead(f) \/ FenceReturn(f)
           \/ \E a \in Revokers, r \in Resolutions, done \in BOOLEAN : AskToRevoke(a, r, done)
           \/ \E a \in Revokers : RecordRevocation(a) \/ EndErrand(a) \/ AbandonErrand(a)
  BY DEF SecretsNext, CallStep, ErrandStep, ResolutionStep

(* One row is written.                                                     *)
LEMMA RowWritten ==
    ASSUME resolution \in [Resolutions -> Rows], NEW r \in Resolutions, NEW row \in Rows,
           resolution' = [resolution EXCEPT ![r] = row]
    PROVE  /\ resolution'[r] = row /\ resolution' \in [Resolutions -> Rows]
           /\ \A q \in Resolutions \ {r} : resolution'[q] = resolution[q]
  OBVIOUS

(* What a step of a resolution changes is its own row, request and lease.  *)
LEMMA OfOneResolution ==
    ASSUME SecretsTypeOK, NEW r \in Resolutions, ResolutionStep(r)
    PROVE  /\ \A q \in Resolutions \ {r} :
                  resolution'[q] = resolution[q] /\ call'[q] = call[q] /\ lease'[q] = lease[q]
           /\ resolution'[r] \in Rows /\ call'[r] \in Calls /\ lease'[r] \in LeaseStates
           /\ resolution' \in [Resolutions -> Rows] /\ call' \in [Resolutions -> Calls]
           /\ lease' \in [Resolutions -> LeaseStates]
           /\ late' \subseteq Resolutions /\ given' \subseteq Resolutions
           /\ UNCHANGED <<taskClosed, runnerLost, errand, fencersOk>>
  <1>a. /\ resolution \in [Resolutions -> Rows] /\ resolution[r] \in Rows
        /\ call \in [Resolutions -> Calls] /\ lease \in [Resolutions -> LeaseStates]
        /\ late \subseteq Resolutions /\ given \subseteq Resolutions
    BY SecretTypes
  <1>1. CASE SendCreate(r)
    BY <1>a, <1>1 DEF SendCreate, Calls, LeaseStates
  <1>2. CASE CreateResolution(r)
    BY <1>a, <1>2 DEF CreateResolution, Calls, LeaseStates, Rows
  <1>3. CASE SendMaterialize(r)
    BY <1>a, <1>3 DEF SendMaterialize, Calls, LeaseStates
  <1>4. CASE TakeHandle(r)
    <2> DEFINE row == [resolution[r] EXCEPT !.used = TRUE, !.mark = "fresh"]
    <2>1. row \in Rows
      BY <1>a DEF Rows
    <2>2. UNCHANGED resolution \/ resolution' = [resolution EXCEPT ![r] = row]
      BY <1>4 DEF TakeHandle
    <2>3. /\ call' \in [Resolutions -> Calls]
          /\ \A q \in Resolutions \ {r} : call'[q] = call[q]
          /\ given' \subseteq given \cup {r}
          /\ UNCHANGED <<late, lease, taskClosed, runnerLost, errand, fencersOk>>
      BY <1>a, <1>4 DEF TakeHandle, Calls
    <2> HIDE DEF row
    <2> QED
      BY <1>a, <2>1, <2>2, <2>3, RowWritten
  <1>5. CASE Issue(r)
    BY <1>a, <1>5 DEF Issue, Calls, LeaseStates
  <1>6. CASE KeepLease(r)
    <2> DEFINE row == [resolution[r] EXCEPT !.mark = "none", !.revocation = "pending"]
    <2>1. row \in Rows
      BY <1>a DEF Rows
    <2>2. resolution' = [resolution EXCEPT ![r] = row]
      BY <1>6 DEF KeepLease
    <2>3. /\ call' \in [Resolutions -> Calls]
          /\ \A q \in Resolutions \ {r} : call'[q] = call[q]
          /\ given' \subseteq given \cup {r}
          /\ UNCHANGED <<late, lease, taskClosed, runnerLost, errand, fencersOk>>
      BY <1>a, <1>6 DEF KeepLease, Calls
    <2> HIDE DEF row
    <2> QED
      BY <1>a, <2>1, <2>2, <2>3, RowWritten
  <1>7. CASE DropLease(r)
    BY <1>a, <1>7 DEF DropLease, Calls, LeaseStates, Rows
  <1>8. CASE RevokeUnsaved(r)
    BY <1>a, <1>8 DEF RevokeUnsaved, Calls, LeaseStates
  <1>9. CASE Fail(r)
    <2> DEFINE row == [resolution[r] EXCEPT !.mark = "none", !.state = Failed(r)]
    <2>1. row \in Rows
      BY <1>a DEF Rows, Failed
    <2>2. UNCHANGED resolution \/ resolution' = [resolution EXCEPT ![r] = row]
      BY <1>9 DEF Fail
    <2>3. /\ call' \in [Resolutions -> Calls]
          /\ \A q \in Resolutions \ {r} : call'[q] = call[q]
          /\ given' \subseteq given \cup {r}
          /\ UNCHANGED <<late, lease, taskClosed, runnerLost, errand, fencersOk>>
      BY <1>a, <1>9 DEF Fail, Calls
    <2> HIDE DEF row
    <2> QED
      BY <1>a, <2>1, <2>2, <2>3, RowWritten
  <1>10. CASE CrashCall(r)
    BY <1>a, <1>10 DEF CrashCall, Calls, LeaseStates
  <1>11. CASE Expires(r)
    BY <1>a, <1>11 DEF Expires, Calls, LeaseStates
  <1>12. CASE MarkAges(r)
    BY <1>a, <1>12 DEF MarkAges, Calls, LeaseStates, Rows
  <1> QED
    BY <1>1, <1>2, <1>3, <1>4, <1>5, <1>6, <1>7, <1>8, <1>9, <1>10, <1>11, <1>12
       DEF ResolutionStep

-----------------------------------------------------------------------------
(***************************************************************************)
(* The inductive invariant. A row says more than FencedHoldsNothing asks:  *)
(* who has the material is on record, and what is recorded as revoked is   *)
(* dead; so the fencer, which reads the records, misses nothing.           *)
(***************************************************************************)
Recorded(r) == resolution[r].revocation # "not_applicable"

(* An unused handle has no lease, and a request under way has none on      *)
(* record yet.                                                             *)
Unused(r) ==
    /\ call[r] \in {"creating", "sent"} \/ resolution[r].state = "absent"
           => ~resolution[r].used
    /\ call[r] \in {"asking", "issued", "unsaved"} => ~Recorded(r)

RowOK(r) ==
    /\ \/ resolution[r].used
       \/ call[r] \in {"none", "creating", "sent"} /\ lease[r] = "none" /\ ~Recorded(r)
    /\ Unused(r)
    /\ r \in given => Recorded(r) /\ call[r] = "none"
    /\ resolution[r].revocation = "succeeded" => lease[r] # "live"

(* What a revoker has to do is on record, and what it has done is done.    *)
ErrandOK(a) ==
    errand[a].at # "locked" =>
        /\ \A r \in errand[a].todo : Recorded(r)
        /\ errand[a].at = "answered" =>
               /\ errand[a].of \in errand[a].todo
               /\ errand[a].done => lease[errand[a].of] # "live"

(* A fencer without a failure has every live lease before it.              *)
FencerOK(f) ==
    /\ errand[f].at # "none" => runnerLost /\ errand[f].at # "due"
    /\ errand[f].at \in {"revoking", "answered"} /\ errand[f].ok =>
           \A r \in given : r \in errand[f].todo \/ lease[r] # "live"

FencedOK == fencersOk => runnerLost /\ FencedHoldsNothing

SecretsInv ==
    /\ SecretsTypeOK
    /\ \A r \in Resolutions : RowOK(r)
    /\ \A a \in Revokers : ErrandOK(a)
    /\ \A f \in Fencers : FencerOK(f)
    /\ FencedOK

(* What no step undoes: a record, the end of a recorded lease, the loss of *)
(* the runner; and a lost runner is given nothing.                         *)
Forward ==
    /\ \A r \in Resolutions : Recorded(r) =>
           Recorded(r)' /\ (lease[r] # "live" => lease'[r] # "live")
    /\ runnerLost => runnerLost' /\ given' = given

(* Such a step leaves the revokers that it is not about as they should be. *)
LEMMA OtherErrands ==
    ASSUME SecretsInv, Forward, NEW b \in Revokers, errand'[b] = errand[b]
    PROVE  ErrandOK(b)' /\ (b \in Fencers => FencerOK(b)')
  <1>1. /\ errand[b].todo \subseteq Resolutions /\ given \subseteq Resolutions
        /\ ErrandOK(b) /\ (b \in Fencers => FencerOK(b))
        /\ \A r \in given : Recorded(r)
    BY SecretTypes DEF SecretsInv, RowOK, Errands
  <1>2. ErrandOK(b)'
    BY <1>1 DEF ErrandOK, Forward
  <1>3. b \in Fencers => FencerOK(b)'
    BY <1>1 DEF FencerOK, Forward
  <1> QED
    BY <1>2, <1>3

LEMMA FencedStays ==
    ASSUME SecretsInv, Forward, fencersOk' = fencersOk
    PROVE  FencedOK'
  <1>1. FencedOK /\ given \subseteq Resolutions /\ \A r \in given : Recorded(r)
    BY SecretTypes DEF SecretsInv, RowOK
  <1> QED
    BY <1>1 DEF FencedOK, FencedHoldsNothing, Forward

(* A step of a resolution leaves its row in order, and undoes nothing.     *)
LEMMA OwnRow ==
    ASSUME SecretsInv, NEW r \in Resolutions, ResolutionStep(r)
    PROVE  /\ RowOK(r)' /\ given' \subseteq given \cup {r}
           /\ Recorded(r) => Recorded(r)' /\ (lease[r] # "live" => lease'[r] # "live")
           /\ runnerLost => given' = given
  <1>a. /\ resolution \in [Resolutions -> Rows] /\ call \in [Resolutions -> Calls]
        /\ lease \in [Resolutions -> LeaseStates] /\ RowOK(r)
    BY SecretTypes DEF SecretsInv
  <1>b. resolution[r] \in Rows
    BY <1>a
  <1> USE DEF RowOK, Unused, Recorded
  <1>1. CASE SendCreate(r)
    BY <1>a, <1>1 DEF SendCreate, Calls
  <1>2. CASE CreateResolution(r)
    BY <1>a, <1>b, <1>2 DEF CreateResolution, Calls, Rows
  <1>3. CASE SendMaterialize(r)
    BY <1>a, <1>3 DEF SendMaterialize, Calls
  <1>4. CASE TakeHandle(r)
    <2>1. /\ call[r] = "sent" /\ call'[r] \in {"asking", "none"}
          /\ UNCHANGED <<lease, given>> /\ runnerLost' = runnerLost
      BY <1>a, <1>4 DEF TakeHandle
    <2>2. CASE resolution' = resolution /\ call'[r] = "none"
      BY <1>a, <2>1, <2>2
    <2>3. CASE /\ resolution' = [resolution EXCEPT ![r] =
                      [@ EXCEPT !.used = TRUE, !.mark = "fresh"]]
               /\ resolution[r].state = "active" /\ call'[r] = "asking"
      <3>1. /\ resolution'[r].used /\ resolution'[r].state = "active"
            /\ resolution'[r].revocation = resolution[r].revocation
        BY <1>a, <1>b, <2>3 DEF Rows
      <3> QED
        BY <1>a, <2>1, <2>3, <3>1
    <2> QED
      BY <1>a, <1>4, <2>2, <2>3 DEF TakeHandle
  <1>5. CASE Issue(r)
    BY <1>a, <1>5 DEF Issue, Calls, LeaseStates
  <1>6. CASE KeepLease(r)
    <2>1. /\ call[r] = "issued" /\ call'[r] \in {"none", "failing"}
          /\ (given' = given \cup {r} /\ call'[r] = "none") \/ given' = given
          /\ lease' = lease /\ ~runnerLost /\ resolution[r].state = "active"
      BY <1>a, <1>6 DEF KeepLease, StillUsable
    <2>2. resolution' = [resolution EXCEPT ![r] =
              [@ EXCEPT !.mark = "none", !.revocation = "pending"]]
      BY <1>6 DEF KeepLease
    <2>3. /\ resolution'[r].used = resolution[r].used
          /\ resolution'[r].state = resolution[r].state
          /\ resolution'[r].revocation = "pending"
      BY <1>a, <1>b, <2>2 DEF Rows
    <2> QED
      BY <1>a, <2>1, <2>3
  <1>7. CASE DropLease(r)
    BY <1>a, <1>b, <1>7 DEF DropLease, Calls, Rows
  <1>8. CASE RevokeUnsaved(r)
    BY <1>a, <1>8 DEF RevokeUnsaved, Calls, LeaseStates
  <1>9. CASE Fail(r)
    <2>1. call[r] = "failing" /\ call'[r] = "none" /\ UNCHANGED <<lease, given>>
      BY <1>a, <1>9 DEF Fail
    <2>2. \/ resolution' = resolution
          \/ resolution' = [resolution EXCEPT ![r] =
                 [@ EXCEPT !.mark = "none", !.state = Failed(r)]]
      BY <1>9 DEF Fail
    <2>3. /\ resolution'[r].used = resolution[r].used
          /\ resolution'[r].revocation = resolution[r].revocation
          /\ resolution'[r].state = "absent" => resolution[r].state = "absent"
      <3>1. CASE resolution' = resolution
        BY <3>1
      <3>2. CASE /\ resolution' = [resolution EXCEPT ![r] =
                        [@ EXCEPT !.mark = "none", !.state = "failed"]]
        BY <1>a, <1>b, <3>2 DEF Rows
      <3>3. CASE /\ resolution' = [resolution EXCEPT ![r] =
                        [@ EXCEPT !.mark = "none", !.state = resolution[r].state]]
        BY <1>a, <1>b, <3>3 DEF Rows
      <3> QED
        BY <2>2, <3>1, <3>2, <3>3 DEF Failed
    <2> QED
      BY <1>a, <2>1, <2>3
  <1>10. CASE CrashCall(r)
    BY <1>a, <1>10 DEF CrashCall, Calls, LeaseStates
  <1>11. CASE Expires(r)
    BY <1>a, <1>11 DEF Expires
  <1>12. CASE MarkAges(r)
    BY <1>a, <1>b, <1>12 DEF MarkAges, Rows
  <1> QED
    BY <1>1, <1>2, <1>3, <1>4, <1>5, <1>6, <1>7, <1>8, <1>9, <1>10, <1>11, <1>12
       DEF ResolutionStep

LEMMA ResolutionStepKeeps ==
    ASSUME SecretsInv, NEW r \in Resolutions, ResolutionStep(r)
    PROVE  SecretsInv'
  <1>1. SecretsTypeOK /\ \A q \in Resolutions : RowOK(q)
    BY DEF SecretsInv
  <1>2. /\ \A q \in Resolutions \ {r} :
               resolution'[q] = resolution[q] /\ call'[q] = call[q] /\ lease'[q] = lease[q]
        /\ resolution' \in [Resolutions -> Rows] /\ call' \in [Resolutions -> Calls]
        /\ lease' \in [Resolutions -> LeaseStates]
        /\ late' \subseteq Resolutions /\ given' \subseteq Resolutions
        /\ UNCHANGED <<taskClosed, runnerLost, errand, fencersOk>>
    BY <1>1, OfOneResolution
  <1>3. /\ RowOK(r)' /\ given' \subseteq given \cup {r}
        /\ Recorded(r) => Recorded(r)' /\ (lease[r] # "live" => lease'[r] # "live")
        /\ runnerLost => given' = given
    BY OwnRow
  <1>4. \A q \in Resolutions : RowOK(q)'
    <2> SUFFICES ASSUME NEW q \in Resolutions, q # r
                 PROVE  RowOK(q)'
      BY <1>3
    <2> QED
      BY <1>1, <1>2, <1>3 DEF RowOK, Unused, Recorded
  <1>5. Forward
    BY <1>2, <1>3 DEF Forward, Recorded
  <1>6. (\A a \in Revokers : ErrandOK(a)') /\ \A f \in Fencers : FencerOK(f)'
    BY <1>2, <1>5, OtherErrands DEF Revokers
  <1>7. SecretsTypeOK'
    <2>1. taskClosed' \in BOOLEAN /\ runnerLost' \in BOOLEAN /\ fencersOk' \in BOOLEAN
          /\ errand' \in [Revokers -> Errands]
      BY <1>1, <1>2 DEF SecretsTypeOK
    <2> QED
      BY <1>2, <1>4, <2>1 DEF SecretsTypeOK, RowOK, Recorded, Rows, Calls, LeaseStates
  <1> QED
    BY <1>2, <1>4, <1>5, <1>6, <1>7, FencedStays DEF SecretsInv

(* What the steps of the revokers do to the rows: they end them, which     *)
(* keeps all but the state; and to the leases: they end them too.          *)
Ended(r) ==
    /\ resolution'[r].used = resolution[r].used
    /\ resolution'[r].revocation = resolution[r].revocation
    /\ resolution'[r].state = "absent" => resolution[r].state = "absent"

LEMMA EndedRow ==
    ASSUME NEW row \in Rows, NEW new,
           \/ new = row
           \/ new = [row EXCEPT !.state = "released"]
           \/ new = [row EXCEPT !.state = "expired"]
    PROVE  /\ new \in Rows /\ new.used = row.used /\ new.revocation = row.revocation
           /\ new.state = "absent" => row.state = "absent"
  BY DEF Rows

LEMMA EndedRows ==
    ASSUME resolution \in [Resolutions -> Rows],
           resolution' = [r \in Resolutions |-> resolution'[r]],
           \A r \in Resolutions :
               \/ resolution'[r] = resolution[r]
               \/ resolution'[r] = [resolution[r] EXCEPT !.state = "released"]
               \/ resolution'[r] = [resolution[r] EXCEPT !.state = "expired"]
    PROVE  resolution' \in [Resolutions -> Rows] /\ \A r \in Resolutions : Ended(r)
  <1>1. ASSUME NEW r \in Resolutions
        PROVE  resolution'[r] \in Rows /\ Ended(r)
    <2>1. resolution[r] \in Rows
      OBVIOUS
    <2> QED
      BY <2>1, EndedRow DEF Ended
  <1> QED
    BY <1>1

(* A step that ends rows and leases, and gives nothing.                    *)
OnlyEnds ==
    /\ resolution' \in [Resolutions -> Rows] /\ \A r \in Resolutions : Ended(r)
    /\ lease' \in [Resolutions -> LeaseStates]
    /\ \A r \in Resolutions :
           lease'[r] = lease[r] \/ (Recorded(r) /\ lease'[r] = "revoked")
    /\ UNCHANGED <<call, given, late>>
    /\ taskClosed' \in BOOLEAN /\ runnerLost' \in BOOLEAN /\ (runnerLost => runnerLost')

LEMMA OnlyEndsKeeps ==
    ASSUME SecretsInv, OnlyEnds, errand' \in [Revokers -> Errands], fencersOk' \in BOOLEAN
    PROVE  SecretsTypeOK' /\ Forward /\ \A r \in Resolutions : RowOK(r)'
  <1>1. SecretsTypeOK /\ \A r \in Resolutions : RowOK(r)
    BY DEF SecretsInv
  <1>2. \A r \in Resolutions : RowOK(r)'
    BY <1>1 DEF OnlyEnds, RowOK, Unused, Recorded, Ended
  <1>3. Forward
    BY <1>1 DEF OnlyEnds, Forward, Recorded, Ended
  <1>4. SecretsTypeOK'
    BY <1>1, <1>2 DEF OnlyEnds, SecretsTypeOK, RowOK, Recorded, Rows, Calls, LeaseStates
  <1> QED
    BY <1>2, <1>3, <1>4

(* Only one revoker moves: what is left to show is about its own errand.   *)
LEMMA OneErrand ==
    ASSUME SecretsInv, Forward, SecretsTypeOK', \A r \in Resolutions : RowOK(r)',
           NEW a \in Revokers, \A b \in Revokers \ {a} : errand'[b] = errand[b],
           ErrandOK(a)', a \in Fencers => FencerOK(a)', FencedOK'
    PROVE  SecretsInv'
  <1>1. \A b \in Revokers : ErrandOK(b)' /\ (b \in Fencers => FencerOK(b)')
    BY OtherErrands
  <1> QED
    BY <1>1 DEF SecretsInv, Revokers

(* A revoker that is not a fencer sets out for what is on record.          *)
LEMMA SetOutKeeps ==
    ASSUME SecretsInv, OnlyEnds, UNCHANGED fencersOk, NEW a \in Revokers \ Fencers,
           NEW todo, \A r \in todo : r \in Resolutions /\ Recorded(r), SetOut(a, todo)
    PROVE  SecretsInv'
  <1> DEFINE e == Errand("revoking", todo)
  <1>1. e \in Errands /\ e.at = "revoking" /\ e.todo = todo
    BY DEF Errands, Errand
  <1>2. errand \in [Revokers -> Errands] /\ fencersOk \in BOOLEAN
    BY SecretTypes DEF SecretsInv
  <1>3. errand' = [errand EXCEPT ![a] = e]
    BY DEF SetOut
  <1> HIDE DEF e
  <1>4. /\ errand' \in [Revokers -> Errands] /\ errand'[a] = e
        /\ \A b \in Revokers \ {a} : errand'[b] = errand[b]
    BY <1>1, <1>2, <1>3
  <1>5. SecretsTypeOK' /\ Forward /\ \A r \in Resolutions : RowOK(r)'
    BY <1>2, <1>4, OnlyEndsKeeps
  <1>6. ErrandOK(a)'
    BY <1>1, <1>4, <1>5 DEF ErrandOK, Forward
  <1> QED
    BY <1>4, <1>5, <1>6, FencedStays, OneErrand

(* Nobody has anything to do after NoErrand.                               *)
LEMMA NothingToDo ==
    ASSUME SecretsInv, OnlyEnds, NEW a \in Revokers, FencedOK', fencersOk' \in BOOLEAN,
           errand' = [errand EXCEPT ![a] = NoErrand]
    PROVE  SecretsInv'
  <1>1. NoErrand \in Errands /\ NoErrand.at = "none" /\ NoErrand.todo = {}
    BY DEF NoErrand, Errand, Errands
  <1>2. errand \in [Revokers -> Errands]
    BY SecretTypes DEF SecretsInv
  <1>3. /\ errand' \in [Revokers -> Errands] /\ errand'[a] = NoErrand
        /\ \A b \in Revokers \ {a} : errand'[b] = errand[b]
    BY <1>1, <1>2
  <1>4. SecretsTypeOK' /\ Forward /\ \A r \in Resolutions : RowOK(r)'
    BY <1>3, OnlyEndsKeeps
  <1>5. ErrandOK(a)' /\ FencerOK(a)'
    BY <1>1, <1>3 DEF ErrandOK, FencerOK
  <1> QED
    BY <1>3, <1>4, <1>5, OneErrand

(* A step that leaves the rows and the leases alone only ends.             *)
LEMMA RowsAlone ==
    ASSUME SecretsInv, UNCHANGED <<resolution, lease, call, given, late>>,
           taskClosed' \in BOOLEAN, runnerLost' \in BOOLEAN, runnerLost => runnerLost'
    PROVE  OnlyEnds
  <1>1. resolution \in [Resolutions -> Rows] /\ lease \in [Resolutions -> LeaseStates]
    BY SecretTypes DEF SecretsInv
  <1> QED
    BY <1>1 DEF OnlyEnds, Ended

(* So does one that ends rows.                                             *)
LEMMA RowsEnding ==
    ASSUME SecretsInv, NEW rs, Ending(rs, "released"),
           UNCHANGED <<lease, call, given, late, taskClosed, runnerLost>>
    PROVE  OnlyEnds
  <1>1. /\ resolution \in [Resolutions -> Rows] /\ lease \in [Resolutions -> LeaseStates]
        /\ taskClosed \in BOOLEAN /\ runnerLost \in BOOLEAN
    BY SecretTypes DEF SecretsInv
  <1>2. /\ resolution' = [r \in Resolutions |-> resolution'[r]]
        /\ \A r \in Resolutions :
               \/ resolution'[r] = resolution[r]
               \/ resolution'[r] = [resolution[r] EXCEPT !.state = "released"]
    BY DEF Ending
  <1>3. resolution' \in [Resolutions -> Rows] /\ \A r \in Resolutions : Ended(r)
    BY <1>1, <1>2, EndedRows
  <1> QED
    BY <1>1, <1>3 DEF OnlyEnds

LEMMA EndTaskKeeps ==
    ASSUME SecretsInv, EndTask
    PROVE  SecretsInv'
  <1>a. /\ errand \in [Revokers -> Errands] /\ fencersOk \in BOOLEAN
        /\ runnerLost \in BOOLEAN /\ Hooks \cap Fencers = {}
    BY SecretTypes, SecretsAssumption DEF SecretsInv
  <1>1. /\ UNCHANGED <<resolution, lease, call, given, late>> /\ taskClosed' \in BOOLEAN
        /\ runnerLost' = runnerLost /\ fencersOk' = fencersOk
    BY DEF EndTask
  <1>2. OnlyEnds
    BY <1>a, <1>1, RowsAlone
  <1> DEFINE e == Errand("due", {})
  <1>3. e \in Errands /\ e.at = "due" /\ e.todo = {}
    BY DEF Errand, Errands
  <1>4. errand' = [b \in Revokers |-> IF b \in Hooks THEN e ELSE errand[b]]
    BY DEF EndTask
  <1> HIDE DEF e
  <1>5. errand' \in [Revokers -> Errands]
    BY <1>a, <1>3, <1>4
  <1>6. SecretsTypeOK' /\ Forward /\ \A r \in Resolutions : RowOK(r)'
    BY <1>a, <1>1, <1>2, <1>5, OnlyEndsKeeps
  <1>7. \A b \in Revokers : ErrandOK(b)' /\ (b \in Fencers => FencerOK(b)')
    <2> TAKE b \in Revokers
    <2>1. CASE b \in Hooks
      <3>1. errand'[b] = e /\ b \notin Fencers
        BY <1>a, <1>4, <2>1
      <3> QED
        BY <1>3, <3>1 DEF ErrandOK
    <2>2. CASE b \notin Hooks
      BY <1>4, <1>6, <2>2, OtherErrands
    <2> QED
      BY <2>1, <2>2
  <1> QED
    BY <1>1, <1>6, <1>7, FencedStays DEF SecretsInv, Revokers

LEMMA LoseRunnerKeeps ==
    ASSUME SecretsInv, LoseRunner
    PROVE  SecretsInv'
  <1>1. /\ UNCHANGED <<resolution, lease, call, given, late, errand, fencersOk, taskClosed>>
        /\ runnerLost' = TRUE
    BY DEF LoseRunner
  <1>2. taskClosed \in BOOLEAN /\ fencersOk \in BOOLEAN /\ errand \in [Revokers -> Errands]
    BY SecretTypes DEF SecretsInv
  <1>3. OnlyEnds
    BY <1>1, <1>2, RowsAlone
  <1>4. SecretsTypeOK' /\ Forward /\ \A r \in Resolutions : RowOK(r)'
    BY <1>1, <1>2, <1>3, OnlyEndsKeeps
  <1> QED
    BY <1>1, <1>4, OtherErrands, FencedStays DEF SecretsInv, Revokers

(* The requests, the hook and the sweep.                                   *)
LEMMA RevokersKeep ==
    ASSUME SecretsInv,
           \/ \E a \in Releasers, r \in Resolutions :
                  ReleaseResolution(a, r) \/ RevokeNow(a, r)
           \/ \E a \in Hooks : RunHook(a)
           \/ \E s \in SecretSweepers : SweepSecrets(s)
    PROVE  SecretsInv'
  <1>a. /\ resolution \in [Resolutions -> Rows] /\ lease \in [Resolutions -> LeaseStates]
        /\ taskClosed \in BOOLEAN /\ runnerLost \in BOOLEAN
    BY SecretTypes DEF SecretsInv
  <1>b. (Releasers \cup Hooks \cup SecretSweepers) \subseteq Revokers \ Fencers
    BY SecretsAssumption DEF Revokers
  <1>c. \A r \in Unrevoked : r \in Resolutions /\ Recorded(r)
    BY DEF Unrevoked, Recorded
  <1>1. ASSUME NEW a \in Releasers, NEW r \in Resolutions, ReleaseResolution(a, r)
        PROVE  SecretsInv'
    <2>1. /\ Ending({r} \cap Active, "released") /\ SetOut(a, {r} \cap Unrevoked)
          /\ UNCHANGED <<lease, call, given, late, taskClosed, runnerLost, fencersOk>>
      BY <1>1 DEF ReleaseResolution
    <2>2. OnlyEnds
      BY <2>1, RowsEnding
    <2>3. a \in Revokers \ Fencers
      BY <1>b
    <2> QED
      BY <1>c, <2>1, <2>2, <2>3, SetOutKeeps
  <1>2. ASSUME NEW a \in Releasers, NEW r \in Resolutions, RevokeNow(a, r)
        PROVE  SecretsInv'
    <2>1. /\ r \in Unrevoked /\ SetOut(a, {r})
          /\ UNCHANGED <<resolution, lease, call, given, late, taskClosed, runnerLost,
                         fencersOk>>
      BY <1>2 DEF RevokeNow
    <2>2. OnlyEnds
      BY <1>a, <2>1, RowsAlone
    <2>3. a \in Revokers \ Fencers
      BY <1>b
    <2> QED
      BY <1>c, <2>1, <2>2, <2>3, SetOutKeeps
  <1>3. ASSUME NEW a \in Hooks, RunHook(a)
        PROVE  SecretsInv'
    <2> DEFINE todo == {r \in Active : resolution[r].revocation = "pending"}
    <2>1. /\ Ending(Active, "released") /\ SetOut(a, todo)
          /\ UNCHANGED <<lease, call, given, late, taskClosed, runnerLost, fencersOk>>
      BY <1>3 DEF RunHook
    <2>2. OnlyEnds
      BY <2>1, RowsEnding
    <2>3. a \in Revokers \ Fencers /\ \A r \in todo : r \in Resolutions /\ Recorded(r)
      BY <1>b DEF Active, Recorded
    <2> HIDE DEF todo
    <2> QED
      BY <2>1, <2>2, <2>3, SetOutKeeps
  <1>4. ASSUME NEW s \in SecretSweepers, NEW retry \in SUBSET Retriable, SweepOf(s, retry)
        PROVE  SecretsInv'
    <2> DEFINE expired == Active \cap late
    <2> DEFINE closed == IF taskClosed THEN Active \ expired ELSE {}
    <2> DEFINE mine == {r \in expired \cup closed : resolution[r].revocation = "pending"}
    <2>1. /\ resolution' = [r \in Resolutions |->
                 IF r \in expired THEN [resolution[r] EXCEPT !.state = "expired"]
                 ELSE IF r \in closed THEN [resolution[r] EXCEPT !.state = "released"]
                 ELSE resolution[r]]
          /\ SetOut(s, mine \cup retry)
          /\ UNCHANGED <<lease, call, given, late, taskClosed, runnerLost, fencersOk>>
      BY <1>4 DEF SweepOf
    <2>2. /\ s \in Revokers \ Fencers
          /\ \A r \in mine \cup retry : r \in Resolutions /\ Recorded(r)
      BY <1>b, <1>c DEF Active, Recorded, Retriable
    <2> HIDE DEF expired, closed, mine
    <2>3. /\ resolution' = [r \in Resolutions |-> resolution'[r]]
          /\ \A r \in Resolutions :
                 \/ resolution'[r] = resolution[r]
                 \/ resolution'[r] = [resolution[r] EXCEPT !.state = "released"]
                 \/ resolution'[r] = [resolution[r] EXCEPT !.state = "expired"]
      BY <2>1
    <2>4. resolution' \in [Resolutions -> Rows] /\ \A r \in Resolutions : Ended(r)
      BY <1>a, <2>3, EndedRows
    <2>5. OnlyEnds
      BY <1>a, <2>1, <2>4 DEF OnlyEnds
    <2> QED
      BY <2>1, <2>2, <2>5, SetOutKeeps
  <1> QED
    BY <1>1, <1>2, <1>3, <1>4 DEF SweepSecrets

LEMMA FenceReleaseKeeps ==
    ASSUME SecretsInv, NEW f \in Fencers, FenceRelease(f)
    PROVE  SecretsInv'
  <1> DEFINE e == Errand("locked", Active)
  <1>1. e \in Errands /\ e.at = "locked"
    BY DEF Errand, Errands, Active
  <1>2. errand \in [Revokers -> Errands] /\ fencersOk \in BOOLEAN /\ f \in Revokers
    BY SecretTypes DEF SecretsInv, Revokers
  <1>3. /\ Ending(Active, "released") /\ errand' = [errand EXCEPT ![f] = e] /\ runnerLost
        /\ UNCHANGED <<lease, call, given, late, taskClosed, runnerLost, fencersOk>>
    BY DEF FenceRelease
  <1> HIDE DEF e
  <1>4. /\ errand' \in [Revokers -> Errands] /\ errand'[f] = e
        /\ \A b \in Revokers \ {f} : errand'[b] = errand[b]
    BY <1>1, <1>2, <1>3
  <1>5. OnlyEnds
    BY <1>3, RowsEnding
  <1>6. SecretsTypeOK' /\ Forward /\ \A r \in Resolutions : RowOK(r)'
    BY <1>2, <1>3, <1>4, <1>5, OnlyEndsKeeps
  <1>7. ErrandOK(f)' /\ FencerOK(f)'
    BY <1>1, <1>3, <1>4 DEF ErrandOK, FencerOK
  <1> QED
    BY <1>2, <1>3, <1>4, <1>6, <1>7, FencedStays, OneErrand

(* What the fencer reads, it reads after it has released all: what it does *)
(* not have to revoke has been revoked.                                    *)
LEMMA FenceReadKeeps ==
    ASSUME SecretsInv, NEW f \in Fencers, FenceRead(f)
    PROVE  SecretsInv'
  <1>1. /\ errand \in [Revokers -> Errands] /\ errand[f] \in Errands
        /\ fencersOk \in BOOLEAN /\ f \in Revokers
        /\ taskClosed \in BOOLEAN /\ runnerLost \in BOOLEAN
    BY SecretTypes DEF SecretsInv, Revokers
  <1> DEFINE ok == \A r \in Resolutions : resolution[r].mark # "fresh"
  <1> DEFINE e == [errand[f] EXCEPT !.at = "revoking", !.todo = Unrevoked, !.ok = ok]
  <1>2. /\ errand[f].at = "locked" /\ errand' = [errand EXCEPT ![f] = e]
        /\ UNCHANGED <<resolution, lease, call, given, late, taskClosed, runnerLost,
                       fencersOk>>
    BY DEF FenceRead
  <1>3. e \in Errands /\ e.at = "revoking" /\ e.todo = Unrevoked
    <2>1. Unrevoked \in SUBSET Resolutions /\ ok \in BOOLEAN
      BY DEF Unrevoked
    <2> HIDE DEF ok
    <2> QED
      BY <1>1, <2>1 DEF Errands
  <1> HIDE DEF e
  <1>4. /\ errand' \in [Revokers -> Errands] /\ errand'[f] = e
        /\ \A b \in Revokers \ {f} : errand'[b] = errand[b]
    BY <1>1, <1>2, <1>3
  <1>5. OnlyEnds
    BY <1>1, <1>2, RowsAlone
  <1>6. SecretsTypeOK' /\ Forward /\ \A r \in Resolutions : RowOK(r)'
    BY <1>1, <1>2, <1>4, <1>5, OnlyEndsKeeps
  <1>7. Unrevoked' = Unrevoked /\ \A r \in Unrevoked : r \in Resolutions /\ Recorded(r)'
    BY <1>2 DEF Unrevoked, Recorded
  <1>8. ErrandOK(f)'
    BY <1>3, <1>4, <1>7 DEF ErrandOK
  <1>9. \A r \in given : r \in Unrevoked \/ lease[r] # "live"
    <2> SUFFICES ASSUME NEW r \in given
                 PROVE  r \in Unrevoked \/ lease[r] # "live"
      OBVIOUS
    <2>1. r \in Resolutions /\ resolution[r] \in Rows /\ RowOK(r)
      BY SecretTypes DEF SecretsInv
    <2> QED
      BY <2>1 DEF RowOK, Recorded, Rows, Unrevoked
  <1>10. FencerOK(f)
    BY DEF SecretsInv
  <1>11. FencerOK(f)'
    BY <1>2, <1>3, <1>4, <1>9, <1>10 DEF FencerOK
  <1> QED
    BY <1>1, <1>2, <1>4, <1>6, <1>8, <1>11, FencedStays, OneErrand

(* It returns True when nothing failed and nothing is left.                *)
LEMMA FenceReturnKeeps ==
    ASSUME SecretsInv, NEW f \in Fencers, FenceReturn(f)
    PROVE  SecretsInv'
  <1>1. /\ errand[f] \in Errands /\ fencersOk \in BOOLEAN /\ f \in Revokers
        /\ taskClosed \in BOOLEAN /\ runnerLost \in BOOLEAN /\ FencerOK(f) /\ FencedOK
    BY SecretTypes DEF SecretsInv, Revokers
  <1>2. /\ errand[f].at = "revoking" /\ errand[f].todo = {}
        /\ errand' = [errand EXCEPT ![f] = NoErrand]
        /\ fencersOk' = (fencersOk \/ errand[f].ok)
        /\ UNCHANGED <<resolution, lease, call, given, late, taskClosed, runnerLost>>
    BY DEF FenceReturn
  <1>3. fencersOk' \in BOOLEAN
    <2>1. errand[f].ok \in BOOLEAN
      BY <1>1 DEF Errands
    <2> QED
      BY <1>1, <1>2, <2>1
  <1>4. FencedOK'
    BY <1>1, <1>2 DEF FencedOK, FencedHoldsNothing, FencerOK
  <1>5. OnlyEnds
    BY <1>1, <1>2, RowsAlone
  <1> QED
    BY <1>1, <1>2, <1>3, <1>4, <1>5, NothingToDo

LEMMA EndErrandKeeps ==
    ASSUME SecretsInv, NEW a \in Revokers, EndErrand(a) \/ AbandonErrand(a)
    PROVE  SecretsInv'
  <1>1. /\ errand' = [errand EXCEPT ![a] = NoErrand]
        /\ UNCHANGED <<resolution, lease, call, given, late, taskClosed, runnerLost,
                       fencersOk>>
    BY DEF EndErrand, AbandonErrand
  <1>2. /\ fencersOk \in BOOLEAN /\ taskClosed \in BOOLEAN /\ runnerLost \in BOOLEAN
    BY SecretTypes DEF SecretsInv
  <1>3. OnlyEnds
    BY <1>1, <1>2, RowsAlone
  <1>4. Forward
    BY <1>1 DEF Forward, Recorded
  <1> QED
    BY <1>1, <1>2, <1>3, <1>4, FencedStays, NothingToDo

(* The provider is asked for what is on record, and no lease begins.       *)
LEMMA AskToRevokeKeeps ==
    ASSUME SecretsInv, NEW a \in Revokers, NEW r \in Resolutions, NEW done \in BOOLEAN,
           AskToRevoke(a, r, done)
    PROVE  SecretsInv'
  <1>1. /\ errand \in [Revokers -> Errands] /\ errand[a] \in Errands
        /\ fencersOk \in BOOLEAN /\ taskClosed \in BOOLEAN /\ runnerLost \in BOOLEAN
        /\ resolution \in [Resolutions -> Rows] /\ lease \in [Resolutions -> LeaseStates]
        /\ ErrandOK(a)
    BY SecretTypes DEF SecretsInv
  <1> DEFINE e == [errand[a] EXCEPT !.at = "answered", !.of = r, !.done = done]
  <1>2. /\ errand[a].at = "revoking" /\ r \in errand[a].todo
        /\ errand' = [errand EXCEPT ![a] = e]
        /\ lease' = [lease EXCEPT ![r] = "revoked"] \/ (~done /\ lease' = lease)
        /\ UNCHANGED <<resolution, call, given, late, taskClosed, runnerLost, fencersOk>>
    BY DEF AskToRevoke
  <1>3. /\ e \in Errands /\ e.at = "answered" /\ e.of = r /\ e.done = done
        /\ e.todo = errand[a].todo /\ e.ok = errand[a].ok
    BY <1>1 DEF Errands
  <1> HIDE DEF e
  <1>4. /\ errand' \in [Revokers -> Errands] /\ errand'[a] = e
        /\ \A b \in Revokers \ {a} : errand'[b] = errand[b]
    BY <1>1, <1>2, <1>3
  <1>5. Recorded(r) /\ \A q \in errand[a].todo : Recorded(q)
    BY <1>1, <1>2 DEF ErrandOK
  <1>6. /\ lease' \in [Resolutions -> LeaseStates]
        /\ \A q \in Resolutions :
               lease'[q] = lease[q] \/ (Recorded(q) /\ lease'[q] = "revoked")
        /\ done => lease'[r] = "revoked"
    BY <1>1, <1>2, <1>5 DEF LeaseStates
  <1>7. OnlyEnds
    BY <1>1, <1>2, <1>6 DEF OnlyEnds, Ended
  <1>8. SecretsTypeOK' /\ Forward /\ \A q \in Resolutions : RowOK(q)'
    BY <1>1, <1>2, <1>4, <1>7, OnlyEndsKeeps
  <1>9. ErrandOK(a)'
    BY <1>2, <1>3, <1>4, <1>5, <1>6 DEF ErrandOK, Recorded
  <1>10. a \in Fencers => FencerOK(a)'
    <2> SUFFICES ASSUME a \in Fencers
                 PROVE  FencerOK(a)'
      OBVIOUS
    <2>1. FencerOK(a) /\ given \subseteq Resolutions
      BY SecretTypes DEF SecretsInv
    <2> QED
      BY <1>2, <1>3, <1>4, <1>6, <2>1 DEF FencerOK
  <1> QED
    BY <1>2, <1>4, <1>8, <1>9, <1>10, FencedStays, OneErrand

(* What is recorded as succeeded the provider has revoked; what failed     *)
(* keeps this fencer from returning True.                                  *)
LEMMA RecordRevocationKeeps ==
    ASSUME SecretsInv, NEW a \in Revokers, RecordRevocation(a)
    PROVE  SecretsInv'
  <1> PICK r : r = errand[a].of
    OBVIOUS
  <1> PICK res : res = IF errand[a].done THEN "succeeded" ELSE "failed"
    OBVIOUS
  <1>1. /\ errand \in [Revokers -> Errands] /\ errand[a] \in Errands
        /\ fencersOk \in BOOLEAN /\ taskClosed \in BOOLEAN /\ runnerLost \in BOOLEAN
        /\ resolution \in [Resolutions -> Rows] /\ lease \in [Resolutions -> LeaseStates]
        /\ ErrandOK(a) /\ given \subseteq Resolutions
    BY SecretTypes DEF SecretsInv
  <1> DEFINE e == Settled(errand[a])
  <1>2. /\ errand[a].at = "answered" /\ errand' = [errand EXCEPT ![a] = e]
        /\ resolution' = [resolution EXCEPT ![r].revocation = res]
        /\ UNCHANGED <<lease, call, given, late, taskClosed, runnerLost, fencersOk>>
    <2>1. errand[a].at = "answered" /\ errand' = [errand EXCEPT ![a] = e]
      BY Zenon DEF RecordRevocation
    <2>2. resolution' = [resolution EXCEPT ![r].revocation = res]
      BY Zenon DEF RecordRevocation
    <2>3. UNCHANGED <<lease, call, given, late, taskClosed, runnerLost, fencersOk>>
      BY DEF RecordRevocation
    <2> QED
      BY <2>1, <2>2, <2>3
  <1>3. /\ r \in errand[a].todo /\ r \in Resolutions /\ Recorded(r)
        /\ errand[a].done => lease[r] # "live"
    BY <1>1, <1>2 DEF ErrandOK, Errands
  <1>4. /\ e \in Errands /\ e.at = "revoking" /\ e.todo = errand[a].todo \ {r}
        /\ e.ok => errand[a].ok /\ errand[a].done
    BY <1>1 DEF Settled, Errands
  <1>5. /\ resolution'[r].used = resolution[r].used
        /\ resolution'[r].state = resolution[r].state
        /\ resolution'[r].revocation = res /\ res # "not_applicable"
        /\ resolution' \in [Resolutions -> Rows]
        /\ \A q \in Resolutions \ {r} : resolution'[q] = resolution[q]
    BY <1>1, <1>2, <1>3 DEF Rows
  <1>6. res = "succeeded" => lease[r] # "live"
    BY <1>3
  <1>7. RowOK(r)'
    <2>1. RowOK(r)
      BY <1>3 DEF SecretsInv
    <2>2. resolution[r].used
      BY <1>3, <2>1 DEF RowOK
    <2> QED
      BY <1>2, <1>3, <1>5, <1>6, <2>1, <2>2 DEF RowOK, Unused, Recorded
  <1> HIDE DEF e
  <1>8. /\ errand' \in [Revokers -> Errands] /\ errand'[a] = e
        /\ \A b \in Revokers \ {a} : errand'[b] = errand[b]
    BY <1>1, <1>2, <1>4
  <1>9. \A q \in Resolutions : RowOK(q)'
    <2> SUFFICES ASSUME NEW q \in Resolutions, q # r
                 PROVE  RowOK(q)'
      BY <1>7
    <2>1. RowOK(q)
      BY DEF SecretsInv
    <2> QED
      BY <1>2, <1>5, <2>1 DEF RowOK, Unused, Recorded
  <1>10. Forward
    BY <1>2, <1>5 DEF Forward, Recorded
  <1>11. SecretsTypeOK'
    <2>1. SecretsTypeOK
      BY DEF SecretsInv
    <2> QED
      BY <1>1, <1>2, <1>5, <1>8, <1>9, <2>1
         DEF SecretsTypeOK, RowOK, Recorded, Rows, Calls, LeaseStates
  <1>12. ErrandOK(a)'
    BY <1>1, <1>2, <1>4, <1>8, <1>10 DEF ErrandOK, Forward, Errands
  <1>13. a \in Fencers => FencerOK(a)'
    <2> SUFFICES ASSUME a \in Fencers
                 PROVE  FencerOK(a)'
      OBVIOUS
    <2>1. FencerOK(a)
      BY DEF SecretsInv
    <2> QED
      BY <1>2, <1>3, <1>4, <1>8, <2>1 DEF FencerOK
  <1> QED
    BY <1>2, <1>8, <1>9, <1>10, <1>11, <1>12, <1>13, FencedStays, OneErrand

-----------------------------------------------------------------------------
LEMMA SecretsInitInv ==
    ASSUME SecretsInit
    PROVE  SecretsInv
  BY DEF SecretsInit, SecretsInv, SecretsTypeOK, RowOK, Unused, Recorded, ErrandOK, FencerOK,
         FencedOK, FencedHoldsNothing, NoRow, NoErrand, Errand, Errands, Revokers

LEMMA SecretsNextInv ==
    ASSUME SecretsInv, [SecretsNext]_secretVars
    PROVE  SecretsInv'
  <1>1. CASE SecretsNext
    <2>1. ASSUME NEW r \in Resolutions, ResolutionStep(r)
          PROVE  SecretsInv'
      BY <2>1, ResolutionStepKeeps
    <2>2. ASSUME NEW f \in Fencers, FenceRelease(f) \/ FenceRead(f) \/ FenceReturn(f)
          PROVE  SecretsInv'
      BY <2>2, FenceReleaseKeeps, FenceReadKeeps, FenceReturnKeeps
    <2>3. ASSUME NEW a \in Revokers, NEW r \in Resolutions, NEW done \in BOOLEAN,
                 AskToRevoke(a, r, done)
          PROVE  SecretsInv'
      BY <2>3, AskToRevokeKeeps
    <2>4. ASSUME NEW a \in Revokers, RecordRevocation(a) \/ EndErrand(a) \/ AbandonErrand(a)
          PROVE  SecretsInv'
      BY <2>4, RecordRevocationKeeps, EndErrandKeeps
    <2> QED
      BY <1>1, <2>1, <2>2, <2>3, <2>4, SecretsNextCases, EndTaskKeeps, LoseRunnerKeeps,
         RevokersKeep
  <1>2. CASE UNCHANGED secretVars
    BY <1>2 DEF secretVars, SecretsInv, SecretsTypeOK, RowOK, Unused, Recorded, ErrandOK,
                FencerOK, FencedOK, FencedHoldsNothing
  <1> QED
    BY <1>1, <1>2

THEOREM SecretsInvariant == SecretsSpec => []SecretsInv
  BY SecretsInitInv, SecretsNextInv, PTL DEF SecretsSpec

(* The types, of rows, requests, leases and errands (broker.py): only what *)
(* was materialized has a lease, or a revocation to its name.              *)
THEOREM SecretsTyping == SecretsSpec => []SecretsTypeOK
  <1>1. SecretsInv => SecretsTypeOK
    BY DEF SecretsInv
  <1> QED
    BY <1>1, SecretsInvariant, PTL

(* Once a fencer has returned True, no lease is live whose material the    *)
(* lost runner has got (release_runner_resolutions), for any resolutions,  *)
(* fencers and other revokers, and any of the faults.                      *)
THEOREM FencedHoldsNothingAlways == SecretsSpec => []FencedHoldsNothing
  <1>1. SecretsInv => FencedHoldsNothing
    BY DEF SecretsInv, FencedOK, FencedHoldsNothing
  <1> QED
    BY <1>1, SecretsInvariant, PTL
=============================================================================
