-------------------------------- MODULE TaskLog --------------------------------
(***************************************************************************)
(* The log of one agent task: its events and usage reports in Postgres,    *)
(* their way through Iggy into ClickHouse, and the sweep that publishes    *)
(* what is missing and archives the log of a closed task.                  *)
(* apps/api/src/imbi/api/agent_tasks/log.py, sweeper.py and store.py.      *)
(*                                                                         *)
(* A write commits its rows and publishes them afterwards; the process may *)
(* die in between, and each of the three publishes of a batch may fail.    *)
(* Abstracted: what an event says, except that "noted" events also go to   *)
(* the Operations Log; the sweep of stale sessions (AgentTasks).           *)
(***************************************************************************)
EXTENDS Integers, FiniteSets

CONSTANTS
    MaxEvents,      \* bound: the events of the task
    Reports,        \* the usage reports
    LogSweepers     \* instances that sweep at once, when Valkey is away

ASSUME LogAssumption == MaxEvents \in Nat \ {0} /\ IsFiniteSet(Reports)

VARIABLES
    events,     \* the seqs in agent_runtime.events
    lastSeq,    \* tasks.last_seq
    noted,      \* the seqs of the events that the Operations Log shows
    ledger,     \* the reports in agent_runtime.budget_ledger
    taskOpen,   \* the task is not closed
    archived,   \* log_archived_at is set
    opslog,     \* the noted events whose Operations Log row is published
    outbox,     \* batches committed and not yet published
    topic,      \* what each Iggy stream has got
    stored,     \* what ClickHouse has of each stream
    round       \* the round of each sweeper: what it has read

logVars == <<events, lastSeq, noted, ledger, taskOpen, archived, opslog, outbox,
             topic, stored, round>>

Streams == {"events", "usage"}
NoRound == [at |-> "none", last |-> 0, open |-> TRUE, reports |-> 0,
            whole |-> FALSE, counted |-> FALSE]

LogInit ==
    /\ events = {1} /\ lastSeq = 1 /\ noted = {}        \* task.created
    /\ ledger = {} /\ taskOpen = TRUE /\ archived = FALSE /\ opslog = {}
    /\ outbox = {[events |-> {1}, reports |-> {}]}
    /\ topic = [events |-> {}, usage |-> {}]
    /\ stored = [events |-> {}, usage |-> {}]
    /\ round = [s \in LogSweepers |-> NoRound]

(* Mutant: the rows of a write count as one.                               *)
AppendUncounted(n, isNoted, reports) ==
    /\ lastSeq + n <= MaxEvents
    /\ lastSeq' = lastSeq + 1
    /\ events' = events \cup (lastSeq + 1 .. lastSeq + n)
    /\ noted' = noted \cup (IF isNoted THEN {lastSeq + n} ELSE {})
    /\ ledger' = ledger \cup reports
    /\ outbox' = outbox \cup {[events |-> lastSeq + 1 .. lastSeq + n,
                               reports |-> reports]}

(* Append n events and the reports in one transaction.                     *)
AppendRows(n, isNoted, reports) ==
    /\ lastSeq + n <= MaxEvents
    /\ lastSeq' = lastSeq + n
    /\ events' = events \cup (lastSeq + 1 .. lastSeq + n)
    /\ noted' = noted \cup (IF isNoted THEN {lastSeq + n} ELSE {})
    /\ ledger' = ledger \cup reports
    /\ outbox' = outbox \cup {[events |-> lastSeq + 1 .. lastSeq + n,
                               reports |-> reports]}

(* _write on an open task. A closing write adds state.changed and          *)
(* outcome.set, of which the Operations Log shows the latter.              *)
WriteEvent ==
    /\ taskOpen
    /\ \E isNoted \in BOOLEAN : AppendRows(1, isNoted, {})
    /\ UNCHANGED <<taskOpen, archived, opslog, topic, stored, round>>

(* report_usage: the ledger row and its event; past the budget it closes.  *)
ReportUsage(r) ==
    /\ taskOpen /\ r \notin ledger
    /\ \/ AppendRows(1, FALSE, {r}) /\ taskOpen' = TRUE
       \/ AppendRows(3, TRUE, {r}) /\ taskOpen' = FALSE
    /\ UNCHANGED <<archived, opslog, topic, stored, round>>

CloseTask ==
    /\ taskOpen
    /\ AppendRows(2, TRUE, {})
    /\ taskOpen' = FALSE
    /\ UNCHANGED <<archived, opslog, topic, stored, round>>

(* append_event: a change elsewhere that a closed task shows.              *)
LateEvent ==
    /\ ~taskOpen /\ ~archived
    /\ AppendRows(1, FALSE, {})
    /\ UNCHANGED <<taskOpen, archived, opslog, topic, stored, round>>

(* Mutant: the events first.                                               *)
PublishedEventsFirst(es, rs, n) ==
    /\ opslog' = opslog \cup (IF n >= 2 THEN es \cap noted ELSE {})
    /\ topic' = [events |-> topic["events"] \cup (IF n >= 1 THEN es ELSE {}),
                 usage |-> topic["usage"] \cup rs]

(* publish: the Operations Log, then the events, then the usage. It stops  *)
(* at the first failure; a process that dies stops it too.                 *)
Published(es, rs, n) ==
    /\ opslog' = opslog \cup (IF n >= 1 THEN es \cap noted ELSE {})
    /\ topic' = [events |-> topic["events"] \cup (IF n >= 2 THEN es ELSE {}),
                 usage |-> topic["usage"] \cup rs]

Publish(b) ==
    /\ b \in outbox
    /\ outbox' = outbox \ {b}
    /\ \E n \in 0..2, rs \in {{}, b.reports} :
           (n < 2 => rs = {}) /\ Published(b.events, rs, n)
    /\ UNCHANGED <<events, lastSeq, noted, ledger, taskOpen, archived, stored, round>>

(* The worker that moves the rows of a topic to ClickHouse, a batch at a   *)
(* time; rows of one identity are one row.                                 *)
Sink(s) ==
    /\ stored[s] # topic[s]
    /\ stored' = [stored EXCEPT ![s] = topic[s]]
    /\ UNCHANGED <<events, lastSeq, noted, ledger, taskOpen, archived, opslog, outbox,
                   topic, round>>

(* sweep_once: the tasks, then event_counts, then usage_counts.            *)
ReadUnarchived(s) ==
    /\ round[s].at = "none" /\ ~archived
    /\ round' = [round EXCEPT ![s] = [NoRound EXCEPT
           !.at = "tasks", !.last = lastSeq, !.open = taskOpen,
           !.reports = Cardinality(ledger)]]
    /\ UNCHANGED <<events, lastSeq, noted, ledger, taskOpen, archived, opslog, outbox,
                   topic, stored>>

(* Mutant: max(seq) alone.                                                 *)
LastAgrees(seqs, last) == last \in seqs /\ \A q \in seqs : q <= last

(* (uniqExact(seq), max(seq)) = (last_seq, last_seq)                       *)
CountsAgree(seqs, last) ==
    Cardinality(seqs) = last /\ last \in seqs /\ \A q \in seqs : q <= last

CountEvents(s) ==
    /\ round[s].at = "tasks"
    /\ round' = [round EXCEPT ![s].at = "events",
                              ![s].whole = CountsAgree(stored["events"], round[s].last)]
    /\ UNCHANGED <<events, lastSeq, noted, ledger, taskOpen, archived, opslog, outbox,
                   topic, stored>>

CountReports(s) ==
    /\ round[s].at = "events"
    /\ round' = [round EXCEPT ![s].at = "counted",
                   ![s].counted = Cardinality(stored["usage"]) = round[s].reports]
    /\ UNCHANGED <<events, lastSeq, noted, ledger, taskOpen, archived, opslog, outbox,
                   topic, stored>>

(* Mutant: the reports are not published again.                            *)
RepublishEvents(s, n, reported) ==
    /\ round[s].at = "counted"
    /\ ~(round[s].whole /\ round[s].counted)
    /\ Published(IF round[s].whole THEN {}
                 ELSE {q \in events : q <= round[s].last} \ stored["events"], {}, n)
    /\ round' = [round EXCEPT ![s] = NoRound]
    /\ UNCHANGED <<events, lastSeq, noted, ledger, taskOpen, archived, outbox, stored>>

(* _sweep_task: publish what is missing, the events and then the reports,  *)
(* each in a publish of its own, or archive. The rows are read again:      *)
(* another sweep may have archived the log meanwhile.                      *)
RepublishTo(s, n, reported) ==
    LET es == IF round[s].whole THEN {}
              ELSE {q \in events : q <= round[s].last} \ stored["events"]
        rs == IF round[s].counted THEN {} ELSE ledger \ stored["usage"]
    IN  /\ round[s].at = "counted"
        /\ ~(round[s].whole /\ round[s].counted)
        /\ Published(es, IF reported THEN rs ELSE {}, n)
        /\ round' = [round EXCEPT ![s] = NoRound]
        /\ UNCHANGED <<events, lastSeq, noted, ledger, taskOpen, archived, outbox,
                       stored>>

Republish(s) == \E n \in 0..2, reported \in BOOLEAN : RepublishTo(s, n, reported)

(* Mutant: the events are deleted whether the task is as it was read or not.*)
ArchiveAnyway(s) ==
    /\ round[s].at = "counted"
    /\ round[s].whole /\ round[s].counted /\ ~round[s].open
    /\ archived' = (archived \/ (~taskOpen /\ lastSeq = round[s].last))
    /\ events' = {}
    /\ round' = [round EXCEPT ![s] = NoRound]
    /\ UNCHANGED <<lastSeq, noted, ledger, taskOpen, opslog, outbox, topic, stored>>

(* archive: nothing was added since the round read the task.               *)
Archive(s) ==
    /\ round[s].at = "counted"
    /\ round[s].whole /\ round[s].counted
    /\ IF ~round[s].open /\ ~taskOpen /\ ~archived /\ lastSeq = round[s].last
       THEN archived' = TRUE /\ events' = {}
       ELSE UNCHANGED <<archived, events>>
    /\ round' = [round EXCEPT ![s] = NoRound]
    /\ UNCHANGED <<lastSeq, noted, ledger, taskOpen, opslog, outbox, topic, stored>>

LogNext ==
    \/ WriteEvent \/ CloseTask \/ LateEvent
    \/ \E r \in Reports : ReportUsage(r)
    \/ \E b \in outbox : Publish(b)
    \/ \E s \in Streams : Sink(s)
    \/ \E s \in LogSweepers : \/ ReadUnarchived(s) \/ CountEvents(s) \/ CountReports(s)
                              \/ Republish(s) \/ Archive(s)

LogSpec == LogInit /\ [][LogNext]_logVars

(* The sweep runs every interval, the sink reads its stream, and a publish *)
(* that is tried again and again succeeds at last.                         *)
LogFairness ==
    /\ \A s \in LogSweepers :
           /\ WF_logVars(\/ ReadUnarchived(s) \/ CountEvents(s)
                         \/ CountReports(s) \/ Archive(s))
           /\ SF_logVars(RepublishTo(s, 2, TRUE))
    /\ \A s \in Streams : WF_logVars(Sink(s))

LogFairSpec == LogSpec /\ LogFairness
-----------------------------------------------------------------------------
(* The types; a round has read a seq and a number of reports that were.   *)
LogTypeOK ==
    /\ lastSeq \in 1..MaxEvents
    /\ events \subseteq 1..lastSeq
    /\ noted \subseteq 1..lastSeq /\ opslog \subseteq noted
    /\ ledger \subseteq Reports
    /\ taskOpen \in BOOLEAN /\ archived \in BOOLEAN
    /\ outbox \subseteq [events : SUBSET (1..lastSeq), reports : SUBSET ledger]
    /\ topic \in [events : SUBSET (1..lastSeq), usage : SUBSET ledger]
    /\ stored \in [events : SUBSET (1..lastSeq), usage : SUBSET ledger]
    /\ round \in [LogSweepers ->
           [at : {"none", "tasks", "events", "counted"}, last : 0..lastSeq,
            open : BOOLEAN, reports : Nat, whole : BOOLEAN, counted : BOOLEAN]]

(* What is archived is in ClickHouse: every event and every report; and    *)
(* the Operations Log has got, or will get, what it shows of them.         *)
ArchivedIsStored == archived =>
    /\ stored["events"] = 1..lastSeq
    /\ stored["usage"] = ledger
    /\ noted \subseteq opslog

(* A row that Iggy or ClickHouse shows has its row in the Operations Log    *)
(* before ("Before the events", log.py): a republish that found its events  *)
(* stored would never come back for it.                                     *)
NotedBeforeStored == topic["events"] \cap noted \subseteq opslog

(* A log that is not archived is whole in Postgres, so that the sweep can  *)
(* publish again what was lost on the way.                                 *)
NothingIsLost == ~archived => events = 1..lastSeq

(* The log of a task is kept: in Postgres until it is whole in ClickHouse, *)
(* and the Operations Log with it.                                         *)
LogIsKept == NothingIsLost /\ ArchivedIsStored /\ NotedBeforeStored

(* The log of a closed task is archived, whatever publishes fail.          *)
ClosedIsArchived == ~taskOpen ~> archived
=============================================================================
