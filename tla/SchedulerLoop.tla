---------------------------- MODULE SchedulerLoop ----------------------------
(***************************************************************************)
(* The trigger loop of one scheduler replica: when it sleeps, what wakes   *)
(* it, the ticks it spawns and does not await, and its shutdown.           *)
(* apps/scheduler/src/imbi/scheduler engine.py (run_forever, _sleep,       *)
(* _delay, notify, _subscribe) and lifespans.py (engine_hook).             *)
(*                                                                         *)
(* The actors are the loop, the ticks in flight, the listener on           *)
(* NOTIFY_CHANNEL, the other replicas, and whoever edits a task. A step is *)
(* what runs between two awaits.                                           *)
(*                                                                         *)
(* Abstracted: which tasks a claim takes, of which only "some that are     *)
(* due" is left (TaskClaims has the rows and their locks), and the firings *)
(* (RunLeases), of which a tick awaits the end.                            *)
(***************************************************************************)
EXTENDS Integers

CONSTANTS
    Tasks,      \* task ids
    Poll,       \* settings.poll_interval
    Faults,     \* which of FaultKinds the environment may show
    MaxTime,    \* bound of the clock
    MaxTicks,   \* bound of the ticks in flight at once
    MaxEdits    \* bound of the edits of tasks

(* "deaf": the listener's connection is lost. "claim": a tick fails, or     *)
(* finds every due row locked by another replica. "query": the question of  *)
(* _delay fails.                                                            *)
FaultKinds == {"deaf", "claim", "query"}

ASSUME ConstantsAssumption ==
    /\ Poll \in Nat \ {0}
    /\ MaxTime \in Nat /\ MaxTicks \in Nat \ {0} /\ MaxEdits \in Nat
    /\ Faults \subseteq FaultKinds

Times == 0 .. MaxTime
Never == MaxTime + 1
Slots == 1 .. MaxTicks

VARIABLES
    now,        \* the clock
    next,       \* next_run_at of each task; Never if it has none or is disabled
    loop,       \* where the loop is; the due time it read, when and until when it sleeps
    wake,       \* Engine._wake
    stop,       \* the stop event of engine_hook
    ticks,      \* the ticks in flight: their phase and moment
    listening,  \* whether the listener's connection is live
    notices,    \* notifications not yet handled
    edits,      \* the number of edits so far
    missed      \* an edit was not notified to this replica since it last asked

vars == <<now, next, loop, wake, stop, ticks, listening, notices, edits, missed>>
channel == <<listening, notices, edits, missed>>

LoopPhases == {"top", "asking", "answered", "sleeping", "draining", "ended", "cut", "dead"}
TickPhases == {"off", "spawned", "claiming", "firing"}
Idle == [phase |-> "off", moment |-> 0]
At(phase) == [phase |-> phase, due |-> Never, since |-> 0, until |-> 0]

TypeOK ==
    /\ now \in Times
    /\ next \in [Tasks -> Times \cup {Never}]
    /\ loop \in [phase : LoopPhases, due : Times \cup {Never}, since : Times, until : Times]
    /\ wake \in BOOLEAN /\ stop \in BOOLEAN
    /\ ticks \in [Slots -> [phase : TickPhases, moment : Times]]
    /\ listening \in BOOLEAN /\ missed \in BOOLEAN
    /\ edits \in 0 .. MaxEdits /\ notices \in 0 .. MaxEdits

Init ==
    /\ now = 0
    /\ next \in [Tasks -> Times \cup {Never}]
    /\ loop = At("top")
    /\ wake = FALSE /\ stop = FALSE
    /\ ticks = [k \in Slots |-> Idle]
    /\ listening = FALSE /\ notices = 0 /\ edits = 0 /\ missed = FALSE

-----------------------------------------------------------------------------
(* The loop.                                                                *)
LoopGoes(from, to) == loop.phase = from /\ loop' = At(to)

(* The wake flag is cleared before the tick is spawned.                     *)
Begin ==
    \E k \in Slots :
        /\ ~stop
        /\ ticks[k].phase = "off" /\ \A j \in 1 .. (k - 1) : ticks[j].phase # "off"
        /\ LoopGoes("top", "asking")
        /\ wake' = FALSE
        /\ ticks' = [ticks EXCEPT ![k].phase = "spawned"]
        /\ UNCHANGED <<now, next, stop, channel>>

Stop ==
    /\ stop
    /\ LoopGoes("top", "draining")
    /\ UNCHANGED <<now, next, wake, stop, ticks, channel>>

(* next_due_at: the soonest of the enabled tasks, as committed.             *)
Soonest(due) ==
    /\ due \in Times \cup {Never}
    /\ \A t \in Tasks : due <= next[t]
    /\ due = Never \/ \E t \in Tasks : next[t] = due

Ask ==
    /\ loop.phase = "asking"
    /\ \E due \in Times \cup {Never} :
           Soonest(due) /\ loop' = [At("answered") EXCEPT !.due = due]
    /\ missed' = FALSE
    /\ UNCHANGED <<now, next, wake, stop, ticks, listening, notices, edits>>

(* Nothing around the question catches: the loop's own task ends.           *)
AskFails ==
    /\ "query" \in Faults
    /\ LoopGoes("asking", "dead")
    /\ UNCHANGED <<now, next, wake, stop, ticks, channel>>

(* _delay: until the due time, or the poll interval if that is sooner, and  *)
(* not at all if the due time has passed. Past the bound of the clock no    *)
(* sleep is counted.                                                        *)
Capped(time) == IF time > MaxTime THEN MaxTime ELSE time

WakeAt(due) ==
    IF due <= now THEN now
    ELSE IF due > now + Poll THEN Capped(now + Poll) ELSE Capped(due)

Asleep == [phase |-> "sleeping", due |-> Never, since |-> now, until |-> WakeAt(loop.due)]

(* Mutant: the flag is cleared on the way into the sleep.                   *)
SleepAndForget ==
    /\ loop.phase = "answered"
    /\ loop' = Asleep
    /\ wake' = FALSE
    /\ UNCHANGED <<now, next, stop, ticks, channel>>

(* The flag is looked at after the answer and before the wait.              *)
Sleep ==
    /\ loop.phase = "answered"
    /\ loop' = IF wake THEN At("top") ELSE Asleep
    /\ UNCHANGED <<now, next, wake, stop, ticks, channel>>

(* Mutant: the wait has no timeout.                                         *)
RouseOnEvent ==
    /\ wake \/ stop
    /\ LoopGoes("sleeping", "top")
    /\ UNCHANGED <<now, next, wake, stop, ticks, channel>>

Rouse ==
    /\ wake \/ stop \/ now >= loop.until
    /\ LoopGoes("sleeping", "top")
    /\ UNCHANGED <<now, next, wake, stop, ticks, channel>>

Drain ==
    /\ \A k \in Slots : ticks[k].phase = "off"
    /\ LoopGoes("draining", "ended")
    /\ UNCHANGED <<now, next, wake, stop, ticks, channel>>

-----------------------------------------------------------------------------
(* A tick. Its moment is taken when its coroutine first runs.               *)
TickStart(k) ==
    /\ ticks[k].phase = "spawned"
    /\ ticks' = [ticks EXCEPT ![k] = [phase |-> "claiming", moment |-> now]]
    /\ UNCHANGED <<now, next, loop, wake, stop, channel>>

(* Some of the due tasks are claimed: a batch, without the locked rows.     *)
Claims(moment) ==
    \E claimed \in SUBSET {t \in Tasks : next[t] <= moment} :
        /\ claimed = {} => \A t \in Tasks : next[t] > moment
        /\ \E following \in [claimed -> (moment + 1) .. Never] :
               next' = [t \in Tasks |-> IF t \in claimed THEN following[t] ELSE next[t]]

TickClaim(k) ==
    /\ ticks[k].phase = "claiming"
    /\ Claims(ticks[k].moment)
    /\ ticks' = [ticks EXCEPT ![k] = IF next' = next THEN Idle ELSE [@ EXCEPT !.phase = "firing"]]
    /\ UNCHANGED <<now, loop, wake, stop, channel>>

(* _guarded_tick: a failed tick is logged and over.                         *)
TickFails(k) ==
    /\ "claim" \in Faults /\ ticks[k].phase = "claiming"
    /\ ticks' = [ticks EXCEPT ![k] = Idle]
    /\ UNCHANGED <<now, next, loop, wake, stop, channel>>

TickEnd(k) ==
    /\ ticks[k].phase = "firing"
    /\ ticks' = [ticks EXCEPT ![k] = Idle]
    /\ UNCHANGED <<now, next, loop, wake, stop, channel>>

-----------------------------------------------------------------------------
(* The other replicas claim without telling.                                *)
ElsewhereClaimed ==
    /\ Claims(now)
    /\ UNCHANGED <<now, loop, wake, stop, ticks, channel>>

(* create, update, delete, reschedule and set_enabled notify in the         *)
(* transaction that changes the row; a replica that does not listen then    *)
(* is never told.                                                           *)
Edit(t) ==
    /\ edits < MaxEdits
    /\ \E following \in Times \cup {Never} : next' = [next EXCEPT ![t] = following]
    /\ edits' = edits + 1
    /\ IF listening THEN notices' = notices + 1 /\ UNCHANGED missed
       ELSE missed' = TRUE /\ UNCHANGED notices
    /\ UNCHANGED <<now, loop, wake, stop, ticks, listening>>

(* notify, called by the listener.                                          *)
Hear ==
    /\ notices > 0
    /\ notices' = notices - 1
    /\ wake' = TRUE
    /\ UNCHANGED <<now, next, loop, stop, ticks, listening, edits, missed>>

LoseListener ==
    /\ "deaf" \in Faults /\ listening
    /\ listening' = FALSE
    /\ notices' = 0
    /\ missed' = (missed \/ notices > 0)
    /\ UNCHANGED <<now, next, loop, wake, stop, ticks, edits>>

Resubscribe ==
    /\ ~listening
    /\ listening' = TRUE
    /\ UNCHANGED <<now, next, loop, wake, stop, ticks, notices, edits, missed>>

(* The hook's finally: stop.set(), notify(), and a wait for the loop.       *)
RequestStop ==
    /\ ~stop
    /\ stop' = TRUE /\ wake' = TRUE
    /\ UNCHANGED <<now, next, loop, ticks, channel>>

(* The wait is over and the loop is cancelled, with the ticks it gathers.   *)
CutShort ==
    /\ stop /\ loop.phase \notin {"ended", "cut", "dead"}
    /\ loop' = At("cut")
    /\ ticks' = IF loop.phase = "draining" THEN [k \in Slots |-> Idle] ELSE ticks
    /\ UNCHANGED <<now, next, wake, stop, channel>>

ClockTick ==
    /\ now < MaxTime
    /\ now' = now + 1
    /\ UNCHANGED <<next, loop, wake, stop, ticks, channel>>

-----------------------------------------------------------------------------
LoopStep == Begin \/ Stop \/ Ask \/ Sleep \/ Rouse \/ Drain
TickStep(k) == TickStart(k) \/ TickClaim(k) \/ TickEnd(k)

Next ==
    \/ LoopStep \/ AskFails
    \/ \E k \in Slots : TickStep(k) \/ TickFails(k)
    \/ \E t \in Tasks : Edit(t)
    \/ ElsewhereClaimed \/ Hear \/ LoseListener \/ Resubscribe
    \/ RequestStop \/ CutShort \/ ClockTick

Spec == Init /\ [][Next]_vars

(* The event loop runs what is ready, firings end, time passes, and not     *)
(* every claim fails. Nobody has to reconnect, and the listener may lag.    *)
LoopFairness ==
    /\ WF_vars(ClockTick) /\ WF_vars(LoopStep)
    /\ \A k \in Slots : WF_vars(TickStep(k)) /\ SF_vars(TickClaim(k))

FairSpec == Spec /\ LoopFairness

-----------------------------------------------------------------------------
(* The loop never sleeps past a due time it could know of: when it sleeps,  *)
(* with no wake-up on its way, it wakes by the time the first task is due,  *)
(* or did not mean to sleep at all. An edit during the tick, the question   *)
(* or the moment before the wait is not lost ("a notification that lands    *)
(* during a tick must survive into the next sleep"), and the claims of      *)
(* other replicas, which nobody is told of, do no harm.                     *)
NoOversleep ==
    loop.phase = "sleeping" /\ ~wake /\ notices = 0 /\ ~missed
        => \A t \in Tasks : loop.until <= next[t] \/ loop.until <= loop.since

(* A loop that ended by itself left no tick behind.                         *)
EndedIsDrained == loop.phase = "ended" => \A k \in Slots : ticks[k].phase = "off"

(* A replica whose loop goes on never passes over a due task: it is claimed *)
(* or rescheduled in the end, whatever was not notified or failed.          *)
LoopClaimsDue ==
    \A t \in Tasks : next[t] <= now ~> next[t] > now \/ stop \/ loop.phase = "dead"

(* "A missed NOTIFY costs latency, not a missed run": a task that is due is *)
(* claimed or rescheduled in the end, unless the process shuts down.        *)
DueIsClaimed ==
    \A t \in Tasks : next[t] <= now ~> next[t] > now \/ stop
=============================================================================
