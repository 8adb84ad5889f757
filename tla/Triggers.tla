-------------------------------- MODULE Triggers --------------------------------
(***************************************************************************)
(* When a task fires next: the interval, calendar and date triggers of     *)
(* apps/scheduler/src/imbi/scheduler/triggers.py, and the chain of firings *)
(* that the engine makes of them. Cron expressions are left to croniter.   *)
(*                                                                         *)
(* Moments are numbers, in UTC or on a wall clock that a zone keeps ahead  *)
(* of UTC; zones change their offset once. A day has DayLength moments.    *)
(* Months are counted through, years and months in one.                    *)
(***************************************************************************)
EXTENDS Integers, FiniteSets, FiniteSetsExt

CONSTANTS
    DayLength,      \* the moments of a day
    MonthStarts,    \* the first day of each month
    Intervals,      \* the lengths of interval triggers
    MaxStep,        \* bound: the days or months that a calendar trigger steps
    Bounds,         \* the moments that may be a start_at or an end_at
    Shift,          \* when the zones change their offset
    Offsets,        \* what they may be ahead of UTC, before and after
    LastMoment      \* bound: the last moment a trigger is asked about

VARIABLES
    trigger,        \* the trigger of the task
    tz,             \* the time zone of the task
    moment          \* the moment from which the next firing is asked

triggerVars == <<trigger, tz, moment>>

Zones == [before : Offsets, after : Offsets]

NoFiring == -1
Optional == Bounds \cup {NoFiring}

(* What the validators let through.                                        *)
IntervalTriggers ==
    {t \in [kind : {"interval"}, every : Intervals, start : Optional, end : Optional] :
        t.start # NoFiring /\ t.end # NoFiring => t.end > t.start}
CalendarTriggers ==
    {t \in [kind : {"calendar"}, days : 0..MaxStep, months : 0..MaxStep,
            at : 0..DayLength - 1, start : Optional, end : Optional] :
        (t.days = 0) # (t.months = 0)}
DateTriggers == [kind : {"date"}, run_at : Bounds]
-----------------------------------------------------------------------------
(* Calendars and clocks.                                                   *)
MonthOf(day) == Cardinality({s \in MonthStarts : s <= day})
FirstDay(month) == CHOOSE s \in MonthStarts : MonthOf(s) = month
DayInMonth(day) == day - FirstDay(MonthOf(day))
DateOf(wall) == wall \div DayLength
Combine(day, at) == day * DayLength + at

(* The last day that is looked at; the last of its month is known as such. *)
LastDay == Max(MonthStarts) - 2

ASSUME TriggersAssumption ==
    /\ DayLength \in Nat \ {0} /\ MaxStep \in Nat /\ LastMoment \in Nat
    /\ Intervals \subseteq Nat \ {0} /\ Bounds \subseteq Nat
    /\ Shift \in Int /\ Offsets \subseteq Nat
    /\ MonthStarts \subseteq Nat /\ 0 \in MonthStarts /\ IsFiniteSet(MonthStarts)

(* The calendar has a date for whatever comes next.                        *)
ASSUME CalendarGoesOn ==
    \A m \in Bounds \cup 0..LastMoment :
        /\ \A i \in Intervals : m + i <= Combine(LastDay, 0)
        /\ \A o \in Offsets :
               /\ MonthOf(DateOf(m + o)) + MaxStep + 2 <= Cardinality(MonthStarts)
               /\ DateOf(m + o) + MaxStep <= LastDay

ToLocal(m, z) == m + (IF m < Shift THEN z.before ELSE z.after)

(* Of a wall time that a shift repeats, the first; of one that it skips,   *)
(* the moment by the clock before the shift (fold=0).                      *)
AsUtc(wall, z) ==
    IF wall < Shift + Max({z.before, z.after}) THEN wall - z.before
                                                 ELSE wall - z.after

(* IntervalTrigger.next_fire_time, before the look at end_at.              *)
IntervalFires(t, after) ==
    IF t.start = NoFiring THEN after + t.every
    ELSE IF t.start > after THEN t.start
    ELSE t.start + ((after - t.start) \div t.every + 1) * t.every

(* Mutant: the day of the anchor, whatever the length of the month.        *)
DateUnclamped(t, anchor, n) ==
    IF t.months = 0 THEN anchor + n * t.days
    ELSE FirstDay(MonthOf(anchor) + n * t.months) + DayInMonth(anchor)

(* _date_at: a day that the month does not have becomes its last.          *)
DateAt(t, anchor, n) ==
    LET k == MonthOf(anchor) + n * t.months
    IN  IF t.months = 0 THEN anchor + n * t.days
        ELSE Min({FirstDay(k) + DayInMonth(anchor), FirstDay(k + 1) - 1})

(* _skip_ahead                                                             *)
SkipAhead(t, anchor, target) ==
    IF target <= anchor THEN 0
    ELSE IF t.months > 0 THEN (MonthOf(target) - MonthOf(anchor)) \div t.months
    ELSE (target - anchor) \div t.days

(* _seek: one of two candidates; they are compared by the wall clock, which *)
(* does not tell the two passes of a repeated time apart.                  *)
Seek(t, anchor, local) ==
    LET step == SkipAhead(t, anchor, DateOf(local))
        later == {n \in {step, step + 1} : Combine(DateAt(t, anchor, n), t.at) > local}
    IN  IF later = {} THEN NoFiring ELSE Combine(DateAt(t, anchor, Min(later)), t.at)

(* CalendarTrigger.next_fire_time, before the look at end_at.              *)
CalendarFires(t, after, z) ==
    LET anchorAt == IF t.start = NoFiring THEN after ELSE t.start
        found == Seek(t, DateOf(ToLocal(anchorAt, z)), ToLocal(Max({after, anchorAt}), z))
    IN  IF found = NoFiring THEN NoFiring ELSE AsUtc(found, z)

NextFireTime(t, after, z) ==
    IF t.kind = "date" THEN IF t.run_at > after THEN t.run_at ELSE NoFiring
    ELSE LET fires == IF t.kind = "interval" THEN IntervalFires(t, after)
                      ELSE CalendarFires(t, after, z)
         IN  IF t.end # NoFiring /\ fires > t.end THEN NoFiring ELSE fires
-----------------------------------------------------------------------------
TriggersInit ==
    /\ trigger \in IntervalTriggers \cup CalendarTriggers \cup DateTriggers
    /\ tz \in Zones
    /\ moment \in 0..LastMoment

(* The engine claims a firing, in time or late, and asks for the next.     *)
Claim ==
    LET fires == NextFireTime(trigger, moment, tz)
    IN  /\ fires # NoFiring
        /\ \E late \in 0..1 : moment' = Max({moment, fires + late})
        /\ moment' <= LastMoment
        /\ UNCHANGED <<trigger, tz>>

TriggersSpec == TriggersInit /\ [][Claim]_triggerVars
-----------------------------------------------------------------------------
TriggersTypeOK ==
    /\ trigger \in IntervalTriggers \cup CalendarTriggers \cup DateTriggers
    /\ tz \in Zones
    /\ moment \in 0..LastMoment

(* The days of a calendar trigger, said without counting steps: every so   *)
(* many days, or the day of the anchor in every so many months, the last   *)
(* day where the month is shorter.                                         *)
FallsOn(t, anchor, day) ==
    /\ day >= anchor
    /\ IF t.months = 0 THEN (day - anchor) % t.days = 0
       ELSE /\ (MonthOf(day) - MonthOf(anchor)) % t.months = 0
            /\ \/ DayInMonth(day) = DayInMonth(anchor)
               \/ DayInMonth(day) < DayInMonth(anchor)
                      /\ MonthOf(day + 1) # MonthOf(day)

(* The moments at which a trigger that is asked at `after` is to fire.     *)
Series(t, after, z) ==
    CASE t.kind = "date" -> {t.run_at}
      [] t.kind = "interval" ->
             IF t.start = NoFiring THEN {after + t.every}
             ELSE {m \in t.start..Combine(LastDay, 0) : (m - t.start) % t.every = 0}
      [] t.kind = "calendar" ->
             LET anchorAt == IF t.start = NoFiring THEN after ELSE t.start
                 anchor == DateOf(ToLocal(anchorAt, z))
             IN  {m \in {AsUtc(Combine(d, t.at), z) :
                            d \in {d \in anchor..LastDay : FallsOn(t, anchor, d)}} :
                     m > anchorAt}

(* The wall shows at_time twice, or not at all, on the day of the shift.   *)
InShift(t, z) ==
    /\ t.kind = "calendar"
    /\ \E wall \in Shift + Min({z.before, z.after})
                   ..Shift + Max({z.before, z.after}) - 1 :
           wall % DayLength = t.at

(* A task fires next at the first moment of its series that is strictly    *)
(* later, and never when its end comes before it: neither the skip from a  *)
(* distant anchor nor a short month nor a shift of the clock passes over a *)
(* firing. Of the times that a shift skips or repeats it does not hold.    *)
FirstOfSeries ==
    LET later == {m \in Series(trigger, moment, tz) : m > moment}
        fires == NextFireTime(trigger, moment, tz)
        first == Min(later)
    IN  InShift(trigger, tz) \/
        fires = IF later = {} THEN NoFiring
                ELSE IF trigger.kind # "date" /\ trigger.end # NoFiring /\ first > trigger.end
                THEN NoFiring ELSE first
=============================================================================
