------------------------ MODULE LoopAndTriggers_proofs ------------------------
(***************************************************************************)
(* Theorems of SchedulerLoop, for any number of tasks and ticks, any poll  *)
(* interval and any faults, and of Triggers, for any calendar, any zones   *)
(* and any steps.                                                          *)
(***************************************************************************)
EXTENDS SchedulerLoop, Triggers, FiniteSetTheorems, WellFoundedInduction, TLAPS

(* Triggers. Division, of which the provers know the equation.             *)
LEMMA Division ==
    ASSUME NEW a \in Int, NEW b \in Nat \ {0}
    PROVE  /\ a \div b \in Int /\ a % b \in 0..b - 1
           /\ a = b * (a \div b) + (a % b)
  OBVIOUS

LEMMA ExactDivision ==
    ASSUME NEW a \in Nat, NEW b \in Nat \ {0}, a % b = 0
    PROVE  a \div b \in Nat /\ a = (a \div b) * b
  OBVIOUS

LEMMA Quotient ==
    ASSUME NEW a \in Nat, NEW b \in Nat \ {0}, NEW q, q = a \div b
    PROVE  q \in Nat /\ q * b \in Nat /\ q * b <= a /\ a < q * b + b
  <1>1. q \in Nat
    OBVIOUS
  <1>2. PICK r : r = a % b
    OBVIOUS
  <1>3. r \in 0..b - 1 /\ a = b * q + r
    BY <1>2, Division
  <1>4. PICK x : x = q * b
    OBVIOUS
  <1>5. x \in Nat /\ b * q = x
    BY <1>1, <1>4
  <1>6. a = x + r
    BY <1>3, <1>5
  <1> QED
    BY <1>1, <1>3, <1>4, <1>5, <1>6

LEMMA Multiple ==
    ASSUME NEW n \in Int, NEW b \in Nat \ {0}
    PROVE  n * b \in Int /\ (n * b) % b = 0
  OBVIOUS

LEMMA NextMultiple ==
    ASSUME NEW n \in Int, NEW b \in Nat
    PROVE  (n + 1) * b = n * b + b
  OBVIOUS

LEMMA Remainder ==
    ASSUME NEW q \in Int, NEW b \in Nat \ {0}, NEW r \in 0..b - 1, NEW a, a = q * b + r
    PROVE  a \in Int /\ a % b = r
  <1>1. a \in Int /\ a = b * q + r
    OBVIOUS
  <1> QED
    BY <1>1

LEMMA Multiples ==
    ASSUME NEW m \in Int, NEW n \in Int, NEW b \in Nat \ {0}, m < n
    PROVE  m * b \in Int /\ n * b \in Int /\ m * b + b <= n * b
  OBVIOUS

(* A set of numbers that is not empty has a smallest one; one that is      *)
(* finite has a largest one, the one that fewest are larger than.          *)
LEMMA SmallestOne ==
    ASSUME NEW S \in SUBSET Nat, S # {}
    PROVE  \E x \in S : \A y \in S : x <= y
  <1>1. PICK x \in S : \A y \in S : ~ (<<y, x>> \in OpToRel(<, Nat))
    BY NatLessThanWellFounded, WFMin
  <1>2. ASSUME NEW y \in S PROVE x <= y
    <2>1. ~ (y < x)
      BY <1>1 DEF OpToRel
    <2> QED
      BY <2>1
  <1> QED
    BY <1>2

LEMMA LargestOne ==
    ASSUME NEW S \in SUBSET Nat, S # {}, IsFiniteSet(S)
    PROVE  \E x \in S : \A y \in S : y <= x
  <1> DEFINE Above(x) == {y \in S : y > x}
             Sizes == {Cardinality(Above(x)) : x \in S}
  <1>1. \A x \in S : IsFiniteSet(Above(x)) /\ Cardinality(Above(x)) \in Nat
    <2> SUFFICES ASSUME NEW x \in S PROVE IsFiniteSet(Above(x)) /\ Cardinality(Above(x)) \in Nat
      OBVIOUS
    <2>1. Above(x) \in SUBSET S
      OBVIOUS
    <2>2. IsFiniteSet(Above(x))
      BY <2>1, FS_Subset
    <2> HIDE DEF Above
    <2> QED
      BY <2>2, FS_CardinalityType
  <1>2. Sizes \in SUBSET Nat /\ Sizes # {}
    BY <1>1
  <1>3. PICK least \in Sizes : \A other \in Sizes : least <= other
    <2> HIDE DEF Sizes
    <2> QED
      BY <1>2, SmallestOne
  <1>4. PICK x \in S : least = Cardinality(Above(x))
    BY <1>3
  <1>5. ASSUME NEW y \in S, y > x PROVE FALSE
    <2>1. Above(y) \in SUBSET Above(x) /\ y \in Above(x) /\ y \notin Above(y)
      <3>1. ASSUME NEW z \in S, z > y PROVE z > x
        BY <3>1, <1>5
      <3>2. ~ (y > y)
        OBVIOUS
      <3> QED
        BY <3>1, <3>2, <1>5
    <2>2. Cardinality(Above(y)) <= Cardinality(Above(x))
          /\ Cardinality(Above(y)) # Cardinality(Above(x))
      <3> HIDE DEF Above
      <3> QED
        BY <2>1, <1>1, FS_Subset
    <2>3. Cardinality(Above(x)) <= Cardinality(Above(y))
      BY <1>3, <1>4
    <2> QED
      BY <2>2, <2>3, <1>1
  <1> QED
    BY <1>5

LEMMA MinIs ==
    ASSUME NEW S \in SUBSET Int, NEW m \in S, \A x \in S : m <= x
    PROVE  Min(S) = m
  <1>1. Min(S) \in S /\ \A x \in S : Min(S) <= x
    BY DEF Min
  <1>2. Min(S) \in Int /\ m \in Int /\ Min(S) <= m /\ m <= Min(S)
    BY <1>1
  <1> QED
    BY <1>2

LEMMA MaxIs ==
    ASSUME NEW S \in SUBSET Int, NEW m \in S, \A x \in S : x <= m
    PROVE  Max(S) = m
  <1>1. Max(S) \in S /\ \A x \in S : x <= Max(S)
    BY DEF Max
  <1>2. Max(S) \in Int /\ m \in Int /\ m <= Max(S) /\ Max(S) <= m
    BY <1>1
  <1> QED
    BY <1>2

LEMMA MinOfTwo ==
    ASSUME NEW a \in Int, NEW b \in Int
    PROVE  Min({a, b}) = IF a <= b THEN a ELSE b
  <1>1. CASE a <= b
    <2>1. \A x \in {a, b} : a <= x
      BY <1>1
    <2> QED
      BY <2>1, <1>1, MinIs
  <1>2. CASE ~ (a <= b)
    <2>1. \A x \in {a, b} : b <= x
      BY <1>2
    <2> QED
      BY <2>1, <1>2, MinIs
  <1> QED
    BY <1>1, <1>2

LEMMA MaxOfTwo ==
    ASSUME NEW a \in Int, NEW b \in Int
    PROVE  Max({a, b}) = IF a <= b THEN b ELSE a
  <1>1. CASE a <= b
    <2>1. \A x \in {a, b} : x <= b
      BY <1>1
    <2> QED
      BY <2>1, <1>1, MaxIs
  <1>2. CASE ~ (a <= b)
    <2>1. \A x \in {a, b} : x <= a
      BY <1>2
    <2> QED
      BY <2>1, <1>2, MaxIs
  <1> QED
    BY <1>1, <1>2

(* The months. A day is not before the first day of a month when its own   *)
(* month is not before that month.                                         *)
Months == Cardinality(MonthStarts)

LEMMA StartType == \A s \in MonthStarts : s \in Nat
  BY TriggersAssumption

LEMMA MonthType ==
    ASSUME NEW d \in Int
    PROVE  MonthOf(d) \in 0..Months /\ Months \in Nat
  <1> DEFINE S == {s \in MonthStarts : s <= d}
  <1>1. S \in SUBSET MonthStarts
    OBVIOUS
  <1>2. IsFiniteSet(S) /\ Cardinality(S) <= Months /\ Months \in Nat
    <2> HIDE DEF S
    <2> QED
      BY <1>1, TriggersAssumption, FS_Subset, FS_CardinalityType DEF Months
  <1>3. Cardinality(S) \in Nat
    BY <1>2, FS_CardinalityType
  <1> QED
    BY <1>2, <1>3 DEF MonthOf

LEMMA MonthsInOrder ==
    ASSUME NEW c \in Int, NEW d \in Int, c <= d
    PROVE  MonthOf(c) <= MonthOf(d)
  <1> DEFINE S(x) == {s \in MonthStarts : s <= x}
  <1>1. S(d) \in SUBSET MonthStarts /\ S(c) \in SUBSET S(d)
    BY StartType
  <1>2. IsFiniteSet(S(d)) /\ Cardinality(S(c)) <= Cardinality(S(d))
    <2> HIDE DEF S
    <2> QED
      BY <1>1, TriggersAssumption, FS_Subset
  <1> QED
    BY <1>2 DEF MonthOf

LEMMA MonthOfStart ==
    ASSUME NEW s \in MonthStarts, NEW d \in Int
    PROVE  s <= d <=> MonthOf(s) <= MonthOf(d)
  <1>1. CASE s <= d
    BY <1>1, MonthsInOrder, TriggersAssumption
  <1>2. CASE d < s
    <2> DEFINE S(x) == {y \in MonthStarts : y <= x}
    <2>1. S(s) \in SUBSET MonthStarts /\ S(d) \in SUBSET S(s) /\ s \in S(s) /\ s \notin S(d)
      BY <1>2, StartType
    <2>2. /\ IsFiniteSet(S(s)) /\ IsFiniteSet(S(d))
          /\ Cardinality(S(d)) <= Cardinality(S(s)) /\ Cardinality(S(d)) # Cardinality(S(s))
      <3> HIDE DEF S
      <3> QED
        BY <2>1, TriggersAssumption, FS_Subset
    <2>3. MonthOf(d) <= MonthOf(s) /\ MonthOf(d) # MonthOf(s)
      BY <2>2 DEF MonthOf
    <2> QED
      BY <1>2, <2>3, MonthType, TriggersAssumption
  <1> QED
    BY <1>1, <1>2, TriggersAssumption

(* Every month has a first day, and the last of them is the last start.    *)
LEMMA FirstDayType ==
    ASSUME NEW k \in 1..Months
    PROVE  FirstDay(k) \in MonthStarts /\ MonthOf(FirstDay(k)) = k
  <1> DEFINE K == {s \in MonthStarts : MonthOf(s) >= k}
  <1>1. PICK last \in MonthStarts : \A s \in MonthStarts : s <= last
    BY TriggersAssumption, LargestOne
  <1>2. MonthOf(last) = Months
    BY <1>1 DEF MonthOf, Months
  <1>3. K \in SUBSET Nat /\ last \in K
    <2>1. \A s \in MonthStarts : s \in Nat
      BY StartType
    <2>2. Months >= k
      BY MonthType
    <2> QED
      BY <2>1, <2>2, <1>2
  <1>4. PICK first \in K : \A s \in K : first <= s
    BY <1>3, SmallestOne
  <1>5. ASSUME MonthOf(first) > k PROVE FALSE
    <2> DEFINE S == {s \in MonthStarts : s <= first}
               Rest == S \ {first}
    <2>1. S \in SUBSET MonthStarts /\ first \in S /\ Cardinality(S) = MonthOf(first)
      BY TriggersAssumption, <1>4 DEF MonthOf
    <2>2. IsFiniteSet(S)
      <3> HIDE DEF S
      <3> QED
        BY <2>1, TriggersAssumption, FS_Subset
    <2>3. IsFiniteSet(Rest) /\ Cardinality(Rest) = MonthOf(first) - 1
      <3> HIDE DEF S
      <3> QED
        BY <2>1, <2>2, FS_RemoveElement
    <2>4. MonthOf(first) \in Nat
      BY MonthType, TriggersAssumption
    <2>5. Rest # {}
      <3> HIDE DEF Rest
      <3> QED
        BY <2>3, <2>4, <1>5, FS_EmptySet
    <2>6. PICK before \in Rest : \A s \in Rest : s <= before
      <3>1. Rest \in SUBSET Nat
        BY TriggersAssumption
      <3> HIDE DEF Rest
      <3> QED
        BY <3>1, <2>3, <2>5, LargestOne
    <2>7. {s \in MonthStarts : s <= before} = Rest
      <3>1. \A s \in MonthStarts : s \in Nat
        BY StartType
      <3> QED
        BY <3>1, <2>6, <1>4
    <2>8. MonthOf(before) = MonthOf(first) - 1
      BY <2>3, <2>7 DEF MonthOf
    <2>9. before \in K /\ before < first
      BY <2>6, <2>8, <2>4, <1>5, TriggersAssumption
    <2> QED
      BY <2>9, <1>4, TriggersAssumption
  <1>6. MonthOf(first) = k
    <2>1. first \in Int /\ MonthOf(first) >= k
      BY <1>4, StartType
    <2>2. MonthOf(first) \in Nat
      BY <2>1, MonthType
    <2>3. ~ (MonthOf(first) > k)
      BY <1>5
    <2> QED
      BY <2>1, <2>2, <2>3
  <1> QED
    BY <1>6 DEF FirstDay

LEMMA StartsAMonth ==
    ASSUME NEW k \in 1..Months, NEW d \in Int
    PROVE  FirstDay(k) \in Nat /\ (FirstDay(k) <= d <=> k <= MonthOf(d))
  <1>1. FirstDay(k) \in MonthStarts /\ MonthOf(FirstDay(k)) = k
    BY FirstDayType
  <1>2. FirstDay(k) <= d <=> MonthOf(FirstDay(k)) <= MonthOf(d)
    BY <1>1, MonthOfStart
  <1> QED
    BY <1>1, <1>2, StartType

LEMMA DayType ==
    ASSUME NEW d \in Nat
    PROVE  /\ MonthOf(d) \in 1..Months
           /\ DayInMonth(d) \in Nat
           /\ d = FirstDay(MonthOf(d)) + DayInMonth(d)
  <1>1. MonthOf(0) <= MonthOf(d) /\ MonthOf(d) \in 0..Months /\ MonthOf(0) \in Nat
    BY MonthsInOrder, MonthType
  <1>2. MonthOf(0) # 0
    <2> DEFINE S == {s \in MonthStarts : s <= 0}
    <2>1. S \in SUBSET MonthStarts /\ 0 \in S
      BY TriggersAssumption
    <2>2. IsFiniteSet(S)
      BY <2>1, TriggersAssumption, FS_Subset
    <2>3. Cardinality(S) # 0
      BY <2>1, <2>2, FS_EmptySet
    <2> QED
      BY <2>3 DEF MonthOf
  <1>3. MonthOf(d) \in 1..Months
    BY <1>1, <1>2, MonthType
  <1>4. FirstDay(MonthOf(d)) <= d /\ FirstDay(MonthOf(d)) \in Nat
    BY <1>3, StartsAMonth
  <1> QED
    BY <1>3, <1>4 DEF DayInMonth

(* The dates of a calendar trigger: the n-th date after an anchor.         *)
LEMMA CalendarType ==
    ASSUME NEW t \in CalendarTriggers
    PROVE  /\ t.kind = "calendar" /\ t.days \in Nat /\ t.months \in Nat
           /\ t.days <= MaxStep /\ t.months <= MaxStep /\ MaxStep \in Nat
           /\ t.months = 0 => t.days # 0
           /\ t.at \in Nat /\ t.at < DayLength /\ DayLength \in Nat \ {0}
           /\ t.start \in Optional /\ t.end \in Optional
  BY TriggersAssumption DEF CalendarTriggers

(* In a month that the calendar has, there is one date: the day of the     *)
(* anchor, or the last day if that comes before it.                        *)
LEMMA DateInMonth ==
    ASSUME NEW t \in CalendarTriggers, t.months # 0, NEW anchor \in Nat, NEW n \in Nat,
           NEW k \in Nat, k = MonthOf(anchor) + n * t.months, k + 1 <= Months
    PROVE  LET date == DateAt(t, anchor, n)
               day == FirstDay(k) + DayInMonth(anchor)
               last == FirstDay(k + 1) - 1
           IN  /\ date \in Nat /\ last \in Nat /\ day \in Nat
               /\ MonthOf(date) = k /\ FirstDay(k) <= date /\ date <= last
               /\ date = day \/ (date = last /\ date < day)
               /\ date <= day
  <1> DEFINE date == DateAt(t, anchor, n)
             day == FirstDay(k) + DayInMonth(anchor)
             last == FirstDay(k + 1) - 1
  <1>1. MonthOf(anchor) \in 1..Months /\ DayInMonth(anchor) \in Nat /\ Months \in Nat
    BY DayType, MonthType
  <1>2. n * t.months \in Nat
    BY CalendarType
  <1>3. k \in 1..Months /\ k + 1 \in 1..Months
    BY <1>1, <1>2
  <1>4. FirstDay(k) \in Nat /\ FirstDay(k + 1) \in Nat
    BY <1>3, StartsAMonth
  <1>5. FirstDay(k) < FirstDay(k + 1)
    <2>1. MonthOf(FirstDay(k)) = k
      BY <1>3, FirstDayType
    <2>2. FirstDay(k + 1) <= FirstDay(k) <=> k + 1 <= MonthOf(FirstDay(k))
      BY <1>3, <1>4, StartsAMonth
    <2> QED
      BY <2>1, <2>2, <1>4, <1>3
  <1>6. date = Min({day, last})
    BY DEF DateAt
  <1>7. day \in Nat /\ last \in Nat /\ FirstDay(k) <= day /\ FirstDay(k) <= last
    BY <1>1, <1>4, <1>5
  <1>8. Min({day, last}) = IF day <= last THEN day ELSE last
    <2> HIDE DEF day, last
    <2> QED
      BY <1>7, MinOfTwo
  <1>9. /\ date \in Nat /\ FirstDay(k) <= date /\ date <= last /\ date <= day
        /\ date = day \/ (date = last /\ date < day)
    <2> HIDE DEF day, last, date
    <2> QED
      BY <1>6, <1>7, <1>8
  <1>10. MonthOf(date) = k
    <2>1. FirstDay(k) <= date <=> k <= MonthOf(date)
      BY <1>3, <1>9, StartsAMonth
    <2>2. FirstDay(k + 1) <= date <=> k + 1 <= MonthOf(date)
      BY <1>3, <1>9, StartsAMonth
    <2>3. MonthOf(date) \in Nat
      BY <1>9, MonthType
    <2> HIDE DEF date
    <2> QED
      BY <2>1, <2>2, <2>3, <1>9, <1>4, <1>3
  <1> QED
    BY <1>7, <1>9, <1>10

(* The months up to the n-th date have one that follows.                   *)
InRange(t, anchor, n) ==
    t.months # 0 => MonthOf(anchor) + n * t.months + 1 <= Months

LEMMA DateOfMonth ==
    ASSUME NEW t \in CalendarTriggers, t.months # 0, NEW anchor \in Nat, NEW n \in Nat,
           InRange(t, anchor, n)
    PROVE  /\ n * t.months \in Nat
           /\ MonthOf(anchor) + n * t.months \in Nat /\ MonthOf(anchor) \in 1..Months
           /\ DateAt(t, anchor, n) \in Nat
           /\ MonthOf(DateAt(t, anchor, n)) = MonthOf(anchor) + n * t.months
  <1>1. n * t.months \in Nat /\ MonthOf(anchor) \in 1..Months
    BY CalendarType, DayType
  <1>2. PICK k : k = MonthOf(anchor) + n * t.months
    OBVIOUS
  <1>3. k \in Nat /\ k + 1 <= Months
    BY <1>1, <1>2 DEF InRange
  <1> QED
    BY <1>1, <1>2, <1>3, DateInMonth

LEMMA DateType ==
    ASSUME NEW t \in CalendarTriggers, NEW anchor \in Nat, NEW n \in Nat,
           InRange(t, anchor, n)
    PROVE  DateAt(t, anchor, n) \in Nat
  <1>1. CASE t.months = 0
    <2>1. n * t.days \in Nat
      BY CalendarType
    <2> QED
      BY <2>1, <1>1 DEF DateAt
  <1> QED
    BY <1>1, DateOfMonth

(* Candidate dates strictly increase.                                      *)
LEMMA DatesAscend ==
    ASSUME NEW t \in CalendarTriggers, NEW anchor \in Nat, NEW m \in Nat, NEW n \in Nat,
           m < n, InRange(t, anchor, n)
    PROVE  InRange(t, anchor, m) /\ DateAt(t, anchor, m) < DateAt(t, anchor, n)
  <1>1. CASE t.months = 0
    <2>1. t.days \in Nat \ {0}
      BY <1>1, CalendarType
    <2>2. PICK x, y : x = m * t.days /\ y = n * t.days
      OBVIOUS
    <2>3. x \in Int /\ y \in Int /\ x + t.days <= y
      <3>1. /\ m * t.days \in Int /\ n * t.days \in Int
            /\ m * t.days + t.days <= n * t.days
        BY <2>1, Multiples
      <3> QED
        BY <2>2, <3>1
    <2>4. anchor + x < anchor + y
      BY <2>1, <2>3
    <2> QED
      BY <1>1, <2>2, <2>4 DEF DateAt, InRange
  <1>2. CASE t.months # 0
    <2>1. t.months \in Nat \ {0}
      BY <1>2, CalendarType
    <2>2. PICK x, y : x = m * t.months /\ y = n * t.months
      OBVIOUS
    <2>3. x \in Int /\ y \in Int /\ x + t.months <= y
      <3>1. /\ m * t.months \in Int /\ n * t.months \in Int
            /\ m * t.months + t.months <= n * t.months
        BY <2>1, Multiples
      <3> QED
        BY <2>2, <3>1
    <2>4. MonthOf(anchor) \in 1..Months /\ Months \in Nat
      BY DayType, MonthType
    <2>5. MonthOf(anchor) + y + 1 <= Months
      BY <1>2, <2>2 DEF InRange
    <2>6. MonthOf(anchor) + x + 1 <= Months
      BY <2>1, <2>3, <2>4, <2>5
    <2>7. InRange(t, anchor, m)
      BY <2>2, <2>6 DEF InRange
    <2>8. /\ DateAt(t, anchor, m) \in Nat /\ DateAt(t, anchor, n) \in Nat
          /\ MonthOf(DateAt(t, anchor, m)) = MonthOf(anchor) + x
          /\ MonthOf(DateAt(t, anchor, n)) = MonthOf(anchor) + y
      BY <1>2, <2>2, <2>7, DateOfMonth
    <2>9. ~ (MonthOf(DateAt(t, anchor, n)) <= MonthOf(DateAt(t, anchor, m)))
      BY <2>1, <2>3, <2>4, <2>8
    <2>10. ~ (DateAt(t, anchor, n) <= DateAt(t, anchor, m))
      BY <2>8, <2>9, MonthsInOrder
    <2> QED
      BY <2>7, <2>8, <2>10
  <1> QED
    BY <1>1, <1>2

LEMMA FirstDate ==
    ASSUME NEW t \in CalendarTriggers, NEW anchor \in Nat, InRange(t, anchor, 0)
    PROVE  DateAt(t, anchor, 0) = anchor
  <1>1. CASE t.months = 0
    BY <1>1, CalendarType DEF DateAt
  <1>2. CASE t.months # 0
    <2>1. PICK k : k = MonthOf(anchor)
      OBVIOUS
    <2>2. k \in 1..Months /\ k + 0 * t.months = k /\ k + 1 <= Months /\ k + 1 \in 1..Months
          /\ Months \in Nat
      BY <1>2, <2>1, DayType, MonthType, CalendarType DEF InRange
    <2>3. anchor = FirstDay(k) + DayInMonth(anchor) /\ DayInMonth(anchor) \in Nat
          /\ FirstDay(k) \in Nat /\ FirstDay(k + 1) \in Nat
      BY <2>1, <2>2, DayType, StartsAMonth
    <2>4. anchor < FirstDay(k + 1)
      <3>1. FirstDay(k + 1) <= anchor <=> k + 1 <= MonthOf(anchor)
        BY <2>2, StartsAMonth
      <3> QED
        BY <2>1, <2>2, <2>3, <3>1
    <2>5. \/ DateAt(t, anchor, 0) = FirstDay(k) + DayInMonth(anchor)
          \/ /\ DateAt(t, anchor, 0) = FirstDay(k + 1) - 1
             /\ DateAt(t, anchor, 0) < FirstDay(k) + DayInMonth(anchor)
      BY <1>2, <2>1, <2>2, DateInMonth
    <2> QED
      BY <2>3, <2>4, <2>5
  <1> QED
    BY <1>1, <1>2

(* The days that are looked at have a month that follows, and the days     *)
(* before such a month are looked at.                                      *)
LEMMA LastDayIs ==
    /\ LastDay \in Int
    /\ \A d \in Nat : d <= LastDay => MonthOf(d) + 1 <= Months /\ MonthOf(d) \in Nat
    /\ \A k \in 1..Months - 1 : FirstDay(k) - 1 <= LastDay
  <1>1. PICK last \in MonthStarts : \A s \in MonthStarts : s <= last
    BY TriggersAssumption, LargestOne
  <1>2. last \in Nat /\ Max(MonthStarts) = last
    <2>1. MonthStarts \in SUBSET Int
      BY StartType
    <2> QED
      BY <1>1, <2>1, MaxIs, StartType
  <1>3. MonthOf(last) = Months /\ Months \in Nat
    <2>1. {s \in MonthStarts : s <= last} = MonthStarts
      BY <1>1
    <2>2. Months \in Nat
      BY MonthType, <1>2
    <2> QED
      BY <2>1, <2>2 DEF MonthOf, Months
  <1>4. ASSUME NEW d \in Nat, d <= LastDay PROVE MonthOf(d) + 1 <= Months /\ MonthOf(d) \in Nat
    <2>1. last <= d <=> MonthOf(last) <= MonthOf(d)
      BY MonthOfStart
    <2>2. ~ (last <= d)
      BY <1>2, <1>4 DEF LastDay
    <2> QED
      BY <2>1, <2>2, <1>3, MonthType
  <1>5. ASSUME NEW k \in 1..Months - 1 PROVE FirstDay(k) - 1 <= LastDay
    <2>1. k \in 1..Months
      BY <1>3
    <2>2. FirstDay(k) \in MonthStarts /\ MonthOf(FirstDay(k)) = k /\ FirstDay(k) \in Nat
      BY <2>1, FirstDayType, StartType
    <2>3. FirstDay(k) # last
      BY <2>2, <1>3
    <2>4. FirstDay(k) <= last
      BY <2>2, <1>1
    <2> QED
      BY <2>2, <2>3, <2>4, <1>2 DEF LastDay
  <1> QED
    BY <1>2, <1>4, <1>5 DEF LastDay

(* The dates of a trigger are the days that fall on its step.              *)
LEMMA DatesFallOn ==
    ASSUME NEW t \in CalendarTriggers, NEW anchor \in Nat, NEW n \in Nat,
           InRange(t, anchor, n)
    PROVE  FallsOn(t, anchor, DateAt(t, anchor, n))
  <1>1. PICK date : date = DateAt(t, anchor, n)
    OBVIOUS
  <1>2. date \in Nat /\ anchor <= date
    <2>1. CASE n = 0
      BY <2>1, <1>1, FirstDate
    <2>2. CASE n # 0
      <3>1. InRange(t, anchor, 0) /\ DateAt(t, anchor, 0) < DateAt(t, anchor, n)
        BY <2>2, DatesAscend
      <3> QED
        BY <3>1, <1>1, FirstDate, DateType
    <2> QED
      BY <2>1, <2>2
  <1>3. CASE t.months = 0
    <2>1. t.days \in Nat \ {0}
      BY <1>3, CalendarType
    <2>2. PICK x : x = n * t.days
      OBVIOUS
    <2>3. x \in Int /\ x % t.days = 0
      BY <2>1, <2>2, Multiple
    <2>4. date = anchor + x
      BY <1>1, <1>3, <2>2 DEF DateAt
    <2>5. date - anchor = x
      BY <2>3, <2>4
    <2> QED
      BY <1>1, <1>2, <1>3, <2>3, <2>5 DEF FallsOn
  <1>4. CASE t.months # 0
    <2>1. t.months \in Nat \ {0}
      BY <1>4, CalendarType
    <2>2. PICK x : x = n * t.months
      OBVIOUS
    <2>3. x \in Nat /\ x % t.months = 0
      BY <2>1, <2>2, Multiple
    <2>4. PICK k : k = MonthOf(anchor) + x
      OBVIOUS
    <2>5. MonthOf(anchor) \in 1..Months /\ Months \in Nat /\ k \in Nat /\ k + 1 <= Months
      BY <1>4, <2>2, <2>3, <2>4, DayType, MonthType DEF InRange
    <2>6. k \in 1..Months /\ k + 1 \in 1..Months
      BY <2>3, <2>4, <2>5
    <2>7. PICK day, last : day = FirstDay(k) + DayInMonth(anchor) /\ last = FirstDay(k + 1) - 1
      OBVIOUS
    <2>8. /\ MonthOf(date) = k
          /\ date = day \/ (date = last /\ date < day)
      BY <1>1, <1>4, <2>2, <2>4, <2>5, <2>7, DateInMonth
    <2>9. FirstDay(k) \in Nat /\ DayInMonth(anchor) \in Nat /\ DayInMonth(date) = date - FirstDay(k)
          /\ FirstDay(k + 1) \in Nat
      BY <2>6, <2>8, StartsAMonth, DayType DEF DayInMonth
    <2>10. (MonthOf(date) - MonthOf(anchor)) % t.months = 0
      <3>1. MonthOf(date) - MonthOf(anchor) = x
        BY <2>3, <2>4, <2>5, <2>8
      <3> QED
        BY <3>1, <2>3
    <2>11. CASE date = day
      <3>1. DayInMonth(date) = DayInMonth(anchor)
        BY <2>7, <2>9, <2>11
      <3> QED
        BY <1>1, <1>2, <1>4, <2>10, <3>1 DEF FallsOn
    <2>12. CASE date = last /\ date < day
      <3>1. DayInMonth(date) < DayInMonth(anchor)
        BY <2>7, <2>9, <2>12, <1>2
      <3>2. FirstDay(k + 1) <= date + 1 /\ date + 1 \in Int
        BY <2>7, <2>9, <2>12, <1>2
      <3>3. k + 1 <= MonthOf(date + 1)
        BY <3>2, <2>6, StartsAMonth
      <3>4. MonthOf(date + 1) # MonthOf(date)
        BY <3>3, <2>8, <2>5
      <3> QED
        BY <1>1, <1>2, <1>4, <2>10, <3>1, <3>4 DEF FallsOn
    <2> QED
      BY <2>8, <2>11, <2>12
  <1> QED
    BY <1>3, <1>4

LEMMA OnlyDatesFallOn ==
    ASSUME NEW t \in CalendarTriggers, NEW anchor \in Nat, NEW d \in Nat,
           d <= LastDay, FallsOn(t, anchor, d)
    PROVE  \E n \in Nat : InRange(t, anchor, n) /\ d = DateAt(t, anchor, n)
  <1>1. anchor <= d
    BY DEF FallsOn
  <1>2. CASE t.months = 0
    <2>1. t.days \in Nat \ {0} /\ (d - anchor) % t.days = 0
      BY <1>2, CalendarType DEF FallsOn
    <2>2. PICK x, n : x = d - anchor /\ n = x \div t.days
      OBVIOUS
    <2>3. x \in Nat /\ x % t.days = 0
      BY <1>1, <2>1, <2>2
    <2>4. n \in Nat /\ x = n * t.days
      BY <2>1, <2>2, <2>3, ExactDivision
    <2>5. d = anchor + n * t.days
      BY <2>2, <2>3, <2>4
    <2> QED
      BY <1>2, <2>4, <2>5 DEF DateAt, InRange
  <1>3. CASE t.months # 0
    <2>1. t.months \in Nat \ {0}
      BY <1>3, CalendarType
    <2>2. PICK k : k = MonthOf(d)
      OBVIOUS
    <2>3. k + 1 <= Months /\ k \in 1..Months /\ Months \in Nat /\ k + 1 \in 1..Months
      BY <2>2, LastDayIs, DayType, MonthType
    <2>4. MonthOf(anchor) \in 1..Months /\ MonthOf(anchor) <= k
      BY <1>1, <2>2, MonthsInOrder, DayType
    <2>5. PICK x, n : x = k - MonthOf(anchor) /\ n = x \div t.months
      OBVIOUS
    <2>6. x \in Nat /\ x % t.months = 0
      BY <1>3, <2>2, <2>3, <2>4, <2>5 DEF FallsOn
    <2>7. n \in Nat /\ x = n * t.months
      BY <2>1, <2>5, <2>6, ExactDivision
    <2>8. k = MonthOf(anchor) + n * t.months
      <3>1. k = MonthOf(anchor) + x
        BY <2>3, <2>4, <2>5
      <3> QED
        BY <3>1, <2>7
    <2>9. InRange(t, anchor, n)
      BY <2>3, <2>8 DEF InRange
    <2>10. PICK date, day, last : /\ date = DateAt(t, anchor, n)
                                  /\ day = FirstDay(k) + DayInMonth(anchor)
                                  /\ last = FirstDay(k + 1) - 1
      OBVIOUS
    <2>11. /\ date \in Nat /\ last \in Nat /\ day \in Nat /\ date <= last /\ date <= day
           /\ date = day \/ date = last
      BY <1>3, <2>3, <2>7, <2>8, <2>10, DateInMonth
    <2>12. /\ FirstDay(k) \in Nat /\ FirstDay(k + 1) \in Nat /\ DayInMonth(anchor) \in Nat
           /\ d = FirstDay(k) + DayInMonth(d) /\ DayInMonth(d) \in Nat
      BY <2>2, <2>3, StartsAMonth, DayType
    <2>13. d <= last
      <3>1. FirstDay(k + 1) <= d <=> k + 1 <= MonthOf(d)
        BY <2>3, StartsAMonth
      <3> QED
        BY <3>1, <2>2, <2>3, <2>10, <2>12
    <2>14. CASE DayInMonth(d) = DayInMonth(anchor)
      <3>1. d = day
        BY <2>10, <2>12, <2>14
      <3> QED
        BY <3>1, <2>7, <2>9, <2>10, <2>11, <2>13
    <2>15. CASE DayInMonth(d) < DayInMonth(anchor) /\ MonthOf(d + 1) # MonthOf(d)
      <3>1. d < day
        BY <2>10, <2>12, <2>15
      <3>2. k <= MonthOf(d + 1) /\ MonthOf(d + 1) \in Nat
        BY <2>2, MonthsInOrder, MonthType
      <3>3. k + 1 <= MonthOf(d + 1)
        BY <3>2, <2>2, <2>3, <2>15
      <3>4. FirstDay(k + 1) <= d + 1
        BY <3>3, <2>3, StartsAMonth
      <3>5. d = last
        BY <3>4, <2>10, <2>12, <2>13
      <3> QED
        BY <3>1, <3>5, <2>7, <2>9, <2>10, <2>11
    <2> QED
      BY <1>3, <2>14, <2>15 DEF FallsOn
  <1> QED
    BY <1>2, <1>3

(* The clocks. Away from the walls that a shift repeats or skips, a moment *)
(* is later when its wall is.                                              *)
Steady(wall, z) ==
    \/ wall < Shift + Min({z.before, z.after})
    \/ wall >= Shift + Max({z.before, z.after})

LEMMA ZoneType ==
    ASSUME NEW z \in Zones
    PROVE  /\ z.before \in Nat /\ z.after \in Nat /\ Shift \in Int
           /\ Min({z.before, z.after}) = IF z.before <= z.after THEN z.before ELSE z.after
           /\ Max({z.before, z.after}) = IF z.before <= z.after THEN z.after ELSE z.before
  <1>1. z.before \in Nat /\ z.after \in Nat /\ Shift \in Int
    BY TriggersAssumption DEF Zones
  <1> QED
    BY <1>1, MinOfTwo, MaxOfTwo

LEMMA ClockAgrees ==
    ASSUME NEW z \in Zones, NEW wall \in Int, Steady(wall, z), NEW m \in Int
    PROVE  AsUtc(wall, z) \in Int /\ (AsUtc(wall, z) > m <=> wall > ToLocal(m, z))
  BY ZoneType DEF Steady, AsUtc, ToLocal

LEMMA ClockAscends ==
    ASSUME NEW z \in Zones, NEW v \in Int, NEW w \in Int, v <= w,
           Steady(v, z), Steady(w, z)
    PROVE  AsUtc(v, z) <= AsUtc(w, z)
  BY ZoneType DEF Steady, AsUtc

LEMMA WallsAreSteady ==
    ASSUME NEW t \in CalendarTriggers, NEW z \in Zones, ~ InShift(t, z), NEW d \in Nat
    PROVE  Combine(d, t.at) \in Nat /\ Steady(Combine(d, t.at), z)
  <1>1. t.at \in 0..DayLength - 1 /\ DayLength \in Nat \ {0} /\ t.kind = "calendar"
    BY CalendarType
  <1>2. PICK wall : wall = Combine(d, t.at)
    OBVIOUS
  <1>3. wall \in Nat /\ wall % DayLength = t.at
    <2>1. PICK x : x = d * DayLength
      OBVIOUS
    <2>2. x \in Nat /\ wall = x + t.at
      BY <1>1, <1>2, <2>1 DEF Combine
    <2>3. wall = d * DayLength + t.at
      BY <2>1, <2>2
    <2>4. wall % DayLength = t.at
      <3>1. PICK r : r = t.at
        OBVIOUS
      <3>2. r \in 0..DayLength - 1 /\ wall = d * DayLength + r /\ d \in Int
        BY <1>1, <2>3, <3>1
      <3>3. wall % DayLength = r
        BY <1>1, <3>2, Remainder
      <3> QED
        BY <3>1, <3>3
    <2> QED
      BY <1>1, <2>2, <2>4
  <1>4. ~ (wall \in Shift + Min({z.before, z.after})..Shift + Max({z.before, z.after}) - 1)
    BY <1>1, <1>3 DEF InShift
  <1> QED
    BY <1>2, <1>3, <1>4, ZoneType DEF Steady

(* Walls of one day are before those of the next.                          *)
LEMMA DayOfWall ==
    ASSUME NEW wall \in Nat, NEW d \in Nat, NEW at \in 0..DayLength - 1
    PROVE  /\ DateOf(wall) \in Nat /\ Combine(d, at) \in Nat
           /\ d < DateOf(wall) => Combine(d, at) < wall
           /\ d > DateOf(wall) => Combine(d, at) > wall
  <1>1. DayLength \in Nat \ {0}
    BY TriggersAssumption
  <1>2. PICK day, rest : day = DateOf(wall) /\ rest = wall % DayLength
    OBVIOUS
  <1>3. day \in Int /\ rest \in 0..DayLength - 1 /\ wall = DayLength * day + rest
    BY <1>1, <1>2, Division DEF DateOf
  <1>4. day \in Nat
    <2>1. wall \div DayLength \in Nat
      BY <1>1
    <2> QED
      BY <2>1, <1>2 DEF DateOf
  <1>5. PICK x, y : x = day * DayLength /\ y = d * DayLength
    OBVIOUS
  <1>6. x \in Nat /\ y \in Nat /\ wall = x + rest /\ Combine(d, at) = y + at
    BY <1>1, <1>3, <1>4, <1>5 DEF Combine
  <1>7. CASE d < day
    <2>1. y + DayLength <= x
      BY <1>1, <1>4, <1>5, <1>7, Multiples
    <2> QED
      BY <1>1, <1>2, <1>3, <1>4, <1>6, <1>7, <2>1
  <1>8. CASE d > day
    <2>1. x + DayLength <= y
      BY <1>1, <1>4, <1>5, <1>8, Multiples
    <2> QED
      BY <1>1, <1>2, <1>3, <1>4, <1>6, <1>8, <2>1
  <1>9. Combine(d, at) \in Nat
    BY <1>1, <1>6
  <1> QED
    BY <1>2, <1>4, <1>7, <1>8, <1>9

LEMMA WallsAscend ==
    ASSUME NEW c \in Nat, NEW d \in Nat, c <= d, NEW at \in 0..DayLength - 1
    PROVE  Combine(c, at) <= Combine(d, at)
  <1>1. DayLength \in Nat \ {0}
    BY TriggersAssumption
  <1>2. PICK x, y : x = c * DayLength /\ y = d * DayLength
    OBVIOUS
  <1>3. x \in Nat /\ y \in Nat
    BY <1>1, <1>2
  <1>4. x <= y
    <2>1. CASE c < d
      <3>1. x + DayLength <= y
        BY <1>1, <1>2, <2>1, Multiples
      <3> QED
        BY <1>1, <1>3, <3>1
    <2>2. CASE c = d
      BY <1>2, <1>3, <2>2
    <2> QED
      BY <2>1, <2>2
  <1> QED
    BY <1>1, <1>2, <1>3, <1>4 DEF Combine

(* _skip_ahead always undershoots: the candidates before the step are on   *)
(* days before the target, and the one after the step is on a later day.   *)
Room(t, day) == MonthOf(day) + MaxStep + 2 <= Months /\ day + MaxStep <= LastDay

LEMMA StepUndershoots ==
    ASSUME NEW t \in CalendarTriggers, NEW anchor \in Nat, NEW target \in Nat,
           Room(t, anchor), Room(t, target)
    PROVE  LET step == SkipAhead(t, anchor, target)
           IN  /\ step \in Nat
               /\ InRange(t, anchor, step + 1)
               /\ DateAt(t, anchor, step + 1) <= LastDay
               /\ DateAt(t, anchor, step + 1) > target
               /\ \A n \in Nat : n < step => DateAt(t, anchor, n) < target
  <1>1. PICK step : step = SkipAhead(t, anchor, target)
    OBVIOUS
  <1>2. /\ MonthOf(anchor) \in 1..Months /\ MonthOf(target) \in 1..Months /\ Months \in Nat
        /\ t.months \in Nat /\ t.days \in Nat /\ t.months <= MaxStep /\ t.days <= MaxStep
        /\ MaxStep \in Nat /\ LastDay \in Int
    BY CalendarType, DayType, MonthType, LastDayIs
  <1>3. CASE t.months = 0
    <2>1. t.days \in Nat \ {0}
      BY <1>3, CalendarType
    <2>2. PICK e, x : e = target - anchor /\ x = step * t.days
      OBVIOUS
    <2>3. step \in Nat /\ x \in Nat
          /\ IF target <= anchor THEN step = 0 /\ x = 0 ELSE x <= e /\ e < x + t.days
      <3>1. CASE target <= anchor
        BY <3>1, <1>1, <2>1, <2>2 DEF SkipAhead
      <3>2. CASE ~ (target <= anchor)
        <4>1. e \in Nat /\ step = e \div t.days
          BY <3>2, <1>1, <1>2, <1>3, <2>2 DEF SkipAhead
        <4>2. step \in Nat /\ x \in Nat /\ x <= e /\ e < x + t.days
          BY <2>1, <2>2, <4>1, Quotient
        <4> QED
          BY <3>2, <4>2
      <3> QED
        BY <3>1, <3>2
    <2>4. DateAt(t, anchor, step + 1) = anchor + x + t.days
      <3>1. (step + 1) * t.days = x + t.days
        BY <2>1, <2>2, <2>3, NextMultiple
      <3> QED
        BY <3>1, <1>3, <2>1, <2>3 DEF DateAt
    <2>5. DateAt(t, anchor, step + 1) > target /\ DateAt(t, anchor, step + 1) <= LastDay
      BY <1>2, <2>1, <2>2, <2>3, <2>4 DEF Room
    <2>6. ASSUME NEW n \in Nat, n < step PROVE DateAt(t, anchor, n) < target
      <3>1. PICK y : y = n * t.days
        OBVIOUS
      <3>2. y \in Nat /\ y + t.days <= x
        BY <2>1, <2>2, <2>3, <2>6, <3>1, Multiples
      <3>3. DateAt(t, anchor, n) = anchor + y
        BY <1>3, <3>1 DEF DateAt
      <3> QED
        BY <2>1, <2>2, <2>3, <2>6, <3>2, <3>3
    <2> QED
      BY <1>1, <1>3, <2>3, <2>5, <2>6 DEF InRange
  <1>4. CASE t.months # 0
    <2>1. t.months \in Nat \ {0}
      BY <1>4, CalendarType
    <2>2. PICK e, x : e = MonthOf(target) - MonthOf(anchor) /\ x = step * t.months
      OBVIOUS
    <2>3. step \in Nat /\ x \in Nat
          /\ IF target <= anchor THEN step = 0 /\ x = 0 ELSE x <= e /\ e < x + t.months
      <3>1. CASE target <= anchor
        BY <3>1, <1>1, <2>1, <2>2 DEF SkipAhead
      <3>2. CASE ~ (target <= anchor)
        <4>1. e \in Nat /\ step = e \div t.months
          <5>1. MonthOf(anchor) <= MonthOf(target)
            BY <3>2, MonthsInOrder
          <5> QED
            BY <5>1, <3>2, <1>1, <1>2, <2>1, <2>2 DEF SkipAhead
        <4>2. step \in Nat /\ x \in Nat /\ x <= e /\ e < x + t.months
          BY <2>1, <2>2, <4>1, Quotient
        <4> QED
          BY <3>2, <4>2
      <3> QED
        BY <3>1, <3>2
    <2>4. PICK k : k = MonthOf(anchor) + x + t.months
      OBVIOUS
    <2>5. /\ (step + 1) * t.months = x + t.months
          /\ k = MonthOf(anchor) + (step + 1) * t.months
          /\ k \in Nat /\ k + 2 <= Months
      <3>1. (step + 1) * t.months = x + t.months
        <4>1. step \in Int /\ t.months \in Nat
          BY <2>1, <2>3
        <4>2. (step + 1) * t.months = step * t.months + t.months
          BY <4>1, NextMultiple
        <4> QED
          BY <4>2, <2>2
      <3>2. k = MonthOf(anchor) + (step + 1) * t.months
        BY <1>2, <2>1, <2>3, <2>4, <3>1
      <3>3. k \in Nat /\ k + 2 <= Months
        BY <1>2, <2>1, <2>2, <2>3, <2>4 DEF Room
      <3> QED
        BY <3>1, <3>2, <3>3
    <2>6. InRange(t, anchor, step + 1)
      BY <2>5, <1>2 DEF InRange
    <2>7. PICK date : date = DateAt(t, anchor, step + 1)
      OBVIOUS
    <2>8. date \in Nat /\ MonthOf(date) = k
      BY <1>4, <2>3, <2>5, <2>6, <2>7, DateOfMonth
    <2>9. date <= LastDay
      <3>1. k + 1 \in 1..Months - 1 /\ k + 1 \in 1..Months
        BY <1>2, <2>5
      <3>2. FirstDay(k + 1) - 1 <= LastDay /\ FirstDay(k + 1) \in Nat
        BY <3>1, LastDayIs, StartsAMonth
      <3>3. FirstDay(k + 1) <= date <=> k + 1 <= MonthOf(date)
        BY <3>1, <2>8, StartsAMonth
      <3> QED
        BY <3>2, <3>3, <2>5, <2>8, <1>2
    <2>10. date > target
      <3>1. CASE target <= anchor
        <4>1. InRange(t, anchor, 0) /\ DateAt(t, anchor, 0) < date
          BY <2>3, <2>6, <2>7, DatesAscend
        <4> QED
          BY <3>1, <4>1, <2>8, FirstDate
      <3>2. CASE ~ (target <= anchor)
        <4>1. ~ (k <= MonthOf(target))
          BY <1>2, <2>1, <2>2, <2>3, <2>4, <3>2
        <4>2. ~ (date <= target)
          BY <4>1, <2>8, MonthsInOrder
        <4> QED
          BY <4>2, <2>8
      <3> QED
        BY <3>1, <3>2
    <2>11. ASSUME NEW n \in Nat, n < step PROVE DateAt(t, anchor, n) < target
      <3>1. PICK y : y = n * t.months
        OBVIOUS
      <3>2. y \in Nat /\ y + t.months <= x
        BY <2>1, <2>2, <2>3, <2>11, <3>1, Multiples
      <3>3. InRange(t, anchor, n)
        <4>1. n < step + 1
          BY <2>3, <2>11
        <4> QED
          BY <4>1, <2>3, <2>6, DatesAscend
      <3>4. DateAt(t, anchor, n) \in Nat /\ MonthOf(DateAt(t, anchor, n)) = MonthOf(anchor) + y
        BY <1>4, <3>1, <3>3, DateOfMonth
      <3>5. ~ (MonthOf(target) <= MonthOf(DateAt(t, anchor, n)))
        BY <1>2, <2>1, <2>2, <2>3, <2>11, <3>2, <3>4
      <3>6. ~ (target <= DateAt(t, anchor, n))
        BY <3>4, <3>5, MonthsInOrder
      <3> QED
        BY <3>4, <3>6
    <2> QED
      BY <1>1, <2>3, <2>6, <2>7, <2>9, <2>10, <2>11
  <1> QED
    BY <1>3, <1>4

(* _seek: the first firing after `local` is at the step or the one after.  *)
LEMMA SeekFinds ==
    ASSUME NEW t \in CalendarTriggers, NEW anchor \in Nat, NEW local \in Nat,
           Room(t, anchor), Room(t, DateOf(local))
    PROVE  \E n \in Nat :
              /\ InRange(t, anchor, n) /\ DateAt(t, anchor, n) <= LastDay
              /\ Seek(t, anchor, local) = Combine(DateAt(t, anchor, n), t.at)
              /\ Combine(DateAt(t, anchor, n), t.at) > local
              /\ \A m \in Nat :
                    InRange(t, anchor, m) /\ Combine(DateAt(t, anchor, m), t.at) > local
                        => n <= m
  <1>1. t.at \in 0..DayLength - 1 /\ DateOf(local) \in Nat
    BY CalendarType, DayOfWall
  <1>2. PICK step : step = SkipAhead(t, anchor, DateOf(local))
    OBVIOUS
  <1>3. /\ step \in Nat /\ InRange(t, anchor, step + 1)
        /\ DateAt(t, anchor, step + 1) <= LastDay
        /\ DateAt(t, anchor, step + 1) > DateOf(local)
        /\ \A n \in Nat : n < step => DateAt(t, anchor, n) < DateOf(local)
    BY <1>1, <1>2, StepUndershoots
  <1>4. /\ InRange(t, anchor, step) /\ DateAt(t, anchor, step) < DateAt(t, anchor, step + 1)
        /\ DateAt(t, anchor, step) \in Nat /\ DateAt(t, anchor, step + 1) \in Nat
        /\ DateAt(t, anchor, step) <= LastDay
    <2>1. InRange(t, anchor, step) /\ DateAt(t, anchor, step) < DateAt(t, anchor, step + 1)
      BY <1>3, DatesAscend
    <2>2. DateAt(t, anchor, step) \in Nat /\ DateAt(t, anchor, step + 1) \in Nat
      BY <1>3, <2>1, DateType
    <2> QED
      BY <1>3, <2>1, <2>2, LastDayIs
  <1>5. Combine(DateAt(t, anchor, step + 1), t.at) > local
    BY <1>1, <1>3, <1>4, DayOfWall
  <1>6. ASSUME NEW m \in Nat, InRange(t, anchor, m),
               Combine(DateAt(t, anchor, m), t.at) > local
        PROVE  step <= m
    <2>1. ASSUME m < step PROVE FALSE
      <3>1. DateAt(t, anchor, m) \in Nat
        BY <1>6, DateType
      <3>2. DateAt(t, anchor, m) < DateOf(local)
        BY <1>3, <2>1
      <3>3. Combine(DateAt(t, anchor, m), t.at) < local
            /\ Combine(DateAt(t, anchor, m), t.at) \in Nat
        BY <1>1, <3>1, <3>2, DayOfWall
      <3> QED
        BY <3>3, <1>6
    <2> QED
      BY <2>1, <1>3
  <1>7. PICK later : later = {n \in {step, step + 1} : Combine(DateAt(t, anchor, n), t.at) > local}
    OBVIOUS
  <1>8. Seek(t, anchor, local) = IF later = {} THEN NoFiring
                                 ELSE Combine(DateAt(t, anchor, Min(later)), t.at)
    BY <1>2, <1>7 DEF Seek
  <1>9. CASE Combine(DateAt(t, anchor, step), t.at) > local
    <2>1. later = {step, step + 1}
      BY <1>5, <1>7, <1>9
    <2>2. Min(later) = step
      BY <2>1, <1>3, MinOfTwo
    <2>3. Seek(t, anchor, local) = Combine(DateAt(t, anchor, step), t.at)
      BY <1>8, <2>1, <2>2
    <2> QED
      BY <1>3, <1>4, <1>6, <1>9, <2>3
  <1>10. CASE ~ (Combine(DateAt(t, anchor, step), t.at) > local)
    <2>1. later = {step + 1}
      BY <1>5, <1>7, <1>10
    <2>2. Min(later) = step + 1
      <3>1. \A x \in later : step + 1 <= x
        BY <2>1, <1>3
      <3>2. later \in SUBSET Int /\ step + 1 \in later
        BY <2>1, <1>3
      <3> QED
        BY <3>1, <3>2, MinIs
    <2>3. Seek(t, anchor, local) = Combine(DateAt(t, anchor, step + 1), t.at)
      BY <1>8, <2>1, <2>2
    <2>4. ASSUME NEW m \in Nat, InRange(t, anchor, m),
                 Combine(DateAt(t, anchor, m), t.at) > local
          PROVE  step + 1 <= m
      <3>1. step <= m /\ m # step
        BY <1>6, <1>10, <2>4
      <3> QED
        BY <3>1, <1>3
    <2>5. step + 1 \in Nat
      BY <1>3
    <2> QED
      BY <1>3, <1>5, <2>3, <2>4, <2>5
  <1> QED
    BY <1>9, <1>10

(* The calendar has room after every moment that is asked about.           *)
LEMMA RoomAhead ==
    ASSUME NEW t, NEW z \in Zones, NEW m \in Bounds \cup 0..LastMoment
    PROVE  /\ ToLocal(m, z) \in Nat /\ DateOf(ToLocal(m, z)) \in Nat
           /\ Room(t, DateOf(ToLocal(m, z)))
  <1>1. m \in Nat /\ z.before \in Offsets /\ z.after \in Offsets /\ DayLength \in Nat \ {0}
    BY TriggersAssumption DEF Zones
  <1>2. PICK o \in Offsets : ToLocal(m, z) = m + o
    BY <1>1 DEF ToLocal
  <1>3. m + o \in Nat
    BY <1>1, <1>2, TriggersAssumption
  <1>4. 0 \in 0..DayLength - 1
    BY <1>1
  <1>5. DateOf(m + o) \in Nat
    BY <1>3, <1>4, DayOfWall
  <1>6. /\ MonthOf(DateOf(m + o)) + MaxStep + 2 <= Months
        /\ DateOf(m + o) + MaxStep <= LastDay
    BY CalendarGoesOn DEF Months
  <1> QED
    BY <1>2, <1>3, <1>5, <1>6 DEF Room

(* What a calendar trigger looks at: where it starts to count, what it has *)
(* to be later than, and what it finds.                                    *)
LEMMA CalendarFinds ==
    ASSUME NEW t \in CalendarTriggers, NEW z \in Zones, NEW after \in 0..LastMoment,
           NEW anchorAt, anchorAt = IF t.start = NoFiring THEN after ELSE t.start,
           NEW floor, floor = Max({after, anchorAt}),
           NEW anchor, anchor = DateOf(ToLocal(anchorAt, z)),
           NEW local, local = ToLocal(floor, z)
    PROVE  /\ after \in Int /\ anchorAt \in Int /\ floor \in Int
           /\ floor = IF after <= anchorAt THEN anchorAt ELSE after
           /\ anchor \in Nat /\ local \in Nat
           /\ \E n \in Nat :
                 /\ InRange(t, anchor, n) /\ DateAt(t, anchor, n) \in Nat
                 /\ DateAt(t, anchor, n) <= LastDay
                 /\ CalendarFires(t, after, z) = AsUtc(Combine(DateAt(t, anchor, n), t.at), z)
                 /\ Combine(DateAt(t, anchor, n), t.at) \in Nat
                 /\ Combine(DateAt(t, anchor, n), t.at) > local
                 /\ \A m \in Nat :
                       InRange(t, anchor, m) /\ Combine(DateAt(t, anchor, m), t.at) > local
                           => n <= m
  <1>1. t.start \in Optional /\ t.at \in 0..DayLength - 1
    BY CalendarType
  <1>2. after \in Int /\ anchorAt \in Int
        /\ after \in Bounds \cup 0..LastMoment /\ anchorAt \in Bounds \cup 0..LastMoment
    BY <1>1, TriggersAssumption DEF Optional, NoFiring
  <1>3. floor = IF after <= anchorAt THEN anchorAt ELSE after
    BY <1>2, MaxOfTwo
  <1>4. floor \in Int /\ floor \in Bounds \cup 0..LastMoment
    BY <1>2, <1>3
  <1>5. anchor \in Nat /\ local \in Nat /\ Room(t, anchor) /\ Room(t, DateOf(local))
    BY <1>2, <1>4, RoomAhead
  <1>6. PICK n \in Nat :
           /\ InRange(t, anchor, n) /\ DateAt(t, anchor, n) <= LastDay
           /\ Seek(t, anchor, local) = Combine(DateAt(t, anchor, n), t.at)
           /\ Combine(DateAt(t, anchor, n), t.at) > local
           /\ \A m \in Nat :
                 InRange(t, anchor, m) /\ Combine(DateAt(t, anchor, m), t.at) > local
                     => n <= m
    BY <1>5, SeekFinds
  <1>7. DateAt(t, anchor, n) \in Nat
    BY <1>5, <1>6, DateType
  <1>8. Combine(DateAt(t, anchor, n), t.at) \in Nat
    BY <1>1, <1>5, <1>7, DayOfWall
  <1>9. CalendarFires(t, after, z) = AsUtc(Combine(DateAt(t, anchor, n), t.at), z)
    <2>1. Seek(t, anchor, local) # NoFiring
      BY <1>6, <1>8 DEF NoFiring
    <2> QED
      BY <2>1, <1>6 DEF CalendarFires
  <1> QED
    BY <1>2, <1>3, <1>4, <1>5, <1>6, <1>7, <1>8, <1>9

(* The moments of a trigger that are later than `after`.                   *)
Later(t, after, z) == {m \in Series(t, after, z) : m > after}

(* A calendar trigger fires at the first of them.                          *)
LEMMA CalendarIsFirst ==
    ASSUME NEW t \in CalendarTriggers, NEW z \in Zones, ~ InShift(t, z),
           NEW after \in 0..LastMoment
    PROVE  /\ CalendarFires(t, after, z) \in Later(t, after, z)
           /\ Later(t, after, z) \in SUBSET Int
           /\ \A m \in Later(t, after, z) : CalendarFires(t, after, z) <= m
  <1>1. PICK anchorAt : anchorAt = (IF t.start = NoFiring THEN after ELSE t.start)
    OBVIOUS
  <1>2. t.kind = "calendar" /\ t.at \in 0..DayLength - 1
    BY CalendarType
  <1>3. PICK floor : floor = Max({after, anchorAt})
    OBVIOUS
  <1>4. PICK anchor, local : anchor = DateOf(ToLocal(anchorAt, z)) /\ local = ToLocal(floor, z)
    OBVIOUS
  <1>5. /\ after \in Int /\ anchorAt \in Int /\ floor \in Int
        /\ floor = (IF after <= anchorAt THEN anchorAt ELSE after)
        /\ anchor \in Nat /\ local \in Nat
    BY <1>1, <1>3, <1>4, CalendarFinds
  <1>6. PICK n \in Nat :
            /\ InRange(t, anchor, n) /\ DateAt(t, anchor, n) \in Nat
            /\ DateAt(t, anchor, n) <= LastDay
            /\ CalendarFires(t, after, z) = AsUtc(Combine(DateAt(t, anchor, n), t.at), z)
            /\ Combine(DateAt(t, anchor, n), t.at) > local
            /\ \A m \in Nat :
                  InRange(t, anchor, m) /\ Combine(DateAt(t, anchor, m), t.at) > local
                      => n <= m
    BY <1>1, <1>3, <1>4, CalendarFinds
  <1>7. PICK date : date = DateAt(t, anchor, n)
    OBVIOUS
  <1>8. date \in Nat /\ date <= LastDay /\ FallsOn(t, anchor, date) /\ anchor <= date
    <2>1. date \in Nat /\ date <= LastDay /\ FallsOn(t, anchor, date)
      BY <1>5, <1>6, <1>7, DatesFallOn
    <2> QED
      BY <2>1 DEF FallsOn
  <1>9. PICK wall : wall = Combine(date, t.at)
    OBVIOUS
  <1>10. wall \in Nat /\ Steady(wall, z) /\ wall > local
    BY <1>6, <1>7, <1>8, <1>9, WallsAreSteady
  <1>11. CalendarFires(t, after, z) = AsUtc(wall, z)
    BY <1>6, <1>7, <1>9
  <1>12. AsUtc(wall, z) \in Int /\ AsUtc(wall, z) > floor
    BY <1>5, <1>4, <1>10, ClockAgrees
  <1>13. AsUtc(wall, z) > after /\ AsUtc(wall, z) > anchorAt
    BY <1>5, <1>12
  <1>14. Series(t, after, z) =
            {m \in {AsUtc(Combine(d, t.at), z) :
                       d \in {d \in anchor..LastDay : FallsOn(t, anchor, d)}} :
                m > anchorAt}
    BY <1>1, <1>2, <1>4 DEF Series
  <1>15. AsUtc(wall, z) \in Later(t, after, z)
    <2>1. date \in anchor..LastDay
      BY <1>5, <1>8, LastDayIs
    <2>2. AsUtc(wall, z) \in {AsUtc(Combine(d, t.at), z) :
                                  d \in {d \in anchor..LastDay : FallsOn(t, anchor, d)}}
      BY <2>1, <1>8, <1>9
    <2> QED
      BY <2>2, <1>13, <1>14 DEF Later
  <1>16. ASSUME NEW m \in Later(t, after, z)
         PROVE  m \in Int /\ AsUtc(wall, z) <= m
    <2>1. PICK d \in anchor..LastDay : FallsOn(t, anchor, d) /\ m = AsUtc(Combine(d, t.at), z)
      BY <1>14 DEF Later
    <2>2. m > anchorAt /\ m > after
      BY <1>14 DEF Later
    <2>3. d \in Nat /\ d <= LastDay
      BY <2>1, <1>5, LastDayIs
    <2>4. Combine(d, t.at) \in Nat /\ Steady(Combine(d, t.at), z)
      BY <2>3, WallsAreSteady
    <2>5. m \in Int /\ (m > floor <=> Combine(d, t.at) > local)
      BY <1>5, <1>4, <2>1, <2>4, ClockAgrees
    <2>6. m > floor
      BY <1>5, <2>2
    <2>7. PICK k \in Nat : InRange(t, anchor, k) /\ d = DateAt(t, anchor, k)
      BY <1>5, <2>1, <2>3, OnlyDatesFallOn
    <2>8. n <= k
      BY <1>6, <2>5, <2>6, <2>7
    <2>9. date <= d
      <3>1. CASE n < k
        BY <3>1, <1>5, <1>7, <1>8, <2>3, <2>7, DatesAscend
      <3>2. CASE n = k
        BY <3>2, <1>7, <2>3, <2>7
      <3> QED
        BY <3>1, <3>2, <2>8
    <2>10. wall <= Combine(d, t.at)
      BY <1>2, <1>8, <1>9, <2>3, <2>9, WallsAscend
    <2>11. AsUtc(wall, z) <= m
      BY <1>10, <2>1, <2>4, <2>10, ClockAscends
    <2> QED
      BY <2>5, <2>11
  <1> QED
    BY <1>11, <1>15, <1>16

(* So does an interval trigger, at the next multiple of its length.        *)
LEMMA IntervalIsFirst ==
    ASSUME NEW t \in IntervalTriggers, NEW z \in Zones, NEW after \in 0..LastMoment
    PROVE  /\ IntervalFires(t, after) \in Later(t, after, z)
           /\ Later(t, after, z) \in SUBSET Int
           /\ \A m \in Later(t, after, z) : IntervalFires(t, after) <= m
  <1>1. /\ t.kind = "interval" /\ t.every \in Intervals /\ t.start \in Optional
        /\ t.every \in Nat \ {0} /\ after \in Nat
    <2>1. t.kind = "interval" /\ t.every \in Intervals /\ t.start \in Optional
      BY DEF IntervalTriggers
    <2>2. t.every \in Nat \ {0}
      BY <2>1, TriggersAssumption
    <2>3. after \in Nat
      BY TriggersAssumption
    <2> QED
      BY <2>1, <2>2, <2>3
  <1>2. CASE t.start = NoFiring
    <2>1. Series(t, after, z) = {after + t.every}
      BY <1>1, <1>2 DEF Series
    <2>2. IntervalFires(t, after) = after + t.every
      BY <1>2 DEF IntervalFires
    <2> QED
      BY <1>1, <2>1, <2>2 DEF Later
  <1>3. CASE t.start # NoFiring
    <2>1. t.start \in Bounds /\ t.start \in Nat
      BY <1>1, <1>3, TriggersAssumption DEF Optional
    <2>2. PICK last : last = Combine(LastDay, 0)
      OBVIOUS
    <2>3. last \in Int
      BY LastDayIs, TriggersAssumption, <2>2 DEF Combine
    <2>4. t.start + t.every <= last /\ after + t.every <= last
      BY <1>1, <2>1, <2>2, CalendarGoesOn
    <2>5. Series(t, after, z) = {m \in t.start..last : (m - t.start) % t.every = 0}
      BY <1>1, <1>3, <2>2 DEF Series
    <2>6. Later(t, after, z) \in SUBSET Int
      BY <2>1, <2>3, <2>5 DEF Later
    <2>7. CASE t.start > after
      <3>1. IntervalFires(t, after) = t.start
        BY <1>3, <2>7 DEF IntervalFires
      <3>2. 0 * t.every = 0 /\ t.start - t.start = 0
        BY <1>1, <2>1
      <3>3. 0 % t.every = 0
        BY <1>1
      <3>4. t.start \in Later(t, after, z)
        BY <1>1, <2>1, <2>3, <2>4, <2>5, <2>7, <3>2, <3>3 DEF Later
      <3>5. \A m \in Later(t, after, z) : t.start <= m
        BY <2>1, <2>3, <2>5 DEF Later
      <3> QED
        BY <2>6, <3>1, <3>4, <3>5
    <2>8. CASE ~ (t.start > after)
      <3>1. PICK q, x, fires : /\ q = (after - t.start) \div t.every
                               /\ x = q * t.every /\ fires = t.start + x + t.every
        OBVIOUS
      <3>2. after - t.start \in Nat
        BY <1>1, <2>1, <2>8
      <3>3. q \in Nat /\ x \in Nat /\ x <= after - t.start /\ after - t.start < x + t.every
        BY <1>1, <3>1, <3>2, Quotient
      <3>4. (q + 1) * t.every = x + t.every
        <4>1. q \in Int /\ t.every \in Nat
          BY <1>1, <3>3
        <4> QED
          BY <4>1, <3>1, NextMultiple
      <3>5. fires \in Int /\ fires > after /\ fires <= after + t.every /\ fires >= t.start
        BY <1>1, <2>1, <3>1, <3>3
      <3>6. IntervalFires(t, after) = fires
        <4>1. IntervalFires(t, after) = t.start + (q + 1) * t.every
          BY <1>3, <2>8, <3>1 DEF IntervalFires
        <4> QED
          BY <1>1, <2>1, <3>1, <3>3, <3>4, <4>1
      <3>7. (fires - t.start) % t.every = 0
        <4>1. fires - t.start = (q + 1) * t.every
          BY <1>1, <2>1, <3>1, <3>3, <3>4
        <4>2. q + 1 \in Int /\ t.every \in Nat \ {0}
          BY <1>1, <3>3
        <4>3. ((q + 1) * t.every) % t.every = 0
          BY <4>2, Multiple
        <4> QED
          BY <4>1, <4>3
      <3>8. fires \in Later(t, after, z)
        BY <1>1, <2>1, <2>3, <2>4, <2>5, <3>5, <3>7 DEF Later
      <3>9. ASSUME NEW m \in Later(t, after, z) PROVE fires <= m
        <4>1. m \in Int /\ m >= t.start /\ m > after /\ (m - t.start) % t.every = 0
          BY <2>1, <2>3, <2>5 DEF Later
        <4>2. PICK y, k : y = m - t.start /\ k = y \div t.every
          OBVIOUS
        <4>3. y \in Nat /\ y % t.every = 0
          BY <2>1, <4>1, <4>2
        <4>4. k \in Nat /\ y = k * t.every
          BY <1>1, <4>2, <4>3, ExactDivision
        <4>5. q < k
          <5>1. ASSUME k <= q PROVE FALSE
            <6>1. CASE k = q
              BY <6>1, <1>1, <2>1, <3>1, <3>3, <4>1, <4>2, <4>4
            <6>2. CASE k < q
              <7>1. y + t.every <= x
                BY <6>2, <1>1, <3>1, <3>3, <4>4, Multiples
              <7> QED
                BY <7>1, <1>1, <2>1, <3>3, <4>1, <4>2, <4>3
            <6> QED
              BY <5>1, <6>1, <6>2, <3>3, <4>4
          <5> QED
            BY <5>1, <3>3, <4>4
        <4>6. x + t.every <= y
          BY <1>1, <3>1, <3>3, <4>4, <4>5, Multiples
        <4> QED
          BY <1>1, <2>1, <3>1, <3>3, <4>1, <4>2, <4>3, <4>6
      <3> QED
        BY <2>6, <3>6, <3>8, <3>9
    <2> QED
      BY <2>7, <2>8
  <1> QED
    BY <1>2, <1>3

LEMMA BoundType == \A m \in Bounds : m \in Int
  BY TriggersAssumption

(* The next firing is the first moment of the series that is later, for    *)
(* every trigger, zone and question.                                       *)
LEMMA NextIsFirst ==
    ASSUME TriggersTypeOK
    PROVE  FirstOfSeries
  <1> SUFFICES ASSUME ~ InShift(trigger, tz) PROVE FirstOfSeries
    BY DEF FirstOfSeries
  <1>1. tz \in Zones /\ moment \in 0..LastMoment
    BY DEF TriggersTypeOK
  <1>2. PICK later, fires, first : /\ later = {m \in Series(trigger, moment, tz) : m > moment}
                                   /\ fires = NextFireTime(trigger, moment, tz)
                                   /\ first = Min(later)
    OBVIOUS
  <1>3. ASSUME fires = IF later = {} THEN NoFiring
                       ELSE IF trigger.kind # "date" /\ trigger.end # NoFiring
                                  /\ first > trigger.end
                       THEN NoFiring ELSE first
        PROVE  FirstOfSeries
    BY <1>2, <1>3 DEF FirstOfSeries
  <1>4. CASE trigger \in DateTriggers
    <2>1. trigger.kind = "date" /\ trigger.run_at \in Bounds /\ trigger.run_at \in Int
      <3>1. trigger.kind = "date" /\ trigger.run_at \in Bounds
        BY <1>4 DEF DateTriggers
      <3> QED
        BY <3>1, BoundType
    <2>2. Series(trigger, moment, tz) = {trigger.run_at}
      BY <2>1 DEF Series
    <2>3. fires = IF trigger.run_at > moment THEN trigger.run_at ELSE NoFiring
      BY <1>2, <2>1 DEF NextFireTime
    <2>4. CASE trigger.run_at > moment
      <3>1. later = {trigger.run_at}
        BY <1>2, <2>2, <2>4
      <3>2. first = trigger.run_at
        BY <1>2, <2>1, <3>1, MinIs
      <3> QED
        BY <1>3, <2>1, <2>3, <2>4, <3>1, <3>2
    <2>5. CASE ~ (trigger.run_at > moment)
      <3>1. later = {}
        BY <1>2, <2>2, <2>5
      <3> QED
        BY <1>3, <2>3, <2>5, <3>1
    <2> QED
      BY <2>4, <2>5
  <1>5. CASE trigger \in IntervalTriggers
    <2>1. PICK found : found = IntervalFires(trigger, moment)
      OBVIOUS
    <2>2. trigger.kind = "interval"
      BY <1>5 DEF IntervalTriggers
    <2>3. found \in later /\ later \in SUBSET Int /\ \A m \in later : found <= m
      BY <1>1, <1>2, <1>5, <2>1, IntervalIsFirst DEF Later
    <2>4. first = found
      BY <1>2, <2>3, MinIs
    <2>5. fires = IF trigger.end # NoFiring /\ found > trigger.end THEN NoFiring ELSE found
      BY <1>2, <2>1, <2>2 DEF NextFireTime
    <2> QED
      BY <1>3, <2>2, <2>3, <2>4, <2>5
  <1>6. CASE trigger \in CalendarTriggers
    <2>1. PICK found : found = CalendarFires(trigger, moment, tz)
      OBVIOUS
    <2>2. trigger.kind = "calendar"
      BY <1>6, CalendarType
    <2>3. found \in later /\ later \in SUBSET Int /\ \A m \in later : found <= m
      BY <1>1, <1>2, <1>6, <2>1, CalendarIsFirst DEF Later
    <2>4. first = found
      BY <1>2, <2>3, MinIs
    <2>5. fires = IF trigger.end # NoFiring /\ found > trigger.end THEN NoFiring ELSE found
      BY <1>2, <2>1, <2>2 DEF NextFireTime
    <2> QED
      BY <1>3, <2>2, <2>3, <2>4, <2>5
  <1> QED
    BY <1>4, <1>5, <1>6 DEF TriggersTypeOK

(* An answer is a number, also where the clock shifts.                     *)
LEMMA FiresType ==
    ASSUME TriggersTypeOK
    PROVE  NextFireTime(trigger, moment, tz) \in Int
  <1>1. tz \in Zones /\ moment \in 0..LastMoment
    BY DEF TriggersTypeOK
  <1>2. CASE trigger \in DateTriggers
    <2>1. trigger.kind = "date" /\ trigger.run_at \in Bounds
      BY <1>2 DEF DateTriggers
    <2>2. trigger.run_at \in Int
      BY <2>1, BoundType
    <2> QED
      BY <2>1, <2>2 DEF NextFireTime, NoFiring
  <1>3. CASE trigger \in IntervalTriggers
    <2>1. IntervalFires(trigger, moment) \in Int /\ trigger.kind = "interval"
      BY <1>1, <1>3, IntervalIsFirst DEF IntervalTriggers
    <2> QED
      BY <2>1 DEF NextFireTime, NoFiring
  <1>4. CASE trigger \in CalendarTriggers
    <2>1. PICK wall \in Nat : CalendarFires(trigger, moment, tz) = AsUtc(wall, tz)
      <3>1. PICK anchorAt : anchorAt = (IF trigger.start = NoFiring THEN moment
                                        ELSE trigger.start)
        OBVIOUS
      <3>2. PICK floor : floor = Max({moment, anchorAt})
        OBVIOUS
      <3>3. PICK anchor, local : /\ anchor = DateOf(ToLocal(anchorAt, tz))
                                 /\ local = ToLocal(floor, tz)
        OBVIOUS
      <3>4. \E n \in Nat :
               /\ CalendarFires(trigger, moment, tz)
                     = AsUtc(Combine(DateAt(trigger, anchor, n), trigger.at), tz)
               /\ Combine(DateAt(trigger, anchor, n), trigger.at) \in Nat
        BY <1>1, <1>4, <3>1, <3>2, <3>3, CalendarFinds
      <3> QED
        BY <3>4
    <2>2. AsUtc(wall, tz) \in Int
      BY <1>1, ZoneType DEF AsUtc
    <2> QED
      BY <1>4, <2>1, <2>2, CalendarType DEF NextFireTime, NoFiring
  <1> QED
    BY <1>2, <1>3, <1>4 DEF TriggersTypeOK

THEOREM TriggersTyping == TriggersSpec => []TriggersTypeOK
  <1>1. TriggersInit => TriggersTypeOK
    BY DEF TriggersInit, TriggersTypeOK
  <1>2. TriggersTypeOK /\ [Claim]_triggerVars => TriggersTypeOK'
    <2>1. ASSUME TriggersTypeOK, Claim PROVE TriggersTypeOK'
      <3>1. PICK fires : fires = NextFireTime(trigger, moment, tz)
        OBVIOUS
      <3>2. fires \in Int
        BY <2>1, <3>1, FiresType DEF Claim
      <3>3. PICK late \in 0..1 : moment' = Max({moment, fires + late})
        BY <2>1, <3>1 DEF Claim
      <3>4. moment \in 0..LastMoment /\ LastMoment \in Nat /\ fires + late \in Int
        BY <2>1, <3>2, TriggersAssumption DEF TriggersTypeOK
      <3>5. moment' = (IF moment <= fires + late THEN fires + late ELSE moment)
        BY <3>3, <3>4, MaxOfTwo
      <3>6. moment' \in 0..LastMoment
        BY <2>1, <3>4, <3>5 DEF Claim
      <3> QED
        BY <2>1, <3>6 DEF Claim, TriggersTypeOK
    <2> QED
      BY <2>1 DEF TriggersTypeOK, triggerVars
  <1> QED
    BY <1>1, <1>2, PTL DEF TriggersSpec

THEOREM FiresAtTheFirst == TriggersSpec => []FirstOfSeries
  <1> QED
    BY TriggersTyping, NextIsFirst, PTL
-----------------------------------------------------------------------------
(* SchedulerLoop.                                                          *)
USE DEF Times, Never, Slots

(* The loop wakes at a time of the clock.                                   *)
LEMMA WakeAtIsTime ==
    ASSUME NEW due \in Times \cup {Never}, now \in Times
    PROVE  WakeAt(due) \in Times
  BY ConstantsAssumption DEF WakeAt, Capped

(* A claim moves some tasks on and leaves the others where they are.        *)
LEMMA ClaimsMoveOn ==
    ASSUME next \in [Tasks -> Times \cup {Never}], NEW at \in Times, Claims(at)
    PROVE  /\ next' \in [Tasks -> Times \cup {Never}]
           /\ \A t \in Tasks : next[t] <= next'[t]
  <1>1. PICK claimed \in SUBSET {t \in Tasks : next[t] <= at} :
          \E following \in [claimed -> (at + 1) .. Never] :
              next' = [t \in Tasks |-> IF t \in claimed THEN following[t] ELSE next[t]]
    BY DEF Claims
  <1>2. PICK following \in [claimed -> (at + 1) .. Never] :
          next' = [t \in Tasks |-> IF t \in claimed THEN following[t] ELSE next[t]]
    BY <1>1
  <1>3. ASSUME NEW t \in Tasks
        PROVE  next'[t] \in Times \cup {Never} /\ next[t] <= next'[t]
    <2>1. CASE t \in claimed
      <3>1. following[t] \in (at + 1) .. Never /\ next[t] <= at
        BY <2>1
      <3>2. next'[t] = following[t]
        BY <1>2, <2>1
      <3> QED BY <3>1, <3>2, ConstantsAssumption
    <2>2. CASE t \notin claimed
      BY <1>2, <2>2, ConstantsAssumption
    <2> QED BY <2>1, <2>2
  <1> QED BY <1>2, <1>3

LEMMA TimesAreThere == 0 \in Times /\ Never \in Nat
  BY ConstantsAssumption

(* That notices stays within its bound takes that each edit sends one.      *)
TypeInv == TypeOK /\ notices <= edits

LEMMA TypeInvariance == Spec => []TypeInv
<1>1. Init => TypeInv
  <2> SUFFICES ASSUME Init PROVE TypeInv
    OBVIOUS
  <2>1. loop \in [phase : LoopPhases, due : Times \cup {Never}, since : Times, until : Times]
    BY TimesAreThere DEF Init, At, LoopPhases
  <2>2. ticks \in [Slots -> [phase : TickPhases, moment : Times]]
    BY TimesAreThere DEF Init, Idle, TickPhases
  <2>3. edits \in 0 .. MaxEdits /\ notices \in 0 .. MaxEdits /\ notices <= edits
    BY ConstantsAssumption DEF Init
  <2> QED BY <2>1, <2>2, <2>3, TimesAreThere DEF Init, TypeInv, TypeOK
<1>2. TypeInv /\ [Next]_vars => TypeInv'
  <2> SUFFICES ASSUME TypeInv, [Next]_vars PROVE TypeInv'
    OBVIOUS
  <2> USE ConstantsAssumption, TimesAreThere DEF TypeInv, TypeOK
  <2>0. CASE UNCHANGED vars
    BY <2>0 DEF vars
  <2>1. CASE Begin
    <3>1. PICK k \in Slots : ticks' = [ticks EXCEPT ![k].phase = "spawned"]
      BY <2>1 DEF Begin
    <3>2. ticks' \in [Slots -> [phase : TickPhases, moment : Times]]
      BY <3>1 DEF TickPhases
    <3>3. loop' = At("asking")
      BY <2>1 DEF Begin, LoopGoes
    <3>4. loop' \in [phase : LoopPhases, due : Times \cup {Never}, since : Times, until : Times]
      BY <3>3 DEF At, LoopPhases
    <3> QED BY <2>1, <3>2, <3>4 DEF Begin, channel
  <2>2. CASE Stop \/ AskFails \/ Rouse \/ Drain
    BY <2>2 DEF Stop, AskFails, Rouse, Drain, LoopGoes, At, LoopPhases, channel
  <2>3. CASE Ask
    BY <2>3 DEF Ask, At, LoopPhases
  <2>4. CASE Sleep
    BY <2>4, WakeAtIsTime DEF Sleep, Asleep, At, LoopPhases, channel
  <2>5. ASSUME NEW k \in Slots, TickStart(k) \/ TickFails(k) \/ TickEnd(k) PROVE TypeInv'
    <3>1. PICK tick \in [phase : TickPhases, moment : Times] : ticks' = [ticks EXCEPT ![k] = tick]
      BY <2>5 DEF TickStart, TickFails, TickEnd, Idle, TickPhases
    <3>2. ticks' \in [Slots -> [phase : TickPhases, moment : Times]]
      BY <3>1
    <3>3. UNCHANGED <<now, next, loop, wake, stop, channel>>
      <4>1. CASE TickStart(k)
        BY <4>1 DEF TickStart
      <4>2. CASE TickFails(k)
        BY <4>2 DEF TickFails
      <4>3. CASE TickEnd(k)
        BY <4>3 DEF TickEnd
      <4> QED BY <2>5, <4>1, <4>2, <4>3
    <3> QED BY <3>2, <3>3 DEF channel
  <2>6. ASSUME NEW k \in Slots, TickClaim(k) PROVE TypeInv'
    <3>1. next' \in [Tasks -> Times \cup {Never}]
      BY <2>6, ClaimsMoveOn DEF TickClaim
    <3>2. ticks' \in [Slots -> [phase : TickPhases, moment : Times]]
      BY <2>6 DEF TickClaim, Idle, TickPhases
    <3> QED BY <2>6, <3>1, <3>2 DEF TickClaim, channel
  <2>7. CASE ElsewhereClaimed
    BY <2>7, ClaimsMoveOn DEF ElsewhereClaimed, channel
  <2>8. ASSUME NEW t \in Tasks, Edit(t) PROVE TypeInv'
    <3>1. PICK following \in Times \cup {Never} : next' = [next EXCEPT ![t] = following]
      BY <2>8 DEF Edit
    <3>2. next' \in [Tasks -> Times \cup {Never}]
      BY <3>1
    <3>3. /\ edits < MaxEdits /\ edits' = edits + 1
          /\ notices' = notices + 1 \/ notices' = notices
      BY <2>8 DEF Edit
    <3>4. edits' \in 0 .. MaxEdits /\ notices' \in 0 .. MaxEdits /\ notices' <= edits'
      BY <3>3
    <3>5. missed' \in BOOLEAN
      BY <2>8 DEF Edit
    <3> QED BY <2>8, <3>2, <3>4, <3>5 DEF Edit
  <2>9. CASE Hear \/ LoseListener \/ Resubscribe \/ RequestStop \/ ClockTick
    <3>1. CASE Hear
      BY <3>1 DEF Hear
    <3>2. CASE LoseListener
      <4>1. missed' \in BOOLEAN
        BY <3>2 DEF LoseListener
      <4>2. notices' \in 0 .. MaxEdits /\ notices' <= edits /\ edits' = edits
        BY <3>2 DEF LoseListener
      <4> QED BY <3>2, <4>1, <4>2 DEF LoseListener
    <3>3. CASE Resubscribe
      BY <3>3 DEF Resubscribe
    <3>4. CASE RequestStop
      BY <3>4 DEF RequestStop, channel
    <3>5. CASE ClockTick
      BY <3>5 DEF ClockTick, channel
    <3> QED BY <2>9, <3>1, <3>2, <3>3, <3>4, <3>5
  <2>10. CASE CutShort
    BY <2>10 DEF CutShort, At, Idle, LoopPhases, TickPhases, channel
  <2>11. CASE Next
    BY <2>11, <2>1, <2>2, <2>3, <2>4, <2>5, <2>6, <2>7, <2>8, <2>9, <2>10
    DEF Next, LoopStep, TickStep
  <2> QED BY <2>0, <2>11
<1> QED BY <1>1, <1>2, PTL DEF Spec

(* Every variable keeps its type.                                           *)
THEOREM Typing == Spec => []TypeOK
<1>1. TypeInv => TypeOK
  BY DEF TypeInv
<1> QED BY <1>1, TypeInvariance, PTL

-----------------------------------------------------------------------------
(***************************************************************************)
(* What the loop knows when it is about to wait: if nothing is on its way  *)
(* and nothing was missed, no task has become due sooner than what it was  *)
(* told. Claims, here or elsewhere, only move tasks on; an edit leaves a   *)
(* notice, or a mark that it was missed.                                   *)
(***************************************************************************)
Told == ~wake /\ notices = 0 /\ ~missed

AnswerStands ==
    loop.phase = "answered" /\ Told => \A t \in Tasks : loop.due <= next[t]

SleepInv == AnswerStands /\ NoOversleep

(* A wait that begins now ends by the due time, if that has not passed.     *)
LEMMA WakeAtDue ==
    ASSUME NEW due \in Times \cup {Never}, now \in Times
    PROVE  WakeAt(due) <= due \/ WakeAt(due) <= now
  BY ConstantsAssumption DEF WakeAt, Capped

(* The loop where it is, tasks no sooner, and no more told than before.     *)
LEMMA NoSooner ==
    ASSUME TypeOK, SleepInv, TypeOK', loop' = loop, Told' => Told,
           Told' => \A t \in Tasks : next[t] <= next'[t]
    PROVE  SleepInv'
<1>1. \A t \in Tasks : next[t] \in Nat /\ next'[t] \in Nat
  BY ConstantsAssumption DEF TypeOK
<1>2. loop.due \in Nat /\ loop.until \in Nat /\ loop.since \in Nat
  BY ConstantsAssumption DEF TypeOK
<1>3. AnswerStands'
  BY <1>1, <1>2 DEF SleepInv, AnswerStands
<1>4. NoOversleep'
  BY <1>1, <1>2 DEF SleepInv, NoOversleep, Told
<1> QED BY <1>3, <1>4 DEF SleepInv

(* The loop never sleeps past a due time it could know of.                  *)
THEOREM NeverOversleeps == Spec => []NoOversleep
<1>1. Init => SleepInv
  BY DEF Init, SleepInv, AnswerStands, NoOversleep, At
<1>2. TypeOK /\ TypeOK' /\ SleepInv /\ [Next]_vars => SleepInv'
  <2> SUFFICES ASSUME TypeOK, TypeOK', SleepInv, [Next]_vars PROVE SleepInv'
    OBVIOUS
  <2>0. CASE UNCHANGED vars
    BY <2>0 DEF vars, SleepInv, AnswerStands, NoOversleep, Told
  <2>1. \A t \in Tasks : next[t] <= next[t]
    <3>1. \A t \in Tasks : next[t] \in Nat
      BY ConstantsAssumption DEF TypeOK
    <3> QED BY <3>1
  <2>2. ASSUME loop' \in {At(phase) : phase \in LoopPhases \ {"answered", "sleeping"}}
        PROVE  SleepInv'
    BY <2>2 DEF At, SleepInv, AnswerStands, NoOversleep
  <2>3. CASE Begin \/ Stop \/ AskFails \/ Rouse \/ Drain \/ CutShort
    <3>1. loop' \in {At(phase) : phase \in LoopPhases \ {"answered", "sleeping"}}
      BY <2>3 DEF Begin, Stop, AskFails, Rouse, Drain, CutShort, LoopGoes, LoopPhases
    <3> QED BY <3>1, <2>2
  <2>4. CASE Ask
    <3>1. PICK due \in Times \cup {Never} :
            Soonest(due) /\ loop' = [At("answered") EXCEPT !.due = due]
      BY <2>4 DEF Ask
    <3>2. loop'.phase = "answered" /\ loop'.due = due /\ next' = next
      BY <3>1, <2>4 DEF Ask, At
    <3> QED BY <3>1, <3>2 DEF SleepInv, AnswerStands, NoOversleep, Soonest
  <2>5. CASE Sleep
    <3>1. CASE wake
      BY <3>1, <2>5 DEF Sleep, At, SleepInv, AnswerStands, NoOversleep
    <3>2. CASE ~wake
      <4>1. loop' = Asleep /\ loop.phase = "answered" /\ next' = next /\ UNCHANGED <<wake, channel>>
        BY <3>2, <2>5 DEF Sleep
      <4>2. /\ loop'.phase = "sleeping" /\ loop'.until = WakeAt(loop.due) /\ loop'.since = now
        BY <4>1 DEF Asleep
      <4>3. ASSUME Told', NEW t \in Tasks
            PROVE  loop'.until <= next'[t] \/ loop'.until <= loop'.since
        <5>1. loop.due <= next[t]
          BY <4>1, <4>3 DEF SleepInv, AnswerStands, Told, channel
        <5>2. WakeAt(loop.due) <= loop.due \/ WakeAt(loop.due) <= now
          BY WakeAtDue DEF TypeOK
        <5>3. WakeAt(loop.due) \in Times /\ loop.due \in Times \cup {Never}
          BY WakeAtIsTime DEF TypeOK
        <5>4. next[t] \in Times \cup {Never}
          BY DEF TypeOK
        <5>5. WakeAt(loop.due) \in Nat /\ loop.due \in Nat /\ next[t] \in Nat
          BY <5>3, <5>4, TimesAreThere, ConstantsAssumption
        <5> QED BY <5>1, <5>2, <5>5, <4>1, <4>2
      <4> QED BY <4>2, <4>3 DEF SleepInv, AnswerStands, NoOversleep, Told
    <3> QED BY <3>1, <3>2
  <2>6. ASSUME NEW k \in Slots, TickStart(k) \/ TickFails(k) \/ TickEnd(k) PROVE SleepInv'
    <3>1. UNCHANGED <<next, loop, wake, channel>>
      BY <2>6 DEF TickStart, TickFails, TickEnd
    <3> QED BY <3>1, <2>1, NoSooner DEF Told, channel
  <2>7. ASSUME NEW k \in Slots, TickClaim(k) PROVE SleepInv'
    <3>1. \A t \in Tasks : next[t] <= next'[t]
      BY <2>7, ClaimsMoveOn DEF TickClaim, TypeOK
    <3> QED BY <2>7, <3>1, NoSooner DEF TickClaim, Told, channel
  <2>8. CASE ElsewhereClaimed
    <3>1. \A t \in Tasks : next[t] <= next'[t]
      BY <2>8, ClaimsMoveOn DEF ElsewhereClaimed, TypeOK
    <3> QED BY <2>8, <3>1, NoSooner DEF ElsewhereClaimed, Told, channel
  <2>9. ASSUME NEW t \in Tasks, Edit(t) PROVE SleepInv'
    <3>1. ~Told'
      BY <2>9 DEF Edit, Told, TypeOK
    <3> QED BY <3>1, <2>9, NoSooner DEF Edit
  <2>10. CASE Hear
    BY <2>10, NoSooner DEF Hear, Told
  <2>11. CASE LoseListener
    <3>1. notices \in Nat
      BY ConstantsAssumption DEF TypeOK
    <3>2. Told' => ~wake /\ ~missed /\ ~(notices > 0)
      BY <2>11 DEF LoseListener, Told
    <3>3. Told' => Told
      BY <3>1, <3>2 DEF Told
    <3> QED BY <3>3, <2>1, <2>11, NoSooner DEF LoseListener
  <2>12. CASE RequestStop
    BY <2>12, NoSooner DEF RequestStop, Told
  <2>13. CASE Resubscribe \/ ClockTick
    BY <2>13, <2>1, NoSooner DEF Resubscribe, ClockTick, Told, channel
  <2>14. CASE Next
    BY <2>14, <2>3, <2>4, <2>5, <2>6, <2>7, <2>8, <2>9, <2>10, <2>11, <2>12, <2>13
    DEF Next, LoopStep, TickStep
  <2> QED BY <2>0, <2>14
<1>3. SleepInv => NoOversleep
  BY DEF SleepInv
<1> QED BY <1>1, <1>2, <1>3, Typing, PTL DEF Spec

(* A loop that ended by itself left no tick behind.                         *)
THEOREM EndsDrained == Spec => []EndedIsDrained
<1>1. Init => EndedIsDrained
  BY DEF Init, EndedIsDrained, At
<1>2. TypeOK /\ EndedIsDrained /\ [Next]_vars => EndedIsDrained'
  <2> SUFFICES ASSUME TypeOK, EndedIsDrained, [Next]_vars, loop'.phase = "ended"
               PROVE  \A k \in Slots : ticks'[k].phase = "off"
    BY DEF EndedIsDrained
  <2>1. CASE Drain
    BY <2>1 DEF Drain
  <2>2. CASE UNCHANGED <<loop, ticks>>
    BY <2>2 DEF EndedIsDrained
  <2>3. CASE Begin \/ Stop \/ AskFails \/ Rouse \/ CutShort \/ Ask \/ Sleep
    BY <2>3 DEF Begin, Stop, AskFails, Rouse, CutShort, Ask, Sleep, Asleep, LoopGoes, At
  <2>4. ASSUME NEW k \in Slots, TickStep(k) \/ TickFails(k)
        PROVE  \A j \in Slots : ticks'[j].phase = "off"
    <3>1. loop' = loop /\ ticks[k].phase # "off"
      BY <2>4 DEF TickStep, TickStart, TickClaim, TickEnd, TickFails
    <3> QED BY <3>1 DEF EndedIsDrained
  <2> QED
    BY <2>1, <2>2, <2>3, <2>4
    DEF Next, LoopStep, vars, Edit, ElsewhereClaimed, Hear, LoseListener, Resubscribe,
        RequestStop, ClockTick
<1> QED BY <1>1, <1>2, Typing, PTL DEF Spec
===============================================================================
