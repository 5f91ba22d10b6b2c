--------------------------- MODULE ScheduleProofs ---------------------------
(***************************************************************************)
(* Theorems about Schedule, for every hour on the clock and every zone.    *)
(***************************************************************************)
EXTENDS Schedule, TLAPS

ClockOK == now \in Nat /\ offset \in -12..14

LEMMA ClockType == Spec => []ClockOK
<1>1. Init => ClockOK
  BY ScheduleAssumption DEF Init, ClockOK
<1>2. ClockOK /\ [Tick]_vars => ClockOK'
  BY DEF ClockOK, Tick, vars
<1> QED
  BY <1>1, <1>2, PTL DEF Spec

\* The date of Truncate is today's, or yesterday's before midnight in UTC has struck.
LEMMA TruncateShiftsDate ==
  ASSUME ClockOK
  PROVE  /\ LocalDate(now) \in Int
         /\ LocalDate(TruncateDay(now)) \in {LocalDate(now) - 1, LocalDate(now)}
         /\ TruncatedToday => LocalDate(TruncateDay(now)) = LocalDate(now)
<1>1. offset % 24 = IF offset < 0 THEN offset + 24 ELSE offset
  BY SMTT(30) DEF ClockOK
<1> QED
  BY <1>1, SMTT(60) DEF ClockOK, LocalDate, TruncateDay, TruncatedToday

\* From any day, the weekday asked for comes after as many days as it is ahead.
LEMMA WeekdayAhead ==
  ASSUME NEW today \in Int, NEW w \in Weekdays
  PROVE  LET ahead == (w - WeekdayOf(today)) % 7
         IN  /\ ahead \in 0..6 /\ WeekdayOf(today + ahead) = w
             /\ \A d \in today..(today + ahead - 1) : WeekdayOf(d) # w
BY SMTT(30) DEF WeekdayOf, Weekdays

\* NextWeekday does what its comment says, or answers yesterday when Truncate does.
THEOREM NextWeekdayAnywhere == Spec => []NextWeekdayOrYesterday
<1>1. ASSUME ClockOK
      PROVE  NextWeekdayOrYesterday
  <2> SUFFICES ASSUME NEW w \in Weekdays
               PROVE  LET today == LocalDate(now)
                          due   == NextWeekday(now, w)
                      IN  /\ due >= today - 1 /\ WeekdayOf(due) = w
                          /\ TruncatedToday => due >= today
                          /\ \A d \in today..(due - 1) : WeekdayOf(d) # w
    BY DEF NextWeekdayOrYesterday
  <2> DEFINE today == LocalDate(now)
             from  == LocalDate(TruncateDay(now))
             ahead == (w - WeekdayOf(from)) % 7
  <2>1. /\ today \in Int /\ from \in {today - 1, today} /\ NextWeekday(now, w) = from + ahead
        /\ TruncatedToday => from = today
    BY <1>1, TruncateShiftsDate DEF NextWeekday
  <2>2. /\ ahead \in 0..6 /\ WeekdayOf(from + ahead) = w
        /\ \A d \in from..(from + ahead - 1) : WeekdayOf(d) # w
    BY <2>1, WeekdayAhead
  <2> HIDE DEF today, from, ahead
  <2>3. /\ from + ahead >= today - 1
        /\ TruncatedToday => from + ahead >= today
        /\ today..(from + ahead - 1) \subseteq from..(from + ahead - 1)
    BY <2>1, <2>2
  <2> QED
    BY <2>1, <2>2, <2>3 DEF today
<1> QED
  BY <1>1, ClockType, PTL

\* On every host an issue is due after it starts, when its story points decide, and
\* a day before it at worst, when the sprint does.
THEOREM DueOnEveryHost == Spec => []DueInEveryZone
<1>1. ASSUME ClockOK
      PROVE  DueInEveryZone
  <2> SUFFICES ASSUME NEW w \in Weekdays, NEW a \in Answers
               PROVE  /\ Fields("story_points", w, a, now).due > LocalDate(now)
                      /\ Fields("sprint_end", w, a, now).due >= LocalDate(now) - 1
                      /\ TruncatedToday =>
                           Fields("sprint_end", w, a, now).due >= LocalDate(now)
    BY DEF DueInEveryZone, Fields
  <2>1. /\ LocalDate(now) \in Int
        /\ LocalDate(TruncateDay(now)) \in {LocalDate(now) - 1, LocalDate(now)}
        /\ TruncatedToday => LocalDate(TruncateDay(now)) = LocalDate(now)
    BY <1>1, TruncateShiftsDate
  <2>2. Fields("story_points", w, a, now).due > LocalDate(now)
    <3>1. StoryPoints("story_points", a) \in Int
      BY DEF StoryPoints, Answers
    <3>2. WholeDays(StoryPoints("story_points", a)) \in Int
      BY <3>1 DEF WholeDays
    <3>3. /\ Larger(WholeDays(StoryPoints("story_points", a)), 1) \in Int
          /\ Larger(WholeDays(StoryPoints("story_points", a)), 1) > 0
      BY <3>2 DEF Larger
    <3> QED
      BY <2>1, <3>3 DEF Fields, CalculateDueDate
  <2>3. /\ Fields("sprint_end", w, a, now).due >= LocalDate(now) - 1
        /\ TruncatedToday => Fields("sprint_end", w, a, now).due >= LocalDate(now)
    <3>1. (w - WeekdayOf(LocalDate(TruncateDay(now)))) % 7 \in 0..6
      BY <2>1, WeekdayAhead
    <3> QED
      BY <2>1, <3>1 DEF Fields, CalculateDueDate, NextWeekday
  <2> QED
    BY <2>2, <2>3
<1> QED
  BY <1>1, ClockType, PTL

-----------------------------------------------------------------------------
\* The powers of two that matter: up to the cap, from there to the clamp, and none of
\* them overflows.
LEMMA SmallPowers ==
  2^0 = 1 /\ 2^1 = 2 /\ 2^2 = 4 /\ 2^3 = 8 /\ 2^4 = 16 /\ 2^5 = 32
BY SMT

LEMMA LargePowers ==
  ASSUME NEW a \in 6..MaxExp
  PROVE  2^a > 60
<1>1. /\ 2^6 > 60 /\ 2^7 > 60 /\ 2^8 > 60 /\ 2^9 > 60 /\ 2^10 > 60
      /\ 2^11 > 60 /\ 2^12 > 60 /\ 2^13 > 60 /\ 2^14 > 60 /\ 2^15 > 60
      /\ 2^16 > 60 /\ 2^17 > 60 /\ 2^18 > 60 /\ 2^19 > 60 /\ 2^20 > 60
  BY SMT
<1>2. \/ a = 6 \/ a = 7 \/ a = 8 \/ a = 9 \/ a = 10 \/ a = 11 \/ a = 12 \/ a = 13
      \/ a = 14 \/ a = 15 \/ a = 16 \/ a = 17 \/ a = 18 \/ a = 19 \/ a = 20
  BY DEF MaxExp
<1> QED
  BY <1>1, <1>2, Zenon

\* The delay for any number of attempts: the clamp of the exponent is reached long
\* before the product overflows, and long after the cap.
LEMMA DelayOfAttempts ==
  ASSUME NEW a \in Nat
  PROVE  /\ nextBackoff(a) = IF a <= 5 THEN 2^a ELSE MaxBackoff
         /\ nextBackoff(a) \in 1..MaxBackoff
<1>1. CASE a > MaxExp
  BY <1>1 DEF nextBackoff, MaxExp, MaxBackoff
<1>2. CASE a \in 6..MaxExp
  <2>1. a <= LastExp
    BY <1>2 DEF LastExp, MaxExp
  <2>2. Product(a) > MaxBackoff
    BY <1>2, <2>1, LargePowers, Zenon DEF Product, MaxBackoff
  <2> QED
    BY <1>2, <2>2 DEF nextBackoff, MaxBackoff
<1>3. CASE a <= 5
  <2>1. a = 0 \/ a = 1 \/ a = 2 \/ a = 3 \/ a = 4 \/ a = 5
    BY <1>3
  <2>2. a <= LastExp
    BY <1>3 DEF LastExp
  <2>3. Product(a) = 2^a
    BY <2>2, Zenon DEF Product
  <2>4. 2^a \in {1, 2, 4, 8, 16, 32}
    BY <2>1, SmallPowers, Zenon
  <2> QED
    BY <1>3, <2>3, <2>4 DEF nextBackoff, MaxExp, MaxBackoff
<1> QED
  BY <1>1, <1>2, <1>3 DEF MaxExp

\* A retry is in the future and within half an hour, whenever and after however many
\* attempts it is scheduled.
THEOREM RetriesAreCapped == Spec => []DelayIsCapped
<1>1. ASSUME ClockOK
      PROVE  DelayIsCapped
  <2> SUFFICES ASSUME NEW a \in 0..100
               PROVE  RetryAt(a, now) - now * 120 = IF a <= 5 THEN 2^a ELSE MaxBackoff
    BY DEF DelayIsCapped
  <2>1. nextBackoff(a) = (IF a <= 5 THEN 2^a ELSE MaxBackoff) /\ nextBackoff(a) \in Int
    BY DelayOfAttempts
  <2>2. RetryAt(a, now) - now * 120 = nextBackoff(a)
    BY <1>1, <2>1 DEF RetryAt, ClockOK
  <2> QED
    BY <2>1, <2>2
<1> QED
  BY <1>1, ClockType, PTL
=============================================================================
