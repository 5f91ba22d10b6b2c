------------------------------ MODULE Schedule ------------------------------
(***************************************************************************)
(* What the program computes from a clock: the delay before a retry         *)
(* (nextBackoff) and the dates of an in_progress transition                 *)
(* (internal/workflow/duedate.go, executeInProgressTransition).             *)
(*                                                                         *)
(* now counts hours since a midnight in UTC that began a Sunday; a date is  *)
(* a number of days since that Sunday, in the time zone of the host, which  *)
(* is offset hours ahead of UTC.                                            *)
(***************************************************************************)
EXTENDS Integers

CONSTANTS Offsets,       \* the time zones the host may be in
          MaxHours       \* how long the clock runs

ASSUME ScheduleAssumption ==
  /\ Offsets \subseteq -12..14
  /\ MaxHours \in Nat

VARIABLES now, offset
vars == <<now, offset>>

Weekdays == 0..6          \* Sunday is 0
Strategies == {"sprint_end", "story_points"}
NoDate == "error"         \* CalculateDueDate returns an error

\* Story points are counted in halves.  GetStoryPoints answers {p}, or {} for an
\* error; an issue without points has one.
Answers == {{}} \cup {{p} : p \in -4..20}

LocalDate(t) == (t + offset) \div 24
WeekdayOf(d) == d % 7
Larger(a, b) == IF a >= b THEN a ELSE b

-----------------------------------------------------------------------------
\* time.Truncate(24 * time.Hour) rounds down to a midnight in UTC, whatever the
\* time zone; the weekday and the date are then those of the host.
TruncateDay(t) == t - (t % 24)

\* Faulty: never today.
NextWeekdayAfter(from, weekday) ==
  LET today == LocalDate(TruncateDay(from))
  IN  today + 1 + ((weekday - WeekdayOf(today + 1)) % 7)

NextWeekday(from, weekday) ==
  LET today == LocalDate(TruncateDay(from))
  IN  today + ((weekday - WeekdayOf(today)) % 7)

\* int(storyPoints) rounds towards zero, and fewer than one day is one.
WholeDays(points) == IF points < 0 THEN -((-points) \div 2) ELSE points \div 2

\* Faulty: fewer than one day is not made one.
CalculateDueDateLoose(strategy, weekday, points, t) ==
  IF strategy = "sprint_end" /\ weekday \in Weekdays THEN NextWeekday(t, weekday)
  ELSE IF strategy = "story_points" THEN LocalDate(t) + WholeDays(points)
  ELSE NoDate

CalculateDueDate(strategy, weekday, points, t) ==
  IF strategy = "sprint_end" /\ weekday \in Weekdays THEN NextWeekday(t, weekday)
  ELSE IF strategy = "story_points" THEN LocalDate(t) + Larger(WholeDays(points), 1)
  ELSE NoDate

\* One story point, unless the strategy asks Jira and Jira answers.
StoryPoints(strategy, answer) ==
  IF strategy = "story_points" /\ answer # {} THEN CHOOSE p \in answer : TRUE ELSE 2

\* The fields that go with the transition.
Fields(strategy, weekday, answer, t) ==
  [points |-> StoryPoints(strategy, answer),
   start  |-> LocalDate(t),
   due    |-> CalculateDueDate(strategy, weekday, StoryPoints(strategy, answer), t)]

-----------------------------------------------------------------------------
(* nextBackoff, in units of baseBackoff (30 s), on int64 nanoseconds *)

MaxBackoff == 60                          \* 30 min
MaxExp     == 20

\* 2^28 units is the last power of two below 2^63 ns.
LastExp    == 28
Overflowed == -1

Product(attempts) == IF attempts <= LastExp THEN 2 ^ attempts ELSE Overflowed

\* Faulty: the exponent is not clamped.
nextBackoffUnclamped(attempts) ==
  IF Product(attempts) > MaxBackoff THEN MaxBackoff ELSE Product(attempts)

nextBackoff(attempts) ==
  IF attempts > MaxExp \/ Product(attempts) > MaxBackoff THEN MaxBackoff
  ELSE Product(attempts)

\* next_run_at after a failure, in the same units (an hour is 120 of them).
RetryAt(attempts, t) == t * 120 + nextBackoff(attempts)

-----------------------------------------------------------------------------
Init == now = 0 /\ offset \in Offsets
Tick == now < MaxHours /\ now' = now + 1 /\ UNCHANGED offset
Spec == Init /\ [][Tick]_vars

-----------------------------------------------------------------------------
\* data.md: "min(2^attempts * 30s, 30min)", for every number of attempts: a retry is
\* always in the future, and never more than half an hour away.
DelayIsCapped ==
  \A a \in 0..100 :
    RetryAt(a, now) - now * 120 = IF a <= 5 THEN 2 ^ a ELSE MaxBackoff

\* duedate.go: "the next occurrence of the given weekday at or after today".
NextWeekdayIsNext ==
  \A w \in Weekdays :
    LET today == LocalDate(now)
        due   == NextWeekday(now, w)
    IN  /\ due >= today /\ WeekdayOf(due) = w
        /\ \A d \in today..(due - 1) : WeekdayOf(d) # w

\* Midnight in UTC has struck on the host's calendar day: Truncate stays in it.
TruncatedToday == (now + offset) % 24 >= offset % 24

\* Wherever the host is, NextWeekday is the next occurrence of the weekday at or after
\* today, or yesterday; and yesterday only in the hours before midnight in UTC, of
\* which a host in UTC has none.
NextWeekdayOrYesterday ==
  \A w \in Weekdays :
    LET today == LocalDate(now)
        due   == NextWeekday(now, w)
    IN  /\ due >= today - 1 /\ WeekdayOf(due) = w
        /\ TruncatedToday => due >= today
        /\ \A d \in today..(due - 1) : WeekdayOf(d) # w

\* With the strategy story_points, which does not truncate, an issue is due after it
\* starts, wherever the host is and whatever Jira answers; a sprint that ends
\* yesterday is the worst that the other one makes of it, and in the same hours only.
DueInEveryZone ==
  \A w \in Weekdays, a \in Answers :
    /\ LET f == Fields("story_points", w, a, now) IN f.due > f.start
    /\ LET f == Fields("sprint_end", w, a, now)
       IN  f.due >= f.start - 1 /\ (TruncatedToday => f.due >= f.start)
=============================================================================
