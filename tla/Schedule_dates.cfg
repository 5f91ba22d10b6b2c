\* Two weeks, hour by hour, on hosts behind, in and ahead of UTC.
SPECIFICATION Spec
CONSTANTS
  Offsets <- Zones
  MaxHours = 335
INVARIANTS NextWeekdayOrYesterday DueInEveryZone DelayIsCapped
\* The clock stops after MaxHours.
CHECK_DEADLOCK FALSE
