\* Two weeks, hour by hour, on a host two hours ahead of UTC.
SPECIFICATION Spec
CONSTANTS
  Offsets = {2}
  MaxHours = 335
INVARIANTS NextWeekdayIsNext
\* The clock stops after MaxHours.
CHECK_DEADLOCK FALSE
