SPECIFICATION Spec
CONSTANTS
  Senders = {worker, alert}
  HoursPerDay = 2
  MaxHours = 3
  HourCap <- SmallHourCap
  DayCap <- SmallDayCap
  KeepHours = 1
  KeepDays = 0
  MaxFails = 2
SYMMETRY SenderSymmetry
CHECK_DEADLOCK FALSE
INVARIANTS OvershootBounded
PROPERTIES CountsAreKept
