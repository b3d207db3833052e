SPECIFICATION Spec
CONSTANTS
  Keys = {a, b}
  group = group
  channel = channel
  WaTargets <- OneGroup
  TgTargets <- NoTargets
  Callers = {c1}
  Stamps = {1}
  NoJob = NoJob
  WaCap = 2
  TgCap = 2
  DigestSize = 2
  MaxAttempts = 2
  MaxStalls = 1
  MaxCalls = 2
  MaxCrashes = 1
  MaxNights = 0
SYMMETRY DealSymmetry
CHECK_DEADLOCK FALSE
INVARIANTS JobsAreSound
PROPERTIES UrgentOvertakes
