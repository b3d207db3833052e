SPECIFICATION FairSpec
CONSTANTS
  Keys = {a}
  group = group
  channel = channel
  WaTargets <- OneGroup
  TgTargets <- OneChannel
  Callers = {c1}
  Stamps = {1}
  NoJob = NoJob
  WaCap = 2
  TgCap = 2
  DigestSize = 2
  MaxAttempts = 2
  MaxStalls = 0
  MaxCalls = 1
  MaxCrashes = 1
  MaxNights = 1
CHECK_DEADLOCK FALSE
PROPERTIES EveryJobSettles ImplementsDelivery
