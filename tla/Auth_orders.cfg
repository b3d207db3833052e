SPECIFICATION AuthFairSpec
CONSTANTS
  Readers = {r1, r2}
  Cron = cron
  MaxTokens = 3
  MaxFails = 2
CHECK_DEADLOCK FALSE
INVARIANTS TokenIsKept
PROPERTIES EveryCallAnswered
