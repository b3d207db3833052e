SPECIFICATION Spec
CONSTANTS
  d1 = d1
  d2 = d2
  d3 = d3
  d4 = d4
  tick = tick
  manual = manual
  approval = approval
  Deals <- MCDeals
  Runs <- MCRuns
  Category <- MCCategory
  WarmingUp = {d4}
  TrustedRuns = {approval}
  Offers <- MCOffers
  ScoreTop = 3
  Cap = 3
  MaxJudgeCalls = 1
  MaxEntries = 1
  TTL = 1
  MaxDriftPercent = 2
  MaxNow = 2
  MaxStarts = 3
CHECK_DEADLOCK FALSE
INVARIANTS GateIsSound Diverse
