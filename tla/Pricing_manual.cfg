SPECIFICATION Spec
CONSTANTS
  r1 = r1
  r2 = r2
  Runs = {r1, r2}
  Hand = "hand"
  Prices = {60, 80}
  Pages <- TwoPages
  Offered <- SomeCoupons
  Edits <- SomeEdits
  Original = 160
  Deal <- GoodDeal
  Histories <- PastPrices
  Recent = 3
  MinDays = 2
  RequireHistory = FALSE
  Percent = 85
  Week = 1
  Fortnight = 2
  PeakWindow = 2
  BaselineWindow = 3
  PeakPercent = 120
  CurrentPercent = 95
  Exclusion = 1
  W <- Defaults
  ScoreMin = 60
  MaxAge = 0
  CacheTTL = 2
  CardTTL = 1
  MaxNow = 2
  MaxStarts = 2
SYMMETRY RunSymmetry
CHECK_DEADLOCK FALSE
INVARIANT ManualPriceKept

