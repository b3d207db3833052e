SPECIFICATION Spec
CONSTANTS
  d1 = d1
  t1 = t1
  t2 = t2
  m1 = m1
  Deals = {d1}
  Prices = {80}
  Ticks = {t1, t2}
  Manuals = {m1}
  Legacy <- OldPrice
  Feeds = 1
  Window = 2
  PruneAge = 2
  Retention = 1
  Recent = 1
  MinDays = 2
  RequireHistory = FALSE
  Percent = 90
  MaxDay = 3
  MaxStarts = 2
  MaxFails = 1
SYMMETRY TickSymmetry
CHECK_DEADLOCK FALSE
INVARIANTS OwnPriceUnseen RunsApart
PROPERTIES MemoryIsKept
