SPECIFICATION FairSpec
CONSTANTS
  Callers = {p1, p2}
  Reloaders = {r1, r2}
  Urls = {u}
  NoUrl = NoUrl
  MaxBrowsers = 3
  MaxCalls = 4
  MaxFaults = 1
CHECK_DEADLOCK FALSE
INVARIANTS OneBrowser
PROPERTIES EveryCallEnds
