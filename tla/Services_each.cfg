SPECIFICATION ServicesSpec
CONSTANTS
  Settings <- Configured
  Arrivals <- Instants
  MaxReconnects = 3
  MaxSockets = 7
  MaxRejects = 2
  Deals = {d1, d2}
  Ticks = {t1, t2}
  Intervals = {1, 2}
  MaxTime = 3
  MaxBreaks = 1
  Jids = {j1, j2}
  EnvJids = {j1}
  LegacyJids = {j2}
  Members = {m1}
  Requests = {r1, r2}
  MaxWishes = 3
  MaxTroubles = 1
  Sellers = {s1, s2}
  Batch = {b1, b2}
  MaxEnriched = 3
  MaxMishaps = 2
  Items = {i1, i2}
  Raw = {"fine", "worn", "bad"}
  Passes <- Gate
  Renders = {h1, h2}
  MaxHooks = 3
  MaxUpsets = 2
  Links = {l1, l2}
  Codes = {c1, c2, c3}
  Captions = {w1, w2}
  MaxWraps = 4
CHECK_DEADLOCK FALSE
INVARIANTS HoldIsSound ReconnectIsSound NothingOverlooked NoSpam RegistriesKeep EnrichmentHolds HeadlinesHold LinksLeadHome
PROPERTIES SentUnlessAlwaysQuiet DownIsRetried
