SPECIFICATION QueueSpec
CONSTANTS
  Keys = {a}
  Rows = {r1, r2}
  Requests = {q1, q2}
  Tick = Tick
  Cron = Cron
  NoKey = NoKey
  NoRow = NoRow
  MaxOps = 3
  MaxFails = 1
CHECK_DEADLOCK FALSE
SYMMETRY PanelSymmetry
INVARIANTS DecisionsHold OneOfEach AuditAgrees
