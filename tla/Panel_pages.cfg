SPECIFICATION TabsSpec
CONSTANTS
  Deals = {d1, d2}
  Texts = {t1, t2}
  MaxPolls = 1
  MaxCalls = 2
  MaxActs = 3
  MaxEvents = 1
  MaxWork = 4
  MaxLost = 1
  Keys = {k1, k2}
  Valid = {v1, v2}
  Unset = Unset
  Malformed = Malformed
  MaxClicks = 4
  MaxFaults = 1
  Pages = 3
  MaxTurns = 3
CHECK_DEADLOCK FALSE
INVARIANTS OneDecision WhatYouSee ResubmitNeedsLoss SettledPreview ShownIsServed
PROPERTIES RepostIsConfirmed DraftKept QueueConverges
