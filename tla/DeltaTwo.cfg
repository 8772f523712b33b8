CONSTANTS
  m1 = m1
  m2 = m2
  u1 = u1
  u2 = u2
  u3 = u3
  NoMod = NoMod
  Mods = {m1, m2}
  Urls = {u1, u2, u3}
  Chain <- TwoAndOne
  UrlLists <- NewRelease
  MaxRequests = 1
SPECIFICATION ThreadSpec
INVARIANTS TypeOK HeldOnce WaitIsPolled
PROPERTIES ProvidesService HandedReturns
CHECK_DEADLOCK FALSE
