CONSTANTS
  m1 = m1
  m2 = m2
  u1 = u1
  u2 = u2
  u3 = u3
  NoMod = NoMod
  Mods = {m1, m2}
  Urls = {u1, u2, u3}
  Chain <- TwoAndOne
  UrlLists <- AllListed
  MaxRequests = 1
SPECIFICATION FairSpec
PROPERTY DownloadedIsPatched
CHECK_DEADLOCK FALSE
