\* The download directory changes, also across restarts; liveness, when the
\* user, quits and kills cease.
SPECIFICATION FairSpec
CONSTANTS
  m1 = m1
  m2 = m2
  r1 = r1
  r2 = r2
  d1 = d1
  d2 = d2
  NoRepo = NoRepo
  Mods = {m1}
  Repos = {r1, r2}
  ModsOf <- Shared
  BootOrder <- OneMod
  Optional = {}
  Dirs = {d1, d2}
  Ops = {"repo", "move", "quit"}
  MaxQueue = 2
INVARIANT
  NoDeadTimer
PROPERTY
  LiveReady
