\* Optional in one repository; every operation but the move; restarts.
SPECIFICATION Spec
CONSTANTS
  m1 = m1
  m2 = m2
  r1 = r1
  r2 = r2
  d1 = d1
  d2 = d2
  NoRepo = NoRepo
  Mods = {m1}
  Repos = {r1, r2}
  ModsOf <- Shared
  BootOrder <- OneMod
  Optional <- OptionalInR1
  Dirs = {d1}
  Ops = {"repo", "mod", "check", "delta", "quit"}
  MaxQueue = 3
INVARIANTS
  TypeOK
  NoLostStart
  NoStrayRun
  CompletionCovered
  AbortExplained
