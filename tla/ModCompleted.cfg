\* A restart after a download: what settingsmodel.h:50 says.
SPECIFICATION Spec
CONSTANTS
  m1 = m1
  m2 = m2
  r1 = r1
  r2 = r2
  d1 = d1
  d2 = d2
  NoRepo = NoRepo
  Mods = {m1}
  Repos = {r1}
  ModsOf <- Single
  BootOrder <- OneMod
  Optional = {}
  Dirs = {d1}
  Ops = {"repo", "quit"}
  MaxQueue = 2
INVARIANT
  ReadyIsCompleted
