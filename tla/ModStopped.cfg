\* A recheck of an unticked mod: what mod.cpp:277 says.
SPECIFICATION Spec
CONSTANTS
  m1 = m1
  m2 = m2
  r1 = r1
  r2 = r2
  d1 = d1
  d2 = d2
  NoRepo = NoRepo
  Mods = {m1}
  Repos = {r1}
  ModsOf <- Single
  BootOrder <- OneMod
  Optional = {}
  Dirs = {d1}
  Ops = {"repo", "check"}
  MaxQueue = 3
INVARIANT
  StoppedWhenInactive
