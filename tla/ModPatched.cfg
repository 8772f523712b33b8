\* Moves of the download directory, delta patching switched, quits and kills.
SPECIFICATION Spec
CONSTANTS
  m1 = m1
  m2 = m2
  r1 = r1
  r2 = r2
  d1 = d1
  d2 = d2
  NoRepo = NoRepo
  Mods = {m1}
  Repos = {r1}
  ModsOf <- Single
  BootOrder <- OneMod
  Optional = {}
  Dirs = {d1, d2}
  Ops = {"repo", "move", "delta", "quit"}
  MaxQueue = 2
INVARIANTS
  OneOwner
  PathFollowsSetting
  CompletionCovered
  AbortExplained
PROPERTY
  UsesService
