CONSTANTS
  r1 = r1
  r2 = r2
  a = a
  b = b
  NoAdapter = NoAdapter
  Repos = {r1, r2}
  Keys = {a, b}
  FilesOnServer <- MovingMod
  MaxQueue = 1
SPECIFICATION Spec
INVARIANTS TypeOK AdapterAlive TreeIsFile WorkerSeesTree FoldersMatch
PROPERTIES PausedUnwanted
CHECK_DEADLOCK FALSE
