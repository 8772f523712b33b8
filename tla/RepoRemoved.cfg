CONSTANTS
  r1 = r1
  r2 = r2
  a = a
  b = b
  NoAdapter = NoAdapter
  Repos = {r1}
  Keys = {a}
  FilesOnServer <- OneMod
  MaxQueue = 0
SPECIFICATION Spec
INVARIANT RemovalSurvives
CHECK_DEADLOCK FALSE
