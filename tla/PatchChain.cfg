CONSTANTS
  f = f
  g = g
  h = h
  d = d
  Root = Root
  NoPath = NoPath
  Paths = {f}
  Contents = {1, 2, 3, 4, 5, 6, 7, 8, 9, 10, 11, 12}
  Signed = {}
  Installed = {}
  DirOf <- Where
  Size <- Same
  Releases <- Line
  Follows <- InOrder
  First <- Start
  Client = FALSE
  Cut = 12
  MaxFaults = 0
  MaxNo = 10
SPECIFICATION Spec
INVARIANT ChainFound
CHECK_DEADLOCK FALSE
