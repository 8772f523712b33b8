CONSTANTS
  f = f
  g = g
  h = h
  d = d
  Root = Root
  NoPath = NoPath
  Paths = {f, g, h}
  Contents = {1, 2, 4}
  Signed = {g}
  Installed = {g}
  DirOf <- Where
  Size <- Sizes
  Releases <- FourReleases
  Follows <- SomeOrder
  First <- A
  Client = TRUE
  Cut = 4
  MaxFaults = 1
  MaxNo = 2
SPECIFICATION Spec
INVARIANTS TypeOK ModIntact ChainsFit PatchMakesNew CompletedExact
