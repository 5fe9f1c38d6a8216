SPECIFICATION Spec
CONSTANTS
  d1 = d1
  d2 = d2
  h1 = h1
  h2 = h2
  t1 = t1
  Directories = {d1, d2}
  Hosts = {h1, h2}
  Targets = {t1}
  Durations = {1, 2}
  MaxEvents = 3
  MaxBuilds = 2
  Gates = {"protocol"}
  MinSoak = 2
  RecommendedSoak = 3
SYMMETRY Symmetry
INVARIANT SoakOfCommit
CHECK_DEADLOCK FALSE
