SPECIFICATION MCSpec
CONSTANTS
  Loops = {l1}
  Contexts = {c1, c2}
  Cores = {k1, k2}
  Streams = {s1, s2}
  Handles = {h1, h2, h3, h4}
  Hooks = {h1, h2, h3}
  Interface = "registry"
  Depth = 2
SYMMETRY Symmetry
INVARIANTS
  HandlesAlive
  ParentsAlive
  NothingLeaks
  LinksMatch
  OneRing
PROPERTIES
  CalledWhileAlive
  EveryoneServed
\* Every object may have been made and destroyed: the system may stop.
CHECK_DEADLOCK FALSE
