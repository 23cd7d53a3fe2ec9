\* The bounds end a behaviour: the system itself goes on.
CHECK_DEADLOCK FALSE
SPECIFICATION Spec
CONSTANTS
  oracle = oracle
  vla = vla
  a1 = a1
  a2 = a2
  Selections <- Both
  Cheap <- Oracle
  Addresses <- Two
  MaxBuilds = 2
  MaxEpisodes = 2
SYMMETRY Places
INVARIANTS
    OwnPlanner
    HeldEpisodeIsLabelled
PROPERTY
    ClosesAtRest
