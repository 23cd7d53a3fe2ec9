\* What a document or a comment says and the code does not do.  TLC stops at the
\* first: leave one.
\* The bounds end a behaviour: the system itself goes on.
CHECK_DEADLOCK FALSE
SPECIFICATION Spec
CONSTANTS
  oracle = oracle
  vla = vla
  a1 = a1
  a2 = a2
  Selections <- Both
  Cheap <- Oracle
  Addresses <- Two
  MaxBuilds = 3
  MaxEpisodes = 1
SYMMETRY Places
INVARIANTS
    BuiltIsUsable
    DampAnswers
    EpisodeIsLabelled
    HeldEpisodeIsKept
PROPERTY
    ReconfiguresUnowned
