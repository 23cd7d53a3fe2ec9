\* What a document or a comment says and the code does not do.  TLC stops at the
\* first: leave one.  TypeOK holds, and alone runs to the end.
CHECK_DEADLOCK FALSE
SPECIFICATION Spec
CONSTANTS
  Configs <- AllConfigs
  PayOut = 1
  MaxHoists = 3
  MaxResets = 2
INVARIANTS
    TypeOK
    NobodyTakesOver
    ReleasedInDamp
PROPERTY
    TightensWhereHoisted
