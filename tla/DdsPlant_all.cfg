\* The bounds end a behaviour: the system itself goes on.
CHECK_DEADLOCK FALSE
SPECIFICATION Spec
CONSTANTS
  Configs <- AllConfigs
  PayOut = 1
  MaxHoists = 3
  MaxResets = 2
INVARIANTS
    CleanSlot
    ResetIsDone
    HoldsWhereHoisted
