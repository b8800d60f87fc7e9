CONSTANTS
  Bodies <- MCBodies
  MaxNamed = 3
SPECIFICATION MCSpec
INVARIANTS ResponseWhole HeapSound OneUpgradeAtATime StatusComesBack
PROPERTIES UpgradesNamed
CHECK_DEADLOCK FALSE
