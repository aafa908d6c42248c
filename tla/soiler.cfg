SPECIFICATION SoilerFairSpec
CONSTANTS
  Half = 2
  Start = 1
  MaxTime = 4
  AsksZero = TRUE
  MaxRestarts = 1
INVARIANTS NeverLate NeverForgotten TimerInv
PROPERTIES EventuallySoiled
CHECK_DEADLOCK FALSE
