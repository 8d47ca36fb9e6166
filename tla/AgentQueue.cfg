SPECIFICATION FairSpec
CONSTANTS
  Drainers <- TwoDrainers
  QLen = 3
  QCap = 2
  MaxLines = 4
INVARIANTS
  EveryLineInOnePlace
  StageTwoFifo
  NoLostWakeup
  OvertakenWhileHeld
PROPERTIES
  QueueDrains
CHECK_DEADLOCK FALSE
