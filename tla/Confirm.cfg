SPECIFICATION FairSpec
CONSTANTS
  Agents <- MCAgents
  Handlers <- MCHandlers
  Timeout = 1
  MaxReqs = 2
INVARIANTS
  SlotMatchesWaiter
  OneShot
  NoLostWakeup
PROPERTIES
  ImplementsGate
  EveryCallReturns
