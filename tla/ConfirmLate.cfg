SPECIFICATION Spec
CONSTANTS
  Agents <- MCAgents
  Handlers <- MCHandlers
  Timeout = 2
  MaxReqs = 2
INVARIANTS
  ApprovalIsForThisCall
