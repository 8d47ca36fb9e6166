SPECIFICATION Spec
CONSTANTS
  Drainers <- MCDrainers
  Commands <- MCCommands
  Chatty <- MCChatty
  Prompts <- MCPrompts
  LongPrompts <- MCLong
  NoKey = "nokey"
  DefaultDeny <- MCDefaultDeny
  DenyMax = 1
  Cap = 2
  MaxLines = 3
  Admin = FALSE
CHECK_DEADLOCK FALSE
INVARIANTS
  CachedUnderItsPrompt
