SPECIFICATION FairSpec
CONSTANTS
  Drainers <- MCDrainers
  Commands <- MCCommands
  Chatty <- MCChatty
  Prompts <- MCPrompts
  LongPrompts <- MCOneLong
  NoKey = "nokey"
  DefaultDeny <- MCDefaultDeny
  DenyMax = 1
  Cap = 2
  MaxLines = 3
  Admin = TRUE
INVARIANTS
  DeniedCommandStopped
  CachedUnlessOverlapped
PROPERTIES
  LineIsServed
CHECK_DEADLOCK FALSE
