SPECIFICATION LogonSpec
CONSTANTS
  Rules = {"os", "custom"}
  Supported = {"os"}
  MaxTokens = 2
  MaxSessions = 2
  MaxReplies = 1
  Budget = 2
INVARIANT RejectionRenews
CHECK_DEADLOCK FALSE
