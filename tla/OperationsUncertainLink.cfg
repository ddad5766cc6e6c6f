SPECIFICATION Spec
CONSTANTS
  DeltaBytes <- MCBytes
  BatchBytes = 3
  MaxOutputBytes = 6
  MaxWrites = 2
  MaxChatRuns = 3
  MaxRequests = 2
  MaxResults = 1
  RetainTokens = 2
CHECK_DEADLOCK FALSE
INVARIANTS
  UncertainLinkIsUnknown
