SPECIFICATION Spec
CONSTANTS
  Sessions = {s1, s2}
  NoSession = NoSession
  Large <- MCLarge
  PageLimit = 2
  Backlog = 2
  MaxSeq = 5
  MaxRestarts = 2
  MaxRefusals = 2
CHECK_DEADLOCK FALSE
INVARIANTS
  ShowsPrefix
  JoinIsExact
PROPERTIES
  NeverShrinks
  CatchesUp
