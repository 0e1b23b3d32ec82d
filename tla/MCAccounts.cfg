SPECIFICATION Spec
CONSTANTS
  here = here
  there = there
  others = others
  user = user
  Requests <- TheRequests
  Kind <- TheKind
  Who <- TheUser
  Users = {user}
  TwoFactor = {}
  Conns = 2
  MaxTokens = 2
  Nobody = nobody
CHECK_DEADLOCK FALSE
PROPERTIES CurrentStays
