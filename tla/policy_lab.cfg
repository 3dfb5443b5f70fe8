SPECIFICATION MCSpec
CONSTANTS
  Ids <- MCIds
  Strip <- MCStrip
  Records = {"r1", "r2"}
  Callers = {"a", "b"}
  Sessions = {"s1", "s2", "bad"}
  ValidSessions = {"s1", "s2"}
  Permissions <- MCPermissions
  WriteLimit = 2
  RetryLimit = 2
  Requests <- MCRequests
  MaxClock = 7
INVARIANTS ApprovalSingleUse CapsHold StoreIsIdempotent EffectsBacked ApprovalReach
PROPERTY OperationsPermanent
