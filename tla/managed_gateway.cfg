SPECIFICATION MCSpec
CONSTANTS
  k1 = k1
  k2 = k2
  Ids <- MCIds
  ApprovalWindow = 0
  LookupWindow = 1
  FailureWindow = 0
  SessionWindow = 0
  WriteLimit = 2
  RetryLimit = 2
  Callers = {"a"}
  Sessions = {"s1"}
  Records = {"r1", "r2"}
  Requests <- MCRequests
  Campaigns <- AllCampaigns
  Connections = {k1, k2}
  MaxNow = 2
  MaxEvents = 6
SYMMETRY Slots
INVARIANTS UsesPerRecording CapsOvershootByOutstanding WritesBacked LayersAgree
CHECK_DEADLOCK FALSE
