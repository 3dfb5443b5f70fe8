SPECIFICATION BatchSpec
CONSTANTS
  k1 = k1
  k2 = k2
  k3 = k3
  Ids <- MCIds
  ApprovalWindow = 0
  LookupWindow = 1
  FailureWindow = 2
  SessionWindow = 2
  WriteLimit = 3
  RetryLimit = 3
  Callers = {"a", "b"}
  Sessions <- MCSessions
  Records = {"ra", "rb", "rc", "rd"}
  Requests <- MCRequests
  Connections = {k1, k2, k3}
  MaxNow = 1
  MaxEvents = 12
  Trajectories <- MCTrajectories
  Repetitions = 1
  SessionFor <- MCSessionFor
  Renamed <- MCRenamed
  Burst <- MCBurst
  NoChange = "no_change"
CHECK_DEADLOCK FALSE
INVARIANTS BatchTypeOK CompletedIsRecorded DecisionsFollowTheLog CleanRunsAsDeclared
PROPERTY BatchEnds
