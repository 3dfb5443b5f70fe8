----------------------------- MODULE ManagedPolicy -----------------------------
(***************************************************************************)
(* The temporal policies that guard execute_write outside the local        *)
(* runner: the Cedar statements deployed to AgentCore                      *)
(* (infrastructure/agentcore-policy-lab.yaml) and the Dogwood set that is  *)
(* replayed against recorded traces (policies/dogwood/policies.dw).  Each  *)
(* is a formula over the response events h of one caller and policy        *)
(* session, in the order they were recorded; both engines pin the events   *)
(* to the caller and the session of the request.  Pure operators.          *)
(***************************************************************************)
EXTENDS Integers, FiniteSets, Sequences

CONSTANTS
  Ids,              \* record, approval and change identifiers
  ApprovalWindow,   \* minutes an approval stays fresh: 5 in both policies
  LookupWindow,     \* minutes a lookup stays fresh: 10
  FailureWindow,    \* minutes a failed write is counted: 60
  SessionWindow,    \* minutes a successful write is counted: 1440
  WriteLimit,       \* SessionWriteLimit: 3
  RetryLimit        \* RetryLimit: 3

ASSUME WindowAssumption ==
  /\ ApprovalWindow \in Nat /\ LookupWindow \in Nat
  /\ FailureWindow \in Nat /\ SessionWindow \in Nat
  /\ ApprovalWindow <= FailureWindow /\ FailureWindow <= SessionWindow

ASSUME CapAssumption == WriteLimit \in Nat \ {0} /\ RetryLimit \in Nat \ {0}

Call == [tool : {"lookup_record", "record_human_approval", "execute_write",
                 "get_operation_status"},
         record : Ids, approval : Ids, change : Ids, expiry : Nat,
         mode : {"valid", "force_error"}]

Results == {"found", "valid", "expired", "SUCCEEDED", "FAILED", "status"}

\* A response event: the call it answers, what the tool returned, when the
\* call was sent and when its response was recorded.
Response == [request : Call, result : Results, sent : Nat, at : Nat]

-----------------------------------------------------------------------------

Recent(e, window, now) == now - e.at <= window

IsLookup(e, q) ==
  e.request.tool = "lookup_record" /\ e.request.record = q.record

\* input.record_id, input.approval_id and output.valid of the managed policy
IsApproval(e, q) ==
  /\ e.request.tool = "record_human_approval"
  /\ e.result = "valid"
  /\ e.request.record = q.record
  /\ e.request.approval = q.approval

\* The write that consumes: the managed policy looks at its approval only.
Consumes(e, q) ==
  /\ e.request.tool = "execute_write"
  /\ e.result = "SUCCEEDED"
  /\ e.request.approval = q.approval

LookedUp(h, q, now) ==
  \E i \in DOMAIN h : IsLookup(h[i], q) /\ Recent(h[i], LookupWindow, now)

\* mutant: the successful write must be older than the approval to count
UnconsumedApprovalBefore(h, q, now) ==
  \E i \in DOMAIN h :
    /\ IsApproval(h[i], q) /\ Recent(h[i], ApprovalWindow, now)
    /\ \A j \in 1..(i - 1) : ~Consumes(h[j], q)

\* "!execute_write::response since within 5m record_human_approval::response":
\* an approval recorded again after the write that consumed it counts anew.
UnconsumedApproval(h, q, now) ==
  \E i \in DOMAIN h :
    /\ IsApproval(h[i], q) /\ Recent(h[i], ApprovalWindow, now)
    /\ \A j \in (i + 1)..Len(h) : ~Consumes(h[j], q)

RecentSuccesses(h, now) ==
  {i \in DOMAIN h : h[i].result = "SUCCEEDED" /\ Recent(h[i], SessionWindow, now)}

RecentFailures(h, q, now) ==
  {i \in DOMAIN h : /\ h[i].result = "FAILED"
                    /\ h[i].request.approval = q.approval
                    /\ Recent(h[i], FailureWindow, now)}

\* mutant: the approval of the write is not correlated with its record
WritePermittedAnyRecord(h, q, now) ==
  /\ LookedUp(h, q, now)
  /\ \E r \in Ids : UnconsumedApproval(h, [q EXCEPT !.record = r], now)
  /\ Cardinality(RecentSuccesses(h, now)) < WriteLimit
  /\ Cardinality(RecentFailures(h, q, now)) < RetryLimit

\* mutant: the retry limit is off by one
WritePermittedOneMore(h, q, now) ==
  /\ LookedUp(h, q, now)
  /\ UnconsumedApproval(h, q, now)
  /\ Cardinality(RecentSuccesses(h, now)) < WriteLimit
  /\ Cardinality(RecentFailures(h, q, now)) <= RetryLimit

\* TemporalWrite permits, SessionWriteLimit and RetryLimit forbid.
WritePermitted(h, q, now) ==
  /\ LookedUp(h, q, now)
  /\ UnconsumedApproval(h, q, now)
  /\ Cardinality(RecentSuccesses(h, now)) < WriteLimit
  /\ Cardinality(RecentFailures(h, q, now)) < RetryLimit

-----------------------------------------------------------------------------

\* Dogwood's approval response says approved: true whatever the expiry is.
DogwoodApproval(e, q) ==
  /\ e.request.tool = "record_human_approval"
  /\ e.request.record = q.record
  /\ e.request.approval = q.approval

\* Dogwood's consuming write is one of the same record.
DogwoodConsumes(e, q) == Consumes(e, q) /\ e.request.record = q.record

\* Its separate "formerly within 5m" clause asks for the same approval event.
DogwoodUnconsumedApproval(h, q, now) ==
  \E i \in DOMAIN h :
    /\ DogwoodApproval(h[i], q) /\ Recent(h[i], ApprovalWindow, now)
    /\ \A j \in (i + 1)..Len(h) : ~DogwoodConsumes(h[j], q)

DogwoodPermitted(h, q, now) ==
  /\ LookedUp(h, q, now)
  /\ DogwoodUnconsumedApproval(h, q, now)
  /\ Cardinality(RecentSuccesses(h, now)) < WriteLimit
  /\ Cardinality(RecentFailures(h, q, now)) < RetryLimit
=============================================================================
