---------------------------- MODULE TemporalPolicy ----------------------------
(***************************************************************************)
(* The decision function of LocalTemporalSpecificationAuthorizer           *)
(* (policy_lab/policies.py): what it answers to a request, given the       *)
(* events h it has observed for the caller and policy session.  Pure       *)
(* operators; PolicyLab holds the histories.                               *)
(***************************************************************************)
EXTENDS SyntheticTools, Sequences

CONSTANTS
  Callers, Sessions,
  ValidSessions,   \* the session identifiers that match _session_pattern
  Permissions,     \* the tools each caller may use
  WriteLimit,      \* successful writes a session may have: 3 in the code
  RetryLimit       \* failed writes an approval may have: 3 in the code

ASSUME SessionAssumption ==
  /\ ValidSessions \subseteq Sessions
  /\ Permissions \in [Callers -> SUBSET Tools]

ASSUME LimitAssumption == WriteLimit \in Nat \ {0} /\ RetryLimit \in Nat \ {0}

Pairs == Callers \X Sessions

\* An ObservedToolEvent.  Its response is determined by the request and the
\* outcome: a successful lookup or approval echoes the stripped identifiers.
Event == [request : Request, outcome : Outcomes]

-----------------------------------------------------------------------------

IsLookup(e, r) ==
  /\ e.request.tool = "lookup_record"
  /\ e.outcome = "success"
  /\ Strip[e.request.record] = r

IsApproval(e, r, a) ==
  /\ e.request.tool = "record_human_approval"
  /\ e.outcome = "success"
  /\ Strip[e.request.record] = r
  /\ Strip[e.request.approval] = a

IsWrite(e, outcome) == e.request.tool = "execute_write" /\ e.outcome = outcome

LookedUp(h, r) == \E i \in DOMAIN h : IsLookup(h[i], r)

\* mutant: any unexpired approval counts, also one recorded again since
AnyApprovalUnexpired(h, r, a, now) ==
  \E i \in DOMAIN h : IsApproval(h[i], r, a) /\ h[i].request.expiry > now

\* The latest matching approval decides: recording an approval again replaces
\* its expiry, in either direction.
LatestApprovalUnexpired(h, r, a, now) ==
  \E i \in DOMAIN h :
    /\ IsApproval(h[i], r, a)
    /\ \A j \in DOMAIN h : IsApproval(h[j], r, a) => j <= i
    /\ h[i].request.expiry > now

\* mutant: only the latest event is looked at for a consuming write
ConsumedByLast(h, a) ==
  /\ h # <<>>
  /\ IsWrite(h[Len(h)], "success")
  /\ h[Len(h)].request.approval = a

Consumed(h, a) ==
  \E i \in DOMAIN h : IsWrite(h[i], "success") /\ h[i].request.approval = a

SuccessfulWrites(h) == {i \in DOMAIN h : IsWrite(h[i], "success")}

FailedWrites(h, a) ==
  {i \in DOMAIN h : IsWrite(h[i], "error") /\ h[i].request.approval = a}

\* mutant: the session limit is off by one
WriteAllowedOneMore(h, q, now) ==
  /\ q.mode # "malformed"
  /\ LookedUp(h, q.record)
  /\ LatestApprovalUnexpired(h, q.record, q.approval, now)
  /\ ~Consumed(h, q.approval)
  /\ Cardinality(SuccessfulWrites(h)) <= WriteLimit
  /\ Cardinality(FailedWrites(h, q.approval)) < RetryLimit

\* mutant: consumed approvals are accepted for a retried change
WriteAllowedForReplay(h, q, now) ==
  /\ q.mode # "malformed"
  /\ LookedUp(h, q.record)
  /\ LatestApprovalUnexpired(h, q.record, q.approval, now)
  /\ \/ ~Consumed(h, q.approval)
     \/ \E i \in SuccessfulWrites(h) : h[i].request.change = q.change
  /\ Cardinality(SuccessfulWrites(h)) < WriteLimit
  /\ Cardinality(FailedWrites(h, q.approval)) < RetryLimit

\* mutant: retries are counted by change identifier instead of approval
WriteAllowedRetryByChange(h, q, now) ==
  /\ q.mode # "malformed"
  /\ LookedUp(h, q.record)
  /\ LatestApprovalUnexpired(h, q.record, q.approval, now)
  /\ ~Consumed(h, q.approval)
  /\ Cardinality(SuccessfulWrites(h)) < WriteLimit
  /\ Cardinality({i \in DOMAIN h : /\ IsWrite(h[i], "error")
                                   /\ h[i].request.change = q.change}) < RetryLimit

WriteAllowed(h, q, now) ==
  /\ q.mode # "malformed"
  /\ LookedUp(h, q.record)
  /\ LatestApprovalUnexpired(h, q.record, q.approval, now)
  /\ ~Consumed(h, q.approval)
  /\ Cardinality(SuccessfulWrites(h)) < WriteLimit
  /\ Cardinality(FailedWrites(h, q.approval)) < RetryLimit

\* authorize(): permission first, then the session identifier, then history.
Authorize(h, c, s, q, now) ==
  IF q.tool \notin Permissions[c] THEN "deny"
  ELSE IF s \notin ValidSessions THEN "error"
  ELSE IF q.tool = "execute_write" /\ ~WriteAllowed(h, q, now) THEN "deny"
  ELSE "allow"
=============================================================================
