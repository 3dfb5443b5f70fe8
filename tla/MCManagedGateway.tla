--------------------------- MODULE MCManagedGateway ---------------------------
(***************************************************************************)
(* ManagedGateway for TLC: one caller and session, two records, approvals  *)
(* that are recorded valid or already expired, for one record or both, and *)
(* writes that succeed or fail under them.  A behaviour belongs to one     *)
(* campaign: its calls, how many of them may be outstanding at once, and   *)
(* its bounds.                                                             *)
(***************************************************************************)
EXTENDS ManagedGateway, TLC

CONSTANTS k1, k2,
  Campaigns     \* the campaigns of the run

VARIABLE campaign

MCIds == {"r1", "r2", "p1", "p2", "c1", "c2"}

Sent(tool, record, approval, change, expiry, mode) ==
  [tool |-> tool, record |-> record, approval |-> approval, change |-> change,
   expiry |-> expiry, mode |-> mode]

Lookup(r) == Sent("lookup_record", r, "p1", "c1", 0, "valid")

Approve(r, a, x) == Sent("record_human_approval", r, a, "c1", x, "valid")

Write(r, a, c, mode) == Sent("execute_write", r, a, c, 0, mode)

Status(r, c) == Sent("get_operation_status", r, "p1", c, 0, "valid")

\* Calls that race: one approval, recorded again and again, and writes under
\* it that succeed or fail.
Racing ==
  {Lookup("r1"), Approve("r1", "p1", 9), Write("r1", "p1", "c1", "valid"),
   Write("r1", "p1", "c1", "force_error")}

\* Calls sent one after the other: two records and an approval recorded for
\* either of them, for one of them with an expiry that passes.  The status is
\* unknown until the write was invoked.
Trajectory ==
  {Lookup("r1"), Lookup("r2"), Approve("r1", "p1", 9), Approve("r2", "p1", 1),
   Write("r1", "p1", "c1", "valid"), Write("r2", "p1", "c1", "valid"),
   Status("r1", "c1")}

MCRequests == UNION {c.requests : c \in Campaigns}

Overlapping == [requests |-> Racing, outstanding |-> 2, minutes |-> 1, events |-> 6]

InOrder == [requests |-> Trajectory, outstanding |-> 1, minutes |-> 2, events |-> 5]

AllCampaigns == {Overlapping, InOrder}

InOrderOnly == {InOrder}

MCInit == Init /\ campaign \in Campaigns

Admitted(p) ==
  /\ Cardinality(DOMAIN flight) < campaign.outstanding
  /\ Len(events[p]) + Cardinality(Carrying(p)) < campaign.events

MCNext ==
  /\ \/ \E k \in Connections, p \in Pairs, q \in campaign.requests :
          Admitted(p) /\ Forward(k, p, q)
     \/ \E p \in Pairs, q \in campaign.requests : Deny(p, q)
     \/ \E k \in Connections : Invoke(k) \/ Respond(k) \/ LoseResponse(k)
     \/ now < campaign.minutes /\ Tick
  /\ UNCHANGED campaign

MCSpec == MCInit /\ [][MCNext]_<<vars, campaign>>

Slots == Permutations(Connections)
=============================================================================
