------------------------------ MODULE MCPolicyLab ------------------------------
(***************************************************************************)
(* PolicyLab for TLC.  Identifiers are strings with their role in the      *)
(* first letter; "c1_" is the change identifier c1 with padding, which     *)
(* require_string strips.  Two callers share the visible session "s1"; the *)
(* second may not ask for a status.  "bad" is no valid session identifier. *)
(* A behaviour belongs to one campaign: its callers, sessions, requests    *)
(* and length.                                                             *)
(***************************************************************************)
EXTENDS PolicyLab

VARIABLE campaign

MCIds == {"r1", "r2", "p1", "p2", "p3", "c1", "c1_", "c2"}

MCStrip == [i \in MCIds |-> IF i = "c1_" THEN "c1" ELSE i]

MCPermissions ==
  [c \in Callers |-> IF c = "a" THEN Tools ELSE Tools \ {"get_operation_status"}]

Call(tool, record, approval, change, expiry, mode) ==
  [tool |-> tool, record |-> record, approval |-> approval, change |-> change,
   expiry |-> expiry, mode |-> mode]

Lookup(r) == Call("lookup_record", r, "p1", "c1", 0, "valid")

Approve(r, a, x) == Call("record_human_approval", r, a, "c1", x, "valid")

Write(r, a, c, mode) == Call("execute_write", r, a, c, 0, mode)

Status(r, c) == Call("get_operation_status", r, "p1", c, 0, "valid")

\* One record, two approvals (one of them recorded with an early expiry too),
\* changes retried with and without the declared failure and with padding.
DeepRequests ==
  {Lookup("r1"), Approve("r1", "p1", 4), Approve("r1", "p1", 99),
   Approve("r1", "p2", 99),
   Write("r1", "p1", "c1", "valid"), Write("r1", "p1", "c1", "force_error"),
   Write("r1", "p1", "c2", "invalid"),
   Write("r1", "p2", "c1_", "valid"), Write("r1", "p2", "c2", "valid"),
   Write("r1", "p2", "c2", "malformed"),
   Approve("r1", "p3", 99), Write("r1", "p3", "c1", "valid")}

\* Two callers in two sessions: the same approval and change identifiers sent
\* from everywhere.
WideRequests ==
  {Lookup("r1"), Approve("r1", "p1", 99),
   Write("r1", "p1", "c1", "valid"), Write("r1", "p1", "c2", "valid"),
   Write("r1", "p1", "c1", "force_error"), Write("r2", "p1", "c1", "valid"),
   Status("r1", "c1")}

MCRequests == DeepRequests \cup WideRequests

Deep == [callers |-> {"a"}, sessions |-> {"s1", "bad"},
         requests |-> DeepRequests, length |-> 7]

Wide == [callers |-> {"a", "b"}, sessions |-> {"s1", "s2", "bad"},
         requests |-> WideRequests, length |-> 6]

MCInit == Init /\ campaign \in {Deep, Wide}

MCNext ==
  /\ \E c \in campaign.callers, s \in campaign.sessions, q \in campaign.requests :
       \/ clock < campaign.length /\ Perform(c, s, q)
       \/ Refuse(c, s, q)
  /\ UNCHANGED campaign

MCSpec == MCInit /\ [][MCNext]_<<vars, campaign>>
=============================================================================
