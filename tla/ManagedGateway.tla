---------------------------- MODULE ManagedGateway ----------------------------
(***************************************************************************)
(* The managed layer of the policy lab: the AgentCore gateway decides on a *)
(* call with the temporal policies, forwards a permitted one to the        *)
(* SyntheticTools Lambda function, which works on the operation table, and *)
(* records the response event the policies read from then on.  These are   *)
(* three steps, with other calls and time between them; the function may   *)
(* raise, and a response may be lost before it is recorded.  The gateway   *)
(* and its engine are a service, modelled from the deployed statements     *)
(* and from what managed.py sends; the function's code is in the template. *)
(***************************************************************************)
EXTENDS ManagedPolicy

CONSTANTS
  Callers, Sessions,
  Records,      \* RECORDS of the function
  Requests,     \* the calls the callers may send
  Connections,  \* calls outstanding at once; one for the trajectory runner
  MaxNow,       \* bound on the clock, in minutes
  MaxEvents     \* bound on the events of one caller and session

ASSUME GatewayAssumption ==
  /\ Records \subseteq Ids
  /\ Requests \subseteq Call
  /\ IsFiniteSet(Connections) /\ Connections # {}
  /\ MaxNow \in Nat /\ MaxEvents \in Nat

VARIABLES
  now,      \* minutes since the start
  events,   \* the response events of each caller and session
  flight,   \* the call each busy connection carries
  table     \* the operations the function has put, by operation_id

vars == <<now, events, flight, table>>

Pairs == Callers \X Sessions

Carried == [pair : Pairs, request : Call, sent : Nat,
            result : Results \cup {"pending", "raised"}]

\* operation_id is a hash of the whole event, so it stands for these fields.
Operation == [record : Ids, change : Ids, approval : Ids,
              mode : {"valid", "force_error"}]

GatewayTypeOK ==
  /\ now \in 0..MaxNow
  /\ events \in [Pairs -> Seq(Response)]
  /\ \E busy \in SUBSET Connections : flight \in [busy -> Carried]
  /\ table \subseteq Operation

Init ==
  /\ now = 0
  /\ events = [p \in Pairs |-> <<>>]
  /\ flight = <<>>
  /\ table = {}

-----------------------------------------------------------------------------

Carrying(p) == {k \in DOMAIN flight : flight[k].pair = p}

Freed(k) == [j \in DOMAIN flight \ {k} |-> flight[j]]

\* Both callers hold the permits for the other three tools.
Permitted(p, q) ==
  q.tool = "execute_write" => WritePermitted(events[p], q, now)

\* The gateway decides on the events recorded so far and forwards the call.
Forward(k, p, q) ==
  /\ k \notin DOMAIN flight
  /\ Len(events[p]) + Cardinality(Carrying(p)) < MaxEvents
  /\ Permitted(p, q)
  /\ flight' = [j \in DOMAIN flight \cup {k} |->
       IF j = k THEN [pair |-> p, request |-> q, sent |-> now, result |-> "pending"]
                ELSE flight[j]]
  /\ UNCHANGED <<now, events, table>>

\* A denied call reaches neither the function nor the events the policies read.
Deny(p, q) ==
  /\ ~Permitted(p, q)
  /\ UNCHANGED vars

OperationOf(q) == [record |-> q.record, change |-> q.change,
                   approval |-> q.approval, mode |-> q.mode]

\* The operation_id of a status call is that of the write with its fields.
StatusKnown(q) == OperationOf(q) \in table

\* What the function returns; lookup and status raise for an unknown key.
ResultOf(q) ==
  CASE q.tool = "lookup_record" ->
         IF q.record \in Records THEN "found" ELSE "raised"
    [] q.tool = "record_human_approval" ->
         IF q.expiry > now THEN "valid" ELSE "expired"
    [] q.tool = "execute_write" ->
         IF q.mode = "force_error" THEN "FAILED" ELSE "SUCCEEDED"
    [] q.tool = "get_operation_status" ->
         IF StatusKnown(q) THEN "status" ELSE "raised"

Invoke(k) ==
  /\ k \in DOMAIN flight /\ flight[k].result = "pending"
  /\ LET q == flight[k].request
     IN /\ flight' = [flight EXCEPT ![k].result = ResultOf(q)]
        /\ table' = IF q.tool = "execute_write"
                      THEN table \cup {OperationOf(q)} ELSE table
  /\ UNCHANGED <<now, events>>

\* mutant: a call that raised is recorded like any other
RespondAlways(k) ==
  /\ k \in DOMAIN flight /\ flight[k].result # "pending"
  /\ LET c == flight[k]
     IN events' = [events EXCEPT ![c.pair] = Append(@,
          [request |-> c.request, result |-> c.result, sent |-> c.sent,
           at |-> now])]
  /\ flight' = Freed(k)
  /\ UNCHANGED <<now, table>>

Respond(k) ==
  /\ k \in DOMAIN flight /\ flight[k].result \in Results
  /\ LET c == flight[k]
     IN events' = [events EXCEPT ![c.pair] = Append(@,
          [request |-> c.request, result |-> c.result, sent |-> c.sent,
           at |-> now])]
  /\ flight' = Freed(k)
  /\ UNCHANGED <<now, table>>

\* The function raised, or timed out before or after its put_item: the caller
\* gets an error and no response event is recorded.
LoseResponse(k) ==
  /\ k \in DOMAIN flight
  /\ flight' = Freed(k)
  /\ UNCHANGED <<now, events, table>>

\* A call lasts seconds (the function's Timeout is 10): the minute may change
\* once under it.
Tick ==
  /\ now < MaxNow
  /\ \A k \in DOMAIN flight : flight[k].sent = now
  /\ now' = now + 1
  /\ UNCHANGED <<events, flight, table>>

Next ==
  \/ \E k \in Connections, p \in Pairs, q \in Requests : Forward(k, p, q)
  \/ \E p \in Pairs, q \in Requests : Deny(p, q)
  \/ \E k \in Connections : Invoke(k) \/ Respond(k) \/ LoseResponse(k)
  \/ Tick

Spec == Init /\ [][Next]_vars

-----------------------------------------------------------------------------

IsWriteUnder(e, a, result) ==
  /\ e.request.tool = "execute_write"
  /\ e.request.approval = a
  /\ e.result = result

IsRecordingOf(e, a) ==
  e.request.tool = "record_human_approval" /\ e.request.approval = a

(***************************************************************************)
(* The successful writes answered under approval a after event i.          *)
(***************************************************************************)
UsesAfter(h, i, a) == {j \in (i + 1)..Len(h) : IsWriteUnder(h[j], a, "SUCCEEDED")}

\* With at most this many calls outstanding at once.
UsesWithin(most) ==
  \A p \in Pairs : LET h == events[p] IN \A i \in DOMAIN h :
    LET a == h[i].request.approval
    IN IsRecordingOf(h[i], a) /\ (\A j \in DOMAIN h : IsRecordingOf(h[j], a) => j <= i)
         => Cardinality(UsesAfter(h, i, a)) <= most

CapsWithin(most) ==
  \A p \in Pairs : LET h == events[p] IN \A i \in DOMAIN h :
    /\ Cardinality({j \in 1..i : /\ h[j].result = "SUCCEEDED"
                                 /\ Recent(h[j], SessionWindow, h[i].at)})
         <= WriteLimit + most - 1
    /\ \A a \in {h[j].request.approval : j \in 1..i} :
         Cardinality({j \in 1..i : /\ IsWriteUnder(h[j], a, "FAILED")
                                  /\ Recent(h[j], FailureWindow, h[i].at)})
           <= RetryLimit + most - 1

(***************************************************************************)
(* An approval is consumed by the response of a successful write, so the   *)
(* writes sent before that response still pass: since it was last recorded *)
(* an approval backs at most as many successful writes as calls can be     *)
(* outstanding, and exactly one when they are sent one after the other     *)
(* (the since clause of TemporalWritePrimaryPolicy; infrastructure         *)
(* README, "a named race to test").                                        *)
(***************************************************************************)
UsesPerRecording == UsesWithin(Cardinality(Connections))

(***************************************************************************)
(* The caps are checked before a write is forwarded and counted when it is *)
(* answered: in any window of time a session has at most WriteLimit        *)
(* successful writes, and an approval at most RetryLimit failed ones, plus *)
(* those that were outstanding with the last of them                       *)
(* (SessionWriteLimit and RetryLimit policies).                            *)
(***************************************************************************)
CapsOvershootByOutstanding == CapsWithin(Cardinality(Connections))

\* Before time t the session had looked the record of q up and had the
\* approval of q recorded for it, both answered within their windows.
FreshAt(h, q, t) ==
  /\ \E i \in DOMAIN h : /\ IsLookup(h[i], q) /\ h[i].result = "found"
                         /\ h[i].at <= t /\ t - h[i].at <= LookupWindow
  /\ \E i \in DOMAIN h : /\ IsApproval(h[i], q)
                         /\ h[i].at <= t /\ t - h[i].at <= ApprovalWindow

(***************************************************************************)
(* No write is under way, answered or lost on the way back unless its own  *)
(* session had the record looked up and the approval of that very record   *)
(* answered, fresh when the write was sent; and the table holds no success *)
(* without such a lookup and approval in one session, whichever responses  *)
(* were lost.                                                              *)
(***************************************************************************)
WritesBacked ==
  /\ \A k \in DOMAIN flight :
       LET c == flight[k] IN c.request.tool = "execute_write" =>
         FreshAt(events[c.pair], c.request, c.sent)
  /\ \A p \in Pairs : \A i \in DOMAIN events[p] :
       LET e == events[p][i] IN e.request.tool = "execute_write" =>
         FreshAt(events[p], e.request, e.sent)
  /\ \A o \in table : \E p \in Pairs, t \in 0..now :
       FreshAt(events[p], o, t)

-----------------------------------------------------------------------------

(***************************************************************************)
(* The local specification on the same events.                             *)
(***************************************************************************)
Local == INSTANCE TemporalPolicy WITH
  Strip <- [i \in Ids |-> i], ValidSessions <- Sessions,
  Permissions <- [c \in Callers |-> {"execute_write"}],
  version <- 0, approvals <- {}, operations <- {}

LocalHistory(h) ==
  [i \in DOMAIN h |-> [request |-> h[i].request,
                       outcome |-> IF h[i].result = "FAILED" THEN "error"
                                                            ELSE "success"]]

Recordings(h, a) == {i \in DOMAIN h : IsRecordingOf(h[i], a)}

(***************************************************************************)
(* The local specification, the Dogwood set and the managed policies state *)
(* one contract and are compared on the same trajectories.  On any events  *)
(* of the gateway they agree on a write up to what their texts differ in:  *)
(* Dogwood and the managed policies differ only for an approval recorded   *)
(* expired or for several records; the managed policies refuse what the    *)
(* local specification allows only when the lookup or the approval is no   *)
(* longer fresh, and permit what it refuses only when the approval was     *)
(* recorded more than once, has expired since, or something has left a     *)
(* counting window.                                                        *)
(***************************************************************************)
LayersAgree ==
  \A p \in Pairs, q \in Requests : q.tool = "execute_write" =>
    LET h == events[p]
        local == Local!WriteAllowed(LocalHistory(h), q, now)
        managed == WritePermitted(h, q, now)
        dogwood == DogwoodPermitted(h, q, now)
        uses == Recordings(h, q.approval)
    IN /\ (\A i \in uses : h[i].result = "valid" /\ h[i].request.record = q.record)
            => (managed <=> dogwood)
       /\ local /\ FreshAt(h, q, now) => managed
       /\ /\ managed
          /\ \A i, j \in uses : i = j
          /\ \A i \in uses : h[i].request.expiry > now
          /\ \A i \in DOMAIN h : Recent(h[i], FailureWindow, now)
          => local

(***************************************************************************)
(* What the contract says of every layer: "no successful write response    *)
(* has consumed that approval ID" when a write is allowed, so that no two  *)
(* successful writes of a session present the same approval                *)
(* (POLICY_LAB_CONTRACT.md, Temporal rules).                               *)
(***************************************************************************)
ApprovalConsumedForGood ==
  \A p \in Pairs, a \in Ids :
    Cardinality(UsesAfter(events[p], 0, a)) <= 1
=============================================================================
