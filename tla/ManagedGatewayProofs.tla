-------------------------- MODULE ManagedGatewayProofs --------------------------
(***************************************************************************)
(* Proofs about ManagedGateway for every set of callers, sessions, calls   *)
(* and connections, and every window and limit.                            *)
(***************************************************************************)
EXTENDS ManagedGateway, FiniteSetTheorems, TLAPS

LEMMA AppendLookup ==
  ASSUME NEW S, NEW h \in Seq(S), NEW e \in S
  PROVE  /\ Append(h, e) \in Seq(S)
         /\ DOMAIN h = 1..Len(h) /\ Len(h) \in Nat
         /\ DOMAIN Append(h, e) = 1..(Len(h) + 1)
         /\ Len(Append(h, e)) = Len(h) + 1
         /\ \A i \in 1..Len(h) : Append(h, e)[i] = h[i]
         /\ Append(h, e)[Len(h) + 1] = e
BY SMT

\* What the function returns is one of the results or that it raised.
LEMMA ResultTyped ==
  ASSUME NEW q \in Call
  PROVE  ResultOf(q) \in Results \cup {"pending", "raised"}
BY DEF ResultOf, Results, Call

LEMMA GatewayTypeInitial ==
  ASSUME Init
  PROVE  GatewayTypeOK
<1>1. flight \in [{} -> Carried]
  BY DEF Init
<1>2. \E busy \in SUBSET Connections : flight \in [busy -> Carried]
  BY <1>1
<1>3. now \in 0..MaxNow
  BY GatewayAssumption, SMT DEF Init
<1> QED
  BY <1>2, <1>3 DEF Init, GatewayTypeOK

LEMMA GatewayTypePreserved ==
  ASSUME GatewayTypeOK, [Next]_vars
  PROVE  GatewayTypeOK'
<1>0. PICK busy \in SUBSET Connections : flight \in [busy -> Carried]
  BY DEF GatewayTypeOK
<1>1. ASSUME NEW k \in Connections, NEW p \in Pairs, NEW q \in Requests,
             Forward(k, p, q)
      PROVE  GatewayTypeOK'
  <2>1. q \in Call
    BY GatewayAssumption
  <2>2. [pair |-> p, request |-> q, sent |-> now, result |-> "pending"] \in Carried
    BY <2>1, GatewayAssumption, SMT DEF GatewayTypeOK, Carried
  <2>3. flight' \in [busy \cup {k} -> Carried]
    BY <1>0, <1>1, <2>2 DEF Forward
  <2> QED
    BY <1>1, <2>3 DEF Forward, GatewayTypeOK
<1>2. ASSUME NEW k \in Connections, Invoke(k)
      PROVE  GatewayTypeOK'
  <2>1. k \in busy /\ flight[k] \in Carried /\ flight[k].request \in Call
    BY <1>0, <1>2 DEF Invoke, Carried
  <2>2. ResultOf(flight[k].request) \in Results \cup {"pending", "raised"}
    BY <2>1, ResultTyped
  <2>3. [flight[k] EXCEPT !.result = ResultOf(flight[k].request)] \in Carried
    BY <2>1, <2>2 DEF Carried
  <2>4. flight' \in [busy -> Carried]
    BY <1>0, <1>2, <2>1, <2>3 DEF Invoke
  <2>5. OperationOf(flight[k].request) \in Operation
    BY <2>1 DEF OperationOf, Operation, Call
  <2>6. table' \subseteq Operation
    BY <1>2, <2>5 DEF Invoke, GatewayTypeOK
  <2> QED
    BY <1>2, <2>4, <2>6 DEF Invoke, GatewayTypeOK
<1>3. ASSUME NEW k \in Connections, k \in DOMAIN flight
      PROVE  Freed(k) \in [busy \ {k} -> Carried]
  BY <1>0, <1>3 DEF Freed
<1>4. ASSUME NEW k \in Connections, Respond(k)
      PROVE  GatewayTypeOK'
  <2> DEFINE e == [request |-> flight[k].request, result |-> flight[k].result,
                   sent |-> flight[k].sent, at |-> now]
             p == flight[k].pair
  <2>1. flight[k] \in Carried /\ flight[k].result \in Results
    BY <1>0, <1>4 DEF Respond
  <2>2. e \in Response /\ p \in Pairs
    BY <2>1, GatewayAssumption, SMT DEF Carried, Response, GatewayTypeOK
  <2>3. Append(events[p], e) \in Seq(Response)
    BY <2>2, AppendLookup DEF GatewayTypeOK
  <2>4. events' = [events EXCEPT ![p] = Append(@, e)]
    BY <1>4 DEF Respond
  <2>5. events' \in [Pairs -> Seq(Response)]
    BY <2>2, <2>3, <2>4 DEF GatewayTypeOK
  <2>6. flight' \in [busy \ {k} -> Carried]
    BY <1>3, <1>4 DEF Respond
  <2> QED
    BY <1>4, <2>5, <2>6 DEF Respond, GatewayTypeOK
<1>5. ASSUME NEW k \in Connections, LoseResponse(k)
      PROVE  GatewayTypeOK'
  <2>1. flight' \in [busy \ {k} -> Carried]
    BY <1>3, <1>5 DEF LoseResponse
  <2> QED
    BY <1>5, <2>1 DEF LoseResponse, GatewayTypeOK
<1>6. CASE Tick
  <2>1. now' \in 0..MaxNow
    BY <1>6, GatewayAssumption, SMT DEF Tick, GatewayTypeOK
  <2> QED
    BY <1>6, <2>1 DEF Tick, GatewayTypeOK
<1>7. CASE UNCHANGED vars
  BY <1>7 DEF vars, GatewayTypeOK
<1> QED
  BY <1>1, <1>2, <1>4, <1>5, <1>6, <1>7 DEF Next, Deny

(***************************************************************************)
(* Events, connections and the table only ever hold well-formed calls and  *)
(* results: nothing that raised is recorded as a response.                 *)
(***************************************************************************)
THEOREM GatewayTypeCorrect == Spec => []GatewayTypeOK
<1>1. Init => GatewayTypeOK
  BY GatewayTypeInitial
<1>2. GatewayTypeOK /\ [Next]_vars => GatewayTypeOK'
  BY GatewayTypePreserved
<1> QED
  BY <1>1, <1>2, PTL DEF Spec

-----------------------------------------------------------------------------

\* No event is from the future, and a lookup is answered only when it found.
Timely ==
  /\ \A p \in Pairs : \A i \in DOMAIN events[p] :
       LET e == events[p][i]
       IN e.at <= now /\ (e.request.tool = "lookup_record" => e.result = "found")
  /\ \A k \in DOMAIN flight :
       LET c == flight[k]
       IN /\ c.sent <= now
          /\ c.request.tool = "lookup_record" => c.result \in {"pending", "found", "raised"}

BackedInv == GatewayTypeOK /\ Timely /\ WritesBacked

\* Recording one more event takes nothing from what was fresh before.
LEMMA FreshGrows ==
  ASSUME NEW h \in Seq(Response), NEW e \in Response, NEW q, NEW t,
         FreshAt(h, q, t)
  PROVE  FreshAt(Append(h, e), q, t)
<1> DEFINE g == Append(h, e)
<1>1. /\ DOMAIN h = 1..Len(h) /\ Len(h) \in Nat
      /\ DOMAIN g = 1..(Len(h) + 1)
      /\ \A i \in 1..Len(h) : g[i] = h[i]
  BY AppendLookup
<1>2. \A i \in DOMAIN h : i \in DOMAIN g /\ g[i] = h[i]
  BY <1>1, SMT
<1> HIDE DEF g
<1>3. FreshAt(g, q, t)
  BY <1>2 DEF FreshAt
<1> QED
  BY <1>3 DEF g

\* A write that the policies permit is fresh at the time of the decision.
LEMMA PermittedIsFresh ==
  ASSUME BackedInv, NEW p \in Pairs, NEW q \in Call,
         WritePermitted(events[p], q, now)
  PROVE  FreshAt(events[p], q, now)
<1>1. now \in Nat /\ events[p] \in Seq(Response)
  BY GatewayAssumption, SMT DEF BackedInv, GatewayTypeOK
<1>2. PICK i \in DOMAIN events[p] :
        IsLookup(events[p][i], q) /\ Recent(events[p][i], LookupWindow, now)
  BY DEF WritePermitted, LookedUp
<1>3. events[p][i].at <= now /\ events[p][i].result = "found"
  BY <1>2 DEF BackedInv, Timely, IsLookup
<1>4. PICK j \in DOMAIN events[p] :
        IsApproval(events[p][j], q) /\ Recent(events[p][j], ApprovalWindow, now)
  BY DEF WritePermitted, UnconsumedApproval
<1>5. events[p][j].at <= now
  BY <1>4 DEF BackedInv, Timely
<1> QED
  BY <1>2, <1>3, <1>4, <1>5 DEF FreshAt, Recent

(***************************************************************************)
(* Whatever is lost, raced or retried, no write is forwarded, answered or  *)
(* left in the table unless one session had its record looked up and its   *)
(* approval recorded, both fresh when it was sent.                         *)
(***************************************************************************)
THEOREM WritesAreBacked == Spec => []WritesBacked
<1>1. Init => BackedInv
  <2> SUFFICES ASSUME Init PROVE BackedInv
    OBVIOUS
  <2>1. GatewayTypeOK
    BY GatewayTypeInitial
  <2>2. DOMAIN flight = {} /\ \A p \in Pairs : DOMAIN events[p] = {}
    BY DEF Init
  <2> QED
    BY <2>1, <2>2 DEF Init, BackedInv, Timely, WritesBacked
<1>2. BackedInv /\ [Next]_vars => BackedInv'
  <2> SUFFICES ASSUME BackedInv, [Next]_vars PROVE Timely' /\ WritesBacked'
    BY GatewayTypePreserved DEF BackedInv
  <2>0. PICK busy \in SUBSET Connections : flight \in [busy -> Carried]
    BY DEF BackedInv, GatewayTypeOK
  <2>t. /\ now \in Nat
        /\ events \in [Pairs -> Seq(Response)]
        /\ \A k \in DOMAIN flight : /\ flight[k].request \in Call
                                    /\ flight[k].pair \in Pairs
                                    /\ flight[k].sent \in Nat
    BY <2>0, GatewayAssumption, SMT DEF BackedInv, GatewayTypeOK, Carried
  <2>1. ASSUME NEW k \in Connections, NEW p \in Pairs, NEW q \in Requests,
               Forward(k, p, q)
        PROVE  Timely' /\ WritesBacked'
    <3> DEFINE c == [pair |-> p, request |-> q, sent |-> now, result |-> "pending"]
    <3>1. q \in Call
      BY GatewayAssumption
    <3>2. /\ DOMAIN flight' = DOMAIN flight \cup {k}
          /\ flight'[k] = c
          /\ \A j \in DOMAIN flight : flight'[j] = flight[j]
      BY <2>1 DEF Forward
    <3>3. UNCHANGED <<now, events, table>>
      BY <2>1 DEF Forward
    <3>4. Timely'
      BY <2>t, <3>2, <3>3 DEF BackedInv, Timely
    <3>5. q.tool = "execute_write" => FreshAt(events[p], q, now)
      BY <2>1, <3>1, PermittedIsFresh DEF Forward, Permitted
    <3>6. \A j \in DOMAIN flight' :
            flight'[j].request.tool = "execute_write" =>
              FreshAt(events[flight'[j].pair], flight'[j].request, flight'[j].sent)
      BY <3>2, <3>5 DEF BackedInv, WritesBacked
    <3> QED
      BY <3>3, <3>4, <3>6 DEF BackedInv, WritesBacked
  <2>2. ASSUME NEW k \in Connections, Invoke(k)
        PROVE  Timely' /\ WritesBacked'
    <3> DEFINE q == flight[k].request
               o == OperationOf(q)
    <3>1. /\ k \in DOMAIN flight /\ q \in Call
          /\ DOMAIN flight' = DOMAIN flight
          /\ flight'[k].result = ResultOf(q)
          /\ \A j \in DOMAIN flight : /\ flight'[j].request = flight[j].request
                                      /\ flight'[j].pair = flight[j].pair
                                      /\ flight'[j].sent = flight[j].sent
          /\ \A j \in DOMAIN flight \ {k} : flight'[j] = flight[j]
      BY <2>0, <2>2, <2>t DEF Invoke, Carried
    <3>2. UNCHANGED <<now, events>>
      BY <2>2 DEF Invoke
    <3>3. q.tool = "lookup_record" => ResultOf(q) \in {"pending", "found", "raised"}
      BY DEF ResultOf
    <3>4. Timely'
      BY <3>1, <3>2, <3>3 DEF BackedInv, Timely
    <3>5. q.tool = "execute_write" => FreshAt(events[flight[k].pair], o, flight[k].sent)
      BY <3>1 DEF BackedInv, WritesBacked, FreshAt, OperationOf, IsLookup, IsApproval
    <3>6. flight[k].pair \in Pairs /\ flight[k].sent \in 0..now
      BY <2>t, <3>1, SMT DEF BackedInv, Timely
    <3>7. \A u \in table' : \E p \in Pairs, t \in 0..now : FreshAt(events[p], u, t)
      BY <2>2, <3>5, <3>6 DEF Invoke, BackedInv, WritesBacked
    <3>8. \A j \in DOMAIN flight' :
            flight'[j].request.tool = "execute_write" =>
              FreshAt(events[flight'[j].pair], flight'[j].request, flight'[j].sent)
      BY <3>1 DEF BackedInv, WritesBacked
    <3> QED
      BY <3>2, <3>4, <3>7, <3>8 DEF BackedInv, WritesBacked
  <2>3. ASSUME NEW k \in Connections, Respond(k)
        PROVE  Timely' /\ WritesBacked'
    <3> DEFINE c == flight[k]
               e == [request |-> c.request, result |-> c.result,
                     sent |-> c.sent, at |-> now]
    <3>1. /\ k \in DOMAIN flight /\ c.result \in Results
          /\ c \in Carried /\ c.pair \in Pairs
          /\ DOMAIN flight' \subseteq DOMAIN flight
          /\ \A j \in DOMAIN flight' : flight'[j] = flight[j]
      BY <2>0, <2>3, <2>t DEF Respond, Freed
    <3>2. e \in Response
      BY <2>t, <3>1 DEF Carried, Response
    <3>3. /\ events' = [events EXCEPT ![c.pair] = Append(@, e)]
          /\ UNCHANGED <<now, table>>
      BY <2>3 DEF Respond
    <3>4. /\ events'[c.pair] = Append(events[c.pair], e)
          /\ \A p \in Pairs : p # c.pair => events'[p] = events[p]
      BY <2>t, <3>1, <3>3
    <3>5. \A p \in Pairs : \A i \in DOMAIN events'[p] :
            \/ i \in DOMAIN events[p] /\ events'[p][i] = events[p][i]
            \/ p = c.pair /\ events'[p][i] = e
      <4> SUFFICES ASSUME NEW p \in Pairs, NEW i \in DOMAIN events'[p], p = c.pair
                   PROVE  \/ i \in DOMAIN events[p] /\ events'[p][i] = events[p][i]
                          \/ events'[p][i] = e
        BY <3>4
      <4> DEFINE h == events[p]
      <4>1. h \in Seq(Response)
        BY <2>t
      <4>2. /\ DOMAIN h = 1..Len(h) /\ Len(h) \in Nat
            /\ DOMAIN Append(h, e) = 1..(Len(h) + 1)
            /\ \A j \in 1..Len(h) : Append(h, e)[j] = h[j]
            /\ Append(h, e)[Len(h) + 1] = e
        BY <3>2, <4>1, AppendLookup
      <4>3. i \in 1..(Len(h) + 1) /\ events'[p][i] = Append(h, e)[i]
        BY <3>4, <4>2
      <4>4. i \in 1..Len(h) \/ i = Len(h) + 1
        BY <4>2, <4>3, SMT
      <4> QED
        BY <4>2, <4>3, <4>4
    <3>6. \A u, t : \A p \in Pairs : FreshAt(events[p], u, t) => FreshAt(events'[p], u, t)
      BY <2>t, <3>2, <3>4, FreshGrows
    <3>7. e.at <= now /\ (e.request.tool = "lookup_record" => e.result = "found")
      BY <2>t, <3>1, SMT DEF BackedInv, Timely, Results
    <3>8. Timely'
      BY <3>1, <3>3, <3>5, <3>7 DEF BackedInv, Timely
    <3>9. e.request.tool = "execute_write" => FreshAt(events[c.pair], e.request, e.sent)
      BY <3>1 DEF BackedInv, WritesBacked
    <3>10. \A p \in Pairs : \A i \in DOMAIN events'[p] :
             events'[p][i].request.tool = "execute_write" =>
               FreshAt(events'[p], events'[p][i].request, events'[p][i].sent)
      <4> SUFFICES ASSUME NEW p \in Pairs, NEW i \in DOMAIN events'[p],
                          events'[p][i].request.tool = "execute_write"
                   PROVE  FreshAt(events'[p], events'[p][i].request, events'[p][i].sent)
        OBVIOUS
      <4>1. CASE i \in DOMAIN events[p] /\ events'[p][i] = events[p][i]
        <5>1. FreshAt(events[p], events[p][i].request, events[p][i].sent)
          BY <4>1 DEF BackedInv, WritesBacked
        <5> QED
          BY <3>6, <4>1, <5>1
      <4>2. CASE p = c.pair /\ events'[p][i] = e
        BY <3>6, <3>9, <4>2
      <4> QED
        BY <3>5, <4>1, <4>2
    <3>11. \A j \in DOMAIN flight' :
             flight'[j].request.tool = "execute_write" =>
               FreshAt(events'[flight'[j].pair], flight'[j].request, flight'[j].sent)
      <4> SUFFICES ASSUME NEW j \in DOMAIN flight',
                          flight'[j].request.tool = "execute_write"
                   PROVE  FreshAt(events'[flight'[j].pair], flight'[j].request,
                                  flight'[j].sent)
        OBVIOUS
      <4>1. j \in DOMAIN flight /\ flight'[j] = flight[j] /\ flight[j].pair \in Pairs
        BY <2>t, <3>1
      <4>2. FreshAt(events[flight[j].pair], flight[j].request, flight[j].sent)
        BY <4>1 DEF BackedInv, WritesBacked
      <4> QED
        BY <3>6, <4>1, <4>2
    <3>12. \A u \in table' : \E p \in Pairs, t \in 0..now' : FreshAt(events'[p], u, t)
      BY <3>3, <3>6 DEF BackedInv, WritesBacked
    <3> QED
      BY <3>8, <3>10, <3>11, <3>12 DEF WritesBacked
  <2>4. ASSUME NEW k \in Connections, LoseResponse(k)
        PROVE  Timely' /\ WritesBacked'
    <3>1. /\ DOMAIN flight' \subseteq DOMAIN flight
          /\ \A j \in DOMAIN flight' : flight'[j] = flight[j]
          /\ UNCHANGED <<now, events, table>>
      BY <2>4 DEF LoseResponse, Freed
    <3> QED
      BY <3>1 DEF BackedInv, Timely, WritesBacked
  <2>5. CASE Tick
    <3>1. now' = now + 1 /\ UNCHANGED <<events, flight, table>>
      BY <2>5 DEF Tick
    <3>2. \A p \in Pairs : \A i \in DOMAIN events[p] : events[p][i].at \in Nat
      <4> SUFFICES ASSUME NEW p \in Pairs, NEW i \in DOMAIN events[p]
                   PROVE  events[p][i].at \in Nat
        OBVIOUS
      <4>1. events[p] \in Seq(Response)
        BY <2>t
      <4>2. events[p][i] \in Response
        BY <4>1, SMT
      <4> QED
        BY <4>2 DEF Response
    <3>3. Timely'
      BY <2>t, <3>1, <3>2, SMT DEF BackedInv, Timely
    <3>4. 0..now \subseteq 0..now'
      BY <2>t, <3>1, SMT
    <3> QED
      BY <3>1, <3>3, <3>4 DEF BackedInv, WritesBacked
  <2>6. CASE UNCHANGED vars
    BY <2>6 DEF vars, BackedInv, Timely, WritesBacked
  <2> QED
    BY <2>1, <2>2, <2>3, <2>4, <2>5, <2>6 DEF Next, Deny
<1>3. BackedInv => WritesBacked
  BY DEF BackedInv
<1> QED
  BY <1>1, <1>2, <1>3, PTL DEF Spec

-----------------------------------------------------------------------------

\* No more than this many calls are outstanding.
AtOnce(most) == Cardinality(DOMAIN flight) <= most

LEMMA FlightFinite ==
  ASSUME GatewayTypeOK
  PROVE  IsFiniteSet(DOMAIN flight) /\ AtOnce(Cardinality(Connections))
<1>1. DOMAIN flight \subseteq Connections
  BY DEF GatewayTypeOK
<1> QED
  BY <1>1, GatewayAssumption, FS_Subset DEF AtOnce

\* The writes of pair p under approval a that are not answered yet.
Unanswered(p, a) ==
  {k \in DOMAIN flight : /\ flight[k].pair = p
                         /\ flight[k].request.tool = "execute_write"
                         /\ flight[k].request.approval = a}

IsLatestRecording(h, i, a) ==
  /\ IsRecordingOf(h[i], a)
  /\ \A j \in DOMAIN h : IsRecordingOf(h[j], a) => j <= i

\* Once an approval was used since its latest recording nothing more is
\* forwarded under it, so what is used and what is unanswered was outstanding
\* together when the first use was answered.
OutstandingInv(most) ==
  \A p \in Pairs, a \in Ids : \A i \in DOMAIN events[p] :
    IsLatestRecording(events[p], i, a) /\ UsesAfter(events[p], i, a) # {} =>
      Cardinality(UsesAfter(events[p], i, a)) + Cardinality(Unanswered(p, a))
        <= most

UsesInv(most) == GatewayTypeOK /\ OutstandingInv(most)

LEMMA UsesFinite ==
  ASSUME NEW h \in Seq(Response), NEW i \in Nat, NEW a
  PROVE  /\ IsFiniteSet(UsesAfter(h, i, a))
         /\ Cardinality(UsesAfter(h, i, a)) \in Nat
<1>1. Len(h) \in Nat
  BY SMT
<1>2. IsFiniteSet((i + 1)..Len(h))
  BY <1>1, FS_Interval
<1>3. UsesAfter(h, i, a) \subseteq (i + 1)..Len(h)
  BY DEF UsesAfter
<1> QED
  BY <1>2, <1>3, FS_Subset, FS_CardinalityType

LEMMA UnansweredFinite ==
  ASSUME GatewayTypeOK, NEW p, NEW a
  PROVE  /\ IsFiniteSet(Unanswered(p, a))
         /\ Cardinality(Unanswered(p, a)) \in Nat
         /\ \A most \in Nat : AtOnce(most) => Cardinality(Unanswered(p, a)) <= most
<1>1. Unanswered(p, a) \subseteq DOMAIN flight
  BY DEF Unanswered
<1>2. /\ IsFiniteSet(DOMAIN flight) /\ IsFiniteSet(Unanswered(p, a))
      /\ Cardinality(Unanswered(p, a)) <= Cardinality(DOMAIN flight)
  BY <1>1, FlightFinite, FS_Subset
<1> QED
  BY <1>2, FS_CardinalityType DEF AtOnce

\* A permitted write presents an approval unused since its latest recording.
LEMMA PermittedIsUnused ==
  ASSUME NEW h \in Seq(Response), NEW q \in Call, NEW t,
         WritePermitted(h, q, t),
         NEW i \in DOMAIN h, IsLatestRecording(h, i, q.approval)
  PROVE  UsesAfter(h, i, q.approval) = {}
<1>1. PICK j \in DOMAIN h :
        IsApproval(h[j], q) /\ \A u \in (j + 1)..Len(h) : ~Consumes(h[u], q)
  BY DEF WritePermitted, UnconsumedApproval
<1>2. j <= i
  BY <1>1 DEF IsLatestRecording, IsRecordingOf, IsApproval
<1>3. i \in Nat /\ j \in Nat
  BY SMT
<1>4. (i + 1)..Len(h) \subseteq (j + 1)..Len(h)
  BY <1>2, <1>3, SMT
<1> QED
  BY <1>1, <1>4 DEF UsesAfter, IsWriteUnder, Consumes

LEMMA UsesStart ==
  ASSUME Init, NEW most \in Nat
  PROVE  UsesInv(most)
<1>1. \A p \in Pairs : DOMAIN events[p] = {}
  BY DEF Init
<1> QED
  BY <1>1, GatewayTypeInitial DEF UsesInv, OutstandingInv

LEMMA UsesStep ==
  ASSUME NEW most \in Nat, UsesInv(most), AtOnce(most), [Next]_vars
  PROVE  UsesInv(most)'
<1> SUFFICES OutstandingInv(most)'
  BY GatewayTypePreserved DEF UsesInv
<1>0. GatewayTypeOK'
  BY GatewayTypePreserved DEF UsesInv
<1>t. events \in [Pairs -> Seq(Response)]
  BY DEF UsesInv, GatewayTypeOK
<1>n. most \in Nat
  OBVIOUS
<1>u. ASSUME UNCHANGED events,
             \A p \in Pairs, a \in Ids : Unanswered(p, a)' \subseteq Unanswered(p, a)
      PROVE  OutstandingInv(most)'
  <2> SUFFICES ASSUME NEW p \in Pairs, NEW a \in Ids, NEW i \in DOMAIN events[p],
                      IsLatestRecording(events[p], i, a),
                      UsesAfter(events[p], i, a) # {}
               PROVE  Cardinality(UsesAfter(events[p], i, a))
                        + Cardinality(Unanswered(p, a)') <= most
    BY <1>u DEF OutstandingInv
  <2>1. Cardinality(UsesAfter(events[p], i, a)) + Cardinality(Unanswered(p, a))
          <= most
    BY DEF UsesInv, OutstandingInv
  <2>2. /\ IsFiniteSet(Unanswered(p, a)) /\ Cardinality(Unanswered(p, a)) \in Nat
    BY UnansweredFinite DEF UsesInv
  <2>3. /\ Cardinality(Unanswered(p, a)') <= Cardinality(Unanswered(p, a))
        /\ Cardinality(Unanswered(p, a)') \in Nat
    BY <1>u, <2>2, FS_Subset, FS_CardinalityType
  <2>4. i \in Nat /\ Cardinality(UsesAfter(events[p], i, a)) \in Nat
    <3>1. events[p] \in Seq(Response)
      BY <1>t
    <3>2. i \in Nat
      BY <3>1, SMT
    <3> QED
      BY <3>1, <3>2, UsesFinite
  <2> QED
    BY <1>n, <2>1, <2>2, <2>3, <2>4, SMT
<1>1. ASSUME NEW k \in Connections, NEW p \in Pairs, NEW q \in Requests,
             Forward(k, p, q)
      PROVE  OutstandingInv(most)'
  <2>1. q \in Call /\ UNCHANGED events
    BY <1>1, GatewayAssumption DEF Forward
  <2>2. /\ DOMAIN flight' = DOMAIN flight \cup {k}
        /\ flight'[k].pair = p /\ flight'[k].request = q
        /\ \A j \in DOMAIN flight : j # k /\ flight'[j] = flight[j]
    BY <1>1 DEF Forward
  <2> SUFFICES ASSUME NEW r \in Pairs, NEW a \in Ids, NEW i \in DOMAIN events[r],
                      IsLatestRecording(events[r], i, a),
                      UsesAfter(events[r], i, a) # {}
               PROVE  Cardinality(UsesAfter(events[r], i, a))
                        + Cardinality(Unanswered(r, a)') <= most
    BY <2>1 DEF OutstandingInv
  <2>3. ~(r = p /\ q.tool = "execute_write" /\ q.approval = a)
    <3> SUFFICES ASSUME r = p, q.tool = "execute_write", q.approval = a
                 PROVE  FALSE
      OBVIOUS
    <3>1. WritePermitted(events[p], q, now)
      BY <1>1 DEF Forward, Permitted
    <3>2. events[p] \in Seq(Response)
      BY <1>t
    <3> QED
      BY <2>1, <3>1, <3>2, PermittedIsUnused
  <2>4. Unanswered(r, a)' = Unanswered(r, a)
    BY <2>2, <2>3 DEF Unanswered
  <2> QED
    BY <2>4 DEF UsesInv, OutstandingInv
<1>2. ASSUME NEW k \in Connections, Invoke(k)
      PROVE  OutstandingInv(most)'
  <2>1. PICK busy \in SUBSET Connections : flight \in [busy -> Carried]
    BY DEF UsesInv, GatewayTypeOK
  <2>2. /\ DOMAIN flight' = DOMAIN flight
        /\ \A j \in DOMAIN flight : /\ flight'[j].request = flight[j].request
                                    /\ flight'[j].pair = flight[j].pair
    BY <1>2, <2>1 DEF Invoke, Carried
  <2>3. UNCHANGED events
    BY <1>2 DEF Invoke
  <2> QED
    BY <1>u, <2>2, <2>3 DEF Unanswered
<1>3. ASSUME NEW k \in Connections, Respond(k)
      PROVE  OutstandingInv(most)'
  <2> DEFINE c == flight[k]
             e == [request |-> c.request, result |-> c.result,
                   sent |-> c.sent, at |-> now]
  <2>0. PICK busy \in SUBSET Connections : flight \in [busy -> Carried]
    BY DEF UsesInv, GatewayTypeOK
  <2>1. k \in DOMAIN flight /\ c \in Carried /\ c.pair \in Pairs /\ c.result \in Results
    BY <1>3, <2>0 DEF Respond, Carried
  <2>2. e \in Response
    BY <2>1, GatewayAssumption, SMT DEF Carried, Response, UsesInv, GatewayTypeOK
  <2>3. /\ events'[c.pair] = Append(events[c.pair], e)
        /\ \A p \in Pairs : p # c.pair => events'[p] = events[p]
    BY <1>3, <1>t, <2>1 DEF Respond
  <2>4. /\ DOMAIN flight' = DOMAIN flight \ {k}
        /\ \A j \in DOMAIN flight' : flight'[j] = flight[j]
    BY <1>3 DEF Respond, Freed
  <2>5. \A p, a : Unanswered(p, a)' = Unanswered(p, a) \ {k}
    BY <2>4 DEF Unanswered
  <2> SUFFICES ASSUME NEW p \in Pairs, NEW a \in Ids, NEW i \in DOMAIN events'[p],
                      IsLatestRecording(events'[p], i, a),
                      UsesAfter(events'[p], i, a) # {}
               PROVE  Cardinality(UsesAfter(events'[p], i, a))
                        + Cardinality(Unanswered(p, a)') <= most
    BY DEF OutstandingInv
  <2> DEFINE h == events[p]
             U == Unanswered(p, a)
  <2>6. h \in Seq(Response)
    BY <1>t
  <2>7. /\ IsFiniteSet(U) /\ Cardinality(U) \in Nat
        /\ Cardinality(U) <= most
    BY UnansweredFinite DEF UsesInv
  <2>8. /\ Cardinality(U \ {k}) \in Nat
        /\ Cardinality(U \ {k}) = IF k \in U THEN Cardinality(U) - 1 ELSE Cardinality(U)
    BY <2>7, FS_RemoveElement, FS_CardinalityType
  <2>9. CASE p # c.pair
    <3>1. events'[p] = h /\ k \notin U
      BY <2>3, <2>9 DEF Unanswered
    <3> QED
      BY <2>5, <2>8, <3>1 DEF UsesInv, OutstandingInv
  <2>10. CASE p = c.pair
    <3> DEFINE g == Append(h, e)
    <3>1. /\ DOMAIN h = 1..Len(h) /\ Len(h) \in Nat
          /\ DOMAIN g = 1..(Len(h) + 1) /\ Len(g) = Len(h) + 1
          /\ \A j \in 1..Len(h) : g[j] = h[j]
          /\ g[Len(h) + 1] = e
      BY <2>2, <2>6, AppendLookup
    <3>2. events'[p] = g
      BY <2>3, <2>10
    <3> HIDE DEF g, e
    <3>3. i \in 1..(Len(h) + 1) /\ IsLatestRecording(g, i, a) /\ UsesAfter(g, i, a) # {}
      BY <3>1, <3>2
    <3>4. i # Len(h) + 1
      <4> SUFFICES ASSUME i = Len(h) + 1 PROVE FALSE
        OBVIOUS
      <4>1. (i + 1)..Len(g) = {}
        BY <3>1, SMT
      <4> QED
        BY <3>3, <4>1 DEF UsesAfter
    <3>5. i \in DOMAIN h /\ i \in Nat /\ i <= Len(h)
      BY <3>1, <3>3, <3>4, SMT
    <3>6. IsLatestRecording(h, i, a)
      <4>1. \A j \in DOMAIN h : j \in DOMAIN g /\ g[j] = h[j]
        BY <3>1, SMT
      <4> QED
        BY <3>3, <3>5, <4>1 DEF IsLatestRecording
    <3>7. IF IsWriteUnder(e, a, "SUCCEEDED")
            THEN UsesAfter(g, i, a) = UsesAfter(h, i, a) \cup {Len(h) + 1}
            ELSE UsesAfter(g, i, a) = UsesAfter(h, i, a)
      <4>1. (i + 1)..Len(g) = ((i + 1)..Len(h)) \cup {Len(h) + 1}
        BY <3>1, <3>5, SMT
      <4>2. \A j \in (i + 1)..Len(h) : g[j] = h[j]
        BY <3>1, <3>5, SMT
      <4> QED
        BY <3>1, <4>1, <4>2 DEF UsesAfter
    <3>8. /\ IsFiniteSet(UsesAfter(h, i, a))
          /\ Cardinality(UsesAfter(h, i, a)) \in Nat
      BY <2>6, <3>5, UsesFinite
    <3>9. UsesAfter(h, i, a) # {} =>
            Cardinality(UsesAfter(h, i, a)) + Cardinality(U) <= most
      BY <3>5, <3>6 DEF UsesInv, OutstandingInv
    <3>10. UsesAfter(h, i, a) = {} => Cardinality(UsesAfter(h, i, a)) = 0
      BY FS_EmptySet
    <3>11. CASE IsWriteUnder(e, a, "SUCCEEDED")
      <4>1. k \in U
        BY <2>1, <2>10, <3>11 DEF e, IsWriteUnder, Unanswered
      <4>2. Len(h) + 1 \notin UsesAfter(h, i, a)
        BY <3>1, SMT DEF UsesAfter
      <4>3. Cardinality(UsesAfter(g, i, a)) = Cardinality(UsesAfter(h, i, a)) + 1
        BY <3>7, <3>8, <3>11, <4>2, FS_AddElement
      <4>4. Cardinality(UsesAfter(g, i, a)) + Cardinality(U \ {k})
              <= most
        BY <1>n, <2>7, <2>8, <3>8, <3>9, <3>10, <4>1, <4>3, SMT
      <4> QED
        BY <2>5, <3>2, <4>4
    <3>12. CASE ~IsWriteUnder(e, a, "SUCCEEDED")
      <4>1. UsesAfter(g, i, a) = UsesAfter(h, i, a) /\ UsesAfter(h, i, a) # {}
        BY <3>3, <3>7, <3>12
      <4>2. Cardinality(UsesAfter(g, i, a)) + Cardinality(U \ {k})
              <= most
        BY <1>n, <2>7, <2>8, <3>8, <3>9, <4>1, SMT
      <4> QED
        BY <2>5, <3>2, <4>2
    <3> QED
      BY <3>11, <3>12
  <2> QED
    BY <2>9, <2>10
<1>4. ASSUME NEW k \in Connections, LoseResponse(k)
      PROVE  OutstandingInv(most)'
  <2>1. /\ DOMAIN flight' \subseteq DOMAIN flight
        /\ \A j \in DOMAIN flight' : flight'[j] = flight[j]
        /\ UNCHANGED events
    BY <1>4 DEF LoseResponse, Freed
  <2> QED
    BY <1>u, <2>1 DEF Unanswered
<1>5. CASE Tick
  BY <1>u, <1>5 DEF Tick, Unanswered
<1>6. CASE UNCHANGED vars
  BY <1>u, <1>6 DEF vars, Unanswered
<1> QED
  BY <1>1, <1>2, <1>3, <1>4, <1>5, <1>6 DEF Next, Deny

LEMMA UsesFollow ==
  ASSUME NEW most \in Nat, UsesInv(most)
  PROVE  UsesWithin(most)
<1> SUFFICES ASSUME NEW p \in Pairs, NEW i \in DOMAIN events[p], NEW a,
                    a = events[p][i].request.approval, IsLatestRecording(events[p], i, a)
             PROVE  Cardinality(UsesAfter(events[p], i, a)) <= most
  BY DEF UsesWithin, IsLatestRecording
<1>a. a \in Ids
  <2>1. events[p] \in Seq(Response)
    BY DEF UsesInv, GatewayTypeOK
  <2>2. events[p][i] \in Response
    BY <2>1
  <2> QED
    BY <2>2 DEF Response, Call
<1>1. events[p] \in Seq(Response) /\ i \in Nat
  <2>1. events[p] \in Seq(Response)
    BY DEF UsesInv, GatewayTypeOK
  <2> QED
    BY <2>1, SMT
<1>2. /\ Cardinality(UsesAfter(events[p], i, a)) \in Nat
      /\ Cardinality(Unanswered(p, a)) \in Nat
  BY <1>1, UsesFinite, UnansweredFinite DEF UsesInv
<1>3. CASE UsesAfter(events[p], i, a) = {}
  BY <1>2, <1>3, FS_EmptySet, SMT
<1>4. CASE UsesAfter(events[p], i, a) # {}
  <2>1. Cardinality(UsesAfter(events[p], i, a)) + Cardinality(Unanswered(p, a))
          <= most
    BY <1>a, <1>4 DEF UsesInv, OutstandingInv
  <2> QED
    BY <1>2, <2>1, SMT
<1> QED
  BY <1>3, <1>4

(***************************************************************************)
(* The race around consumption is bounded by the callers' own concurrency: *)
(* since its latest recording an approval backs no more successful writes  *)
(* than there are connections, and a single one when there is only one.    *)
(***************************************************************************)
THEOREM UsesAreBounded == Spec => []UsesPerRecording
<1> DEFINE most == Cardinality(Connections)
<1>0. most \in Nat
  BY GatewayAssumption, FS_CardinalityType
<1>1. Init => UsesInv(most)
  BY <1>0, UsesStart
<1>2. UsesInv(most) /\ [Next]_vars => UsesInv(most)'
  BY <1>0, UsesStep, FlightFinite DEF UsesInv
<1>3. UsesInv(most) => UsesPerRecording
  BY <1>0, UsesFollow DEF UsesPerRecording
<1> HIDE DEF most
<1> QED
  BY <1>1, <1>2, <1>3, PTL DEF Spec
-----------------------------------------------------------------------------

\* The responses among the first n of h that a cap counts at time t: those
\* with this result, under an approval of A, within the window.
Tally(h, n, result, A, window, t) ==
  {j \in 1..n : /\ h[j].result = result
                /\ h[j].request.approval \in A
                /\ Recent(h[j], window, t)}

\* The writes of pair p under an approval of A that are not answered yet.
Outstanding(p, A) ==
  {k \in DOMAIN flight : /\ flight[k].pair = p
                         /\ flight[k].request.tool = "execute_write"
                         /\ flight[k].request.approval \in A}

\* What is counted now and what is outstanding were below the limit, or
\* outstanding together, when the last of them was forwarded; hence what was
\* counted when any response was recorded.
CountInv(result, A, window, limit, most) ==
  \A p \in Pairs :
    /\ Cardinality(Tally(events[p], Len(events[p]), result, A, window, now))
         + Cardinality(Outstanding(p, A)) <= limit + most - 1
    /\ \A i \in DOMAIN events[p] :
         Cardinality(Tally(events[p], i, result, A, window, events[p][i].at))
           <= limit + most - 1

\* Only a write succeeds or fails in the function.
OnlyWrites ==
  \A k \in DOMAIN flight :
    flight[k].result \in {"SUCCEEDED", "FAILED"} =>
      flight[k].request.tool = "execute_write"

CapsInv(most) ==
  /\ GatewayTypeOK
  /\ OnlyWrites
  /\ CountInv("SUCCEEDED", Ids, SessionWindow, WriteLimit, most)
  /\ \A a \in Ids : CountInv("FAILED", {a}, FailureWindow, RetryLimit, most)

(* One more element adds at most one to the size of a finite set. *)
LEMMA OneMore ==
  ASSUME NEW S, NEW x, IsFiniteSet(S)
  PROVE  /\ IsFiniteSet(S \cup {x}) /\ Cardinality(S) \in Nat
         /\ Cardinality(S \cup {x}) \in Nat
         /\ Cardinality(S \cup {x}) <= Cardinality(S) + 1
<1>1. IsFiniteSet(S \cup {x})
  BY FS_AddElement
<1>2. Cardinality(S) \in Nat /\ Cardinality(S \cup {x}) \in Nat
  BY <1>1, FS_CardinalityType
<1>3. \/ Cardinality(S \cup {x}) = Cardinality(S)
      \/ Cardinality(S \cup {x}) = Cardinality(S) + 1
  BY FS_AddElement
<1> QED
  BY <1>1, <1>2, <1>3

(* What a policy counts, and what is outstanding, are finite sets. *)
LEMMA TallyFinite ==
  ASSUME NEW h, NEW n \in Nat, NEW result, NEW A, NEW window, NEW t
  PROVE  /\ IsFiniteSet(Tally(h, n, result, A, window, t))
         /\ Cardinality(Tally(h, n, result, A, window, t)) \in Nat
<1>1. IsFiniteSet(1..n)
  BY FS_Interval
<1>2. Tally(h, n, result, A, window, t) \subseteq 1..n
  BY DEF Tally
<1> QED
  BY <1>1, <1>2, FS_Subset, FS_CardinalityType

\* Time takes responses out of the window and brings none in.
LEMMA TallyShrinks ==
  ASSUME NEW h \in Seq(Response), NEW n \in 0..Len(h), NEW result, NEW A,
         NEW window \in Nat, NEW t \in Nat, NEW u \in Nat, t <= u
  PROVE  Tally(h, n, result, A, window, u) \subseteq Tally(h, n, result, A, window, t)
<1> SUFFICES ASSUME NEW j \in 1..n, Recent(h[j], window, u)
             PROVE  Recent(h[j], window, t)
  BY DEF Tally
<1>1. h[j] \in Response
  BY SMT
<1>2. h[j].at \in Nat
  BY <1>1 DEF Response
<1> QED
  BY <1>2, SMT DEF Recent

LEMMA OutstandingFinite ==
  ASSUME GatewayTypeOK, NEW p, NEW A
  PROVE  /\ IsFiniteSet(Outstanding(p, A))
         /\ Cardinality(Outstanding(p, A)) \in Nat
         /\ \A most \in Nat : AtOnce(most) => Cardinality(Outstanding(p, A)) <= most
<1>1. Outstanding(p, A) \subseteq DOMAIN flight
  BY DEF Outstanding
<1>2. /\ IsFiniteSet(DOMAIN flight) /\ IsFiniteSet(Outstanding(p, A))
      /\ Cardinality(Outstanding(p, A)) <= Cardinality(DOMAIN flight)
  BY <1>1, FlightFinite, FS_Subset
<1> QED
  BY <1>2, FS_CardinalityType DEF AtOnce

(* Smaller sets stay within a bound on the sum of their sizes. *)
LEMMA Fewer ==
  ASSUME NEW S, IsFiniteSet(S), NEW U, IsFiniteSet(U),
         NEW V \in SUBSET S, NEW W \in SUBSET U, NEW bound \in Int,
         Cardinality(S) + Cardinality(U) <= bound
  PROVE  Cardinality(V) + Cardinality(W) <= bound
<1>1. /\ Cardinality(S) \in Nat /\ Cardinality(U) \in Nat
      /\ Cardinality(V) \in Nat /\ Cardinality(W) \in Nat
  BY FS_Subset, FS_CardinalityType
<1>2. Cardinality(V) <= Cardinality(S) /\ Cardinality(W) <= Cardinality(U)
  BY FS_Subset
<1> QED
  BY <1>1, <1>2

\* A count that the policies keep below its limit at every forwarded write
\* stays below the limit and the outstanding calls.
LEMMA CountStep ==
  ASSUME GatewayTypeOK, OnlyWrites, [Next]_vars,
         NEW result \in {"SUCCEEDED", "FAILED"}, NEW A \in SUBSET Ids,
         NEW window \in Nat, NEW limit \in Nat \ {0},
         NEW most \in Nat, AtOnce(most), AtOnce(most)',
         CountInv(result, A, window, limit, most),
         \A p \in Pairs : \A q \in Call :
           q.approval \in A /\ WritePermitted(events[p], q, now) =>
             Cardinality(Tally(events[p], Len(events[p]), result, A, window, now)) < limit
  PROVE  CountInv(result, A, window, limit, most)'
<1> DEFINE T(h, n, t) == Tally(h, n, result, A, window, t)
           bound == limit + most - 1
<1>0. GatewayTypeOK'
  BY GatewayTypePreserved
<1>b. PICK busy \in SUBSET Connections : flight \in [busy -> Carried]
  BY DEF GatewayTypeOK
<1>t. /\ now \in Nat /\ events \in [Pairs -> Seq(Response)]
      /\ \A p \in Pairs : events[p] \in Seq(Response) /\ Len(events[p]) \in Nat
  BY GatewayAssumption, SMT DEF GatewayTypeOK
<1>n. most \in Nat /\ bound \in Int
  OBVIOUS
<1>i. \A p \in Pairs :
        /\ Cardinality(T(events[p], Len(events[p]), now)) + Cardinality(Outstanding(p, A))
             <= bound
        /\ \A i \in DOMAIN events[p] :
             Cardinality(T(events[p], i, events[p][i].at)) <= bound
  BY DEF CountInv
<1>s. ASSUME UNCHANGED events, now' \in Nat, now <= now',
             \A p \in Pairs : Outstanding(p, A)' \subseteq Outstanding(p, A)
      PROVE  CountInv(result, A, window, limit, most)'
  <2> SUFFICES ASSUME NEW p \in Pairs
               PROVE  Cardinality(T(events[p], Len(events[p]), now'))
                        + Cardinality(Outstanding(p, A)') <= bound
    BY <1>i, <1>s DEF CountInv
  <2>1. T(events[p], Len(events[p]), now') \subseteq T(events[p], Len(events[p]), now)
    <3>1. events[p] \in Seq(Response) /\ Len(events[p]) \in 0..Len(events[p])
      BY <1>t
    <3> QED
      BY <1>t, <1>s, <3>1, TallyShrinks
  <2>2. IsFiniteSet(T(events[p], Len(events[p]), now)) /\ IsFiniteSet(Outstanding(p, A))
    BY <1>t, TallyFinite, OutstandingFinite
  <2>3. Cardinality(T(events[p], Len(events[p]), now)) + Cardinality(Outstanding(p, A))
          <= bound
    BY <1>i
  <2>4. Outstanding(p, A)' \subseteq Outstanding(p, A)
    BY <1>s
  <2> QED
    BY <1>n, <2>1, <2>2, <2>3, <2>4, Fewer
<1>1. ASSUME NEW k \in Connections, NEW p \in Pairs, NEW q \in Requests,
             Forward(k, p, q)
      PROVE  CountInv(result, A, window, limit, most)'
  <2>1. q \in Call /\ UNCHANGED <<events, now>>
    BY <1>1, GatewayAssumption DEF Forward
  <2>2. /\ DOMAIN flight' = DOMAIN flight \cup {k}
        /\ flight'[k].pair = p /\ flight'[k].request = q
        /\ \A j \in DOMAIN flight : j # k /\ flight'[j] = flight[j]
    BY <1>1 DEF Forward
  <2> SUFFICES ASSUME NEW r \in Pairs
               PROVE  Cardinality(T(events[r], Len(events[r]), now))
                        + Cardinality(Outstanding(r, A)') <= bound
    BY <1>i, <2>1 DEF CountInv
  <2>3. CASE r = p /\ q.tool = "execute_write" /\ q.approval \in A
    <3>1. WritePermitted(events[p], q, now)
      BY <1>1, <2>3 DEF Forward, Permitted
    <3>2. Cardinality(T(events[r], Len(events[r]), now)) < limit
      BY <2>1, <2>3, <3>1
    <3>3. Cardinality(T(events[r], Len(events[r]), now)) \in Nat
      BY <1>t, TallyFinite
    <3>4. /\ Cardinality(Outstanding(r, A)') \in Nat
          /\ Cardinality(Outstanding(r, A)') <= most
      <4>1. IsFiniteSet(DOMAIN flight)'
        BY <1>0, FlightFinite, PTL
      <4>2. Cardinality(DOMAIN flight') <= most
        BY DEF AtOnce
      <4>3. Outstanding(r, A)' \subseteq DOMAIN flight'
        BY DEF Outstanding
      <4> QED
        BY <4>1, <4>2, <4>3, FS_Subset, FS_CardinalityType
    <3> QED
      BY <1>n, <3>2, <3>3, <3>4
  <2>4. CASE ~(r = p /\ q.tool = "execute_write" /\ q.approval \in A)
    <3>1. Outstanding(r, A)' = Outstanding(r, A)
      BY <2>2, <2>4 DEF Outstanding
    <3> QED
      BY <1>i, <3>1
  <2> QED
    BY <2>3, <2>4
<1>2. ASSUME NEW k \in Connections, Invoke(k)
      PROVE  CountInv(result, A, window, limit, most)'
  <2>1. /\ DOMAIN flight' = DOMAIN flight
        /\ \A j \in DOMAIN flight : /\ flight'[j].request = flight[j].request
                                    /\ flight'[j].pair = flight[j].pair
        /\ UNCHANGED <<events, now>>
    BY <1>2, <1>b DEF Invoke, Carried
  <2>2. \A p \in Pairs : Outstanding(p, A)' \subseteq Outstanding(p, A)
    BY <2>1 DEF Outstanding
  <2> QED
    BY <1>s, <1>t, <2>1, <2>2
<1>3. ASSUME NEW k \in Connections, Respond(k)
      PROVE  CountInv(result, A, window, limit, most)'
  <2> DEFINE c == flight[k]
             e == [request |-> c.request, result |-> c.result,
                   sent |-> c.sent, at |-> now]
  <2>1. k \in DOMAIN flight /\ c \in Carried /\ c.pair \in Pairs /\ c.result \in Results
    BY <1>3, <1>b DEF Respond, Carried
  <2>2. e \in Response
    BY <1>t, <2>1 DEF Carried, Response
  <2>3. /\ events'[c.pair] = Append(events[c.pair], e)
        /\ \A p \in Pairs : p # c.pair => events'[p] = events[p]
        /\ now' = now
    BY <1>3, <1>t, <2>1 DEF Respond
  <2>4. /\ DOMAIN flight' = DOMAIN flight \ {k}
        /\ \A j \in DOMAIN flight' : flight'[j] = flight[j]
    BY <1>3 DEF Respond, Freed
  <2>5. \A p : Outstanding(p, A)' = Outstanding(p, A) \ {k}
    BY <2>4 DEF Outstanding
  <2>6. ASSUME NEW p \in Pairs
        PROVE  /\ IsFiniteSet(T(events[p], Len(events[p]), now))
               /\ IsFiniteSet(Outstanding(p, A))
    BY <1>t, TallyFinite, OutstandingFinite
  <2> SUFFICES ASSUME NEW p \in Pairs
               PROVE  /\ Cardinality(T(events'[p], Len(events'[p]), now))
                           + Cardinality(Outstanding(p, A)') <= bound
                      /\ \A i \in DOMAIN events'[p] :
                           Cardinality(T(events'[p], i, events'[p][i].at)) <= bound
    BY <2>3 DEF CountInv
  <2>7. CASE p # c.pair
    <3>1. events'[p] = events[p] /\ Outstanding(p, A)' \subseteq Outstanding(p, A)
      BY <2>3, <2>5, <2>7
    <3>2. Cardinality(T(events[p], Len(events[p]), now))
            + Cardinality(Outstanding(p, A)') <= bound
      <4>1. /\ IsFiniteSet(T(events[p], Len(events[p]), now))
            /\ IsFiniteSet(Outstanding(p, A))
        BY <2>6
      <4>2. Cardinality(T(events[p], Len(events[p]), now))
              + Cardinality(Outstanding(p, A)) <= bound
        BY <1>i
      <4> QED
        BY <1>n, <3>1, <4>1, <4>2, Fewer
    <3> QED
      BY <1>i, <3>1, <3>2
  <2>8. CASE p = c.pair
    <3> DEFINE h == events[p]
               g == Append(h, e)
    <3>1. /\ h \in Seq(Response)
          /\ DOMAIN h = 1..Len(h) /\ Len(h) \in Nat
          /\ DOMAIN g = 1..(Len(h) + 1) /\ Len(g) = Len(h) + 1
          /\ \A j \in 1..Len(h) : g[j] = h[j]
          /\ g[Len(h) + 1] = e
      BY <1>t, <2>2, AppendLookup
    <3>2. events'[p] = g
      BY <2>3, <2>8
    <3>3. e.at = now /\ e.result = c.result /\ e.request = c.request
      OBVIOUS
    <3> HIDE DEF g, e
    <3>4. T(g, Len(g), now) \subseteq T(h, Len(h), now) \cup {Len(h) + 1}
      BY <3>1 DEF Tally
    <3>5. \/ T(g, Len(g), now) \subseteq T(h, Len(h), now)
          \/ k \in Outstanding(p, A)
      <4>1. CASE c.result = result /\ c.request.approval \in A
        BY <2>1, <2>8, <4>1 DEF Outstanding, OnlyWrites
      <4>2. CASE ~(c.result = result /\ c.request.approval \in A)
        BY <3>1, <3>3, <4>2 DEF Tally
      <4> QED
        BY <4>1, <4>2
    <3>6. Cardinality(T(g, Len(g), now)) + Cardinality(Outstanding(p, A)') <= bound
      <4>1. Outstanding(p, A)' = Outstanding(p, A) \ {k}
        BY <2>5
      <4>2. Cardinality(T(h, Len(h), now)) + Cardinality(Outstanding(p, A)) <= bound
        BY <1>i
      <4>3. IsFiniteSet(T(h, Len(h), now)) /\ IsFiniteSet(Outstanding(p, A))
        BY <2>6
      <4>4. CASE T(g, Len(g), now) \subseteq T(h, Len(h), now)
        <5>1. Outstanding(p, A)' \subseteq Outstanding(p, A)
          BY <4>1
        <5> QED
          BY <1>n, <4>2, <4>3, <4>4, <5>1, Fewer
      <4>5. CASE k \in Outstanding(p, A)
        <5>1. Outstanding(p, A)' \subseteq Outstanding(p, A) \ {k}
          BY <4>1
        <5> DEFINE S == T(h, Len(h), now) \cup {Len(h) + 1}
                   U == Outstanding(p, A) \ {k}
        <5>2. /\ IsFiniteSet(S) /\ Cardinality(T(h, Len(h), now)) \in Nat
              /\ Cardinality(S) \in Nat
              /\ Cardinality(S) <= Cardinality(T(h, Len(h), now)) + 1
          <6>1. IsFiniteSet(T(h, Len(h), now))
            BY <4>3
          <6> HIDE DEF T
          <6> QED
            BY <6>1, OneMore
        <5>3. /\ IsFiniteSet(U) /\ Cardinality(U) \in Nat
              /\ Cardinality(Outstanding(p, A)) \in Nat
              /\ Cardinality(U) = Cardinality(Outstanding(p, A)) - 1
          BY <4>3, <4>5, FS_RemoveElement, FS_CardinalityType
        <5>4. Cardinality(S) + Cardinality(U) <= bound
          BY <1>n, <4>2, <5>2, <5>3
        <5>5. T(g, Len(g), now) \subseteq S /\ Outstanding(p, A)' \subseteq U
          BY <3>4, <5>1
        <5>6. IsFiniteSet(S) /\ IsFiniteSet(U) /\ bound \in Int
          BY <1>n, <5>2, <5>3
        <5> HIDE DEF S, U, bound, T
        <5> QED
          BY <5>4, <5>5, <5>6, Fewer
      <4> QED
        BY <3>5, <4>4, <4>5
    <3>7. /\ Cardinality(Outstanding(p, A)') \in Nat
          /\ Cardinality(T(g, Len(g), now)) \in Nat
      <4>1. IsFiniteSet(Outstanding(p, A)')
        <5>1. IsFiniteSet(Outstanding(p, A))
          BY <2>6
        <5>2. IsFiniteSet(Outstanding(p, A) \ {k})
          BY <5>1, FS_RemoveElement
        <5> QED
          BY <2>5, <5>2
      <4>2. Len(g) \in Nat
        BY <3>1
      <4> QED
        BY <4>1, <4>2, TallyFinite, FS_CardinalityType
    <3>8. ASSUME NEW i \in DOMAIN g
          PROVE  Cardinality(T(g, i, g[i].at)) <= bound
      <4>1. CASE i = Len(h) + 1
        BY <1>n, <3>1, <3>3, <3>6, <3>7, <4>1
      <4>2. CASE i # Len(h) + 1
        <5>1. i \in DOMAIN h /\ i \in 1..Len(h) /\ g[i] = h[i]
          BY <3>1, <4>2
        <5>2. T(g, i, h[i].at) = T(h, i, h[i].at)
          <6>1. \A j \in 1..i : j \in 1..Len(h)
            BY <3>1, <5>1
          <6>2. \A j \in 1..i : g[j] = h[j]
            BY <3>1, <6>1
          <6> QED
            BY <6>2 DEF Tally
        <5> QED
          BY <1>i, <5>1, <5>2
      <4> QED
        BY <4>1, <4>2
    <3> QED
      BY <3>2, <3>6, <3>8
  <2> QED
    BY <2>7, <2>8
<1>4. ASSUME NEW k \in Connections, LoseResponse(k)
      PROVE  CountInv(result, A, window, limit, most)'
  <2>1. /\ DOMAIN flight' \subseteq DOMAIN flight
        /\ \A j \in DOMAIN flight' : flight'[j] = flight[j]
        /\ UNCHANGED <<events, now>>
    BY <1>4 DEF LoseResponse, Freed
  <2>2. \A p \in Pairs : Outstanding(p, A)' \subseteq Outstanding(p, A)
    BY <2>1 DEF Outstanding
  <2> QED
    BY <1>s, <1>t, <2>1, <2>2
<1>5. CASE Tick
  <2>1. now' \in Nat /\ now <= now' /\ UNCHANGED <<events, flight>>
    BY <1>5, <1>t DEF Tick
  <2> QED
    BY <1>s, <2>1 DEF Outstanding
<1>6. CASE UNCHANGED vars
  <2>1. now' = now /\ UNCHANGED <<events, flight>>
    BY <1>6 DEF vars
  <2> QED
    BY <1>s, <1>t, <2>1 DEF Outstanding
<1> QED
  BY <1>1, <1>2, <1>3, <1>4, <1>5, <1>6 DEF Next, Deny

(* Only the write tool is answered SUCCEEDED or FAILED. *)
LEMMA OnlyWritesStep ==
  ASSUME GatewayTypeOK, OnlyWrites, [Next]_vars
  PROVE  OnlyWrites'
<1>b. PICK busy \in SUBSET Connections : flight \in [busy -> Carried]
  BY DEF GatewayTypeOK
<1>1. ASSUME NEW k \in Connections, NEW p \in Pairs, NEW q \in Requests,
             Forward(k, p, q)
      PROVE  OnlyWrites'
  BY <1>1 DEF Forward, OnlyWrites
<1>2. ASSUME NEW k \in Connections, Invoke(k)
      PROVE  OnlyWrites'
  <2> DEFINE q == flight[k].request
  <2>1. /\ k \in DOMAIN flight /\ q \in Call
        /\ DOMAIN flight' = DOMAIN flight
        /\ flight'[k].result = ResultOf(q) /\ flight'[k].request = q
        /\ \A j \in DOMAIN flight \ {k} : flight'[j] = flight[j]
    BY <1>2, <1>b DEF Invoke, Carried
  <2>2. ResultOf(q) \in {"SUCCEEDED", "FAILED"} => q.tool = "execute_write"
    BY <2>1 DEF ResultOf, Call
  <2> QED
    BY <2>1, <2>2 DEF OnlyWrites
<1>3. ASSUME NEW k \in Connections, Respond(k) \/ LoseResponse(k)
      PROVE  OnlyWrites'
  BY <1>3 DEF Respond, LoseResponse, Freed, OnlyWrites
<1>4. CASE Tick \/ UNCHANGED vars
  BY <1>4 DEF Tick, vars, OnlyWrites
<1> QED
  BY <1>1, <1>2, <1>3, <1>4 DEF Next, Deny

LEMMA CapsStart ==
  ASSUME Init, NEW most \in Nat
  PROVE  CapsInv(most)
<1>1. DOMAIN flight = {} /\ \A p \in Pairs : events[p] = <<>>
  BY DEF Init
<1>2. ASSUME NEW result, NEW A, NEW window, NEW limit \in Nat \ {0}
      PROVE  CountInv(result, A, window, limit, most)
  <2>1. \A p : Outstanding(p, A) = {}
    BY <1>1 DEF Outstanding
  <2>2. \A p \in Pairs : Tally(events[p], Len(events[p]), result, A, window, now) = {}
    BY <1>1 DEF Tally
  <2>3. Cardinality({}) = 0
    BY FS_EmptySet
  <2>4. \A p \in Pairs : DOMAIN events[p] = {}
    BY <1>1
  <2>5. 0 + 0 <= limit + most - 1
    OBVIOUS
  <2> QED
    BY <2>1, <2>2, <2>3, <2>4, <2>5 DEF CountInv
<1> QED
  BY <1>1, <1>2, GatewayTypeInitial, CapAssumption DEF CapsInv, OnlyWrites

LEMMA CapsStep ==
  ASSUME NEW most \in Nat, CapsInv(most), AtOnce(most), AtOnce(most)', [Next]_vars
  PROVE  CapsInv(most)'
<1>1. GatewayTypeOK' /\ OnlyWrites'
  BY GatewayTypePreserved, OnlyWritesStep DEF CapsInv
<1>2. ASSUME NEW p \in Pairs, NEW q \in Call, WritePermitted(events[p], q, now)
      PROVE  /\ Cardinality(Tally(events[p], Len(events[p]), "SUCCEEDED", Ids,
                                  SessionWindow, now)) < WriteLimit
             /\ Cardinality(Tally(events[p], Len(events[p]), "FAILED", {q.approval},
                                  FailureWindow, now)) < RetryLimit
  <2>1. events[p] \in Seq(Response)
    BY DEF CapsInv, GatewayTypeOK
  <2>2. DOMAIN events[p] = 1..Len(events[p])
    BY <2>1
  <2>3. \A i \in DOMAIN events[p] : events[p][i].request.approval \in Ids
    <3>1. \A i \in DOMAIN events[p] : events[p][i] \in Response
      BY <2>1
    <3> QED
      BY <3>1 DEF Response, Call
  <2>4. Tally(events[p], Len(events[p]), "SUCCEEDED", Ids, SessionWindow, now)
          = RecentSuccesses(events[p], now)
    BY <2>2, <2>3 DEF Tally, RecentSuccesses
  <2>5. Tally(events[p], Len(events[p]), "FAILED", {q.approval}, FailureWindow, now)
          = RecentFailures(events[p], q, now)
    BY <2>2 DEF Tally, RecentFailures
  <2> QED
    BY <1>2, <2>4, <2>5 DEF WritePermitted
<1>3. CountInv("SUCCEEDED", Ids, SessionWindow, WriteLimit, most)'
  BY <1>2, CountStep, CapAssumption, WindowAssumption DEF CapsInv
<1>4. ASSUME NEW a \in Ids
      PROVE  CountInv("FAILED", {a}, FailureWindow, RetryLimit, most)'
  <2>1. \A p \in Pairs : \A q \in Call :
          q.approval \in {a} /\ WritePermitted(events[p], q, now) =>
            Cardinality(Tally(events[p], Len(events[p]), "FAILED", {a},
                              FailureWindow, now)) < RetryLimit
    BY <1>2
  <2> QED
    BY <2>1, CountStep, CapAssumption, WindowAssumption DEF CapsInv
<1> QED
  BY <1>1, <1>3, <1>4 DEF CapsInv

LEMMA CapsFollow ==
  ASSUME NEW most \in Nat, CapsInv(most)
  PROVE  CapsWithin(most)
<1> SUFFICES ASSUME NEW p \in Pairs, NEW i \in DOMAIN events[p]
             PROVE  /\ Cardinality({j \in 1..i :
                          /\ events[p][j].result = "SUCCEEDED"
                          /\ Recent(events[p][j], SessionWindow, events[p][i].at)})
                         <= WriteLimit + most - 1
                    /\ \A a \in {events[p][j].request.approval : j \in 1..i} :
                         Cardinality({j \in 1..i :
                            /\ IsWriteUnder(events[p][j], a, "FAILED")
                            /\ Recent(events[p][j], FailureWindow, events[p][i].at)})
                           <= RetryLimit + most - 1
  BY DEF CapsWithin
<1> DEFINE h == events[p]
           Failed(a) == {j \in 1..i : /\ IsWriteUnder(h[j], a, "FAILED")
                                      /\ Recent(h[j], FailureWindow, h[i].at)}
           Counted(a) == Tally(h, i, "FAILED", {a}, FailureWindow, h[i].at)
<1>1. h \in Seq(Response)
  BY DEF CapsInv, GatewayTypeOK
<1>2. i \in Nat /\ i \in 1..Len(h)
  BY <1>1
<1>3. \A j \in 1..i : h[j] \in Response
  BY <1>1, <1>2
<1>4. Tally(h, i, "SUCCEEDED", Ids, SessionWindow, h[i].at) =
        {j \in 1..i : /\ h[j].result = "SUCCEEDED"
                      /\ Recent(h[j], SessionWindow, h[i].at)}
  BY <1>3 DEF Tally, Response, Call
<1>5. ASSUME NEW a \in Ids
      PROVE  Cardinality(Failed(a)) <= RetryLimit + most - 1
  <2>1. Failed(a) \subseteq Counted(a)
    BY DEF Tally, IsWriteUnder
  <2>2. IsFiniteSet(Counted(a)) /\ Cardinality(Counted(a)) \in Nat
    BY <1>2, TallyFinite
  <2>3. Cardinality(Failed(a)) <= Cardinality(Counted(a)) /\ Cardinality(Failed(a)) \in Nat
    BY <2>1, <2>2, FS_Subset, FS_CardinalityType
  <2>4. Cardinality(Counted(a)) <= RetryLimit + most - 1
    BY DEF CapsInv, CountInv
  <2> QED
    BY <2>2, <2>3, <2>4, CapAssumption
<1>6. Cardinality(Tally(h, i, "SUCCEEDED", Ids, SessionWindow, h[i].at))
        <= WriteLimit + most - 1
  BY DEF CapsInv, CountInv
<1>7. {h[j].request.approval : j \in 1..i} \subseteq Ids
  BY <1>3 DEF Response, Call
<1> QED
  BY <1>4, <1>5, <1>6, <1>7

(***************************************************************************)
(* The caps are exceeded by no more than the calls that were outstanding   *)
(* with the last counted one, for every window and limit; with a single    *)
(* connection they hold exactly.                                           *)
(***************************************************************************)
THEOREM CapsAreBounded == Spec => []CapsOvershootByOutstanding
<1> DEFINE most == Cardinality(Connections)
<1>0. most \in Nat
  BY GatewayAssumption, FS_CardinalityType
<1>1. Init => CapsInv(most)
  BY <1>0, CapsStart
<1>2. CapsInv(most) /\ [Next]_vars => CapsInv(most)'
  <2> SUFFICES ASSUME CapsInv(most), [Next]_vars PROVE CapsInv(most)'
    OBVIOUS
  <2>1. GatewayTypeOK /\ GatewayTypeOK'
    BY GatewayTypePreserved DEF CapsInv
  <2>2. AtOnce(most) /\ AtOnce(most)'
    BY <2>1, FlightFinite, PTL
  <2> QED
    BY <1>0, <2>2, CapsStep
<1>3. CapsInv(most) => CapsOvershootByOutstanding
  BY <1>0, CapsFollow DEF CapsOvershootByOutstanding
<1> HIDE DEF most
<1> QED
  BY <1>1, <1>2, <1>3, PTL DEF Spec
-----------------------------------------------------------------------------

\* A write is answered by success or failure and nothing else is, and it has
\* an approval of its record and identifier among the earlier events.
Ordered ==
  /\ \A k \in DOMAIN flight :
       flight[k].request.tool = "execute_write" =>
         /\ flight[k].result \in {"pending", "SUCCEEDED", "FAILED"}
         /\ \E i \in DOMAIN events[flight[k].pair] :
              IsApproval(events[flight[k].pair][i], flight[k].request)
  /\ \A p \in Pairs : \A j \in DOMAIN events[p] :
       LET e == events[p][j]
       IN /\ e.request.tool = "execute_write" <=> e.result \in {"SUCCEEDED", "FAILED"}
          /\ e.request.tool = "execute_write" =>
               \E i \in DOMAIN events[p] : i < j /\ IsApproval(events[p][i], e.request)

(* A call is answered by its own tool, and after its approval. *)
LEMMA OrderedStep ==
  ASSUME GatewayTypeOK, OnlyWrites, Ordered, [Next]_vars
  PROVE  Ordered'
<1>b. PICK busy \in SUBSET Connections : flight \in [busy -> Carried]
  BY DEF GatewayTypeOK
<1>t. events \in [Pairs -> Seq(Response)]
  BY DEF GatewayTypeOK
<1>1. ASSUME NEW k \in Connections, NEW p \in Pairs, NEW q \in Requests,
             Forward(k, p, q)
      PROVE  Ordered'
  <2>1. /\ DOMAIN flight' = DOMAIN flight \cup {k}
        /\ flight'[k] = [pair |-> p, request |-> q, sent |-> now, result |-> "pending"]
        /\ \A j \in DOMAIN flight : flight'[j] = flight[j]
        /\ UNCHANGED events
    BY <1>1 DEF Forward
  <2>2. q.tool = "execute_write" =>
          \E i \in DOMAIN events[p] : IsApproval(events[p][i], q)
    BY <1>1 DEF Forward, Permitted, WritePermitted, UnconsumedApproval
  <2> QED
    BY <2>1, <2>2 DEF Ordered
<1>2. ASSUME NEW k \in Connections, Invoke(k)
      PROVE  Ordered'
  <2> DEFINE q == flight[k].request
  <2>1. /\ k \in DOMAIN flight /\ q \in Call
        /\ DOMAIN flight' = DOMAIN flight
        /\ flight'[k].result = ResultOf(q)
        /\ \A j \in DOMAIN flight : /\ flight'[j].request = flight[j].request
                                    /\ flight'[j].pair = flight[j].pair
        /\ \A j \in DOMAIN flight \ {k} : flight'[j] = flight[j]
        /\ UNCHANGED events
    BY <1>2, <1>b DEF Invoke, Carried
  <2>2. q.tool = "execute_write" => ResultOf(q) \in {"pending", "SUCCEEDED", "FAILED"}
    BY DEF ResultOf
  <2> QED
    BY <2>1, <2>2 DEF Ordered
<1>3. ASSUME NEW k \in Connections, Respond(k)
      PROVE  Ordered'
  <2> DEFINE c == flight[k]
             e == [request |-> c.request, result |-> c.result,
                   sent |-> c.sent, at |-> now]
  <2>1. /\ k \in DOMAIN flight /\ c \in Carried /\ c.pair \in Pairs
        /\ c.result \in Results
        /\ DOMAIN flight' \subseteq DOMAIN flight
        /\ \A j \in DOMAIN flight' : flight'[j] = flight[j]
    BY <1>3, <1>b DEF Respond, Carried, Freed
  <2>2. e \in Response
    BY <2>1, GatewayAssumption, SMT DEF Carried, Response, GatewayTypeOK
  <2>3. /\ events'[c.pair] = Append(events[c.pair], e)
        /\ \A p \in Pairs : p # c.pair => events'[p] = events[p]
    BY <1>3, <1>t, <2>1 DEF Respond
  <2>4. e.request = c.request /\ e.result = c.result
    OBVIOUS
  <2> HIDE DEF e
  <2>5. ASSUME NEW p \in Pairs
        PROVE  /\ \A i \in DOMAIN events[p] :
                    i \in DOMAIN events'[p] /\ events'[p][i] = events[p][i]
               /\ \A j \in DOMAIN events'[p] :
                    \/ j \in DOMAIN events[p]
                    \/ /\ p = c.pair /\ events'[p][j] = e
                       /\ \A i \in DOMAIN events[p] : i < j
    <3>1. CASE p # c.pair
      BY <2>3, <3>1
    <3>2. CASE p = c.pair
      <4> DEFINE h == events[p]
      <4>1. /\ DOMAIN h = 1..Len(h) /\ Len(h) \in Nat
            /\ DOMAIN Append(h, e) = 1..(Len(h) + 1)
            /\ \A j \in 1..Len(h) : Append(h, e)[j] = h[j]
            /\ Append(h, e)[Len(h) + 1] = e
        BY <1>t, <2>2, AppendLookup
      <4>2. events'[p] = Append(h, e)
        BY <2>3, <3>2
      <4> QED
        BY <3>2, <4>1, <4>2
    <3> QED
      BY <3>1, <3>2
  <2>6. /\ c.request.tool = "execute_write" <=> c.result \in {"SUCCEEDED", "FAILED"}
        /\ c.request.tool = "execute_write" =>
             \E i \in DOMAIN events[c.pair] : IsApproval(events[c.pair][i], c.request)
    BY <2>1 DEF Ordered, OnlyWrites, Results
  <2>7. ASSUME NEW p \in Pairs, NEW j \in DOMAIN events'[p]
        PROVE  /\ events'[p][j].request.tool = "execute_write"
                    <=> events'[p][j].result \in {"SUCCEEDED", "FAILED"}
               /\ events'[p][j].request.tool = "execute_write" =>
                    \E i \in DOMAIN events'[p] :
                      i < j /\ IsApproval(events'[p][i], events'[p][j].request)
    <3>1. CASE j \in DOMAIN events[p]
      <4>1. events'[p][j] = events[p][j]
        BY <2>5, <3>1
      <4> QED
        BY <2>5, <3>1, <4>1 DEF Ordered
    <3>2. CASE p = c.pair /\ events'[p][j] = e /\ \A i \in DOMAIN events[p] : i < j
      BY <2>4, <2>5, <2>6, <3>2
    <3> QED
      BY <2>5, <3>1, <3>2
  <2>8. ASSUME NEW j \in DOMAIN flight', flight'[j].request.tool = "execute_write"
        PROVE  /\ flight'[j].result \in {"pending", "SUCCEEDED", "FAILED"}
               /\ \E i \in DOMAIN events'[flight'[j].pair] :
                    IsApproval(events'[flight'[j].pair][i], flight'[j].request)
    <3>1. j \in DOMAIN flight /\ flight'[j] = flight[j] /\ flight[j].pair \in Pairs
      BY <1>b, <2>1, <2>8 DEF Carried
    <3> QED
      BY <2>5, <2>8, <3>1 DEF Ordered
  <2> QED
    BY <2>7, <2>8 DEF Ordered
<1>4. ASSUME NEW k \in Connections, LoseResponse(k)
      PROVE  Ordered'
  <2>1. /\ DOMAIN flight' \subseteq DOMAIN flight
        /\ \A j \in DOMAIN flight' : flight'[j] = flight[j]
        /\ UNCHANGED events
    BY <1>4 DEF LoseResponse, Freed
  <2> QED
    BY <2>1 DEF Ordered
<1>5. CASE Tick \/ UNCHANGED vars
  BY <1>5 DEF Tick, vars, Ordered
<1> QED
  BY <1>1, <1>2, <1>3, <1>4, <1>5 DEF Next, Deny

(* What the local specification reads in an event of the gateway. *)
LEMMA LocalEvent ==
  ASSUME NEW h \in Seq(Response)
  PROVE  /\ DOMAIN LocalHistory(h) = DOMAIN h
         /\ \A i \in DOMAIN h :
              /\ LocalHistory(h)[i].request = h[i].request
              /\ LocalHistory(h)[i].outcome = "error" <=> h[i].result = "FAILED"
              /\ LocalHistory(h)[i].outcome = "success" <=> h[i].result # "FAILED"
              /\ h[i].request \in Call
              /\ h[i].request.record \in Ids /\ h[i].request.approval \in Ids
              /\ h[i].at \in Nat
<1>1. \A i \in DOMAIN h : h[i] \in Response
  OBVIOUS
<1> QED
  BY <1>1 DEF LocalHistory, Response, Call

(* The instance of the local specification counts as this module does. *)
LEMMA SameCount ==
  ASSUME NEW S
  PROVE  Local!Cardinality(S) = Cardinality(S)
BY Zenon DEF Local!Cardinality, Cardinality, Local!IsFiniteSet, IsFiniteSet

(* The counts of the three policies are of finite sets. *)
LEMMA CountsCompare ==
  ASSUME NEW h \in Seq(Response), NEW S, NEW T, S \subseteq T, T \subseteq DOMAIN h
  PROVE  /\ Cardinality(S) \in Nat /\ Cardinality(T) \in Nat
         /\ Cardinality(S) <= Cardinality(T)
<1>1. DOMAIN h = 1..Len(h) /\ Len(h) \in Nat
  OBVIOUS
<1>2. IsFiniteSet(1..Len(h))
  <2>1. 1 \in Int /\ Len(h) \in Int
    BY <1>1
  <2> QED
    BY <2>1, FS_Interval
<1>3. IsFiniteSet(T)
  BY <1>1, <1>2, FS_Subset
<1> QED
  BY <1>3, FS_Subset, FS_CardinalityType

(* The managed and the Dogwood policies differ only in how they read       *)
(* approvals.                                                              *)
LEMMA ManagedIsDogwood ==
  ASSUME GatewayTypeOK, Ordered, NEW p \in Pairs, NEW q \in Call,
         \A i \in Recordings(events[p], q.approval) :
           events[p][i].result = "valid" /\ events[p][i].request.record = q.record
  PROVE  WritePermitted(events[p], q, now) <=> DogwoodPermitted(events[p], q, now)
<1> DEFINE h == events[p]
<1>1. \A i \in DOMAIN h : IsApproval(h[i], q) <=> DogwoodApproval(h[i], q)
  BY DEF Recordings, IsRecordingOf, IsApproval, DogwoodApproval
<1>2. \A j \in DOMAIN h : Consumes(h[j], q) <=> DogwoodConsumes(h[j], q)
  <2> SUFFICES ASSUME NEW j \in DOMAIN h, Consumes(h[j], q)
               PROVE  h[j].request.record = q.record
    BY DEF DogwoodConsumes
  <2>1. PICK i \in DOMAIN h : IsApproval(h[i], h[j].request)
    BY DEF Ordered, Consumes
  <2>2. i \in Recordings(h, q.approval)
    BY <2>1 DEF Recordings, IsRecordingOf, IsApproval, Consumes
  <2> QED
    BY <2>1, <2>2 DEF IsApproval
<1>3. \A i \in DOMAIN h : \A j \in (i + 1)..Len(h) : j \in DOMAIN h
  <2>1. h \in Seq(Response)
    BY DEF GatewayTypeOK
  <2>2. DOMAIN h = 1..Len(h) /\ Len(h) \in Nat
    BY <2>1
  <2> QED
    BY <2>2
<1>4. UnconsumedApproval(h, q, now) <=> DogwoodUnconsumedApproval(h, q, now)
  BY <1>1, <1>2, <1>3 DEF UnconsumedApproval, DogwoodUnconsumedApproval
<1> QED
  BY <1>4 DEF WritePermitted, DogwoodPermitted

(* What the local specification allows the managed policies permit, as     *)
(* long as the lookup and the approval are fresh.                          *)
LEMMA LocalIsPermitted ==
  ASSUME GatewayTypeOK, Ordered, NEW p \in Pairs, NEW q \in Call,
         Local!WriteAllowed(LocalHistory(events[p]), q, now),
         FreshAt(events[p], q, now)
  PROVE  WritePermitted(events[p], q, now)
<1> DEFINE h == events[p]
           l == LocalHistory(events[p])
<1>a. Local!WriteAllowed(l, q, now)
  OBVIOUS
<1> HIDE DEF l
<1>b. /\ ~Local!Consumed(l, q.approval)
      /\ Cardinality(Local!SuccessfulWrites(l)) < WriteLimit
      /\ Cardinality(Local!FailedWrites(l, q.approval)) < RetryLimit
  BY <1>a, SameCount DEF Local!WriteAllowed
<1>0. h \in Seq(Response)
  BY DEF GatewayTypeOK
<1>1. /\ DOMAIN l = DOMAIN h
      /\ \A i \in DOMAIN h : /\ l[i].request = h[i].request
                             /\ l[i].outcome = "error" <=> h[i].result = "FAILED"
                             /\ l[i].outcome = "success" <=> h[i].result # "FAILED"
  BY <1>0, LocalEvent DEF l
<1>2. \A i \in DOMAIN h :
        h[i].request.tool = "execute_write" <=> h[i].result \in {"SUCCEEDED", "FAILED"}
  BY DEF Ordered
<1>3. LookedUp(h, q, now)
  BY DEF FreshAt, LookedUp, Recent
<1>4. UnconsumedApproval(h, q, now)
  <2>1. PICK i \in DOMAIN h : IsApproval(h[i], q) /\ Recent(h[i], ApprovalWindow, now)
    BY DEF FreshAt, Recent
  <2>2. \A j \in DOMAIN h : ~Consumes(h[j], q)
    BY <1>1, <1>b DEF Local!Consumed, Local!IsWrite, Consumes
  <2>3. (i + 1)..Len(h) \subseteq DOMAIN h
    BY <1>0
  <2> QED
    BY <2>1, <2>2, <2>3 DEF UnconsumedApproval
<1>5. Cardinality(RecentSuccesses(h, now)) < WriteLimit
  <2>1. /\ RecentSuccesses(h, now) \subseteq Local!SuccessfulWrites(l)
        /\ Local!SuccessfulWrites(l) \subseteq DOMAIN h
    BY <1>1, <1>2 DEF RecentSuccesses, Local!SuccessfulWrites, Local!IsWrite
  <2>2. Cardinality(Local!SuccessfulWrites(l)) < WriteLimit
    BY <1>b
  <2>3. /\ Cardinality(RecentSuccesses(h, now)) \in Nat
        /\ Cardinality(Local!SuccessfulWrites(l)) \in Nat
        /\ Cardinality(RecentSuccesses(h, now)) <= Cardinality(Local!SuccessfulWrites(l))
    BY <1>0, <2>1, CountsCompare
  <2> QED
    BY <2>2, <2>3, CapAssumption
<1>6. Cardinality(RecentFailures(h, q, now)) < RetryLimit
  <2>1. /\ RecentFailures(h, q, now) \subseteq Local!FailedWrites(l, q.approval)
        /\ Local!FailedWrites(l, q.approval) \subseteq DOMAIN h
    BY <1>1, <1>2 DEF RecentFailures, Local!FailedWrites, Local!IsWrite
  <2>2. Cardinality(Local!FailedWrites(l, q.approval)) < RetryLimit
    BY <1>b
  <2>3. /\ Cardinality(RecentFailures(h, q, now)) \in Nat
        /\ Cardinality(Local!FailedWrites(l, q.approval)) \in Nat
        /\ Cardinality(RecentFailures(h, q, now))
             <= Cardinality(Local!FailedWrites(l, q.approval))
    BY <1>0, <2>1, CountsCompare
  <2> QED
    BY <2>2, <2>3, CapAssumption
<1> QED
  BY <1>3, <1>4, <1>5, <1>6 DEF WritePermitted

(* What the managed policies permit the local specification allows, when   *)
(* the approval was recorded once and has not expired, and nothing has     *)
(* left a counting window.                                                 *)
LEMMA PermittedIsLocal ==
  ASSUME GatewayTypeOK, Ordered, NEW p \in Pairs, NEW q \in Call,
         WritePermitted(events[p], q, now),
         \A i, j \in Recordings(events[p], q.approval) : i = j,
         \A i \in Recordings(events[p], q.approval) :
           events[p][i].request.expiry > now,
         \A i \in DOMAIN events[p] : Recent(events[p][i], FailureWindow, now)
  PROVE  Local!WriteAllowed(LocalHistory(events[p]), q, now)
<1> DEFINE h == events[p]
           l == LocalHistory(events[p])
<1> HIDE DEF l
<1>0. h \in Seq(Response) /\ now \in Nat
  BY GatewayAssumption, SMT DEF GatewayTypeOK
<1>1. /\ DOMAIN l = DOMAIN h
      /\ \A i \in DOMAIN h :
           /\ l[i].request = h[i].request
           /\ l[i].outcome = "error" <=> h[i].result = "FAILED"
           /\ l[i].outcome = "success" <=> h[i].result # "FAILED"
           /\ h[i].request.record \in Ids /\ h[i].request.approval \in Ids
           /\ h[i].at \in Nat
  BY <1>0, LocalEvent DEF l
<1>2. \A i \in DOMAIN h :
        h[i].request.tool = "execute_write" <=> h[i].result \in {"SUCCEEDED", "FAILED"}
  BY DEF Ordered
<1>3. Local!LookedUp(l, q.record)
  <2>1. PICK i \in DOMAIN h : IsLookup(h[i], q)
    BY DEF WritePermitted, LookedUp
  <2> QED
    BY <1>1, <1>2, <2>1 DEF Local!LookedUp, Local!IsLookup, IsLookup
<1>4. PICK i \in DOMAIN h : /\ IsApproval(h[i], q)
                            /\ \A j \in (i + 1)..Len(h) : ~Consumes(h[j], q)
  BY DEF WritePermitted, UnconsumedApproval
<1>5. i \in Recordings(h, q.approval)
  BY <1>4 DEF Recordings, IsRecordingOf, IsApproval
<1>6. DOMAIN h = 1..Len(h) /\ Len(h) \in Nat
  BY <1>0
<1>7. Local!LatestApprovalUnexpired(l, q.record, q.approval, now)
  <2>1. Local!IsApproval(l[i], q.record, q.approval)
    BY <1>1, <1>4 DEF Local!IsApproval, IsApproval
  <2>2. \A j \in DOMAIN l : Local!IsApproval(l[j], q.record, q.approval) => j = i
    <3> SUFFICES ASSUME NEW j \in DOMAIN h,
                        Local!IsApproval(l[j], q.record, q.approval)
                 PROVE  j = i
      BY <1>1
    <3>1. j \in Recordings(h, q.approval)
      BY <1>1 DEF Recordings, IsRecordingOf, Local!IsApproval
    <3> QED
      BY <1>5, <3>1
  <2>3. l[i].request.expiry > now
    BY <1>1, <1>5
  <2> QED
    BY <1>1, <1>6, <2>1, <2>2, <2>3 DEF Local!LatestApprovalUnexpired
<1>8. ~Local!Consumed(l, q.approval)
  <2> SUFFICES ASSUME NEW j \in DOMAIN h, Local!IsWrite(l[j], "success"),
                      l[j].request.approval = q.approval
               PROVE  FALSE
    BY <1>1 DEF Local!Consumed
  <2>1. h[j].request.tool = "execute_write" /\ h[j].result = "SUCCEEDED"
    BY <1>1, <1>2 DEF Local!IsWrite
  <2>2. PICK u \in DOMAIN h : u < j /\ IsApproval(h[u], h[j].request)
    BY <2>1 DEF Ordered
  <2>3. u \in Recordings(h, q.approval)
    BY <1>1, <2>2 DEF Recordings, IsRecordingOf, IsApproval
  <2>4. u = i
    BY <1>5, <2>3
  <2>5. j \in (i + 1)..Len(h)
    BY <1>6, <2>2, <2>4
  <2> QED
    BY <1>1, <1>4, <2>1, <2>5 DEF Consumes
<1>9. Cardinality(Local!SuccessfulWrites(l)) < WriteLimit
  <2>0. \A j \in DOMAIN h : Recent(h[j], SessionWindow, now)
    BY <1>0, <1>1, WindowAssumption DEF Recent
  <2>1. /\ Local!SuccessfulWrites(l) \subseteq RecentSuccesses(h, now)
        /\ RecentSuccesses(h, now) \subseteq DOMAIN h
    BY <1>1, <1>2, <2>0
       DEF RecentSuccesses, Local!SuccessfulWrites, Local!IsWrite
  <2>2. Cardinality(RecentSuccesses(h, now)) < WriteLimit
    BY DEF WritePermitted
  <2>3. /\ Cardinality(RecentSuccesses(h, now)) \in Nat
        /\ Cardinality(Local!SuccessfulWrites(l)) \in Nat
        /\ Cardinality(Local!SuccessfulWrites(l)) <= Cardinality(RecentSuccesses(h, now))
    BY <1>0, <2>1, CountsCompare
  <2> QED
    BY <2>2, <2>3, CapAssumption
<1>10. Cardinality(Local!FailedWrites(l, q.approval)) < RetryLimit
  <2>1. /\ Local!FailedWrites(l, q.approval) \subseteq RecentFailures(h, q, now)
        /\ RecentFailures(h, q, now) \subseteq DOMAIN h
    BY <1>1 DEF RecentFailures, Local!FailedWrites, Local!IsWrite
  <2>2. Cardinality(RecentFailures(h, q, now)) < RetryLimit
    BY DEF WritePermitted
  <2>3. /\ Cardinality(RecentFailures(h, q, now)) \in Nat
        /\ Cardinality(Local!FailedWrites(l, q.approval)) \in Nat
        /\ Cardinality(Local!FailedWrites(l, q.approval))
             <= Cardinality(RecentFailures(h, q, now))
    BY <1>0, <2>1, CountsCompare
  <2> QED
    BY <2>2, <2>3, CapAssumption
<1>11. q.mode # "malformed"
  BY DEF Call
<1>12. Local!WriteAllowed(l, q, now)
  BY <1>3, <1>7, <1>8, <1>9, <1>10, <1>11, SameCount DEF Local!WriteAllowed
<1> QED
  BY <1>12 DEF l

(***************************************************************************)
(* Three texts, one contract: on whatever events the gateway can record,   *)
(* the local specification, the Dogwood set and the managed policies agree *)
(* on every write up to freshness, expiry and repeated recordings.         *)
(***************************************************************************)
THEOREM LayersInAgreement == Spec => []LayersAgree
<1> DEFINE AgreeInv == GatewayTypeOK /\ OnlyWrites /\ Ordered
<1>1. Init => AgreeInv
  <2> SUFFICES ASSUME Init PROVE AgreeInv
    OBVIOUS
  <2>1. DOMAIN flight = {} /\ \A p \in Pairs : DOMAIN events[p] = {}
    BY DEF Init
  <2> QED
    BY <2>1, GatewayTypeInitial DEF OnlyWrites, Ordered
<1>2. AgreeInv /\ [Next]_vars => AgreeInv'
  BY GatewayTypePreserved, OnlyWritesStep, OrderedStep
<1>3. AgreeInv => LayersAgree
  <2> SUFFICES ASSUME AgreeInv PROVE LayersAgree
    OBVIOUS
  <2>1. Requests \subseteq Call
    BY GatewayAssumption
  <2> QED
    BY <2>1, ManagedIsDogwood, LocalIsPermitted, PermittedIsLocal DEF LayersAgree
<1> QED
  BY <1>1, <1>2, <1>3, PTL DEF Spec
================================================================================
