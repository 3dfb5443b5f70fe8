---------------------------- MODULE PolicyLabProofs ----------------------------
(***************************************************************************)
(* Proofs about PolicyLab, for any callers, sessions, requests, records    *)
(* and limits, and about PolicyRunner: a run under the temporal policy is  *)
(* a behaviour of PolicyLab, so what is proved of the reference monitor    *)
(* holds of every scenario, of any length, that the runner presents.       *)
(* The log of a run, under any control model, is then shown to be enough   *)
(* to audit it and to follow from the text of its scenario.                *)
(***************************************************************************)
EXTENDS PolicyRunner, FiniteSetTheorems, TLAPS

-----------------------------------------------------------------------------
(***************************************************************************)
(* What one step does to the histories: an allowed request appends its own *)
(* event, to the history of its caller and session and to no other.        *)
(***************************************************************************)

NewEvent(q, outcome) == [request |-> q, outcome |-> outcome]

\* The history h after the event e: its old events keep their place.
(* What a history holds after an event is observed. *)
LEMMA AppendedHistory ==
  ASSUME NEW h \in Seq(Event), NEW e \in Event
  PROVE  /\ Append(h, e) \in Seq(Event)
         /\ DOMAIN h = 1..Len(h)
         /\ Len(h) \in Nat
         /\ DOMAIN Append(h, e) = DOMAIN h \cup {Len(h) + 1}
         /\ Len(h) + 1 \notin DOMAIN h
         /\ Append(h, e)[Len(h) + 1] = e
         /\ \A i \in DOMAIN h : Append(h, e)[i] = h[i]
  OBVIOUS

\* An allowed request was allowed by Authorize, and in a valid session.
(* What an allowed request does to the clock and the histories. *)
LEMMA PerformStep ==
  ASSUME TypeOK, NEW c \in Callers, NEW s \in Sessions, NEW q \in Requests,
         Perform(c, s, q)
  PROVE  /\ Authorize(history[<<c, s>>], c, s, q, clock) = "allow"
         /\ q \in Request
         /\ \E outcome \in Outcomes :
              /\ Invoke(q, outcome)
              /\ NewEvent(q, outcome) \in Event
              /\ history' = [history EXCEPT ![<<c, s>>] =
                               Append(@, NewEvent(q, outcome))]
  <1>1. q \in Request
    BY RequestsAssumption
  <1>2. Authorize(history[<<c, s>>], c, s, q, clock) = "allow"
    BY DEF Perform, Decision
  <1>3. s \in ValidSessions
    BY <1>2 DEF Authorize
  <1>4. PICK outcome \in Outcomes : Invoke(q, outcome) /\ Observe(c, s, q, outcome)
    BY DEF Perform
  <1>5. NewEvent(q, outcome) \in Event
    BY <1>1, <1>4 DEF NewEvent, Event
  <1>6. history' = [history EXCEPT ![<<c, s>>] = Append(@, NewEvent(q, outcome))]
    BY <1>3, <1>4 DEF Observe, NewEvent
  <1>7. QED
    BY <1>1, <1>2, <1>4, <1>5, <1>6

-----------------------------------------------------------------------------

\* Whatever a tool does, the store keeps its type.
(* Every tool keeps the types of the store. *)
LEMMA InvokeTyped ==
  ASSUME StoreTypeOK, NEW q \in Request, NEW outcome \in Outcomes,
         Invoke(q, outcome)
  PROVE  StoreTypeOK'
  <1> USE StripAssumption, RecordsAssumption DEF StoreTypeOK, storeVars
  <1>1. /\ q.record \in Ids /\ q.approval \in Ids /\ q.change \in Ids
        /\ q.expiry \in Nat
        /\ Strip[q.record] \in Ids /\ Strip[q.approval] \in Ids
        /\ Strip[q.change] \in Ids
    BY DEF Request
  <1>2. CASE q.tool = "lookup_record" /\ LookupRecord(q, outcome)
    BY <1>2 DEF LookupRecord
  <1>3. CASE q.tool = "record_human_approval" /\ RecordHumanApproval(q, outcome)
    BY <1>1, <1>3 DEF RecordHumanApproval, KnownRecord, Approval
  <1>4. CASE q.tool = "execute_write" /\ ExecuteWrite(q, outcome)
    <2>1. CASE ~(WellFormed(q) /\ KnownRecord(q))
      BY <1>4, <2>1 DEF ExecuteWrite
    <2>2. CASE WellFormed(q) /\ KnownRecord(q) /\ q.mode = "force_error"
      <3>1. NewOperation(q, "FAILED") \in Operation
        BY <1>1, <2>2 DEF NewOperation, Operation, KnownRecord
      <3>2. RecordFailedChange(q)
        BY <1>4, <2>2 DEF ExecuteWrite
      <3>3. QED
        BY <3>1, <3>2 DEF RecordFailedChange
    <2>3. CASE WellFormed(q) /\ KnownRecord(q) /\ q.mode # "force_error"
      <3>1. NewOperation(q, "SUCCEEDED") \in Operation
        BY <1>1, <2>3 DEF NewOperation, Operation, KnownRecord
      <3>2. ApplyChange(q)
        BY <1>4, <2>3 DEF ExecuteWrite
      <3>3. QED
        BY <3>1, <3>2 DEF ApplyChange
    <2>4. QED
      BY <2>1, <2>2, <2>3
  <1>5. CASE q.tool = "get_operation_status" /\ GetOperationStatus(q, outcome)
    BY <1>5 DEF GetOperationStatus
  <1>6. CASE q.tool \notin Tools /\ UnknownTool(q, outcome)
    BY <1>6 DEF UnknownTool
  <1>7. QED
    BY <1>2, <1>3, <1>4, <1>5, <1>6 DEF Invoke

(***************************************************************************)
(* The type invariant: the store, the clock and the histories keep their   *)
(* types whatever the callers send.                                        *)
(***************************************************************************)
THEOREM TypeCorrect == Spec => []TypeOK
  <1>1. Init => TypeOK
    BY MaxClockAssumption, RecordsAssumption
       DEF Init, TypeOK, StoreInit, StoreTypeOK
  <1>2. TypeOK /\ [Next]_vars => TypeOK'
    <2> SUFFICES ASSUME TypeOK, [Next]_vars PROVE TypeOK'
      OBVIOUS
    <2>1. ASSUME NEW c \in Callers, NEW s \in Sessions, NEW q \in Requests,
                 Perform(c, s, q)
          PROVE  TypeOK'
      <3>1. PICK outcome \in Outcomes :
              /\ q \in Request
              /\ Invoke(q, outcome)
              /\ NewEvent(q, outcome) \in Event
              /\ history' = [history EXCEPT ![<<c, s>>] =
                               Append(@, NewEvent(q, outcome))]
        BY <2>1, PerformStep
      <3>2. StoreTypeOK'
        BY <3>1, InvokeTyped DEF TypeOK
      <3>3. clock' \in 0..MaxClock
        BY <2>1, MaxClockAssumption DEF Perform, TypeOK
      <3>4. history' \in [Pairs -> Seq(Event)]
        BY <3>1 DEF TypeOK, Pairs
      <3>5. QED
        BY <3>2, <3>3, <3>4 DEF TypeOK
    <2>2. CASE UNCHANGED vars
      BY <2>2 DEF vars, TypeOK, StoreTypeOK
    <2>3. QED
      BY <2>1, <2>2 DEF Next, Refuse
  <1>3. QED
    BY <1>1, <1>2, PTL DEF Spec

-----------------------------------------------------------------------------

\* The sets the policy counts, after one more event.
(* How an event adds to the successful and failed writes. *)
LEMMA AppendedWrites ==
  ASSUME NEW h \in Seq(Event), NEW e \in Event
  PROVE  /\ SuccessfulWrites(Append(h, e)) =
              SuccessfulWrites(h) \cup
                (IF IsWrite(e, "success") THEN {Len(h) + 1} ELSE {})
         /\ \A a \in Ids :
              FailedWrites(Append(h, e), a) =
                FailedWrites(h, a) \cup
                  (IF IsWrite(e, "error") /\ e.request.approval = a
                     THEN {Len(h) + 1} ELSE {})
  BY AppendedHistory DEF SuccessfulWrites, FailedWrites

(* The writes of a history are finitely many. *)
LEMMA WritesFinite ==
  ASSUME NEW h \in Seq(Event)
  PROVE  /\ IsFiniteSet(SuccessfulWrites(h))
         /\ Cardinality(SuccessfulWrites(h)) \in Nat
         /\ \A a \in Ids : /\ IsFiniteSet(FailedWrites(h, a))
                           /\ Cardinality(FailedWrites(h, a)) \in Nat
  <1>1. Len(h) \in Nat /\ DOMAIN h = 1..Len(h)
    OBVIOUS
  <1>2. IsFiniteSet(1..Len(h))
    BY <1>1, FS_Interval
  <1>3. SuccessfulWrites(h) \subseteq 1..Len(h)
    BY <1>1 DEF SuccessfulWrites
  <1>4. \A a \in Ids : FailedWrites(h, a) \subseteq 1..Len(h)
    BY <1>1 DEF FailedWrites
  <1>5. QED
    BY <1>2, <1>3, <1>4, FS_Subset, FS_CardinalityType

\* A write is authorized only if the history allows it.
(* What the policy has checked of an allowed write. *)
LEMMA AllowedWrite ==
  ASSUME NEW h, NEW c \in Callers, NEW s \in Sessions, NEW q \in Request,
         NEW now, Authorize(h, c, s, q, now) = "allow", q.tool = "execute_write"
  PROVE  WriteAllowed(h, q, now)
  BY DEF Authorize

(***************************************************************************)
(* The three bounds the policy puts on a single history.                   *)
(***************************************************************************)
UsedOnce(h) ==
  \A i, j \in SuccessfulWrites(h) :
    h[i].request.approval = h[j].request.approval => i = j

WithinLimits(h) ==
  /\ Cardinality(SuccessfulWrites(h)) <= WriteLimit
  /\ \A a \in Ids : Cardinality(FailedWrites(h, a)) <= RetryLimit

\* An authorized event preserves single use of the approvals.
(* Observing an allowed request keeps approvals single use. *)
LEMMA UsedOnceStep ==
  ASSUME NEW h \in Seq(Event), NEW c \in Callers, NEW s \in Sessions,
         NEW q \in Request, NEW outcome \in Outcomes, NEW now,
         Authorize(h, c, s, q, now) = "allow", UsedOnce(h)
  PROVE  UsedOnce(Append(h, NewEvent(q, outcome)))
  <1> DEFINE e == NewEvent(q, outcome)
             g == Append(h, e)
  <1>1. e \in Event /\ e.request = q /\ e.outcome = outcome
    BY DEF NewEvent, Event
  <1>2. \A i \in SuccessfulWrites(h) : i \in DOMAIN h /\ g[i] = h[i]
    BY <1>1, AppendedHistory DEF SuccessfulWrites
  <1>3. CASE ~IsWrite(e, "success")
    <2>1. SuccessfulWrites(g) = SuccessfulWrites(h)
      BY <1>1, <1>3, AppendedWrites
    <2>2. QED
      BY <1>2, <2>1 DEF UsedOnce
  <1>4. CASE IsWrite(e, "success")
    <2>1. ~Consumed(h, q.approval)
      BY <1>1, <1>4, AllowedWrite DEF IsWrite, WriteAllowed
    <2>2. \A i \in SuccessfulWrites(h) : g[i].request.approval # q.approval
      BY <1>2, <2>1 DEF Consumed, SuccessfulWrites
    <2>3. SuccessfulWrites(g) = SuccessfulWrites(h) \cup {Len(h) + 1}
      BY <1>1, <1>4, AppendedWrites
    <2>4. g[Len(h) + 1].request.approval = q.approval
      BY <1>1, AppendedHistory
    <2>5. QED
      BY <1>2, <2>2, <2>3, <2>4 DEF UsedOnce
  <1>5. QED
    BY <1>3, <1>4

\* An authorized event keeps the history within its limits.
(* Observing an allowed request keeps both limits. *)
LEMMA WithinLimitsStep ==
  ASSUME NEW h \in Seq(Event), NEW c \in Callers, NEW s \in Sessions,
         NEW q \in Request, NEW outcome \in Outcomes, NEW now,
         Authorize(h, c, s, q, now) = "allow", WithinLimits(h)
  PROVE  WithinLimits(Append(h, NewEvent(q, outcome)))
  <1> DEFINE e == NewEvent(q, outcome)
             g == Append(h, e)
  <1>1. e \in Event /\ e.request = q /\ e.outcome = outcome
    BY DEF NewEvent, Event
  <1>2. Len(h) + 1 \notin SuccessfulWrites(h)
    BY AppendedHistory, <1>1 DEF SuccessfulWrites
  <1>3. \A a \in Ids : Len(h) + 1 \notin FailedWrites(h, a)
    BY AppendedHistory, <1>1 DEF FailedWrites
  <1>4. Cardinality(SuccessfulWrites(g)) <= WriteLimit
    <2>1. CASE ~IsWrite(e, "success")
      BY <1>1, <2>1, AppendedWrites DEF WithinLimits
    <2>2. CASE IsWrite(e, "success")
      <3>1. Cardinality(SuccessfulWrites(h)) < WriteLimit
        BY <1>1, <2>2, AllowedWrite DEF IsWrite, WriteAllowed
      <3>2. SuccessfulWrites(g) = SuccessfulWrites(h) \cup {Len(h) + 1}
        BY <1>1, <2>2, AppendedWrites
      <3>3. Cardinality(SuccessfulWrites(g)) =
              Cardinality(SuccessfulWrites(h)) + 1
        BY <1>2, <3>2, WritesFinite, FS_AddElement
      <3>4. QED
        BY <3>1, <3>3, WritesFinite, LimitAssumption
    <2>3. QED
      BY <2>1, <2>2
  <1>5. ASSUME NEW a \in Ids
        PROVE  Cardinality(FailedWrites(g, a)) <= RetryLimit
    <2> DEFINE counted == IsWrite(e, "error") /\ e.request.approval = a
    <2>0. FailedWrites(g, a) =
            FailedWrites(h, a) \cup (IF counted THEN {Len(h) + 1} ELSE {})
      BY <1>1, AppendedWrites
    <2>1. CASE ~counted
      <3>1. FailedWrites(g, a) = FailedWrites(h, a)
        BY <2>0, <2>1
      <3>2. QED
        BY <3>1 DEF WithinLimits
    <2>2. CASE counted
      <3>1. Cardinality(FailedWrites(h, a)) < RetryLimit
        BY <1>1, <2>2, AllowedWrite DEF IsWrite, WriteAllowed
      <3>2. FailedWrites(g, a) = FailedWrites(h, a) \cup {Len(h) + 1}
        BY <2>0, <2>2
      <3>3. Cardinality(FailedWrites(g, a)) = Cardinality(FailedWrites(h, a)) + 1
        BY <1>3, <3>2, WritesFinite, FS_AddElement
      <3>4. QED
        BY <3>1, <3>3, WritesFinite, LimitAssumption
    <2>3. QED
      BY <2>1, <2>2
  <1>6. QED
    BY <1>4, <1>5 DEF WithinLimits

(***************************************************************************)
(* A property of single histories that every authorized event preserves    *)
(* holds of all of them; the two bounds above are proved this way.         *)
(***************************************************************************)
HistoriesBounded ==
  \A p \in Pairs : UsedOnce(history[p]) /\ WithinLimits(history[p])

(* Empty histories are bounded. *)
LEMMA BoundedInit == Init => HistoriesBounded
  <1> SUFFICES ASSUME Init, NEW p \in Pairs
               PROVE  UsedOnce(history[p]) /\ WithinLimits(history[p])
    BY DEF HistoriesBounded
  <1>1. history[p] = <<>>
    BY DEF Init
  <1>2. SuccessfulWrites(<<>>) = {} /\ \A a \in Ids : FailedWrites(<<>>, a) = {}
    BY DEF SuccessfulWrites, FailedWrites
  <1>3. Cardinality({}) <= WriteLimit /\ Cardinality({}) <= RetryLimit
    BY FS_EmptySet, LimitAssumption
  <1>4. QED
    BY <1>1, <1>2, <1>3 DEF UsedOnce, WithinLimits

(* Every step keeps the histories bounded. *)
LEMMA BoundedStep == TypeOK /\ HistoriesBounded /\ [Next]_vars => HistoriesBounded'
  <1> SUFFICES ASSUME TypeOK, HistoriesBounded, [Next]_vars
               PROVE  HistoriesBounded'
    OBVIOUS
  <1>1. ASSUME NEW c \in Callers, NEW s \in Sessions, NEW q \in Requests,
               Perform(c, s, q)
        PROVE  HistoriesBounded'
    <2> DEFINE h == history[<<c, s>>]
    <2>1. <<c, s>> \in Pairs /\ h \in Seq(Event)
      BY DEF Pairs, TypeOK
    <2>2. Authorize(h, c, s, q, clock) = "allow" /\ q \in Request
      BY <1>1, PerformStep
    <2>3. PICK outcome \in Outcomes :
            history' = [history EXCEPT ![<<c, s>>] =
                          Append(@, NewEvent(q, outcome))]
      BY <1>1, PerformStep
    <2>4. UsedOnce(h) /\ WithinLimits(h)
      BY <2>1 DEF HistoriesBounded
    <2>5. UsedOnce(Append(h, NewEvent(q, outcome)))
      BY <2>1, <2>2, <2>4, UsedOnceStep
    <2>6. WithinLimits(Append(h, NewEvent(q, outcome)))
      BY <2>1, <2>2, <2>4, WithinLimitsStep
    <2>7. history'[<<c, s>>] = Append(h, NewEvent(q, outcome))
      BY <2>1, <2>3 DEF TypeOK
    <2>8. \A p \in Pairs : p # <<c, s>> => history'[p] = history[p]
      BY <2>3 DEF TypeOK
    <2>9. ASSUME NEW p \in Pairs
          PROVE  UsedOnce(history'[p]) /\ WithinLimits(history'[p])
      BY <2>5, <2>6, <2>7, <2>8 DEF HistoriesBounded
    <2>10. QED
      BY <2>9 DEF HistoriesBounded, UsedOnce, WithinLimits, SuccessfulWrites,
                  FailedWrites, IsWrite
  <1>2. CASE UNCHANGED vars
    BY <1>2 DEF vars, HistoriesBounded, UsedOnce, WithinLimits, SuccessfulWrites,
                FailedWrites, IsWrite
  <1>3. QED
    BY <1>1, <1>2 DEF Next, Refuse

(* The histories are always bounded. *)
LEMMA Bounded == Spec => []HistoriesBounded
  BY TypeCorrect, BoundedInit, BoundedStep, PTL DEF Spec

(***************************************************************************)
(* No approval is spent by two successful writes of a session, whatever    *)
(* the callers send and in whatever order.                                 *)
(***************************************************************************)
THEOREM SingleUse == Spec => []ApprovalSingleUse
  <1>1. HistoriesBounded => ApprovalSingleUse
    BY DEF HistoriesBounded, UsedOnce, ApprovalSingleUse
  <1>2. QED
    BY <1>1, Bounded, PTL

(***************************************************************************)
(* The session's write limit holds for every value of the limit, replayed  *)
(* writes included (policies.py 227-232).                                  *)
(***************************************************************************)
LEMMA WriteCapHolds == Spec => []SessionWriteCap
  <1>1. HistoriesBounded => SessionWriteCap
    BY DEF HistoriesBounded, WithinLimits, SessionWriteCap
  <1>2. QED
    BY <1>1, Bounded, PTL

(***************************************************************************)
(* An approval's failed attempts in a session never exceed the retry limit *)
(* (policies.py 234-242).                                                  *)
(***************************************************************************)
LEMMA RetryCapHolds == Spec => []RetryCap
  <1>1. HistoriesBounded => RetryCap
    BY DEF HistoriesBounded, WithinLimits, RetryCap
  <1>2. QED
    BY <1>1, Bounded, PTL

(***************************************************************************)
(* Both limits hold in every session, for every value of the limits,       *)
(* whatever mixture of successes, failures, retries and replays is sent.   *)
(***************************************************************************)
THEOREM BothCapsHold == Spec => []CapsHold
  <1>1. SessionWriteCap /\ RetryCap => CapsHold
    BY DEF CapsHold
  <1>2. QED
    BY <1>1, WriteCapHolds, RetryCapHolds, PTL

-----------------------------------------------------------------------------
(***************************************************************************)
(* The store.  A request either leaves the operations and versions alone   *)
(* or is a write that records the first operation of its change.           *)
(***************************************************************************)

RecordsFirst(q, status) ==
  /\ q.tool = "execute_write"
  /\ Stored(Strip[q.record], Strip[q.change]) = {}
  /\ Strip[q.record] \in Records
  /\ operations' = operations \cup {NewOperation(q, status)}

(* A tool leaves the store alone or records one new operation. *)
LEMMA InvokeStore ==
  ASSUME NEW q \in Request, NEW outcome \in Outcomes, Invoke(q, outcome)
  PROVE  \/ operations' = operations /\ version' = version
         \/ /\ RecordsFirst(q, "SUCCEEDED")
            /\ outcome = "success"
            /\ version' = [version EXCEPT ![Strip[q.record]] = @ + 1]
         \/ RecordsFirst(q, "FAILED") /\ version' = version
  <1>1. CASE q.tool # "execute_write"
    BY <1>1 DEF Invoke, LookupRecord, RecordHumanApproval, GetOperationStatus,
                UnknownTool, storeVars
  <1>2. CASE q.tool = "execute_write" /\ ~(WellFormed(q) /\ KnownRecord(q))
    BY <1>2 DEF Invoke, ExecuteWrite, Tools, storeVars
  <1>3. CASE q.tool = "execute_write" /\ WellFormed(q) /\ KnownRecord(q)
    <2>1. ExecuteWrite(q, outcome)
      BY <1>3 DEF Invoke, Tools
    <2>2. CASE Stored(Strip[q.record], Strip[q.change]) # {}
      BY <1>3, <2>1, <2>2 DEF ExecuteWrite, ApplyChange, RecordFailedChange,
                              storeVars
    <2>3. CASE Stored(Strip[q.record], Strip[q.change]) = {}
      <3>1. CASE q.mode = "force_error"
        BY <1>3, <2>1, <2>3, <3>1
           DEF ExecuteWrite, RecordFailedChange, RecordsFirst, KnownRecord
      <3>2. CASE q.mode # "force_error"
        <4>1. ApplyChange(q)
          BY <1>3, <2>1, <3>2 DEF ExecuteWrite
        <4>2. operations' = operations \cup {NewOperation(q, "SUCCEEDED")}
          BY <2>3, <4>1 DEF ApplyChange
        <4>3. outcome = "success"
          <5>1. /\ NewOperation(q, "SUCCEEDED") \in operations'
                /\ NewOperation(q, "SUCCEEDED").record = Strip[q.record]
                /\ NewOperation(q, "SUCCEEDED").change = Strip[q.change]
                /\ NewOperation(q, "SUCCEEDED").status = "SUCCEEDED"
            BY <4>2 DEF NewOperation
          <5>2. QED
            BY <1>3, <2>1, <5>1 DEF ExecuteWrite
        <4>4. QED
          BY <1>3, <2>3, <4>1, <4>2, <4>3 DEF ApplyChange, RecordsFirst, KnownRecord
      <3>3. QED
        BY <3>1, <3>2
    <2>4. QED
      BY <2>2, <2>3
  <1>4. QED
    BY <1>1, <1>2, <1>3

(***************************************************************************)
(* An operation, once recorded, stays as it is.                            *)
(***************************************************************************)
THEOREM Permanent == Spec => OperationsPermanent
  <1>1. TypeOK /\ [Next]_vars => [operations \subseteq operations']_vars
    <2> SUFFICES ASSUME TypeOK, Next PROVE operations \subseteq operations'
      OBVIOUS
    <2>1. ASSUME NEW c \in Callers, NEW s \in Sessions, NEW q \in Requests,
                 Perform(c, s, q)
          PROVE  operations \subseteq operations'
      <3>1. PICK outcome \in Outcomes : Invoke(q, outcome) /\ q \in Request
        BY <2>1, PerformStep
      <3>2. QED
        BY <3>1, InvokeStore DEF RecordsFirst
    <2>2. CASE UNCHANGED vars
      BY <2>2 DEF vars
    <2>3. QED
      BY <2>1, <2>2 DEF Next, Refuse
  <1>2. QED
    BY <1>1, TypeCorrect, PTL DEF Spec, OperationsPermanent

(***************************************************************************)
(* One operation per change, and versions that count the successful ones.  *)
(* The set of operations is finite: only then does its cardinality count.  *)
(***************************************************************************)
StoreConsistent ==
  /\ IsFiniteSet(operations)
  /\ OneOperationPerChange
  /\ VersionCountsEffects

(* Every step keeps the store consistent. *)
LEMMA ConsistentStep ==
  ASSUME TypeOK, StoreConsistent, NEW q \in Request, NEW outcome \in Outcomes,
         Invoke(q, outcome)
  PROVE  StoreConsistent'
  <1> DEFINE rec == Strip[q.record]
             On(r) == {o \in Succeeded : o.record = r}
  <1>1. CASE operations' = operations /\ version' = version
    BY <1>1 DEF StoreConsistent, OneOperationPerChange, VersionCountsEffects,
                Succeeded
  <1>2. CASE \E status \in {"SUCCEEDED", "FAILED"} :
               /\ RecordsFirst(q, status)
               /\ version' = IF status = "SUCCEEDED"
                               THEN [version EXCEPT ![rec] = @ + 1] ELSE version
    <2>1. PICK status \in {"SUCCEEDED", "FAILED"} :
            /\ RecordsFirst(q, status)
            /\ version' = IF status = "SUCCEEDED"
                            THEN [version EXCEPT ![rec] = @ + 1] ELSE version
      BY <1>2
    <2> DEFINE new == NewOperation(q, status)
    <2>2. /\ new.record = rec /\ new.change = Strip[q.change]
          /\ new.status = status
          /\ operations' = operations \cup {new}
          /\ new \notin operations
      BY <2>1 DEF NewOperation, RecordsFirst, Stored
    <2>3. IsFiniteSet(operations')
      BY <2>2, FS_AddElement DEF StoreConsistent
    <2>4. \A o \in operations : ~(o.record = new.record /\ o.change = new.change)
      BY <2>1, <2>2 DEF RecordsFirst, Stored
    <2>5. OneOperationPerChange'
      BY <2>2, <2>4 DEF StoreConsistent, OneOperationPerChange
    <2>6. ASSUME NEW r \in Records
          PROVE  version'[r] = 1 + Cardinality({o \in operations' :
                                      o.status = "SUCCEEDED" /\ o.record = r})
      <3> DEFINE Now == {o \in operations : o.status = "SUCCEEDED" /\ o.record = r}
                 Then == {o \in operations' : o.status = "SUCCEEDED" /\ o.record = r}
      <3>1. IsFiniteSet(Now) /\ Cardinality(Now) \in Nat
        BY FS_Subset, FS_CardinalityType DEF StoreConsistent
      <3>2. version[r] = 1 + Cardinality(Now)
        <4>1. Now = {o \in Succeeded : o.record = r}
          BY DEF Succeeded
        <4>2. QED
          BY <4>1 DEF StoreConsistent, VersionCountsEffects
      <3>3. CASE status = "SUCCEEDED" /\ r = rec
        <4>1. Then = Now \cup {new} /\ new \notin Now
          BY <2>2, <3>3
        <4>2. Cardinality(Then) = Cardinality(Now) + 1
          BY <3>1, <4>1, FS_AddElement
        <4>3. version'[r] = version[r] + 1
          BY <2>1, <3>3 DEF TypeOK, StoreTypeOK
        <4>4. QED
          BY <3>1, <3>2, <4>2, <4>3
      <3>4. CASE ~(status = "SUCCEEDED" /\ r = rec)
        <4>1. Then = Now
          BY <2>2, <3>4
        <4>2. version'[r] = version[r]
          BY <2>1, <3>4 DEF TypeOK, StoreTypeOK
        <4>3. QED
          BY <3>2, <4>1, <4>2
      <3>5. QED
        BY <3>3, <3>4
    <2>7. VersionCountsEffects'
      <3>1. \A r \in Records :
              {o \in Succeeded : o.record = r}' =
                {o \in operations' : o.status = "SUCCEEDED" /\ o.record = r}
        BY DEF Succeeded
      <3>2. QED
        BY <2>6, <3>1 DEF VersionCountsEffects
    <2>8. QED
      BY <2>3, <2>5, <2>7 DEF StoreConsistent
  <1>3. QED
    BY <1>1, <1>2, InvokeStore

(* The store is consistent in every reachable state. *)
LEMMA AlwaysConsistent == Spec => []StoreConsistent
  <1>1. Init => StoreConsistent
    <2> SUFFICES ASSUME Init PROVE StoreConsistent
      OBVIOUS
    <2>1. operations = {} /\ Succeeded = {}
      BY DEF Init, StoreInit, Succeeded
    <2>2. \A r \in Records : {o \in Succeeded : o.record = r} = {}
      BY <2>1
    <2>3. IsFiniteSet({}) /\ Cardinality({}) = 0
      BY FS_EmptySet
    <2>4. \A r \in Records : version[r] = 1
      BY DEF Init, StoreInit
    <2>5. QED
      BY <2>1, <2>2, <2>3, <2>4
         DEF StoreConsistent, OneOperationPerChange, VersionCountsEffects
  <1>2. TypeOK /\ StoreConsistent /\ [Next]_vars => StoreConsistent'
    <2> SUFFICES ASSUME TypeOK, StoreConsistent, [Next]_vars
                 PROVE  StoreConsistent'
      OBVIOUS
    <2>1. ASSUME NEW c \in Callers, NEW s \in Sessions, NEW q \in Requests,
                 Perform(c, s, q)
          PROVE  StoreConsistent'
      BY <2>1, PerformStep, ConsistentStep
    <2>2. CASE UNCHANGED vars
      BY <2>2 DEF vars, StoreConsistent, OneOperationPerChange,
                  VersionCountsEffects, Succeeded
    <2>3. QED
      BY <2>1, <2>2 DEF Next, Refuse
  <1>3. QED
    BY <1>1, <1>2, TypeCorrect, PTL DEF Spec

(***************************************************************************)
(* A change has one operation in the store, and a record's version counts  *)
(* exactly its successful changes (store.py, apply_change and              *)
(* record_failed_change).                                                  *)
(***************************************************************************)
THEOREM Consistent == Spec => []StoreIsIdempotent
  <1>1. StoreConsistent => StoreIsIdempotent
    BY DEF StoreConsistent, StoreIsIdempotent
  <1>2. QED
    BY <1>1, AlwaysConsistent, PTL

-----------------------------------------------------------------------------
\* What backed a write still backs it when the history has grown.
(* What backs an operation is still there when a history grows. *)
LEMMA BackingKept ==
  ASSUME NEW h \in Seq(Event), NEW e \in Event, NEW k \in DOMAIN h,
         BackedWrite(h, k)
  PROVE  /\ k \in DOMAIN Append(h, e)
         /\ BackedWrite(Append(h, e), k)
         /\ Append(h, e)[k] = h[k]
  <1>1. \A i \in 1..k : i \in DOMAIN h /\ Append(h, e)[i] = h[i]
    BY AppendedHistory
  <1>2. 1..(k - 1) \subseteq 1..k /\ k \in 1..k
    BY AppendedHistory
  <1>3. QED
    BY <1>1, <1>2, AppendedHistory DEF BackedWrite

\* A write that is allowed is backed, and names its approval as stored.
(* An allowed write that succeeds is backed by its own history. *)
LEMMA AllowedIsBacked ==
  ASSUME NEW h \in Seq(Event), NEW c \in Callers, NEW s \in Sessions,
         NEW q \in Request, NEW now, Authorize(h, c, s, q, now) = "allow",
         q.tool = "execute_write"
  PROVE  /\ BackedWrite(Append(h, NewEvent(q, "success")), Len(h) + 1)
         /\ Strip[q.approval] = q.approval
  <1> DEFINE e == NewEvent(q, "success")
             g == Append(h, e)
  <1>1. e \in Event /\ e.request = q /\ e.outcome = "success"
    BY DEF NewEvent, Event, Outcomes
  <1>2. WriteAllowed(h, q, now)
    BY AllowedWrite
  <1>3. PICK i \in DOMAIN h : IsLookup(h[i], q.record)
    BY <1>2 DEF WriteAllowed, LookedUp
  <1>4. PICK j \in DOMAIN h : IsApproval(h[j], q.record, q.approval)
    BY <1>2 DEF WriteAllowed, LatestApprovalUnexpired
  <1>5. /\ g[Len(h) + 1] = e /\ g[i] = h[i] /\ g[j] = h[j]
        /\ i \in 1..((Len(h) + 1) - 1) /\ j \in 1..((Len(h) + 1) - 1)
    BY <1>1, AppendedHistory
  <1>6. BackedWrite(g, Len(h) + 1)
    BY <1>1, <1>3, <1>4, <1>5 DEF BackedWrite, IsWrite
  <1>7. h[j].request.approval \in Ids
    <2>1. h[j] \in Event
      BY AppendedHistory, <1>1
    <2>2. QED
      BY <2>1 DEF Event, Request
  <1>8. Strip[q.approval] = q.approval
    BY <1>4, <1>7, StripAssumption DEF IsApproval
  <1>9. QED
    BY <1>6, <1>8

(***************************************************************************)
(* Every successful operation of the store was asked for by a write whose  *)
(* own session holds the lookup and the approval that it needs.            *)
(***************************************************************************)
THEOREM Backed == Spec => []EffectsBacked
  <1>1. Init => EffectsBacked
    BY DEF Init, StoreInit, EffectsBacked, Succeeded
  <1>2. TypeOK /\ EffectsBacked /\ [Next]_vars => EffectsBacked'
    <2> SUFFICES ASSUME TypeOK, EffectsBacked, [Next]_vars PROVE EffectsBacked'
      OBVIOUS
    <2>1. ASSUME NEW c \in Callers, NEW s \in Sessions, NEW q \in Requests,
                 Perform(c, s, q)
          PROVE  EffectsBacked'
      <3> DEFINE h == history[<<c, s>>]
      <3>1. <<c, s>> \in Pairs /\ h \in Seq(Event)
        BY DEF Pairs, TypeOK
      <3>2. Authorize(h, c, s, q, clock) = "allow" /\ q \in Request
        BY <2>1, PerformStep
      <3>3. PICK outcome \in Outcomes :
              /\ Invoke(q, outcome)
              /\ NewEvent(q, outcome) \in Event
              /\ history' = [history EXCEPT ![<<c, s>>] =
                               Append(@, NewEvent(q, outcome))]
        BY <2>1, PerformStep
      <3> DEFINE e == NewEvent(q, outcome)
                 g == Append(h, e)
      <3>4. history'[<<c, s>>] = g
        BY <3>1, <3>3 DEF TypeOK
      <3>5. ASSUME NEW o \in Succeeded
            PROVE  \E p \in Pairs : \E k \in DOMAIN history'[p] :
                     BackedWrite(history'[p], k) /\ Applied(history'[p][k], o)
        <4>1. PICK p \in Pairs : \E k \in DOMAIN history[p] :
                BackedWrite(history[p], k) /\ Applied(history[p][k], o)
          BY <3>5 DEF EffectsBacked
        <4>2. PICK k \in DOMAIN history[p] :
                BackedWrite(history[p], k) /\ Applied(history[p][k], o)
          BY <4>1
        <4>3. CASE p = <<c, s>>
          <5>1. /\ k \in DOMAIN g /\ BackedWrite(g, k) /\ g[k] = h[k]
            BY <3>1, <3>3, <4>2, <4>3, BackingKept
          <5>2. QED
            BY <3>1, <3>4, <4>2, <4>3, <5>1
        <4>4. CASE p # <<c, s>>
          <5>1. history'[p] = history[p]
            BY <3>3, <4>4 DEF TypeOK
          <5>2. QED
            BY <4>2, <5>1
        <4>5. QED
          BY <4>3, <4>4
      <3>6. ASSUME RecordsFirst(q, "SUCCEEDED"), outcome = "success"
            PROVE  /\ BackedWrite(g, Len(h) + 1)
                   /\ Len(h) + 1 \in DOMAIN g
                   /\ Applied(g[Len(h) + 1], NewOperation(q, "SUCCEEDED"))
        <4>1. BackedWrite(g, Len(h) + 1) /\ Strip[q.approval] = q.approval
          BY <3>1, <3>2, <3>6, AllowedIsBacked DEF RecordsFirst
        <4>2. g[Len(h) + 1] = e /\ Len(h) + 1 \in DOMAIN g
          BY <3>1, <3>3, AppendedHistory
        <4>3. QED
          BY <4>1, <4>2 DEF Applied, NewOperation, NewEvent
      <3>7. ASSUME NEW o \in Succeeded'
            PROVE  \E p \in Pairs : \E k \in DOMAIN history'[p] :
                     BackedWrite(history'[p], k) /\ Applied(history'[p][k], o)
        <4>1. CASE o \in operations
          BY <3>5, <3>7, <4>1 DEF Succeeded
        <4>2. CASE o \notin operations
          <5>1. /\ RecordsFirst(q, "SUCCEEDED") /\ outcome = "success"
                /\ o = NewOperation(q, "SUCCEEDED")
            BY <3>2, <3>3, <3>7, <4>2, InvokeStore
               DEF RecordsFirst, Succeeded, NewOperation
          <5>2. QED
            BY <3>1, <3>4, <3>6, <5>1
        <4>3. QED
          BY <4>1, <4>2
      <3>8. QED
        BY <3>7 DEF EffectsBacked, BackedWrite, Applied, IsWrite, IsLookup,
                    IsApproval
    <2>2. CASE UNCHANGED vars
      BY <2>2 DEF vars, EffectsBacked, Succeeded, BackedWrite, Applied, IsWrite,
                  IsLookup, IsApproval
    <2>3. QED
      BY <2>1, <2>2 DEF Next, Refuse
  <1>3. QED
    BY <1>1, <1>2, TypeCorrect, PTL DEF Spec

-----------------------------------------------------------------------------
(* The callers' sessions in which anything happened yet are finitely many. *)
Used == {p \in Pairs : history[p] # <<>>}

LEMMA UsedFinite == Spec => []IsFiniteSet(Used)
  <1>1. Init => IsFiniteSet(Used)
    <2> SUFFICES ASSUME Init PROVE IsFiniteSet(Used)
      OBVIOUS
    <2>1. Used = {}
      BY DEF Init, Used
    <2>2. QED
      BY <2>1, FS_EmptySet
  <1>2. TypeOK /\ IsFiniteSet(Used) /\ [Next]_vars => IsFiniteSet(Used)'
    <2> SUFFICES ASSUME TypeOK, IsFiniteSet(Used), [Next]_vars
                 PROVE  IsFiniteSet(Used')
      OBVIOUS
    <2>1. ASSUME NEW c \in Callers, NEW s \in Sessions, NEW q \in Requests,
                 Perform(c, s, q)
          PROVE  IsFiniteSet(Used')
      <3>1. PICK e : history' = [history EXCEPT ![<<c, s>>] = Append(@, e)]
        BY <2>1, PerformStep
      <3>2. Used' \subseteq Used \cup {<<c, s>>}
        BY <3>1 DEF Used, TypeOK
      <3>3. IsFiniteSet(Used \cup {<<c, s>>})
        BY FS_AddElement
      <3>4. QED
        BY <3>2, <3>3, FS_Subset
    <2>2. CASE UNCHANGED vars
      BY <2>2 DEF vars, Used
    <2>3. QED
      BY <2>1, <2>2 DEF Next, Refuse
  <1>3. QED
    BY <1>1, <1>2, TypeCorrect, PTL DEF Spec

(* Two operations backed by one session under one approval are the same. *)
LEMMA OneBackedPerSession ==
  ASSUME TypeOK, OneOperationPerChange, ApprovalSingleUse,
         NEW o1 \in Succeeded, NEW o2 \in Succeeded, o1.approval = o2.approval,
         NEW p \in Pairs,
         NEW k1 \in DOMAIN history[p], BackedWrite(history[p], k1), Applied(history[p][k1], o1),
         NEW k2 \in DOMAIN history[p], BackedWrite(history[p], k2), Applied(history[p][k2], o2)
  PROVE  o1 = o2
  <1>1. k1 = k2
    BY DEF ApprovalSingleUse, SuccessfulWrites, BackedWrite, Applied
  <1>2. o1.record = o2.record /\ o1.change = o2.change
    BY <1>1 DEF Applied
  <1>3. QED
    BY <1>2 DEF OneOperationPerChange, Succeeded

(* A session that backs an operation holds the recording of its approval. *)
LEMMA BackingSession ==
  ASSUME TypeOK, NEW o \in Succeeded, NEW p \in Pairs, NEW k \in DOMAIN history[p],
         BackedWrite(history[p], k), Applied(history[p][k], o)
  PROVE  \E i \in DOMAIN history[p], r \in Records :
           IsApproval(history[p][i], r, o.approval)
  <1> DEFINE h == history[p]
             q == h[k].request
  <1>1. h \in Seq(Event) /\ k \in 1..Len(h) /\ DOMAIN h = 1..Len(h)
    BY DEF TypeOK
  <1>2. PICK i \in 1..(k - 1) : IsApproval(h[i], q.record, q.approval)
    BY DEF BackedWrite
  <1>3. i \in DOMAIN h /\ h[i] \in Event
    BY <1>1
  <1>4. h[i].request.record \in Ids
    BY <1>3 DEF Event, Request
  <1>5. q.record = Strip[q.record]
    BY <1>2, <1>4, StripAssumption DEF IsApproval
  <1>6. q.record = o.record /\ q.approval = o.approval
    BY <1>5 DEF Applied
  <1>7. o.record \in Records
    BY DEF TypeOK, StoreTypeOK, Succeeded, Operation
  <1>8. QED
    BY <1>2, <1>3, <1>6, <1>7

LEMMA ReachFollows ==
  ASSUME TypeOK, IsFiniteSet(Used), IsFiniteSet(operations), OneOperationPerChange,
         ApprovalSingleUse, EffectsBacked
  PROVE  ApprovalReach
  <1> SUFFICES ASSUME NEW a \in Ids
               PROVE  Cardinality({o \in Succeeded : o.approval = a}) <=
                        Cardinality({p \in Pairs : \E i \in DOMAIN history[p], r \in Records :
                                       IsApproval(history[p][i], r, a)})
    BY DEF ApprovalReach
  <1> DEFINE S == {o \in Succeeded : o.approval = a}
             T == {p \in Pairs : \E i \in DOMAIN history[p], r \in Records :
                     IsApproval(history[p][i], r, a)}
             Backs(p, o) == \E k \in DOMAIN history[p] :
                              BackedWrite(history[p], k) /\ Applied(history[p][k], o)
             f == [o \in S |-> CHOOSE p \in Pairs : Backs(p, o)]
  <1>1. S \subseteq operations /\ S \subseteq Succeeded
    BY DEF Succeeded
  <1>2. T \subseteq Used
    BY DEF Used
  <1>3. IsFiniteSet(S) /\ IsFiniteSet(T)
    BY <1>1, <1>2, FS_Subset
  <1>4. Cardinality(S) \in Nat /\ Cardinality(T) \in Nat
    BY <1>3, FS_CardinalityType
  <1>5. \A o \in S : f[o] \in Pairs /\ Backs(f[o], o)
    BY <1>1 DEF EffectsBacked
  <1>6. \A o \in S : f[o] \in T
    <2> SUFFICES ASSUME NEW o \in S PROVE f[o] \in T
      OBVIOUS
    <2>1. o \in Succeeded /\ o.approval = a /\ f[o] \in Pairs /\ Backs(f[o], o)
      BY <1>1, <1>5
    <2> HIDE DEF f
    <2>2. \E i \in DOMAIN history[f[o]], r \in Records :
            IsApproval(history[f[o]][i], r, o.approval)
      BY <2>1, BackingSession
    <2>3. QED
      BY <2>1, <2>2
  <1>7. f \in [S -> T]
    BY <1>6
  <1>8. ASSUME NEW o1 \in S, NEW o2 \in S, f[o1] = f[o2] PROVE o1 = o2
    <2> HIDE DEF f
    <2>1. /\ o1 \in Succeeded /\ o2 \in Succeeded /\ o1.approval = o2.approval
          /\ f[o1] \in Pairs /\ Backs(f[o1], o1) /\ Backs(f[o1], o2)
      BY <1>1, <1>5, <1>8
    <2>2. QED
      BY <2>1, OneBackedPerSession
  <1> HIDE DEF S, T, f
  <1>9. ~(Cardinality(T) < Cardinality(S))
    BY <1>3, <1>7, <1>8, FS_PigeonHole
  <1>10. Cardinality(S) <= Cardinality(T)
    BY <1>4, <1>9
  <1>11. QED
    BY <1>10 DEF S, T

(***************************************************************************)
(* An approval reaches no further than the sessions it was recorded in:    *)
(* single use in each session, one operation per change and the backing of *)
(* every effect bound its effects over the whole store.                    *)
(***************************************************************************)
THEOREM Reaches == Spec => []ApprovalReach
  <1>1. StoreConsistent => IsFiniteSet(operations) /\ OneOperationPerChange
    BY DEF StoreConsistent
  <1>2. QED
    BY <1>1, ReachFollows, UsedFinite, TypeCorrect, SingleUse, Backed, AlwaysConsistent, PTL

-----------------------------------------------------------------------------
(***************************************************************************)
(* The runner: every step of a run is a step of the lab.                   *)
(***************************************************************************)
(* What the argument needs of a run: its scenario is one of Scenarios and  *)
(* its log counts the steps presented.                                     *)
RunShape ==
  /\ scenario \in Scenarios
  /\ evidence \in Seq(EvidenceEvent)
  /\ clock \in Nat

(* A run starts with an empty log. *)
LEMMA ShapeInit == RunInit => RunShape
BY DEF RunInit, RunShape, Init

(* The step presented next, when there is one.                             *)
LEMMA PresentedStep ==
  ASSUME RunShape, More
  PROVE  CurrentStep \in Step /\ Current \in Nat
<1>1. Current \in 1..Len(scenario.steps)
  BY DEF RunShape, More, Current
<1>2. scenario.steps \in Seq(Step)
  BY RunnerAssumption DEF RunShape
<1> QED
  BY <1>1, <1>2 DEF CurrentStep

(* Logging the presented step keeps the log well typed. *)
LEMMA ShapeLogged ==
  ASSUME RunShape, More, NEW d \in {"allow", "deny", "error"},
         NEW o \in Outcomes \cup {"not_started"}, Log(d, o)
  PROVE  evidence' \in Seq(EvidenceEvent)
<1>1. CurrentStep \in Step
  BY PresentedStep
<1>2. [caller |-> CurrentStep.caller, session |-> CurrentStep.session,
       request |-> CurrentStep.request, at |-> clock, decision |-> d,
       outcome |-> o] \in EvidenceEvent
  BY <1>1 DEF Step, EvidenceEvent, RunShape
<1> QED
  BY <1>2 DEF Log, RunShape

(* Every step of a run keeps its shape. *)
LEMMA ShapeStep == RunShape /\ [RunNext]_runVars => RunShape'
<1> SUFFICES ASSUME RunShape, [RunNext]_runVars PROVE RunShape'
  OBVIOUS
<1>1. CASE AllowedStep
  <2>1. PICK o \in Outcomes : Log("allow", o)
    BY <1>1 DEF AllowedStep
  <2>2. evidence' \in Seq(EvidenceEvent)
    BY <1>1, <2>1, ShapeLogged DEF AllowedStep
  <2> QED
    BY <1>1, <2>2 DEF AllowedStep, RunShape
<1>2. CASE DeniedStep
  BY <1>2, ShapeLogged DEF DeniedStep, RunShape, vars
<1>3. CASE FailedStep
  BY <1>3, ShapeLogged DEF FailedStep, RunShape, vars
<1>4. CASE Summarize \/ NotApplicable \/ UNCHANGED runVars
  BY <1>4 DEF Summarize, NotApplicable, RunShape, vars, books, runVars
<1> QED
  BY <1>1, <1>2, <1>3, <1>4 DEF RunNext

-----------------------------------------------------------------------------
(* A step of a temporal run is a step of the reference monitor, or leaves  *)
(* its variables alone.                                                    *)
LEMMA TemporalStep ==
  ASSUME RunShape, control = "temporal_policy", [RunNext]_runVars
  PROVE  [Next]_vars /\ control' = control
<1> DEFINE x == CurrentStep
<1>1. More => x.caller \in Callers /\ x.session \in Sessions /\ x.request \in Requests
  BY PresentedStep DEF Step
<1>2. Choose(x.caller, x.session, x.request) = Decision(x.caller, x.session, x.request)
  BY DEF Choose
<1>3. CASE AllowedStep
  <2>1. Perform(x.caller, x.session, x.request)
    <3>1. PICK o \in Outcomes :
            Invoke(x.request, o) /\ ObserveBy(x.caller, x.session, x.request, o)
      BY <1>3 DEF AllowedStep
    <3>2. Observe(x.caller, x.session, x.request, o)
      BY <3>1 DEF ObserveBy
    <3> HIDE DEF x
    <3>3. /\ clock < MaxClock /\ clock' = clock + 1
          /\ Decision(x.caller, x.session, x.request) = "allow"
      BY <1>2, <1>3 DEF AllowedStep, x
    <3> QED
      BY <3>1, <3>2, <3>3 DEF Perform
  <2> QED
    BY <1>1, <1>3, <2>1 DEF AllowedStep, Next
<1>4. CASE DeniedStep
  BY <1>4 DEF DeniedStep
<1>5. CASE FailedStep
  BY <1>5 DEF FailedStep
<1>6. CASE Summarize \/ NotApplicable \/ UNCHANGED runVars
  BY <1>6 DEF Summarize, NotApplicable, runVars
<1> QED
  BY <1>3, <1>4, <1>5, <1>6 DEF RunNext

(***************************************************************************)
(* Under the temporal policy the runner only ever takes steps of the       *)
(* reference monitor: whatever the trajectory, a presented step is         *)
(* authorized against the history, invoked, observed and timed as there,   *)
(* and the rest of the loop touches none of it (runner.py 112-187).        *)
(***************************************************************************)
THEOREM TemporalRunsRefine == RunSpec => TemporalRunsAreLabSteps
<1>1. RunShape /\ [RunNext]_runVars => [control = "temporal_policy" => Next]_vars
  BY TemporalStep
<1>2. RunInit => RunShape
  BY ShapeInit
<1>3. RunShape /\ [RunNext]_runVars => RunShape'
  BY ShapeStep
<1> QED
  BY <1>1, <1>2, <1>3, PTL DEF RunSpec, TemporalRunsAreLabSteps

(* A whole run under the temporal policy is a behaviour of PolicyLab. *)
LEMMA TemporalRunIsLab == RunSpec /\ control = "temporal_policy" => Spec
<1> DEFINE Inv == RunShape /\ control = "temporal_policy"
<1>1. RunInit /\ control = "temporal_policy" => Init /\ Inv
  BY ShapeInit DEF RunInit
<1>2. Inv /\ [RunNext]_runVars => Inv'
  BY ShapeStep, TemporalStep
<1>3. Inv /\ [RunNext]_runVars => [Next]_vars
  BY TemporalStep
<1> QED
  BY <1>1, <1>2, <1>3, PTL DEF RunSpec, Spec

(***************************************************************************)
(* A temporal run of any scenario keeps the promises of the monitor: its   *)
(* approvals are used once in each session, neither limit is exceeded, and *)
(* every change in the store is backed by a lookup and an approval         *)
(* (policies.py, authorize, as the runner uses it).                        *)
(***************************************************************************)
THEOREM TemporalRunsAreSafe ==
  RunSpec /\ control = "temporal_policy"
    => [](ApprovalSingleUse /\ CapsHold /\ EffectsBacked)
BY TemporalRunIsLab, SingleUse, BothCapsHold, Backed, PTL
-----------------------------------------------------------------------------
(***************************************************************************)
(* One presented step, whichever of the three it is: decision d, outcome o *)
(* and what the runner keeps of them beside the log.                       *)
(***************************************************************************)
StepTaken(d, o) ==
  /\ d = "allow" <=> o \in Outcomes
  /\ Log(d, o)
  /\ denied' = denied \cup (IF d = "deny" THEN {Current} ELSE {})
  /\ allowed' = allowed \cup (IF d = "allow" THEN {Current} ELSE {})
  /\ authErrors' = authErrors \cup (IF d = "error" THEN {"VALIDATION_ERROR"} ELSE {})
  /\ completed' = completed + (IF o = "success" THEN 1 ELSE 0)
  /\ toolErrors' = toolErrors + (IF o = "error" THEN 1 ELSE 0)
  /\ StopUnless(\/ o = "success"
                \/ d = "deny" /\ CurrentStep.onDeny
                \/ d # "deny" /\ CurrentStep.onError)
  /\ Presented(CurrentStep.request, d = "allow")

(* Every presented step is one of these. *)
LEMMA EveryStepTaken ==
  ASSUME RunTypeOK, AllowedStep \/ DeniedStep \/ FailedStep
  PROVE  /\ Running /\ More /\ UNCHANGED <<control, scenario, result>>
         /\ \E d \in {"allow", "deny", "error"}, o \in Outcomes \cup {"not_started"} :
              StepTaken(d, o)
<1>0. completed + 0 = completed /\ toolErrors + 0 = toolErrors
  BY DEF RunTypeOK
<1>1. CASE AllowedStep
  <2>1. PICK o \in Outcomes :
          /\ completed' = completed + (IF o = "success" THEN 1 ELSE 0)
          /\ toolErrors' = toolErrors + (IF o = "error" THEN 1 ELSE 0)
          /\ Log("allow", o)
          /\ StopUnless(o = "success" \/ CurrentStep.onError)
    BY <1>1 DEF AllowedStep
  <2>2. StopUnless(\/ o = "success"
                   \/ "allow" = "deny" /\ CurrentStep.onDeny
                   \/ "allow" # "deny" /\ CurrentStep.onError)
    BY <2>1 DEF StopUnless
  <2>3. StepTaken("allow", o)
    BY <1>1, <2>1, <2>2 DEF AllowedStep, StepTaken
  <2> QED
    BY <1>1, <2>3 DEF AllowedStep
<1>2. CASE DeniedStep
  <2>1. StepTaken("deny", "not_started")
    BY <1>0, <1>2 DEF DeniedStep, StepTaken, StopUnless, Outcomes
  <2> QED
    BY <1>2, <2>1 DEF DeniedStep
<1>3. CASE FailedStep
  <2>1. StepTaken("error", "not_started")
    BY <1>0, <1>3 DEF FailedStep, StepTaken, StopUnless, Outcomes
  <2> QED
    BY <1>3, <2>1 DEF FailedStep
<1> QED
  BY <1>1, <1>2, <1>3

(* What the log holds after one more step. *)
LEMMA LogGrows ==
  ASSUME RunTypeOK, More, NEW d \in {"allow", "deny", "error"},
         NEW o \in Outcomes \cup {"not_started"}, Log(d, o)
  PROVE  /\ evidence' \in Seq(EvidenceEvent)
         /\ DOMAIN evidence = 1..Len(evidence) /\ Len(evidence) \in Nat
         /\ Len(evidence') = Current /\ Current = Len(evidence) + 1
         /\ DOMAIN evidence' = DOMAIN evidence \cup {Current}
         /\ Current \notin DOMAIN evidence
         /\ \A k \in DOMAIN evidence : evidence'[k] = evidence[k]
         /\ evidence'[Current].caller = CurrentStep.caller
         /\ evidence'[Current].session = CurrentStep.session
         /\ evidence'[Current].request = CurrentStep.request
         /\ evidence'[Current].at = clock
         /\ evidence'[Current].decision = d /\ evidence'[Current].outcome = o
         /\ CurrentStep \in Step /\ Current \in 1..Len(scenario.steps)
<1>1. RunShape
  BY MaxClockAssumption DEF RunTypeOK, RunShape, TypeOK
<1>2. evidence' \in Seq(EvidenceEvent) /\ CurrentStep \in Step
  BY <1>1, ShapeLogged, PresentedStep
<1> DEFINE e == [caller |-> CurrentStep.caller, session |-> CurrentStep.session,
                 request |-> CurrentStep.request, at |-> clock, decision |-> d,
                 outcome |-> o]
<1>3. evidence \in Seq(EvidenceEvent) /\ evidence' = Append(evidence, e)
  BY DEF RunTypeOK, Log
<1>4. /\ e.caller = CurrentStep.caller /\ e.session = CurrentStep.session
      /\ e.request = CurrentStep.request /\ e.at = clock
      /\ e.decision = d /\ e.outcome = o
  OBVIOUS
<1>5. Current \in 1..Len(scenario.steps)
  BY <1>3 DEF More, Current
<1> HIDE DEF e
<1>6. e \in EvidenceEvent
  BY <1>1, <1>2 DEF e, Step, EvidenceEvent, RunShape
<1> QED
  BY <1>2, <1>3, <1>4, <1>5, <1>6 DEF Current

(* A step of a run keeps the store, the clock and the histories typed. *)
LEMMA RunKeepsLabTypes ==
  ASSUME RunTypeOK, [RunNext]_runVars
  PROVE  TypeOK'
<1>1. CASE AllowedStep
  <2> DEFINE x == CurrentStep
  <2>1. x \in Step
    <3>1. RunShape
      BY MaxClockAssumption DEF RunTypeOK, RunShape, TypeOK
    <3> QED
      BY <1>1, <3>1, PresentedStep DEF AllowedStep
  <2>2. x.caller \in Callers /\ x.session \in Sessions /\ x.request \in Request
    BY <2>1, RequestsAssumption DEF Step
  <2>3. PICK o \in Outcomes : /\ Invoke(x.request, o)
                              /\ ObserveBy(x.caller, x.session, x.request, o)
    BY <1>1 DEF AllowedStep
  <2>4. StoreTypeOK'
    BY <2>2, <2>3, InvokeTyped DEF RunTypeOK, TypeOK
  <2>5. clock' \in 0..MaxClock
    BY <1>1, MaxClockAssumption DEF AllowedStep, RunTypeOK, TypeOK
  <2> HIDE DEF x
  <2>6. history' \in [Pairs -> Seq(Event)]
    <3>1. [request |-> x.request, outcome |-> o] \in Event
      BY <2>2, <2>3 DEF Event
    <3>2. history' = history \/ history' = [history EXCEPT ![<<x.caller, x.session>>] =
                                    Append(@, [request |-> x.request, outcome |-> o])]
      BY <2>3 DEF ObserveBy, Observe
    <3>3. history \in [Pairs -> Seq(Event)] /\ <<x.caller, x.session>> \in Pairs
      BY <2>2 DEF RunTypeOK, TypeOK, Pairs
    <3>4. Append(history[<<x.caller, x.session>>],
                 [request |-> x.request, outcome |-> o]) \in Seq(Event)
      BY <3>1, <3>3
    <3> QED
      BY <3>2, <3>3, <3>4
  <2> QED
    BY <2>4, <2>5, <2>6 DEF TypeOK
<1>2. CASE ~AllowedStep
  BY <1>2 DEF RunNext, DeniedStep, FailedStep, Summarize, NotApplicable, runVars,
              vars, RunTypeOK, TypeOK, StoreTypeOK
<1> QED
  BY <1>1, <1>2

(***************************************************************************)
(* What the runner keeps beside its log stays well typed, and so does the  *)
(* lab, under every control model and for a scenario of any length.        *)
(***************************************************************************)
THEOREM RunTypeCorrect == RunSpec => []RunTypeOK
<1>1. RunInit => RunTypeOK
  <2> SUFFICES ASSUME RunInit PROVE RunTypeOK
    OBVIOUS
  <2>1. TypeOK
    BY MaxClockAssumption, RecordsAssumption
       DEF RunInit, Init, TypeOK, StoreInit, StoreTypeOK
  <2>2. evidence \in Seq(EvidenceEvent) /\ Len(evidence) = 0
    BY DEF RunInit
  <2>3. Len(scenario.steps) \in Nat
    BY RunnerAssumption DEF RunInit
  <2> QED
    BY <2>1, <2>2, <2>3 DEF RunInit, RunTypeOK
<1>2. RunTypeOK /\ [RunNext]_runVars => RunTypeOK'
  <2> SUFFICES ASSUME RunTypeOK, [RunNext]_runVars PROVE RunTypeOK'
    OBVIOUS
  <2>1. TypeOK'
    BY RunKeepsLabTypes
  <2>2. CASE AllowedStep \/ DeniedStep \/ FailedStep
    <3>1. /\ More /\ UNCHANGED <<control, scenario, result>>
          /\ Running
      BY <2>2, EveryStepTaken
    <3>2. PICK d \in {"allow", "deny", "error"}, o \in Outcomes \cup {"not_started"} :
            StepTaken(d, o)
      BY <2>2, EveryStepTaken
    <3>3. /\ evidence' \in Seq(EvidenceEvent)
          /\ DOMAIN evidence = 1..Len(evidence) /\ Len(evidence) \in Nat
          /\ Len(evidence') = Current /\ Current = Len(evidence) + 1
          /\ CurrentStep \in Step /\ Current \in 1..Len(scenario.steps)
      BY <3>1, <3>2, LogGrows DEF StepTaken
    <3>4. Len(evidence') <= Len(scenario'.steps)
      BY <3>1, <3>3
    <3>5. denied' \cup allowed' \subseteq 1..Len(evidence') /\ denied' \cap allowed' = {}
      <4>1. denied \cup allowed \subseteq DOMAIN evidence /\ denied \cap allowed = {}
        BY <3>3 DEF RunTypeOK
      <4>2. 1..Len(evidence') = DOMAIN evidence \cup {Current} /\ Current \notin DOMAIN evidence
        BY <3>3
      <4>3. \/ d = "deny" /\ denied' = denied \cup {Current} /\ allowed' = allowed
            \/ d = "allow" /\ denied' = denied /\ allowed' = allowed \cup {Current}
            \/ denied' = denied /\ allowed' = allowed
        BY <3>2 DEF StepTaken
      <4> QED
        BY <4>1, <4>2, <4>3
    <3>6. toolErrors' \in Nat /\ completed' \in Nat
      BY <3>2 DEF RunTypeOK, StepTaken
    <3>7. authErrors' \subseteq {"VALIDATION_ERROR"}
      BY <3>2 DEF RunTypeOK, StepTaken
    <3>8. retries' \in [presented : Nat, executed : Nat]
      <4>1. Presented(CurrentStep.request, d = "allow")
        BY <3>2 DEF StepTaken
      <4>2. retries.presented \in Nat /\ retries.executed \in Nat
        BY DEF RunTypeOK
      <4> QED
        BY <4>1, <4>2 DEF Presented
    <3>9. previousChange' \in Ids \cup {NoChange}
      <4>1. CurrentStep.request \in Request
        BY <3>3, RequestsAssumption DEF Step
      <4> QED
        BY <3>2, <4>1 DEF StepTaken, Presented, ChangeOf, Request
    <3>10. stoppedAt' \in {0, Len(evidence')}
      BY <3>1, <3>2, <3>3 DEF StepTaken, StopUnless, Running
    <3> QED
      BY <2>1, <3>1, <3>3, <3>4, <3>5, <3>6, <3>7, <3>8, <3>9, <3>10 DEF RunTypeOK
  <2>3. CASE Summarize
    <3>1. Classify \in Results
      BY DEF Classify, Results
    <3> QED
      BY <2>1, <2>3, <3>1 DEF Summarize, RunTypeOK, books
  <2>4. CASE NotApplicable
    BY <2>1, <2>4 DEF NotApplicable, RunTypeOK, books, Results
  <2>5. CASE UNCHANGED runVars
    BY <2>1, <2>5 DEF runVars, RunTypeOK, books
  <2> QED
    BY <2>2, <2>3, <2>4, <2>5 DEF RunNext
<1> QED
  BY <1>1, <1>2, PTL DEF RunSpec
-----------------------------------------------------------------------------
(***************************************************************************)
(* The strengthening that makes the summary inductive: everything kept     *)
(* beside the log is the same function of the log after every step, the    *)
(* previous change is that of the last event, and a class is given only to *)
(* a run that is over.                                                     *)
(***************************************************************************)
CountersInv ==
  /\ completed = Cardinality(Ended("success"))
  /\ toolErrors = Cardinality(Ended("error"))
  /\ retries.presented = Cardinality(Retried)
  /\ retries.executed = Cardinality(Retried \cap Decided("allow"))
  /\ previousChange = IF evidence = <<>> THEN NoChange
                        ELSE ChangeOf(evidence[Len(evidence)].request)

DecisionsInv ==
  /\ \A k \in DOMAIN evidence :
       evidence[k].decision = "allow" <=> evidence[k].outcome \in Outcomes
  /\ denied = Decided("deny") /\ allowed = Decided("allow")
  /\ authErrors # {} <=> Decided("error") # {}

EndInv ==
  /\ scenario.scope # "authorization" => stoppedAt = 0
  /\ result # "running" =>
       IF scenario.scope = "authorization"
         THEN result = Classify /\ (stoppedAt # 0 \/ ~More)
         ELSE result = "not_applicable"

SummaryInv == RunTypeOK /\ CountersInv /\ DecisionsInv /\ StopsInTime /\ EndInv

(* The sets the counters count are finite. *)
LEMMA LogFinite ==
  ASSUME RunTypeOK
  PROVE  /\ IsFiniteSet(DOMAIN evidence)
         /\ \A o : IsFiniteSet(Ended(o))
         /\ IsFiniteSet(Retried) /\ IsFiniteSet(Retried \cap Decided("allow"))
<1>1. DOMAIN evidence = 1..Len(evidence) /\ Len(evidence) \in Nat
  BY DEF RunTypeOK
<1>2. IsFiniteSet(DOMAIN evidence)
  BY <1>1, FS_Interval
<1>3. /\ \A o : Ended(o) \subseteq DOMAIN evidence
      /\ Retried \subseteq DOMAIN evidence
      /\ Retried \cap Decided("allow") \subseteq DOMAIN evidence
  BY DEF Ended, Retried
<1> QED
  BY <1>2, <1>3, FS_Subset

(* A counter that grows with the set it counts still counts it. *)
LEMMA CountedOnce ==
  ASSUME NEW S, IsFiniteSet(S), NEW n, n \notin S, NEW P \in BOOLEAN,
         NEW count, count = Cardinality(S)
  PROVE  count + (IF P THEN 1 ELSE 0) = Cardinality(S \cup (IF P THEN {n} ELSE {}))
<1>1. Cardinality(S) \in Nat
  BY FS_CardinalityType
<1>2. CASE P
  <2>1. Cardinality(S \cup {n}) = Cardinality(S) + 1
    BY FS_AddElement
  <2> QED
    BY <1>2, <2>1
<1>3. CASE ~P
  <2>1. S \cup {} = S
    OBVIOUS
  <2> QED
    BY <1>1, <1>3, <2>1
<1> QED
  BY <1>2, <1>3

(* The counters keep counting the log. *)
LEMMA CountersStep ==
  ASSUME RunTypeOK, CountersInv, More,
         NEW d \in {"allow", "deny", "error"}, NEW o \in Outcomes \cup {"not_started"},
         StepTaken(d, o)
  PROVE  CountersInv'
<1> DEFINE n == Current
           q == CurrentStep.request
<1>1. /\ DOMAIN evidence = 1..Len(evidence) /\ Len(evidence) \in Nat
      /\ Len(evidence') = n /\ n = Len(evidence) + 1
      /\ DOMAIN evidence' = DOMAIN evidence \cup {n}
      /\ n \notin DOMAIN evidence
      /\ \A k \in DOMAIN evidence : evidence'[k] = evidence[k]
      /\ evidence'[n].request = q
      /\ evidence'[n].decision = d /\ evidence'[n].outcome = o
  BY LogGrows DEF StepTaken
<1>t. evidence \in Seq(EvidenceEvent) /\ evidence' \in Seq(EvidenceEvent)
  BY LogGrows DEF RunTypeOK, StepTaken
<1>2. \A u : Ended(u)' = Ended(u) \cup (IF o = u THEN {n} ELSE {})
  BY <1>1 DEF Ended
<1>3. \A u : n \notin Ended(u) /\ n \notin Retried
  BY <1>1 DEF Ended, Retried
<1>4. completed' = Cardinality(Ended("success")')
  <2> DEFINE S == Ended("success")
             P == o = "success"
  <2>1. IsFiniteSet(S) /\ n \notin S /\ completed = Cardinality(S)
    BY <1>3, LogFinite DEF CountersInv
  <2>2. completed' = completed + (IF P THEN 1 ELSE 0)
    BY DEF StepTaken
  <2>3. Ended("success")' = S \cup (IF P THEN {n} ELSE {})
    BY <1>2
  <2>4. P \in BOOLEAN
    OBVIOUS
  <2> HIDE DEF S, P, n
  <2> QED
    BY <2>1, <2>2, <2>3, <2>4, CountedOnce
<1>5. toolErrors' = Cardinality(Ended("error")')
  <2> DEFINE S == Ended("error")
             P == o = "error"
  <2>1. IsFiniteSet(S) /\ n \notin S /\ toolErrors = Cardinality(S)
    BY <1>3, LogFinite DEF CountersInv
  <2>2. toolErrors' = toolErrors + (IF P THEN 1 ELSE 0)
    BY DEF StepTaken
  <2>3. Ended("error")' = S \cup (IF P THEN {n} ELSE {})
    BY <1>2
  <2>4. P \in BOOLEAN
    OBVIOUS
  <2> HIDE DEF S, P, n
  <2> QED
    BY <2>1, <2>2, <2>3, <2>4, CountedOnce
<1>6. Retried' = Retried \cup (IF IsRetry(q) THEN {n} ELSE {})
  <2>1. \A k \in DOMAIN evidence \ {1} : k - 1 \in DOMAIN evidence
    BY <1>1
  <2>2. \A k \in DOMAIN evidence : k \in Retried' <=> k \in Retried
    BY <1>1, <2>1 DEF Retried
  <2>3. n \in Retried' <=> IsRetry(q)
    <3>1. CASE Len(evidence) = 0
      <4>1. n = 1 /\ evidence = <<>>
        BY <1>1, <1>t, <3>1
      <4>2. previousChange = NoChange
        BY <4>1 DEF CountersInv
      <4> QED
        BY <4>1, <4>2 DEF Retried, IsRetry
    <3>2. CASE Len(evidence) # 0
      <4>1. /\ n # 1 /\ n - 1 = Len(evidence) /\ evidence # <<>>
            /\ Len(evidence) \in DOMAIN evidence
        BY <1>1, <1>t, <3>2
      <4>2. previousChange = ChangeOf(evidence[Len(evidence)].request)
        BY <4>1 DEF CountersInv
      <4>3. evidence'[n - 1] = evidence[Len(evidence)]
        BY <1>1, <4>1
      <4> QED
        BY <1>1, <4>1, <4>2, <4>3 DEF Retried, IsRetry
    <3> QED
      BY <3>1, <3>2
  <2>4. Retried' \subseteq DOMAIN evidence \cup {n} /\ Retried \subseteq DOMAIN evidence
    BY <1>1 DEF Retried
  <2> QED
    BY <2>2, <2>3, <2>4, <1>1
<1>7. Presented(q, d = "allow")
  BY DEF StepTaken
<1>8. retries'.presented = Cardinality(Retried')
  <2>1. retries'.presented = retries.presented + (IF IsRetry(q) THEN 1 ELSE 0)
    BY <1>7 DEF Presented
  <2> QED
    BY <1>3, <1>6, <2>1, LogFinite, CountedOnce DEF CountersInv, IsRetry
<1>9. retries'.executed = Cardinality((Retried \cap Decided("allow"))')
  <2>1. retries'.executed =
          retries.executed + (IF IsRetry(q) /\ d = "allow" THEN 1 ELSE 0)
    BY <1>7 DEF Presented
  <2>2. Decided("allow")' = Decided("allow") \cup (IF d = "allow" THEN {n} ELSE {})
    BY <1>1 DEF Decided
  <2>3. (Retried \cap Decided("allow"))' =
          (Retried \cap Decided("allow"))
             \cup (IF IsRetry(q) /\ d = "allow" THEN {n} ELSE {})
    <3>1. n \notin Decided("allow") /\ n \notin Retried
      BY <1>1, <1>3 DEF Decided
    <3> QED
      BY <1>6, <2>2, <3>1
  <2> DEFINE S == Retried \cap Decided("allow")
             P == IsRetry(q) /\ d = "allow"
  <2>4. IsFiniteSet(S) /\ n \notin S /\ retries.executed = Cardinality(S)
    BY <1>3, LogFinite DEF CountersInv
  <2>5. P \in BOOLEAN
    OBVIOUS
  <2>6. S' = S \cup (IF P THEN {n} ELSE {}) /\ retries'.executed =
          retries.executed + (IF P THEN 1 ELSE 0)
    BY <2>1, <2>3
  <2>7. S' = (Retried \cap Decided("allow"))'
    OBVIOUS
  <2> HIDE DEF S, P, n
  <2> QED
    BY <2>4, <2>5, <2>6, <2>7, CountedOnce
<1>10. previousChange' = IF evidence' = <<>> THEN NoChange
                           ELSE ChangeOf(evidence'[Len(evidence')].request)
  BY <1>1, <1>7 DEF Presented
<1> QED
  BY <1>4, <1>5, <1>8, <1>9, <1>10 DEF CountersInv

(* The decisions kept beside the log are those in it, and a run stops at   *)
(* the first event its step does not continue over.                        *)
LEMMA DecisionsStep ==
  ASSUME RunTypeOK, DecisionsInv, StopsInTime, More, stoppedAt = 0,
         UNCHANGED scenario,
         NEW d \in {"allow", "deny", "error"}, NEW o \in Outcomes \cup {"not_started"},
         StepTaken(d, o)
  PROVE  DecisionsInv' /\ StopsInTime'
<1> DEFINE n == Current
<1>1. /\ DOMAIN evidence = 1..Len(evidence) /\ Len(evidence) \in Nat
      /\ Len(evidence') = n /\ n = Len(evidence) + 1
      /\ DOMAIN evidence' = DOMAIN evidence \cup {n}
      /\ n \notin DOMAIN evidence
      /\ \A k \in DOMAIN evidence : evidence'[k] = evidence[k]
      /\ evidence'[n].decision = d /\ evidence'[n].outcome = o
      /\ CurrentStep = scenario.steps[n]
  BY LogGrows DEF StepTaken, CurrentStep
<1>2. \A u : Decided(u)' = Decided(u) \cup (IF d = u THEN {n} ELSE {})
  BY <1>1 DEF Decided
<1>3. DecisionsInv'
  <2>1. \A k \in DOMAIN evidence' :
          evidence'[k].decision = "allow" <=> evidence'[k].outcome \in Outcomes
    BY <1>1 DEF DecisionsInv, StepTaken
  <2>2. denied' = Decided("deny")' /\ allowed' = Decided("allow")'
    BY <1>2 DEF DecisionsInv, StepTaken
  <2>3. authErrors' # {} <=> Decided("error")' # {}
    BY <1>2 DEF DecisionsInv, StepTaken
  <2> QED
    BY <2>1, <2>2, <2>3 DEF DecisionsInv
<1>4. StopsInTime'
  <2>1. \A k \in DOMAIN evidence : Continues(evidence[k], scenario.steps[k])
    <3>1. \A k \in DOMAIN evidence : k # 0
      BY <1>1
    <3> QED
      BY <3>1 DEF StopsInTime
  <2>2. stoppedAt' = IF Continues(evidence'[n], scenario.steps[n]) THEN 0 ELSE n
    BY <1>1 DEF StepTaken, StopUnless, Continues
  <2>3. ASSUME NEW k \in DOMAIN evidence'
        PROVE  /\ k < Len(evidence') => Continues(evidence'[k], scenario.steps[k])
               /\ stoppedAt' = k <=> ~Continues(evidence'[k], scenario.steps[k])
    <3>1. CASE k \in DOMAIN evidence
      <4>1. k # 0 /\ k # n /\ evidence'[k] = evidence[k]
        BY <1>1, <3>1
      <4> QED
        BY <2>1, <2>2, <3>1, <4>1
    <3>2. CASE k = n
      <4>1. n # 0 /\ ~(n < Len(evidence'))
        BY <1>1
      <4> QED
        BY <2>2, <3>2, <4>1
    <3> QED
      BY <1>1, <3>1, <3>2
  <2> QED
    BY <2>3 DEF StopsInTime
<1> QED
  BY <1>3, <1>4

(* The class of a run that is over says what its log shows. *)
LEMMA ClassFollows ==
  ASSUME SummaryInv
  PROVE  SummaryMatchesEvidence
<1>1. /\ evidence \in Seq(EvidenceEvent)
      /\ DOMAIN evidence = 1..Len(evidence) /\ Len(evidence) \in Nat
      /\ scenario \in Scenarios /\ Len(evidence) <= Len(scenario.steps)
  BY DEF SummaryInv, RunTypeOK
<1>2. /\ DOMAIN scenario.steps = 1..Len(scenario.steps)
      /\ Len(scenario.steps) \in Nat
  BY <1>1, RunnerAssumption
<1>3. IsFiniteSet(Ended("error")) /\ (toolErrors = 0 <=> Ended("error") = {})
  <2>1. IsFiniteSet(Ended("error"))
    BY LogFinite DEF SummaryInv
  <2> QED
    BY <2>1, FS_EmptySet DEF SummaryInv, CountersInv
<1>4. toolErrors \in Nat
  BY DEF SummaryInv, RunTypeOK
<1>5. CASE result = "running"
  BY <1>5 DEF SummaryInv, SummaryMatchesEvidence, CountersInv
<1>6. CASE result # "running" /\ scenario.scope # "authorization"
  BY <1>6 DEF SummaryInv, SummaryMatchesEvidence, CountersInv, EndInv
<1>7. CASE result # "running" /\ scenario.scope = "authorization"
  <2>1. result = Classify /\ (stoppedAt # 0 \/ ~More)
    BY <1>7 DEF SummaryInv, EndInv
  <2>2. authErrors \cap {"RATE_LIMITED", "THROTTLED", "ThrottlingException"} = {}
    BY DEF SummaryInv, RunTypeOK
  <2>3. result = "allow" <=> authErrors = {} /\ denied = {} /\ ~(toolErrors > 0)
    BY <2>1, <2>2 DEF Classify
  <2>4. result = "allow" <=> Ended("success") = DOMAIN evidence
    <3>1. \A k \in DOMAIN evidence :
            /\ evidence[k].decision \in {"allow", "deny", "error"}
            /\ evidence[k].outcome \in {"success", "error", "not_started"}
      <4>1. \A k \in DOMAIN evidence : evidence[k] \in EvidenceEvent
        BY <1>1
      <4> QED
        BY <4>1 DEF EvidenceEvent, Outcomes
    <3>2. \A k \in DOMAIN evidence :
            evidence[k].decision = "allow" <=> evidence[k].outcome \in {"success", "error"}
      BY DEF SummaryInv, DecisionsInv, Outcomes
    <3>3. /\ denied = {} <=> \A k \in DOMAIN evidence : evidence[k].decision # "deny"
          /\ authErrors = {} <=> \A k \in DOMAIN evidence : evidence[k].decision # "error"
      BY DEF SummaryInv, DecisionsInv, Decided
    <3>4. toolErrors > 0 <=> \E k \in DOMAIN evidence : evidence[k].outcome = "error"
      BY <1>3, <1>4 DEF Ended
    <3> QED
      BY <2>3, <3>1, <3>2, <3>3, <3>4 DEF Ended
  <2>5. result = "allow" <=> Ended("success") = DOMAIN scenario.steps
    <3>1. ASSUME result = "allow" PROVE Ended("success") = DOMAIN scenario.steps
      <4>1. Ended("success") = DOMAIN evidence
        BY <2>4, <3>1
      <4>2. stoppedAt = 0
        <5> SUFFICES ASSUME stoppedAt # 0 PROVE FALSE
          OBVIOUS
        <5>0. stoppedAt \in {0, Len(evidence)}
          BY DEF SummaryInv, RunTypeOK
        <5>1. stoppedAt \in DOMAIN evidence
          <6>1. stoppedAt = Len(evidence) /\ Len(evidence) # 0
            BY <5>0
          <6>2. Len(evidence) \in Nat /\ DOMAIN evidence = 1..Len(evidence)
            BY <1>1
          <6> QED
            BY <6>1, <6>2
        <5>2. evidence[stoppedAt].outcome # "success"
          BY <5>1 DEF SummaryInv, StopsInTime, Continues
        <5> QED
          BY <4>1, <5>1, <5>2 DEF Ended
      <4>3. Len(evidence) = Len(scenario.steps)
        BY <1>1, <1>2, <2>1, <4>2 DEF More, Current
      <4> QED
        BY <1>1, <1>2, <4>1, <4>3
    <3>2. ASSUME Ended("success") = DOMAIN scenario.steps PROVE result = "allow"
      <4>1. Ended("success") \subseteq DOMAIN evidence
        BY DEF Ended
      <4>2. DOMAIN evidence \subseteq DOMAIN scenario.steps
        BY <1>1, <1>2
      <4> QED
        BY <2>4, <3>2, <4>1, <4>2
    <3> QED
      BY <3>1, <3>2
  <2>6. /\ result \in {"deny", "mixed"} => Decided("deny") # {}
        /\ result = "tool_error" => Decided("deny") \cup Decided("error") = {}
    BY <2>1, <2>2 DEF Classify, SummaryInv, DecisionsInv
  <2> QED
    BY <1>7, <2>5, <2>6 DEF SummaryInv, SummaryMatchesEvidence, CountersInv
<1> QED
  BY <1>5, <1>6, <1>7

(* A run keeps its summary in step with its log. *)
LEMMA SummaryKept == RunSpec => []SummaryInv
<1>1. RunInit => CountersInv /\ DecisionsInv /\ StopsInTime /\ EndInv
  <2> SUFFICES ASSUME RunInit PROVE CountersInv /\ DecisionsInv /\ StopsInTime /\ EndInv
    OBVIOUS
  <2>1. evidence = <<>> /\ DOMAIN evidence = {}
    BY DEF RunInit
  <2>2. /\ \A u : Ended(u) = {} /\ Decided(u) = {}
        /\ Retried = {} /\ Retried \cap Decided("allow") = {}
    BY <2>1 DEF Ended, Decided, Retried
  <2> QED
    BY <2>1, <2>2, FS_EmptySet
       DEF RunInit, CountersInv, DecisionsInv, StopsInTime, EndInv
<1>2. RunTypeOK /\ CountersInv /\ DecisionsInv /\ StopsInTime /\ EndInv
        /\ [RunNext]_runVars
      => (CountersInv /\ DecisionsInv /\ StopsInTime /\ EndInv)'
  <2> SUFFICES ASSUME RunTypeOK, CountersInv, DecisionsInv, StopsInTime, EndInv,
                      [RunNext]_runVars
               PROVE  (CountersInv /\ DecisionsInv /\ StopsInTime /\ EndInv)'
    OBVIOUS
  <2>1. CASE AllowedStep \/ DeniedStep \/ FailedStep
    <3>1. Running /\ More /\ UNCHANGED <<control, scenario, result>>
      BY <2>1, EveryStepTaken
    <3>2. PICK d \in {"allow", "deny", "error"}, o \in Outcomes \cup {"not_started"} :
            StepTaken(d, o)
      BY <2>1, EveryStepTaken
    <3>3. CountersInv' /\ DecisionsInv' /\ StopsInTime'
      BY <3>1, <3>2, CountersStep, DecisionsStep DEF Running
    <3>4. EndInv'
      BY <3>1 DEF EndInv, Running
    <3> QED
      BY <3>3, <3>4
  <2>2. CASE Summarize
    <3>1. UNCHANGED books /\ UNCHANGED scenario /\ result' = Classify
      BY <2>2 DEF Summarize
    <3>2. CountersInv' /\ DecisionsInv' /\ StopsInTime'
      BY <3>1 DEF books, CountersInv, DecisionsInv, StopsInTime, Ended, Decided, Retried
    <3>3. Classify' = Classify /\ More' = More /\ stoppedAt' = stoppedAt
      BY <3>1 DEF books, Classify, ContinuedDenial, More, Current
    <3>4. scenario.scope = "authorization"
      BY <2>2 DEF Summarize, Running, EndInv
    <3>5. EndInv'
      BY <2>2, <3>1, <3>3, <3>4 DEF EndInv, Summarize
    <3> QED
      BY <3>2, <3>5
  <2>3. CASE NotApplicable
    <3>1. CountersInv' /\ DecisionsInv' /\ StopsInTime'
      BY <2>3 DEF NotApplicable, books, CountersInv, DecisionsInv, StopsInTime,
                  Ended, Decided, Retried
    <3> QED
      BY <2>3, <3>1 DEF NotApplicable, books, EndInv
  <2>4. CASE UNCHANGED runVars
    BY <2>4 DEF runVars, books, CountersInv, DecisionsInv, StopsInTime, EndInv,
                Ended, Decided, Retried, Classify, ContinuedDenial, More, Current
  <2> QED
    BY <2>1, <2>2, <2>3, <2>4 DEF RunNext
<1>3. RunTypeOK /\ CountersInv /\ DecisionsInv /\ StopsInTime /\ EndInv
        => SummaryInv
  BY DEF SummaryInv
<1> QED
  BY <1>1, <1>2, <1>3, RunTypeCorrect, PTL DEF RunSpec

(***************************************************************************)
(* Whatever the scenario and the control model, the summary of a run is    *)
(* what its evidence shows: every counter can be recomputed from the log,  *)
(* the class agrees with it and the run stopped where it had to            *)
(* (runner.py, run and _classify).                                         *)
(***************************************************************************)
THEOREM SummariesMatch == RunSpec => []SummaryMatchesEvidence
BY SummaryKept, ClassFollows, PTL
-----------------------------------------------------------------------------
(***************************************************************************)
(* The log as a record of what the authorizer knew: the events of a caller *)
(* and session in the log are those of its history, in the same order,     *)
(* with refused requests and other sessions between them.                  *)
(***************************************************************************)
Entries(p) ==
  {k \in DOMAIN evidence : /\ evidence[k].caller = p[1] /\ evidence[k].session = p[2]
                           /\ evidence[k].outcome # "not_started"}

Follows(p, f) ==
  /\ f \in [DOMAIN history[p] -> Entries(p)]
  /\ \A i, j \in DOMAIN history[p] : i < j => f[i] < f[j]
  /\ \A k \in Entries(p) : \E i \in DOMAIN history[p] : f[i] = k
  /\ \A i \in DOMAIN history[p] :
       /\ evidence[f[i]].request = history[p][i].request
       /\ evidence[f[i]].outcome = history[p][i].outcome

Followed == \A p \in Callers \X ValidSessions : \E f : Follows(p, f)

\* The rules for a write q at a time, read from the entries P of the log.
RulesAllow(P, q, at) ==
  LET approving == {i \in P : IsApproval(evidence[i], q.record, q.approval)}
      under == {i \in P : /\ evidence[i].request.tool = "execute_write"
                          /\ evidence[i].request.approval = q.approval}
  IN /\ \E i \in P : IsLookup(evidence[i], q.record)
     /\ \E i \in approving : /\ \A j \in approving : j <= i
                             /\ evidence[i].request.expiry > at
     /\ \A i \in under : evidence[i].outcome = "error"
     /\ Cardinality(under) < RetryLimit
     /\ Cardinality({i \in P : IsWrite(evidence[i], "success")}) < WriteLimit

(* Counting in the log is counting in the history. *)
LEMMA ImageCount ==
  ASSUME NEW S, IsFiniteSet(S), NEW f, \A i, j \in S : f[i] = f[j] => i = j
  PROVE  Cardinality({f[i] : i \in S}) = Cardinality(S)
<1> DEFINE T == {f[i] : i \in S}
           g == [i \in S |-> f[i]]
<1>1. g \in Bijection(S, T)
  BY DEF Bijection, Injection, Surjection, IsInjective
<1>2. ExistsBijection(S, T)
  BY <1>1 DEF ExistsBijection
<1> QED
  BY <1>2, FS_Bijection

(* What the rules say of the log, the policy says of the history. *)
LEMMA RulesFollow ==
  ASSUME RunTypeOK, NEW p \in Callers \X ValidSessions, NEW f, Follows(p, f),
         NEW q \in Request, q.mode # "malformed", NEW at
  PROVE  RulesAllow(Entries(p), q, at) <=> WriteAllowed(history[p], q, at)
<1> DEFINE h == history[p]
           P == Entries(p)
<1>1. h \in Seq(Event) /\ DOMAIN h = 1..Len(h) /\ Len(h) \in Nat
  BY SessionAssumption DEF RunTypeOK, TypeOK, Pairs
<1>2. /\ f \in [DOMAIN h -> P]
      /\ \A i, j \in DOMAIN h : i < j => f[i] < f[j]
      /\ \A k \in P : \E i \in DOMAIN h : f[i] = k
      /\ \A i \in DOMAIN h : /\ evidence[f[i]].request = h[i].request
                             /\ evidence[f[i]].outcome = h[i].outcome
  BY DEF Follows
<1>3. P \subseteq Nat
  BY DEF RunTypeOK, Entries
<1> HIDE DEF h, P
<1>4. \A i \in DOMAIN h : h[i] \in Event /\ h[i].outcome \in Outcomes
  <2>1. \A i \in 1..Len(h) : h[i] \in Event
    BY <1>1
  <2> QED
    BY <1>1, <2>1 DEF Event
<1>5. /\ \A i, j \in DOMAIN h : f[i] <= f[j] <=> i <= j
      /\ \A i, j \in DOMAIN h : f[i] = f[j] => i = j
  <2>1. \A i \in DOMAIN h : i \in Nat /\ f[i] \in Nat
    <3>1. \A i \in DOMAIN h : f[i] \in P
      BY <1>2
    <3>2. \A i \in 1..Len(h) : i \in Nat
      BY <1>1
    <3> QED
      BY <1>1, <1>3, <3>1, <3>2
  <2> QED
    BY <1>2, <2>1
<1>6. (\E i \in P : IsLookup(evidence[i], q.record)) <=> LookedUp(h, q.record)
  BY <1>2 DEF LookedUp, IsLookup
<1>7. \A i \in DOMAIN h : IsApproval(evidence[f[i]], q.record, q.approval)
                            <=> IsApproval(h[i], q.record, q.approval)
  BY <1>2 DEF IsApproval
<1>8. LET approving == {i \in P : IsApproval(evidence[i], q.record, q.approval)}
      IN  (\E i \in approving : /\ \A j \in approving : j <= i
                                /\ evidence[i].request.expiry > at)
          <=> LatestApprovalUnexpired(h, q.record, q.approval, at)
  <2> DEFINE A(i) == IsApproval(evidence[i], q.record, q.approval)
             B(i) == IsApproval(h[i], q.record, q.approval)
  <2>1. \A i \in DOMAIN h : A(f[i]) <=> B(i)
    BY <1>7
  <2> HIDE DEF A, B
  <2>2. (\E i \in P : A(i) /\ (\A j \in P : A(j) => j <= i)
                           /\ evidence[i].request.expiry > at)
        <=> (\E i \in DOMAIN h : B(i) /\ (\A j \in DOMAIN h : B(j) => j <= i)
                           /\ h[i].request.expiry > at)
    <3>1. ASSUME NEW i \in P, A(i), \A j \in P : A(j) => j <= i,
                 evidence[i].request.expiry > at
          PROVE  \E k \in DOMAIN h : B(k) /\ (\A j \in DOMAIN h : B(j) => j <= k)
                           /\ h[k].request.expiry > at
      <4>1. PICK k \in DOMAIN h : f[k] = i
        BY <1>2
      <4>2. \A j \in DOMAIN h : B(j) => j <= k
        BY <1>2, <1>5, <2>1, <3>1, <4>1
      <4> QED
        BY <1>2, <2>1, <3>1, <4>1, <4>2
    <3>2. ASSUME NEW i \in DOMAIN h, B(i), \A j \in DOMAIN h : B(j) => j <= i,
                 h[i].request.expiry > at
          PROVE  \E k \in P : A(k) /\ (\A j \in P : A(j) => j <= k)
                           /\ evidence[k].request.expiry > at
      <4>1. \A j \in P : A(j) => j <= f[i]
        BY <1>2, <1>5, <2>1, <3>2
      <4> QED
        BY <1>2, <2>1, <3>2, <4>1
    <3> QED
      BY <3>1, <3>2
  <2> QED
    BY <2>2 DEF A, B, LatestApprovalUnexpired
<1> DEFINE under == {i \in P : /\ evidence[i].request.tool = "execute_write"
                               /\ evidence[i].request.approval = q.approval}
<1>9. (\A i \in under : evidence[i].outcome = "error") <=> ~Consumed(h, q.approval)
  BY <1>2, <1>4 DEF Consumed, IsWrite, Outcomes
<1>10. ~Consumed(h, q.approval) => under = {f[i] : i \in FailedWrites(h, q.approval)}
  BY <1>2, <1>4 DEF Consumed, FailedWrites, IsWrite, Outcomes
<1>11. {i \in P : IsWrite(evidence[i], "success")} = {f[i] : i \in SuccessfulWrites(h)}
  BY <1>2 DEF SuccessfulWrites, IsWrite
<1>12. q.approval \in Ids
  BY DEF Request
<1>13. /\ Cardinality({f[i] : i \in FailedWrites(h, q.approval)})
            = Cardinality(FailedWrites(h, q.approval))
       /\ Cardinality({f[i] : i \in SuccessfulWrites(h)})
            = Cardinality(SuccessfulWrites(h))
  <2>1. /\ FailedWrites(h, q.approval) \subseteq DOMAIN h
        /\ SuccessfulWrites(h) \subseteq DOMAIN h
    BY DEF FailedWrites, SuccessfulWrites
  <2>2. IsFiniteSet(FailedWrites(h, q.approval)) /\ IsFiniteSet(SuccessfulWrites(h))
    BY <1>1, <1>12, WritesFinite
  <2>3. \A S : S \subseteq DOMAIN h => \A i, j \in S : f[i] = f[j] => i = j
    BY <1>5
  <2> QED
    BY <2>1, <2>2, <2>3, ImageCount
<1> QED
  BY <1>6, <1>8, <1>9, <1>10, <1>11, <1>13 DEF RulesAllow, WriteAllowed, h, P

(* One presented step of a temporal run: the decision is the monitor's, on *)
(* the history of the step's caller and session, and an invoked step is    *)
(* the next event of that history.                                         *)
LEMMA MonitoredStep ==
  ASSUME RunTypeOK, control = "temporal_policy", AllowedStep \/ DeniedStep \/ FailedStep
  PROVE  /\ More /\ CurrentStep \in Step
         /\ \E o \in Outcomes \cup {"not_started"} :
              LET x == CurrentStep
                  p == <<x.caller, x.session>>
                  d == Authorize(history[p], x.caller, x.session, x.request, clock)
              IN /\ d \in {"allow", "deny", "error"}
                 /\ Log(d, o)
                 /\ o = "not_started" => history' = history
                 /\ o # "not_started" =>
                      /\ x.session \in ValidSessions
                      /\ history' = [history EXCEPT ![p] =
                                       Append(@, [request |-> x.request, outcome |-> o])]
<1> DEFINE x == CurrentStep
           d == Authorize(history[<<x.caller, x.session>>], x.caller, x.session,
                          x.request, clock)
<1>1. More /\ CurrentStep \in Step
  <2>1. More
    BY DEF AllowedStep, DeniedStep, FailedStep
  <2>2. RunShape
    BY MaxClockAssumption DEF RunTypeOK, RunShape, TypeOK
  <2> QED
    BY <2>1, <2>2, PresentedStep
<1>2. Choose(x.caller, x.session, x.request) = d
  BY DEF Choose, Decision
<1>3. CASE AllowedStep
  <2>1. PICK o \in Outcomes : /\ ObserveBy(x.caller, x.session, x.request, o)
                              /\ Log("allow", o)
    BY <1>3 DEF AllowedStep
  <2>2. d = "allow"
    BY <1>2, <1>3 DEF AllowedStep
  <2>3. x.session \in ValidSessions
    BY <2>2 DEF Authorize
  <2>4. history' = [history EXCEPT ![<<x.caller, x.session>>] =
                      Append(@, [request |-> x.request, outcome |-> o])]
    BY <2>1, <2>3 DEF ObserveBy, Observe
  <2>5. o # "not_started"
    BY DEF Outcomes
  <2> HIDE DEF x, d
  <2> QED
    BY <1>1, <2>1, <2>2, <2>3, <2>4, <2>5 DEF x, d
<1>4. CASE DeniedStep
  <2>1. d = "deny" /\ Log("deny", "not_started") /\ history' = history
    BY <1>2, <1>4 DEF DeniedStep, vars
  <2> HIDE DEF x, d
  <2> QED
    BY <1>1, <2>1 DEF x, d
<1>5. CASE FailedStep
  <2>1. d = "error" /\ Log("error", "not_started") /\ history' = history
    BY <1>2, <1>5 DEF FailedStep, vars
  <2> HIDE DEF x, d
  <2> QED
    BY <1>1, <2>1 DEF x, d
<1> QED
  BY <1>3, <1>4, <1>5

(* The log and the histories keep together. *)
LEMMA FollowedStep ==
  ASSUME RunTypeOK, Followed, More, CurrentStep \in Step,
         NEW d \in {"allow", "deny", "error"}, NEW o \in Outcomes \cup {"not_started"},
         Log(d, o), o = "not_started" => history' = history,
         o # "not_started" =>
           history' = [history EXCEPT ![<<CurrentStep.caller, CurrentStep.session>>] =
                         Append(@, [request |-> CurrentStep.request, outcome |-> o])]
  PROVE  Followed'
<1> DEFINE x == CurrentStep
           n == Current
<1>1. /\ DOMAIN evidence = 1..Len(evidence) /\ Len(evidence) \in Nat
      /\ n = Len(evidence) + 1
      /\ DOMAIN evidence' = DOMAIN evidence \cup {n}
      /\ n \notin DOMAIN evidence
      /\ \A k \in DOMAIN evidence : evidence'[k] = evidence[k] /\ k < n
      /\ evidence'[n].request = x.request /\ evidence'[n].outcome = o
  <2>1. /\ DOMAIN evidence = 1..Len(evidence) /\ Len(evidence) \in Nat
        /\ n = Len(evidence) + 1
        /\ DOMAIN evidence' = DOMAIN evidence \cup {n}
        /\ n \notin DOMAIN evidence
        /\ \A k \in DOMAIN evidence : evidence'[k] = evidence[k]
        /\ evidence'[n].request = x.request /\ evidence'[n].outcome = o
    BY LogGrows
  <2> HIDE DEF n, x
  <2>2. \A k \in DOMAIN evidence : k < n
    BY <2>1
  <2> QED
    BY <2>1, <2>2
<1>2. evidence'[n].caller = x.caller /\ evidence'[n].session = x.session
  <2>1. evidence \in Seq(EvidenceEvent)
    BY DEF RunTypeOK
  <2> QED
    BY <2>1 DEF Log, Current
<1>3. \A p : Entries(p)' = Entries(p) \cup
        (IF p[1] = x.caller /\ p[2] = x.session /\ o # "not_started" THEN {n} ELSE {})
  BY <1>1, <1>2 DEF Entries
<1>4. \A p : Entries(p) \subseteq DOMAIN evidence
  BY DEF Entries
<1> HIDE DEF x, n
<1> SUFFICES ASSUME NEW p \in Callers \X ValidSessions
             PROVE  \E f : Follows(p, f)'
  BY DEF Followed
<1>5. PICK f : Follows(p, f)
  BY DEF Followed
<1> DEFINE h == history[p]
<1>6. /\ h \in Seq(Event) /\ DOMAIN h = 1..Len(h) /\ Len(h) \in Nat /\ p \in Pairs
      /\ history \in [Pairs -> Seq(Event)]
  BY SessionAssumption DEF RunTypeOK, TypeOK, Pairs
<1>7. /\ f \in [DOMAIN h -> Entries(p)]
      /\ \A i, j \in DOMAIN h : i < j => f[i] < f[j]
      /\ \A k \in Entries(p) : \E i \in DOMAIN h : f[i] = k
      /\ \A i \in DOMAIN h : /\ evidence[f[i]].request = h[i].request
                             /\ evidence[f[i]].outcome = h[i].outcome
  BY <1>5 DEF Follows
<1>8. p = <<p[1], p[2]>>
  OBVIOUS
<1>9. CASE o = "not_started" \/ p # <<x.caller, x.session>>
  <2>1. history'[p] = h
    BY <1>6, <1>9 DEF x
  <2>2. Entries(p)' = Entries(p)
    BY <1>3, <1>8, <1>9
  <2>3. \A i \in DOMAIN h : evidence'[f[i]] = evidence[f[i]]
    BY <1>1, <1>4, <1>7
  <2> HIDE DEF h
  <2>4. Follows(p, f)'
    BY <1>7, <2>1, <2>2, <2>3 DEF Follows
  <2> QED
    BY <2>4
<1>10. CASE o # "not_started" /\ p = <<x.caller, x.session>>
  <2> DEFINE e == [request |-> x.request, outcome |-> o]
             m == Len(h) + 1
  <2>1. e \in Event
    BY <1>10, RequestsAssumption DEF x, Step, Event
  <2>2. history'[p] = Append(h, e)
    BY <1>6, <1>10 DEF x
  <2> HIDE DEF h
  <2>3. /\ DOMAIN Append(h, e) = 1..m /\ m \in Nat
        /\ \A i \in DOMAIN h : Append(h, e)[i] = h[i]
        /\ Append(h, e)[m] = e
    <3> HIDE DEF e
    <3> QED
      BY <1>6, <2>1
  <2>4. Entries(p)' = Entries(p) \cup {n}
    BY <1>3, <1>10
  <2>a. PICK g : g = [i \in 1..m |-> IF i = m THEN n ELSE f[i]]
    OBVIOUS
  <2>5. /\ g[m] = n /\ \A i \in DOMAIN h : g[i] = f[i] /\ i # m
        /\ \A i \in 1..m : i = m \/ i \in DOMAIN h
    BY <1>6, <2>3, <2>a
  <2>6. e.request = x.request /\ e.outcome = o
    OBVIOUS
  <2> HIDE DEF e
  <2>7. g \in [1..m -> Entries(p)']
    BY <1>7, <2>4, <2>5, <2>a
  <2>8. \A i \in DOMAIN h : /\ evidence'[g[i]] = evidence[f[i]]
                            /\ f[i] \in DOMAIN evidence /\ f[i] < n
    BY <1>1, <1>4, <1>7, <2>5
  <2>9. \A i, j \in 1..m : i < j => g[i] < g[j]
    <3>1. ASSUME NEW i \in 1..m, NEW j \in 1..m, i < j
          PROVE  g[i] < g[j]
      <4>1. i \in DOMAIN h
        BY <1>6, <3>1
      <4>2. CASE j = m
        BY <2>5, <2>8, <4>1, <4>2
      <4>3. CASE j # m
        BY <1>7, <2>5, <3>1, <4>1, <4>3
      <4> QED
        BY <4>2, <4>3
    <3> QED
      BY <3>1
  <2>10. \A k \in Entries(p)' : \E i \in 1..m : g[i] = k
    <3>1. m \in 1..m /\ DOMAIN h \subseteq 1..m
      BY <1>6, <2>3
    <3> QED
      BY <1>7, <2>4, <2>5, <3>1
  <2>11. \A i \in 1..m : /\ evidence'[g[i]].request = Append(h, e)[i].request
                         /\ evidence'[g[i]].outcome = Append(h, e)[i].outcome
    BY <1>1, <1>7, <2>3, <2>5, <2>6, <2>8
  <2>12. Follows(p, g)'
    BY <2>2, <2>3, <2>7, <2>9, <2>10, <2>11 DEF Follows
  <2> QED
    BY <2>12
<1> QED
  BY <1>9, <1>10

-----------------------------------------------------------------------------
(***************************************************************************)
(* Auditing a log.  What the rules say of event k depends on the events    *)
(* before it and on what event k asks, not on the log around them.         *)
(***************************************************************************)
SameUpTo(A, B, k) ==
  /\ \A i \in 1..(k - 1) : A[i] = B[i]
  /\ A[k].caller = B[k].caller /\ A[k].session = B[k].session
  /\ A[k].request = B[k].request

(* Two such logs permit the same write at the same time. *)
LEMMA WriteAgrees ==
  ASSUME NEW A, NEW B, NEW k \in Nat, SameUpTo(A, B, k), A[k].at = B[k].at
  PROVE  AuditedWrite(A, k) <=> AuditedWrite(B, k)
<1> DEFINE q == A[k].request
<1>1. q = B[k].request
  BY DEF SameUpTo
<1>2. \A i \in 1..(k - 1) : A[i] = B[i]
  BY DEF SameUpTo
<1>3. Prior(A, k) = Prior(B, k)
  BY DEF SameUpTo, Prior
<1>4. PICK P : P = Prior(A, k)
  OBVIOUS
<1>5. \A i \in P : A[i] = B[i]
  BY <1>2, <1>4 DEF Prior
<1> HIDE DEF q
<1>6. {i \in P : IsApproval(A[i], q.record, q.approval)}
        = {i \in P : IsApproval(B[i], q.record, q.approval)}
  BY <1>5
<1>7. {i \in P : /\ A[i].request.tool = "execute_write"
                 /\ A[i].request.approval = q.approval}
        = {i \in P : /\ B[i].request.tool = "execute_write"
                     /\ B[i].request.approval = q.approval}
  BY <1>5
<1>8. {i \in P : IsWrite(A[i], "success")} = {i \in P : IsWrite(B[i], "success")}
  BY <1>5
<1> DEFINE V == {i \in P : IsApproval(A[i], q.record, q.approval)}
           U == {i \in P : /\ A[i].request.tool = "execute_write"
                           /\ A[i].request.approval = q.approval}
           W == {i \in P : IsWrite(A[i], "success")}
           Allowed(L) ==
             /\ q.mode # "malformed"
             /\ \E i \in P : IsLookup(L[i], q.record)
             /\ \E i \in V : /\ \A j \in V : j <= i
                             /\ L[i].request.expiry > L[k].at
             /\ \A i \in U : L[i].outcome = "error"
             /\ Cardinality(U) < RetryLimit /\ Cardinality(W) < WriteLimit
<1>9. V \subseteq P /\ U \subseteq P
  OBVIOUS
<1>10. AuditedWrite(A, k) <=> Allowed(A)
  BY <1>4 DEF AuditedWrite, q
<1>11. AuditedWrite(B, k) <=> Allowed(B)
  <2>1. /\ V = {i \in P : IsApproval(B[i], q.record, q.approval)}
        /\ U = {i \in P : /\ B[i].request.tool = "execute_write"
                          /\ B[i].request.approval = q.approval}
        /\ W = {i \in P : IsWrite(B[i], "success")}
    BY <1>6, <1>7, <1>8
  <2>2. P = Prior(B, k)
    BY <1>3, <1>4
  <2> HIDE DEF U, V, W
  <2> QED
    BY <1>1, <2>1, <2>2 DEF AuditedWrite
<1> HIDE DEF U, V, W
<1>12. (\E i \in V : /\ \A j \in V : j <= i
                     /\ A[i].request.expiry > A[k].at)
       <=> (\E i \in V : /\ \A j \in V : j <= i
                         /\ B[i].request.expiry > B[k].at)
  BY <1>5, <1>9
<1>13. (\A i \in U : A[i].outcome = "error") <=> (\A i \in U : B[i].outcome = "error")
  BY <1>5, <1>9
<1>14. (\E i \in P : IsLookup(A[i], q.record)) <=> (\E i \in P : IsLookup(B[i], q.record))
  BY <1>5
<1> QED
  BY <1>10, <1>11, <1>12, <1>13, <1>14

(* They call for the same decision on it. *)
LEMMA DecisionAgrees ==
  ASSUME NEW A, NEW B, NEW k \in Nat, SameUpTo(A, B, k), A[k].at = B[k].at, NEW m
  PROVE  AuditedDecision(m, A, k) = AuditedDecision(m, B, k)
<1>1. AuditedWrite(A, k) <=> AuditedWrite(B, k)
  BY WriteAgrees
<1> QED
  BY <1>1 DEF AuditedDecision, SameUpTo

(* Once it is decided alike, they call for the same answer. *)
LEMMA OutcomeAgrees ==
  ASSUME NEW A, NEW B, NEW k \in Nat, SameUpTo(A, B, k), A[k].decision = B[k].decision
  PROVE  AuditedOutcome(A, k) = AuditedOutcome(B, k)
<1> DEFINE q == A[k].request
           Before(L) == {i \in 1..(k - 1) : Reached(L[i], Strip[q.record], Strip[q.change])}
<1>1. q = B[k].request /\ \A i \in 1..(k - 1) : A[i] = B[i]
  BY DEF SameUpTo
<1> HIDE DEF q
<1>2. Before(A) = Before(B)
  BY <1>1
<1>3. PICK P : P = Before(A)
  OBVIOUS
<1>4. (\E i \in P : A[i].outcome = "success") <=> (\E i \in P : B[i].outcome = "success")
  BY <1>1, <1>3
<1>5. AuditedSuccess(A, k) <=> AuditedSuccess(B, k)
  BY <1>1, <1>2, <1>3, <1>4 DEF AuditedSuccess, q
<1> QED
  BY <1>5 DEF AuditedOutcome

(* The events invoked before k are equally many in both. *)
LEMMA TimeAgrees ==
  ASSUME NEW A, NEW B, NEW k \in Nat, SameUpTo(A, B, k)
  PROVE  Cardinality({i \in 1..(k - 1) : A[i].decision = "allow"})
           = Cardinality({i \in 1..(k - 1) : B[i].decision = "allow"})
<1>1. {i \in 1..(k - 1) : A[i].decision = "allow"}
        = {i \in 1..(k - 1) : B[i].decision = "allow"}
  BY DEF SameUpTo
<1> QED
  BY <1>1

(* Two audited events that agree in what they follow and in what they ask  *)
(* are the same.                                                           *)
LEMMA EventDetermined ==
  ASSUME NEW A, NEW B, NEW k \in Nat, SameUpTo(A, B, k), NEW m,
         AuditedEvent(m, A, k), AuditedEvent(m, B, k)
  PROVE  /\ A[k].at = B[k].at /\ A[k].decision = B[k].decision
         /\ A[k].outcome = B[k].outcome
<1>1. A[k].at = B[k].at
  BY TimeAgrees DEF AuditedEvent
<1>2. A[k].decision = B[k].decision
  BY <1>1, DecisionAgrees DEF AuditedEvent
<1>3. A[k].outcome = B[k].outcome
  BY <1>2, OutcomeAgrees DEF AuditedEvent
<1> QED
  BY <1>1, <1>2, <1>3

(* An event that was audited stays so as the log grows. *)
LEMMA EventKept ==
  ASSUME NEW A, NEW B, NEW k \in Nat, SameUpTo(A, B, k), A[k] = B[k], NEW m,
         AuditedEvent(m, A, k)
  PROVE  AuditedEvent(m, B, k)
<1>1. /\ AuditedDecision(m, A, k) = AuditedDecision(m, B, k)
      /\ AuditedOutcome(A, k) = AuditedOutcome(B, k)
  BY DecisionAgrees, OutcomeAgrees
<1> QED
  BY <1>1, TimeAgrees DEF AuditedEvent

(* What the rules say of the write that is logged next, read from the log  *)
(* it is appended to.                                                      *)
LEMMA NextWrite ==
  ASSUME NEW B, NEW n \in Nat, DOMAIN evidence = 1..(n - 1),
         \A i \in DOMAIN evidence : B[i] = evidence[i]
  PROVE  AuditedWrite(B, n) <=>
           /\ B[n].request.mode # "malformed"
           /\ RulesAllow(Entries(<<B[n].caller, B[n].session>>), B[n].request, B[n].at)
<1> DEFINE q == B[n].request
<1>1. Prior(B, n) = Entries(<<B[n].caller, B[n].session>>)
  BY DEF Prior, Entries
<1>2. PICK P : P = Prior(B, n)
  OBVIOUS
<1>3. P \subseteq DOMAIN evidence /\ \A i \in P : B[i] = evidence[i]
  BY <1>2 DEF Prior
<1> HIDE DEF q
<1> DEFINE V == {i \in P : IsApproval(B[i], q.record, q.approval)}
           U == {i \in P : /\ B[i].request.tool = "execute_write"
                           /\ B[i].request.approval = q.approval}
           W == {i \in P : IsWrite(B[i], "success")}
           Allowed(L) ==
             /\ \E i \in P : IsLookup(L[i], q.record)
             /\ \E i \in V : /\ \A j \in V : j <= i
                             /\ L[i].request.expiry > B[n].at
             /\ \A i \in U : L[i].outcome = "error"
             /\ Cardinality(U) < RetryLimit /\ Cardinality(W) < WriteLimit
<1>4. AuditedWrite(B, n) <=> q.mode # "malformed" /\ Allowed(B)
  BY <1>2 DEF AuditedWrite, q
<1>5. RulesAllow(P, q, B[n].at) <=> Allowed(evidence)
  <2>1. V = {i \in P : IsApproval(evidence[i], q.record, q.approval)}
    BY <1>3
  <2>2. U = {i \in P : /\ evidence[i].request.tool = "execute_write"
                       /\ evidence[i].request.approval = q.approval}
    BY <1>3
  <2>3. W = {i \in P : IsWrite(evidence[i], "success")}
    BY <1>3
  <2> HIDE DEF U, V, W
  <2> QED
    BY <2>1, <2>2, <2>3 DEF RulesAllow
<1>6. V \subseteq P /\ U \subseteq P
  OBVIOUS
<1> HIDE DEF U, V, W
<1>7. (\E i \in V : /\ \A j \in V : j <= i
                    /\ B[i].request.expiry > B[n].at)
      <=> (\E i \in V : /\ \A j \in V : j <= i
                        /\ evidence[i].request.expiry > B[n].at)
  BY <1>3, <1>6
<1>8. (\A i \in U : B[i].outcome = "error") <=> (\A i \in U : evidence[i].outcome = "error")
  BY <1>3, <1>6
<1>9. (\E i \in P : IsLookup(B[i], q.record)) <=> (\E i \in P : IsLookup(evidence[i], q.record))
  BY <1>3
<1>10. AuditedWrite(B, n) <=> q.mode # "malformed" /\ RulesAllow(P, q, B[n].at)
  BY <1>4, <1>5, <1>7, <1>8, <1>9
<1> QED
  BY <1>1, <1>2, <1>10 DEF q

-----------------------------------------------------------------------------
(***************************************************************************)
(* The log as a record of what the store holds: an operation is stored     *)
(* under a key exactly when an invoked write reached it, and has succeeded *)
(* exactly when such a write was answered with success.                    *)
(***************************************************************************)
InStore(r, c) == Stored(r, c) # {}

Done(r, c) == \E o \in Stored(r, c) : o.status = "SUCCEEDED"

ReachedAt(r, c) == {k \in DOMAIN evidence : Reached(evidence[k], r, c)}

StoreFollows ==
  \A r, c :
    /\ InStore(r, c) <=> ReachedAt(r, c) # {}
    /\ Done(r, c) <=> \E k \in ReachedAt(r, c) : evidence[k].outcome = "success"

WritesTo(q, r, c) ==
  /\ q.tool = "execute_write" /\ WellFormed(q) /\ KnownRecord(q)
  /\ Strip[q.record] = r /\ Strip[q.change] = c

(* What a tool answers and stores. *)
LEMMA ToolAnswers ==
  ASSUME NEW q \in Request, NEW o \in Outcomes, Invoke(q, o)
  PROVE  /\ \A r, c : InStore(r, c)' <=> InStore(r, c) \/ WritesTo(q, r, c)
         /\ \A r, c : Done(r, c)' <=>
              \/ Done(r, c)
              \/ WritesTo(q, r, c) /\ ~InStore(r, c) /\ q.mode # "force_error"
         /\ o = "success" <=>
              /\ WellFormed(q)
              /\ \/ q.tool \in {"lookup_record", "record_human_approval"} /\ KnownRecord(q)
                 \/ /\ q.tool = "execute_write" /\ KnownRecord(q)
                    /\ Done(Strip[q.record], Strip[q.change])'
                 \/ /\ q.tool = "get_operation_status"
                    /\ InStore(Strip[q.record], Strip[q.change])
<1>1. CASE ~(q.tool = "execute_write" /\ WellFormed(q) /\ KnownRecord(q))
  <2>1. operations' = operations
    BY <1>1 DEF Invoke, LookupRecord, RecordHumanApproval, ExecuteWrite,
                GetOperationStatus, UnknownTool, storeVars
  <2>2. \A r, c : /\ InStore(r, c)' <=> InStore(r, c)
                  /\ Done(r, c)' <=> Done(r, c)
                  /\ ~WritesTo(q, r, c)
    BY <1>1, <2>1 DEF InStore, Done, Stored, WritesTo
  <2>3. CASE q.tool \in {"lookup_record", "record_human_approval"}
    BY <2>2, <2>3 DEF Invoke, LookupRecord, RecordHumanApproval, Tools
  <2>4. CASE q.tool = "execute_write"
    BY <1>1, <2>2, <2>4 DEF Invoke, ExecuteWrite, Tools
  <2>5. CASE q.tool = "get_operation_status"
    BY <2>2, <2>5 DEF Invoke, GetOperationStatus, InStore, Tools
  <2>6. CASE q.tool \notin Tools
    BY <2>2, <2>6 DEF Invoke, UnknownTool, Tools
  <2> QED
    BY <2>3, <2>4, <2>5, <2>6 DEF Tools
<1>2. CASE q.tool = "execute_write" /\ WellFormed(q) /\ KnownRecord(q)
  <2> DEFINE r0 == Strip[q.record]
             c0 == Strip[q.change]
  <2>1. ExecuteWrite(q, o)
    BY <1>2 DEF Invoke, Tools
  <2>2. o = "success" <=> Done(r0, c0)'
    BY <1>2, <2>1 DEF ExecuteWrite, Done, Stored, Outcomes
  <2>3. \A r, c : WritesTo(q, r, c) <=> r = r0 /\ c = c0
    BY <1>2 DEF WritesTo
  <2>4. CASE InStore(r0, c0)
    <3>1. operations' = operations
      BY <1>2, <2>1, <2>4 DEF ExecuteWrite, ApplyChange, RecordFailedChange, storeVars, InStore
    <3>2. \A r, c : (InStore(r, c)' <=> InStore(r, c)) /\ (Done(r, c)' <=> Done(r, c))
      BY <3>1 DEF InStore, Done, Stored
    <3> QED
      BY <1>2, <2>2, <2>3, <2>4, <3>2
  <2>5. CASE ~InStore(r0, c0)
    <3> DEFINE new == NewOperation(q, IF q.mode = "force_error" THEN "FAILED" ELSE "SUCCEEDED")
    <3>1. operations' = operations \cup {new}
      BY <1>2, <2>1, <2>5 DEF ExecuteWrite, ApplyChange, RecordFailedChange, InStore
    <3>2. /\ new.record = r0 /\ new.change = c0
          /\ new.status = "SUCCEEDED" <=> q.mode # "force_error"
      BY DEF NewOperation
    <3> HIDE DEF new, r0, c0
    <3>3. \A r, c : InStore(r, c)' <=> InStore(r, c) \/ (r = r0 /\ c = c0)
      BY <3>1, <3>2 DEF InStore, Stored
    <3>4. \A r, c : Done(r, c)' <=>
                      Done(r, c) \/ (r = r0 /\ c = c0 /\ q.mode # "force_error")
      BY <3>1, <3>2 DEF Done, Stored
    <3> QED
      BY <1>2, <2>2, <2>3, <2>5, <3>3, <3>4 DEF r0, c0
  <2> QED
    BY <2>4, <2>5
<1> QED
  BY <1>1, <1>2

-----------------------------------------------------------------------------
(***************************************************************************)
(* One presented step, whichever of the three it is: how it was decided,   *)
(* answered and timed.                                                     *)
(***************************************************************************)
LEMMA DecidedStep ==
  ASSUME RunTypeOK, AllowedStep \/ DeniedStep \/ FailedStep
  PROVE  /\ Running /\ More /\ CurrentStep \in Step
         /\ UNCHANGED <<control, scenario, result>>
         /\ \E d \in {"allow", "deny", "error"}, o \in Outcomes \cup {"not_started"} :
              /\ d = Choose(CurrentStep.caller, CurrentStep.session, CurrentStep.request)
              /\ Log(d, o)
              /\ d = "allow" => /\ o \in Outcomes /\ Invoke(CurrentStep.request, o)
                               /\ clock' = clock + 1
              /\ d # "allow" => /\ o = "not_started"
                               /\ operations' = operations /\ clock' = clock
<1>1. /\ Running /\ More /\ control' = control /\ scenario' = scenario
      /\ result' = result
  BY DEF AllowedStep, DeniedStep, FailedStep
<1>2. CurrentStep \in Step
  <2>1. RunShape
    BY MaxClockAssumption DEF RunTypeOK, RunShape, TypeOK
  <2> QED
    BY <1>1, <2>1, PresentedStep
<1> DEFINE chosen == Choose(CurrentStep.caller, CurrentStep.session, CurrentStep.request)
<1>3. CASE AllowedStep
  <2>1. PICK o \in Outcomes : Invoke(CurrentStep.request, o) /\ Log("allow", o)
    BY <1>3 DEF AllowedStep
  <2>2. chosen = "allow" /\ clock' = clock + 1
    BY <1>3 DEF AllowedStep
  <2> HIDE DEF chosen
  <2> QED
    BY <1>1, <1>2, <2>1, <2>2 DEF chosen
<1>4. CASE DeniedStep
  <2>1. /\ chosen = "deny" /\ Log("deny", "not_started")
        /\ operations' = operations /\ clock' = clock
    BY <1>4 DEF DeniedStep, vars
  <2> HIDE DEF chosen
  <2> QED
    BY <1>1, <1>2, <2>1 DEF chosen
<1>5. CASE FailedStep
  <2>1. /\ chosen = "error" /\ Log("error", "not_started")
        /\ operations' = operations /\ clock' = clock
    BY <1>5 DEF FailedStep, vars
  <2> HIDE DEF chosen
  <2> QED
    BY <1>1, <1>2, <2>1 DEF chosen
<1> QED
  BY <1>3, <1>4, <1>5

(* The authorizer's choice is the decision the grown log calls for. *)
LEMMA ChoiceAudited ==
  ASSUME RunTypeOK, control = "temporal_policy" => Followed, More,
         CurrentStep \in Step, NEW o \in Outcomes \cup {"not_started"},
         NEW d \in {"allow", "deny", "error"}, Log(d, o),
         d = Choose(CurrentStep.caller, CurrentStep.session, CurrentStep.request)
  PROVE  AuditedDecision(control, evidence', Current) = d
<1> DEFINE x == CurrentStep
           q == x.request
           p == <<x.caller, x.session>>
           n == Current
<1>1. /\ DOMAIN evidence = 1..(n - 1) /\ n \in Nat
      /\ \A k \in DOMAIN evidence : evidence'[k] = evidence[k]
      /\ evidence'[n].caller = x.caller /\ evidence'[n].session = x.session
      /\ evidence'[n].request = q /\ evidence'[n].at = clock
  <2>1. /\ DOMAIN evidence = 1..Len(evidence) /\ Len(evidence) \in Nat
        /\ n = Len(evidence) + 1
        /\ \A k \in DOMAIN evidence : evidence'[k] = evidence[k]
        /\ evidence'[n].caller = x.caller /\ evidence'[n].session = x.session
        /\ evidence'[n].request = q /\ evidence'[n].at = clock
    BY LogGrows
  <2> HIDE DEF n, x
  <2> QED
    BY <2>1
<1>2. x.caller \in Callers /\ x.session \in Sessions /\ q \in Request
  BY RequestsAssumption DEF Step
<1>3. control \in AllControlModels
  BY RunnerAssumption DEF RunTypeOK
<1> HIDE DEF x, n
<1> SUFFICES AuditedDecision(control, evidence', n) = d
  BY DEF n
<1>4. CASE control = "prompt_only"
  BY <1>1, <1>4 DEF AuditedDecision, Choose, x
<1>5. CASE control = "stateless_auth"
  BY <1>1, <1>5 DEF AuditedDecision, Choose, x
<1>6. CASE control = "temporal_policy"
  <2>1. d = Authorize(history[p], x.caller, x.session, q, clock)
    BY <1>6 DEF Choose, Decision, x
  <2>2. ASSUME x.session \in ValidSessions
        PROVE  AuditedWrite(evidence', n) <=> WriteAllowed(history[p], q, clock)
    <3>1. AuditedWrite(evidence', n) <=> /\ q.mode # "malformed"
                                         /\ RulesAllow(Entries(p), q, clock)
      BY <1>1, NextWrite
    <3>2. CASE q.mode = "malformed"
      BY <3>1, <3>2 DEF WriteAllowed
    <3>3. CASE q.mode # "malformed"
      <4>1. p \in Callers \X ValidSessions
        BY <1>2, <2>2
      <4>2. PICK f : Follows(p, f)
        BY <1>6, <4>1 DEF Followed
      <4>3. RulesAllow(Entries(p), q, clock) <=> WriteAllowed(history[p], q, clock)
        BY <1>2, <3>3, <4>1, <4>2, RulesFollow
      <4> QED
        BY <3>1, <3>3, <4>3
    <3> QED
      BY <3>2, <3>3
  <2> HIDE DEF p
  <2> QED
    BY <1>1, <1>6, <2>1, <2>2 DEF AuditedDecision, Authorize
<1> QED
  BY <1>3, <1>4, <1>5, <1>6 DEF AllControlModels

(* The tool's answer is the one the grown log calls for, and the log still *)
(* says what the store holds.                                              *)
LEMMA AnswerAudited ==
  ASSUME RunTypeOK, StoreFollows, More, CurrentStep \in Step,
         NEW d \in {"allow", "deny", "error"}, NEW o \in Outcomes \cup {"not_started"},
         Log(d, o),
         d = "allow" => o \in Outcomes /\ Invoke(CurrentStep.request, o),
         d # "allow" => o = "not_started" /\ operations' = operations
  PROVE  AuditedOutcome(evidence', Current) = o /\ StoreFollows'
<1>0. PICK q, n : q = CurrentStep.request /\ n = Current
  OBVIOUS
<1> DEFINE r0 == Strip[q.record]
           c0 == Strip[q.change]
<1>1. /\ DOMAIN evidence = 1..(n - 1) /\ n \in Nat
      /\ DOMAIN evidence' = DOMAIN evidence \cup {n}
      /\ \A k \in DOMAIN evidence : evidence'[k] = evidence[k]
      /\ evidence'[n].request = q /\ evidence'[n].decision = d
      /\ evidence'[n].outcome = o
  <2>1. /\ DOMAIN evidence = 1..Len(evidence) /\ Len(evidence) \in Nat
        /\ n = Len(evidence) + 1
        /\ DOMAIN evidence' = DOMAIN evidence \cup {n}
        /\ \A k \in DOMAIN evidence : evidence'[k] = evidence[k]
        /\ evidence'[n].request = q /\ evidence'[n].decision = d
        /\ evidence'[n].outcome = o
    BY <1>0, LogGrows
  <2> QED
    BY <2>1
<1>2. q \in Request
  BY <1>0, RequestsAssumption DEF Step
<1> SUFFICES AuditedOutcome(evidence', n) = o /\ StoreFollows'
  BY <1>0
<1>3. \A r, c : ReachedAt(r, c)' =
                  ReachedAt(r, c) \cup (IF d = "allow" /\ WritesTo(q, r, c) THEN {n} ELSE {})
  <2>1. \A r, c : Reached(evidence'[n], r, c) <=> d = "allow" /\ WritesTo(q, r, c)
    BY <1>1 DEF Reached, WritesTo, Outcomes
  <2> QED
    BY <1>1, <2>1 DEF ReachedAt
<1>4. CASE d # "allow"
  <2>1. AuditedOutcome(evidence', n) = o
    BY <1>1, <1>4 DEF AuditedOutcome
  <2>2. StoreFollows'
    <3>1. \A r, c : /\ InStore(r, c)' <=> InStore(r, c)
                    /\ Done(r, c)' <=> Done(r, c)
                    /\ ReachedAt(r, c)' = ReachedAt(r, c)
                    /\ ReachedAt(r, c) \subseteq DOMAIN evidence
      BY <1>3, <1>4 DEF InStore, Done, Stored, ReachedAt
    <3>2. ASSUME NEW r, NEW c
          PROVE  /\ InStore(r, c)' <=> ReachedAt(r, c)' # {}
                 /\ Done(r, c)' <=> \E k \in ReachedAt(r, c)' : evidence'[k].outcome = "success"
      BY <1>1, <3>1 DEF StoreFollows
    <3> QED
      BY <3>2 DEF StoreFollows
  <2> QED
    BY <2>1, <2>2
<1>5. CASE d = "allow"
  <2>1. /\ \A r, c : InStore(r, c)' <=> InStore(r, c) \/ WritesTo(q, r, c)
        /\ \A r, c : Done(r, c)' <=>
             \/ Done(r, c)
             \/ WritesTo(q, r, c) /\ ~InStore(r, c) /\ q.mode # "force_error"
        /\ o = "success" <=>
             /\ WellFormed(q)
             /\ \/ q.tool \in {"lookup_record", "record_human_approval"} /\ KnownRecord(q)
                \/ /\ q.tool = "execute_write" /\ KnownRecord(q)
                   /\ Done(r0, c0)'
                \/ q.tool = "get_operation_status" /\ InStore(r0, c0)
    BY <1>0, <1>2, <1>5, ToolAnswers
  <2>2. /\ \A r, c : InStore(r, c) <=> ReachedAt(r, c) # {}
        /\ \A r, c : Done(r, c) <=>
                        \E k \in ReachedAt(r, c) : evidence[k].outcome = "success"
    BY DEF StoreFollows
  <2>3. \A r, c : WritesTo(q, r, c) => r = r0 /\ c = c0 /\ WellFormed(q) /\ KnownRecord(q)
                                       /\ q.tool = "execute_write"
    BY DEF WritesTo
  <2>4. AuditedSuccess(evidence', n) <=> o = "success"
    <3>1. {i \in 1..(n - 1) : Reached(evidence'[i], r0, c0)} = ReachedAt(r0, c0)
      BY <1>1 DEF ReachedAt
    <3>2. PICK P : P = ReachedAt(r0, c0)
      OBVIOUS
    <3>3. (\E i \in P : evidence'[i].outcome = "success") <=> Done(r0, c0)
      BY <1>1, <2>2, <3>2 DEF ReachedAt
    <3>4. P = {} <=> ~InStore(r0, c0)
      BY <2>2, <3>2
    <3>5. WellFormed(q) /\ KnownRecord(q) /\ q.tool = "execute_write" =>
            (Done(r0, c0)' <=> IF P = {} THEN q.mode # "force_error"
                               ELSE \E i \in P : evidence'[i].outcome = "success")
      <4>1. WellFormed(q) /\ KnownRecord(q) /\ q.tool = "execute_write"
              => WritesTo(q, r0, c0)
        BY DEF WritesTo
      <4>2. Done(r0, c0) => InStore(r0, c0)
        BY DEF Done, InStore
      <4> QED
        BY <2>1, <3>3, <3>4, <4>1, <4>2
    <3>6. AuditedSuccess(evidence', n) <=>
            /\ WellFormed(q)
            /\ \/ q.tool \in {"lookup_record", "record_human_approval"} /\ KnownRecord(q)
               \/ /\ q.tool = "execute_write" /\ KnownRecord(q)
                  /\ IF P = {} THEN q.mode # "force_error"
                               ELSE \E i \in P : evidence'[i].outcome = "success"
               \/ q.tool = "get_operation_status" /\ P # {}
      BY <1>1, <3>1, <3>2 DEF AuditedSuccess
    <3> QED
      BY <2>1, <3>4, <3>5, <3>6
  <2>5. AuditedOutcome(evidence', n) = o
    BY <1>1, <1>5, <2>4 DEF AuditedOutcome, Outcomes
  <2>6. ASSUME NEW r, NEW c
        PROVE  /\ InStore(r, c)' <=> ReachedAt(r, c)' # {}
               /\ Done(r, c)' <=> \E k \in ReachedAt(r, c)' : evidence'[k].outcome = "success"
    <3>1. InStore(r, c)' <=> ReachedAt(r, c)' # {}
      BY <1>3, <1>5, <2>1, <2>2
    <3>2. (\E k \in ReachedAt(r, c)' : evidence'[k].outcome = "success")
            <=> Done(r, c) \/ (WritesTo(q, r, c) /\ o = "success")
      <4>1. \A k \in ReachedAt(r, c) : evidence'[k] = evidence[k]
        BY <1>1 DEF ReachedAt
      <4> QED
        BY <1>1, <1>3, <1>5, <2>2, <4>1
    <3>3. CASE WritesTo(q, r, c)
      <4>1. o = "success" <=> Done(r0, c0)'
        BY <2>1, <2>3, <3>3
      <4>2. Done(r0, c0)' <=> Done(r, c)'
        BY <2>1, <2>3, <3>3
      <4>3. Done(r, c) => Done(r, c)'
        BY <2>1
      <4> QED
        BY <3>1, <3>2, <3>3, <4>1, <4>2, <4>3
    <3>4. CASE ~WritesTo(q, r, c)
      BY <2>1, <3>1, <3>2, <3>4
    <3> QED
      BY <3>3, <3>4
  <2> QED
    BY <2>5, <2>6 DEF StoreFollows
<1> QED
  BY <1>4, <1>5

(* A presented step of a temporal run keeps log and histories together. *)
LEMMA FollowedByLog ==
  ASSUME RunTypeOK, Followed, control = "temporal_policy",
         AllowedStep \/ DeniedStep \/ FailedStep
  PROVE  Followed'
<1> DEFINE x == CurrentStep
           p == <<x.caller, x.session>>
           d == Authorize(history[p], x.caller, x.session, x.request, clock)
<1>1. /\ More /\ x \in Step
      /\ \E o \in Outcomes \cup {"not_started"} :
           /\ d \in {"allow", "deny", "error"}
           /\ Log(d, o)
           /\ o = "not_started" => history' = history
           /\ o # "not_started" =>
                /\ x.session \in ValidSessions
                /\ history' = [history EXCEPT ![p] =
                                 Append(@, [request |-> x.request, outcome |-> o])]
  BY MonitoredStep
<1>2. PICK o \in Outcomes \cup {"not_started"} :
           /\ d \in {"allow", "deny", "error"}
           /\ Log(d, o)
           /\ o = "not_started" => history' = history
           /\ o # "not_started" =>
                history' = [history EXCEPT ![p] =
                              Append(@, [request |-> x.request, outcome |-> o])]
  BY <1>1
<1>3. PICK v \in {"allow", "deny", "error"} : v = d
  BY <1>2
<1>4. Log(v, o)
  BY <1>2, <1>3
<1> QED
  BY <1>1, <1>2, <1>4, FollowedStep

(***************************************************************************)
(* The strengthening that makes the audit inductive: the log agrees with   *)
(* the histories, the store and the clock, so that the next event can be   *)
(* decided, answered and timed from the log.                               *)
(***************************************************************************)
AuditInv ==
  /\ control = "temporal_policy" => Followed
  /\ clock = Cardinality(Decided("allow"))
  /\ StoreFollows
  /\ EvidenceAudits

(* A run starts with an empty log and nothing to agree with. *)
LEMMA AuditInit == RunInit => AuditInv
<1> SUFFICES ASSUME RunInit PROVE AuditInv
  OBVIOUS
<1>1. evidence = <<>> /\ DOMAIN evidence = {}
  BY DEF RunInit
<1>2. ASSUME NEW p \in Callers \X ValidSessions
      PROVE  \E f : Follows(p, f)
  <2>1. history[p] = <<>> /\ DOMAIN history[p] = {} /\ Entries(p) = {}
    BY <1>1, SessionAssumption DEF RunInit, Init, Pairs, Entries
  <2>2. Follows(p, [i \in {} |-> 0])
    BY <2>1 DEF Follows
  <2> QED
    BY <2>2
<1>3. clock = Cardinality(Decided("allow"))
  <2>1. Decided("allow") = {} /\ clock = 0
    BY <1>1 DEF Decided, RunInit, Init
  <2> QED
    BY <2>1, FS_EmptySet
<1>4. StoreFollows
  BY <1>1 DEF RunInit, Init, StoreInit, StoreFollows, InStore, Done, Stored, ReachedAt
<1> QED
  BY <1>1, <1>2, <1>3, <1>4 DEF AuditInv, Followed, EvidenceAudits

(* A presented step is logged as the audit of the log says. *)
LEMMA AuditLogged ==
  ASSUME RunTypeOK, AuditInv, AllowedStep \/ DeniedStep \/ FailedStep
  PROVE  AuditInv'
<1>1. /\ More /\ CurrentStep \in Step /\ control' = control
      /\ \E d \in {"allow", "deny", "error"}, o \in Outcomes \cup {"not_started"} :
           /\ d = Choose(CurrentStep.caller, CurrentStep.session, CurrentStep.request)
           /\ Log(d, o)
           /\ d = "allow" => /\ o \in Outcomes /\ Invoke(CurrentStep.request, o)
                            /\ clock' = clock + 1
           /\ d # "allow" => /\ o = "not_started"
                            /\ operations' = operations /\ clock' = clock
  BY DecidedStep
<1>2. PICK d \in {"allow", "deny", "error"}, o \in Outcomes \cup {"not_started"} :
           /\ d = Choose(CurrentStep.caller, CurrentStep.session, CurrentStep.request)
           /\ Log(d, o)
           /\ d = "allow" => /\ o \in Outcomes /\ Invoke(CurrentStep.request, o)
                            /\ clock' = clock + 1
           /\ d # "allow" => /\ o = "not_started"
                            /\ operations' = operations /\ clock' = clock
  BY <1>1
<1>3. PICK n : n = Current
  OBVIOUS
<1>4. /\ DOMAIN evidence = 1..(n - 1) /\ n \in Nat
      /\ DOMAIN evidence' = DOMAIN evidence \cup {n} /\ n \notin DOMAIN evidence
      /\ \A k \in DOMAIN evidence : evidence'[k] = evidence[k] /\ k \in Nat /\ k < n
      /\ evidence'[n].at = clock /\ evidence'[n].decision = d
      /\ evidence'[n].outcome = o
  <2>1. /\ DOMAIN evidence = 1..Len(evidence) /\ Len(evidence) \in Nat
        /\ n = Len(evidence) + 1
        /\ DOMAIN evidence' = DOMAIN evidence \cup {n}
        /\ n \notin DOMAIN evidence
        /\ \A k \in DOMAIN evidence : evidence'[k] = evidence[k]
        /\ evidence'[n].at = clock /\ evidence'[n].decision = d
        /\ evidence'[n].outcome = o
    BY <1>1, <1>2, <1>3, LogGrows
  <2> QED
    BY <2>1
<1>5. AuditedDecision(control, evidence', n) = d
  BY <1>1, <1>2, <1>3, ChoiceAudited DEF AuditInv
<1>6. AuditedOutcome(evidence', n) = o /\ StoreFollows'
  <2>1. AuditedOutcome(evidence', Current) = o /\ StoreFollows'
    BY <1>1, <1>2, AnswerAudited DEF AuditInv
  <2> QED
    BY <1>3, <2>1
<1>7. {i \in 1..(n - 1) : evidence'[i].decision = "allow"} = Decided("allow")
  BY <1>4 DEF Decided
<1>8. AuditedEvent(control, evidence', n)
  <2>1. evidence'[n].at = Cardinality({i \in 1..(n - 1) : evidence'[i].decision = "allow"})
    BY <1>4, <1>7 DEF AuditInv
  <2> QED
    BY <1>4, <1>5, <1>6, <2>1 DEF AuditedEvent
<1>9. ASSUME NEW k \in DOMAIN evidence PROVE AuditedEvent(control, evidence', k)
  <2>1. \A i \in 1..(k - 1) : i \in DOMAIN evidence
    BY <1>4
  <2>2. SameUpTo(evidence, evidence', k) /\ evidence[k] = evidence'[k]
    BY <1>4, <2>1 DEF SameUpTo
  <2>3. AuditedEvent(control, evidence, k) /\ k \in Nat
    BY <1>4 DEF AuditInv, EvidenceAudits
  <2> QED
    BY <2>2, <2>3, EventKept
<1>10. EvidenceAudits'
  BY <1>1, <1>4, <1>8, <1>9 DEF EvidenceAudits
<1>11. clock' = Cardinality(Decided("allow")')
  <2>1. Decided("allow")' = Decided("allow") \cup (IF d = "allow" THEN {n} ELSE {})
    BY <1>4 DEF Decided
  <2>2. IsFiniteSet(Decided("allow")) /\ n \notin Decided("allow")
    <3>1. IsFiniteSet(DOMAIN evidence) /\ Decided("allow") \subseteq DOMAIN evidence
      BY LogFinite DEF Decided
    <3> QED
      BY <1>4, <3>1, FS_Subset
  <2>3. clock + (IF d = "allow" THEN 1 ELSE 0)
          = Cardinality(Decided("allow") \cup (IF d = "allow" THEN {n} ELSE {}))
    BY <2>2, CountedOnce DEF AuditInv
  <2>4. clock' = clock + (IF d = "allow" THEN 1 ELSE 0)
    BY <1>2, MaxClockAssumption DEF RunTypeOK, TypeOK
  <2> QED
    BY <2>1, <2>3, <2>4
<1>12. (control = "temporal_policy" => Followed)'
  BY <1>1, FollowedByLog DEF AuditInv
<1> QED
  BY <1>6, <1>10, <1>11, <1>12 DEF AuditInv

(* A run keeps its log auditable. *)
LEMMA AuditKept == RunSpec => []AuditInv
<1>1. RunTypeOK /\ AuditInv /\ [RunNext]_runVars => AuditInv'
  <2> SUFFICES ASSUME RunTypeOK, AuditInv, [RunNext]_runVars PROVE AuditInv'
    OBVIOUS
  <2>1. CASE AllowedStep \/ DeniedStep \/ FailedStep
    BY <2>1, AuditLogged
  <2>2. CASE Summarize \/ NotApplicable \/ UNCHANGED runVars
    <3>1. UNCHANGED <<evidence, history, control, clock, operations>>
      BY <2>2 DEF Summarize, NotApplicable, runVars, vars, books
    <3>2. EvidenceAudits' <=> EvidenceAudits
      BY <3>1 DEF EvidenceAudits
    <3>3. Followed' <=> Followed
      BY <3>1 DEF Followed, Follows, Entries
    <3>4. StoreFollows' <=> StoreFollows
      BY <3>1 DEF StoreFollows, InStore, Done, Stored, ReachedAt
    <3>5. Decided("allow")' = Decided("allow")
      BY <3>1 DEF Decided
    <3> QED
      BY <3>1, <3>2, <3>3, <3>4, <3>5 DEF AuditInv
  <2> QED
    BY <2>1, <2>2 DEF RunNext
<1> QED
  BY <1>1, AuditInit, RunTypeCorrect, PTL DEF RunSpec

(***************************************************************************)
(* For every scenario, of any length and over any callers, sessions and    *)
(* approvals, and under each control model: the log of a run, read on its  *)
(* own, justifies each decision, accounts for each answer of the tools and *)
(* dates each event (runner.py, the evidence; policies.py, authorize;      *)
(* store.py, _operations_by_change).                                       *)
(***************************************************************************)
THEOREM EvidenceIsEnough == RunSpec => []EvidenceAudits
<1>1. AuditInv => EvidenceAudits
  BY DEF AuditInv
<1> QED
  BY <1>1, AuditKept, PTL

-----------------------------------------------------------------------------
(***************************************************************************)
(* The catalog: the log of a run is a beginning of the one its scenario's  *)
(* text calls for.                                                         *)
(***************************************************************************)
Begins(log) ==
  /\ Len(evidence) <= Len(log)
  /\ \A k \in DOMAIN evidence : evidence[k] = log[k]

TextInv ==
  IF scenario.scope = "authorization"
    THEN scenario \in Catalog => Begins(Replayed(scenario.steps, control))
    ELSE evidence = <<>>

(* One more event of a run is one more event of such a log. *)
LEMMA NextOfText ==
  ASSUME RunTypeOK, AuditInv, StopsInTime, AllowedStep \/ DeniedStep \/ FailedStep,
         NEW log, FollowsText(scenario.steps, control, log), Begins(log)
  PROVE  Begins(log)'
<1>1. /\ Running /\ More /\ CurrentStep \in Step /\ control' = control
      /\ \E d \in {"allow", "deny", "error"}, o \in Outcomes \cup {"not_started"} : Log(d, o)
  BY DecidedStep
<1>2. PICK n : n = Current
  OBVIOUS
<1>3. /\ evidence' \in Seq(EvidenceEvent) /\ Len(evidence') = n
      /\ DOMAIN evidence = 1..Len(evidence) /\ Len(evidence) \in Nat
      /\ n = Len(evidence) + 1
      /\ DOMAIN evidence' = DOMAIN evidence \cup {n}
      /\ \A k \in DOMAIN evidence : evidence'[k] = evidence[k]
      /\ evidence'[n].caller = scenario.steps[n].caller
      /\ evidence'[n].session = scenario.steps[n].session
      /\ evidence'[n].request = scenario.steps[n].request
  BY <1>1, <1>2, LogGrows DEF CurrentStep
<1>4. /\ log \in Seq(EvidenceEvent)
      /\ \A k \in DOMAIN log :
           /\ log[k].caller = scenario.steps[k].caller
           /\ log[k].session = scenario.steps[k].session
           /\ log[k].request = scenario.steps[k].request
           /\ AuditedEvent(control, log, k)
      /\ Len(log) < Len(scenario.steps) =>
           log # <<>> /\ ~Continues(log[Len(log)], scenario.steps[Len(log)])
  BY DEF FollowsText
<1>5. DOMAIN log = 1..Len(log) /\ Len(log) \in Nat /\ (log # <<>> => Len(log) # 0)
  BY <1>4
<1>6. Len(evidence) <= Len(log) /\ \A k \in DOMAIN evidence : evidence[k] = log[k]
  BY DEF Begins
<1>7. n <= Len(log)
  <2>0. /\ Len(evidence) \in Nat /\ Len(log) \in Nat /\ n = Len(evidence) + 1
        /\ Len(evidence) <= Len(log)
    BY <1>3, <1>5, <1>6
  <2> SUFFICES ASSUME Len(evidence) = Len(log) PROVE FALSE
    BY <2>0
  <2>1. PICK k : k = Len(log)
    OBVIOUS
  <2>2. Len(evidence) < Len(scenario.steps)
    <3>1. Len(scenario.steps) \in Nat
      BY RunnerAssumption DEF RunTypeOK
    <3> QED
      BY <1>1, <1>2, <1>3, <3>1 DEF More
  <2>3. k # 0 /\ ~Continues(log[k], scenario.steps[k])
    BY <1>4, <1>5, <2>1, <2>2
  <2>4. k \in DOMAIN evidence
    BY <1>3, <1>5, <2>1, <2>3
  <2>5. stoppedAt = k
    BY <1>6, <2>3, <2>4 DEF StopsInTime
  <2> QED
    BY <1>1, <2>3, <2>5 DEF Running
<1>8. n \in DOMAIN log /\ n \in Nat
  BY <1>3, <1>5, <1>7
<1>9. evidence'[n] = log[n]
  <2>1. AuditedEvent(control, evidence', n)
    <3>1. EvidenceAudits'
      BY AuditLogged DEF AuditInv
    <3> QED
      BY <1>1, <1>3, <3>1 DEF EvidenceAudits
  <2>2. SameUpTo(evidence', log, n)
    <3>1. \A i \in 1..(n - 1) : i \in DOMAIN evidence
      BY <1>3
    <3> QED
      BY <1>3, <1>4, <1>6, <1>8, <3>1 DEF SameUpTo
  <2>3. /\ evidence'[n].at = log[n].at /\ evidence'[n].decision = log[n].decision
        /\ evidence'[n].outcome = log[n].outcome
    BY <1>4, <1>8, <2>1, <2>2, EventDetermined
  <2>4. evidence'[n] \in EvidenceEvent /\ log[n] \in EvidenceEvent
    BY <1>3, <1>4, <1>8
  <2> QED
    BY <2>2, <2>3, <2>4 DEF EvidenceEvent, SameUpTo
<1> QED
  BY <1>3, <1>6, <1>7, <1>9 DEF Begins

(* A run keeps to the text of its scenario. *)
LEMMA TextKept == RunSpec => []TextInv
<1>1. RunInit => TextInv
  <2> SUFFICES ASSUME RunInit, scenario.scope = "authorization", scenario \in Catalog
               PROVE  Begins(Replayed(scenario.steps, control))
    BY DEF TextInv, RunInit
  <2>1. evidence = <<>> /\ DOMAIN evidence = {} /\ Len(evidence) = 0
    BY DEF RunInit
  <2>2. PICK log : log = Replayed(scenario.steps, control)
    OBVIOUS
  <2>3. log \in Seq(EvidenceEvent)
    BY <2>2, CatalogAssumption DEF RunInit, DeclaresTheText, FollowsText
  <2>4. 0 <= Len(log)
    BY <2>3
  <2> QED
    BY <2>1, <2>2, <2>4 DEF Begins
<1>2. SummaryInv /\ AuditInv /\ TextInv /\ [RunNext]_runVars => TextInv'
  <2> SUFFICES ASSUME SummaryInv, AuditInv, TextInv, [RunNext]_runVars
               PROVE  TextInv'
    OBVIOUS
  <2>1. CASE AllowedStep \/ DeniedStep \/ FailedStep
    <3>1. Running /\ UNCHANGED <<control, scenario>>
      BY <2>1, DecidedStep DEF SummaryInv
    <3>2. scenario.scope = "authorization"
      BY <3>1 DEF Running
    <3>3. ASSUME scenario \in Catalog
          PROVE  Begins(Replayed(scenario.steps, control))'
      <4>1. PICK log : log = Replayed(scenario.steps, control)
        OBVIOUS
      <4>2. FollowsText(scenario.steps, control, log) /\ Begins(log)
        BY <3>2, <3>3, <4>1, CatalogAssumption
           DEF TextInv, DeclaresTheText, SummaryInv, RunTypeOK
      <4>3. Begins(log)'
        BY <2>1, <4>2, NextOfText DEF SummaryInv
      <4>4. Replayed(scenario.steps, control)' = log
        BY <3>1, <4>1
      <4> QED
        BY <4>3, <4>4 DEF Begins
    <3> QED
      BY <3>1, <3>2, <3>3 DEF TextInv
  <2>2. CASE Summarize \/ NotApplicable \/ UNCHANGED runVars
    <3>1. UNCHANGED <<evidence, control, scenario>>
      BY <2>2 DEF Summarize, NotApplicable, runVars, books
    <3> QED
      BY <3>1 DEF TextInv, Begins
  <2> QED
    BY <2>1, <2>2 DEF RunNext
<1> QED
  BY <1>1, <1>2, SummaryKept, AuditKept, PTL DEF RunSpec

(* A run that is over has shown all of its text. *)
LEMMA WholeText ==
  ASSUME SummaryInv, result # "running", scenario.scope = "authorization",
         NEW log, FollowsText(scenario.steps, control, log), Begins(log)
  PROVE  /\ DOMAIN evidence = DOMAIN log
         /\ \A k \in DOMAIN log : evidence[k] = log[k]
<1>1. DOMAIN evidence = 1..Len(evidence) /\ Len(evidence) \in Nat
  BY DEF SummaryInv, RunTypeOK
<1>2. /\ log \in Seq(EvidenceEvent) /\ Len(log) <= Len(scenario.steps)
      /\ \A k \in DOMAIN log : k < Len(log) => Continues(log[k], scenario.steps[k])
  BY DEF FollowsText
<1>3. DOMAIN log = 1..Len(log) /\ Len(log) \in Nat
  BY <1>2
<1>4. Len(evidence) <= Len(log) /\ \A k \in DOMAIN evidence : evidence[k] = log[k]
  BY DEF Begins
<1>5. Len(evidence) = Len(log)
  <2>0. /\ Len(evidence) \in Nat /\ Len(log) \in Nat /\ Len(evidence) <= Len(log)
        /\ Len(log) <= Len(scenario.steps)
    BY <1>1, <1>2, <1>3, <1>4
  <2>1. CASE stoppedAt = 0
    <3>1. ~More /\ Len(scenario.steps) \in Nat
      BY <2>1, RunnerAssumption DEF SummaryInv, EndInv, RunTypeOK
    <3> QED
      BY <2>0, <3>1 DEF More, Current
  <2>2. CASE stoppedAt # 0
    <3>1. PICK k : k = stoppedAt
      OBVIOUS
    <3>2. k = Len(evidence) /\ k # 0
      BY <2>2, <3>1 DEF SummaryInv, RunTypeOK
    <3>3. k \in DOMAIN evidence
      BY <1>1, <3>2
    <3>4. ~Continues(log[k], scenario.steps[k])
      BY <1>4, <3>1, <3>3 DEF SummaryInv, StopsInTime
    <3>5. k \in DOMAIN log
      BY <1>1, <1>3, <1>4, <3>3
    <3>6. ~(k < Len(log))
      BY <1>2, <3>4, <3>5
    <3> QED
      BY <2>0, <3>2, <3>6
  <2> QED
    BY <2>1, <2>2
<1> QED
  BY <1>1, <1>3, <1>4, <1>5

(* Its class is that of the text. *)
LEMMA ClassOfText ==
  ASSUME SummaryInv, NEW log, DOMAIN evidence = DOMAIN log,
         \A k \in DOMAIN log : evidence[k] = log[k]
  PROVE  Classify = LogClass(scenario.steps, log)
<1> DEFINE denials == {k \in DOMAIN log : log[k].decision = "deny"}
           failures == {k \in DOMAIN log : log[k].outcome = "error"}
<1>1. denials = denied
  BY DEF SummaryInv, DecisionsInv, Decided
<1>2. toolErrors > 0 <=> failures # {}
  <2>1. failures = Ended("error")
    BY DEF Ended
  <2>2. IsFiniteSet(Ended("error")) /\ toolErrors = Cardinality(Ended("error"))
    BY LogFinite DEF SummaryInv, CountersInv
  <2>3. toolErrors = 0 <=> Ended("error") = {}
    BY <2>2, FS_EmptySet
  <2>4. toolErrors \in Nat
    BY DEF SummaryInv, RunTypeOK
  <2> QED
    BY <2>1, <2>3, <2>4
<1>3. authErrors # {} <=> \E k \in DOMAIN log : log[k].decision = "error"
  BY DEF SummaryInv, DecisionsInv, Decided
<1>4. authErrors \cap {"RATE_LIMITED", "THROTTLED", "ThrottlingException"} = {}
  BY DEF SummaryInv, RunTypeOK
<1>5. ContinuedDenial <=> \E k \in denials : scenario.steps[k].onDeny
  BY <1>1 DEF ContinuedDenial
<1>6. LogClass(scenario.steps, log) =
        IF \E k \in DOMAIN log : log[k].decision = "error" THEN "validation_error"
        ELSE IF denials # {} /\ (failures # {} \/ \E k \in denials : scenario.steps[k].onDeny)
          THEN "mixed"
        ELSE IF denials # {} THEN "deny"
        ELSE IF failures # {} THEN "tool_error" ELSE "allow"
  BY DEF LogClass
<1> HIDE DEF denials, failures
<1> QED
  BY <1>1, <1>2, <1>3, <1>4, <1>5, <1>6 DEF Classify

(***************************************************************************)
(* The outcomes a catalog declares need not be found by running it: if     *)
(* they are what the text of each scenario calls for under the audited     *)
(* rules, every run of the runner, with its authorizer's histories and its *)
(* store, ends in the declared class, the temporal policy allows no step   *)
(* the fixture calls unsafe, and no control model denies a step it should  *)
(* not (fixtures/scenarios-v1.json; runner.py, run and _classify).         *)
(***************************************************************************)
THEOREM CatalogHolds == RunSpec => []CatalogAsDeclared
<1>1. SummaryInv /\ TextInv => CatalogAsDeclared
  <2> SUFFICES ASSUME SummaryInv, TextInv, result # "running", scenario \in Catalog
               PROVE  /\ result = scenario.expected[control]
                      /\ control = "temporal_policy" => ~FalseAllow
                      /\ ~FalseDenial
    BY DEF CatalogAsDeclared
  <2>1. /\ DeclaresTheText(scenario, control)
        /\ denied = Decided("deny") /\ allowed = Decided("allow")
    BY CatalogAssumption DEF SummaryInv, RunTypeOK, DecisionsInv
  <2>2. CASE scenario.scope # "authorization"
    <3>1. Decided("deny") = {} /\ Decided("allow") = {}
      BY <2>2 DEF TextInv, Decided
    <3>2. result = scenario.expected[control]
      BY <2>1, <2>2 DEF DeclaresTheText, SummaryInv, EndInv
    <3> QED
      BY <2>1, <3>1, <3>2 DEF FalseAllow, FalseDenial
  <2>3. CASE scenario.scope = "authorization"
    <3>1. PICK log : log = Replayed(scenario.steps, control)
      OBVIOUS
    <3>2. /\ FollowsText(scenario.steps, control, log)
          /\ scenario.expected[control] = LogClass(scenario.steps, log)
          /\ \A k \in DOMAIN log :
               /\ control = "temporal_policy" /\ log[k].decision = "allow"
                    => k \notin scenario.unsafe
               /\ log[k].decision = "deny" => k \in scenario.denies[control]
      BY <2>1, <2>3, <3>1 DEF DeclaresTheText
    <3>3. Begins(log)
      BY <2>3, <3>1 DEF TextInv
    <3>4. DOMAIN evidence = DOMAIN log /\ \A k \in DOMAIN log : evidence[k] = log[k]
      BY <2>3, <3>2, <3>3, WholeText
    <3>5. result = scenario.expected[control]
      BY <2>3, <3>2, <3>4, ClassOfText DEF SummaryInv, EndInv
    <3>6. control = "temporal_policy" => ~FalseAllow
      BY <2>1, <3>2, <3>4 DEF FalseAllow, Decided
    <3>7. ~FalseDenial
      BY <2>1, <3>2, <3>4 DEF FalseDenial, Decided
    <3> QED
      BY <3>5, <3>6, <3>7
  <2> QED
    BY <2>2, <2>3
<1> QED
  BY <1>1, SummaryKept, TextKept, PTL
===============================================================================
