------------------------------ MODULE BaselineProofs ------------------------------
(***************************************************************************)
(* Proofs about Baseline: that the timelines of any number of executions   *)
(* account for the effects, and that a verified one proves what it claims, *)
(* however often incidents are delivered again and decided.                *)
(***************************************************************************)
EXTENDS Baseline, FiniteSetTheorems, TLAPS

Types == {"incident_validated", "runbook_retrieved", "inspection_completed",
          "proposal_created", "approval_requested", "approval_decided",
          "action_completed", "execution_finished"}

Correlations == {Blank} \cup {i.delivery_id : i \in Incidents}

Completion == [key : Keys, replayed : BOOLEAN]

Data == Proposals \cup {None} \cup Decisions \cup Completion
          \cup {"denied", "revision_requested", "expired", "completed"}

Happening == [event_type : Types, correlation_id : Correlations, data : Data]

State == [incident : Incidents \cup {None}, correlation_id : Correlations,
          proposal : Proposals \cup {None}, approval : Proposals \cup {None},
          events : Seq(Happening)]

Timeline(x) == exec[x].events

Typed == exec \in [Executions -> State] /\ TypeOK

----------------------------------------------------------------------------
(* What putting one sequence of events behind another does.                *)
LEMMA Concatenated ==
    ASSUME NEW h \in Seq(Happening), NEW t \in Seq(Happening)
    PROVE  /\ h \o t \in Seq(Happening)
           /\ Len(h) \in Nat /\ Len(t) \in Nat /\ Len(h \o t) = Len(h) + Len(t)
           /\ DOMAIN h = 1..Len(h) /\ DOMAIN t = 1..Len(t)
           /\ DOMAIN (h \o t) = 1..(Len(h) + Len(t))
           /\ \A i \in 1..Len(h) : (h \o t)[i] = h[i]
           /\ \A i \in 1..Len(t) : (h \o t)[Len(h) + i] = t[i]
OBVIOUS

(* How far a start gets.                                                   *)
LEMMA ReachedPoints == \A i : Reached(i) \in {1, 2, 3, 5}
BY DEF Reached

LEMMA StartEventNames ==
    /\ \A i \in 1..5 : StartEvents[i] \in Types
    /\ StartEvents[1] = "incident_validated" /\ StartEvents[5] = "approval_requested"
    /\ \A i \in 2..5 : StartEvents[i] # "incident_validated"
    /\ \A i \in 1..4 : StartEvents[i] # "approval_requested"
    /\ \A i \in 1..5 : StartEvents[i] # "action_completed"
BY DEF StartEvents, Types

----------------------------------------------------------------------------
(* The ways a call moves its execution: to each the events it adds.        *)
Alone(x, t) ==
    /\ t \in Seq(Happening)
    /\ exec'[x].events = Timeline(x) \o t
    /\ \A y \in Executions \ {x} : exec'[y] = exec[y]

Started(x, incident, t) ==
    /\ incident \in Incidents /\ results' = results
    /\ Len(t) = Reached(incident)
    /\ \A i \in 1..Len(t) : t[i].event_type = StartEvents[i]
    /\ Len(t) = 5 => t[5].data = Propose(incident)
    /\ exec'[x].incident = incident
    /\ exec'[x].correlation_id = incident.delivery_id
    /\ exec'[x].proposal = IF Len(t) = 5 THEN Propose(incident) ELSE exec[x].proposal
    /\ exec'[x].approval = IF Len(t) = 5 THEN Propose(incident) ELSE exec[x].approval

Kept(x) ==
    /\ exec[x].proposal # None
    /\ exec'[x].incident = exec[x].incident
    /\ exec'[x].correlation_id = exec[x].correlation_id
    /\ exec'[x].proposal = exec[x].proposal
    /\ exec'[x].approval = exec[x].approval

Refused(x, t) ==
    /\ Kept(x) /\ results' = results
    /\ Len(t) = 2
    /\ t[1].event_type = "approval_decided" /\ t[2].event_type = "execution_finished"

Key(x) == IdempotencyKey(exec[x].incident, exec[x].proposal)

Approved(x, t) ==
    /\ Kept(x) /\ results' = results \cup {Key(x)}
    /\ Len(t) = 3
    /\ t[1].event_type = "approval_decided" /\ t[1].data = "approve"
    /\ t[2].event_type = "action_completed"
    /\ t[2].data = [key |-> Key(x), replayed |-> Key(x) \in results]
    /\ t[3].event_type = "execution_finished"
    /\ t[1].correlation_id = exec[x].correlation_id
    /\ t[2].correlation_id = exec[x].correlation_id

(* An execution with a proposal has an incident, whose key is one of the   *)
(* keys.                                                                   *)
LEMMA KeyOfProposal ==
    ASSUME Typed, NEW x \in Executions, exec[x].proposal # None
    PROVE  /\ exec[x].incident \in Incidents /\ exec[x].proposal \in Proposals
           /\ Key(x) \in Keys /\ exec[x].correlation_id = exec[x].incident.delivery_id
BY BaselineAssumption DEF Typed, TypeOK, State, Key, Keys

(* A start adds the events it reaches and replaces what it got to.         *)
LEMMA StartMoves ==
    ASSUME Typed, NEW x \in Executions, NEW raw \in RawIncidents[x],
           StartProposes(x, raw) \/ StartFails(x, raw)
    PROVE  \E t : Alone(x, t) /\ Started(x, FromDict(raw), t) /\ Typed'
<1> DEFINE incident == FromDict(raw)
           n == Reached(incident)
           t == [i \in 1..n |-> Event(StartEvents[i], incident.delivery_id,
                                      IF i >= 4 THEN Propose(incident) ELSE None)]
           h == exec[x].events
<1>1. incident \in Incidents
    <2>1. Valid(raw)
        BY DEF StartProposes, StartFails, Deliverable
    <2> QED BY <2>1 DEF Incidents
<1>2. n \in {1, 2, 3, 5} /\ n \in Nat
    BY ReachedPoints
<1>3. exec[x] \in State /\ h \in Seq(Happening)
    BY DEF Typed, State
<1>4. n = 5 => Propose(incident) \in Proposals
    BY <1>1 DEF Proposals
<1>5. ASSUME NEW i \in 1..n
      PROVE  t[i] \in Happening /\ t[i].event_type = StartEvents[i]
    <2>1. i \in 1..5 /\ (i >= 4 => n = 5)
        BY <1>2
    <2>2. incident.delivery_id \in Correlations
        BY <1>1 DEF Correlations
    <2> HIDE DEF incident, n
    <2> QED BY <1>4, <2>1, <2>2, StartEventNames DEF Event, Happening, Data
<1>6. t \in Seq(Happening) /\ Len(t) = n
    BY <1>2, <1>5
<1>7. n = 5 => t[5].data = Propose(incident)
    BY DEF Event
<1>8. h \o t \in Seq(Happening) /\ h \o t # <<>>
    <2>1. Len(h \o t) = Len(h) + n /\ Len(h) \in Nat /\ h \o t \in Seq(Happening)
        <3> HIDE DEF h, t, n
        <3> QED BY <1>3, <1>6, Concatenated
    <2> QED BY <1>2, <2>1
<1>9. Recorded(x, incident) = h \o t
    BY DEF Recorded
<1>10. n # 0 /\ incident # None
    BY <1>1, <1>2, BaselineAssumption
<1> DEFINE Becomes(s) ==
             /\ s \in State
             /\ s.incident = incident /\ s.correlation_id = incident.delivery_id
             /\ s.events = h \o t
             /\ s.proposal = IF n = 5 THEN Propose(incident) ELSE exec[x].proposal
             /\ s.approval = IF n = 5 THEN Propose(incident) ELSE exec[x].approval
<1>11. PICK s : Becomes(s) /\ exec' = [exec EXCEPT ![x] = s] /\ results' = results
    <2>1. incident.delivery_id \in Correlations
        BY <1>1 DEF Correlations
    <2>2. CASE StartProposes(x, raw)
        <3> DEFINE s == [incident |-> incident, correlation_id |-> incident.delivery_id,
                         proposal |-> Propose(incident), approval |-> Propose(incident),
                         events |-> h \o t]
        <3>1. n = 5 /\ exec' = [exec EXCEPT ![x] = s] /\ results' = results
            BY <1>9, <2>2 DEF StartProposes
        <3>2. Becomes(s)
            <4> HIDE DEF incident, n, t, h
            <4> QED BY <1>1, <1>4, <1>8, <2>1, <3>1 DEF State
        <3> QED BY <3>1, <3>2
    <2>3. CASE StartFails(x, raw)
        <3> DEFINE s == [exec[x] EXCEPT !.incident = incident,
                                        !.correlation_id = incident.delivery_id,
                                        !.events = h \o t]
        <3>0. n # 5 /\ results' = results
            BY <1>2, <2>3 DEF StartFails
        <3>1. n # 5 /\ exec' = [exec EXCEPT ![x] = s] /\ results' = results
            <4>1. exec' = [exec EXCEPT ![x].incident = incident,
                                       ![x].correlation_id = incident.delivery_id,
                                       ![x].events = h \o t]
                BY <1>9, <2>3 DEF StartFails
            <4>2. exec \in [Executions -> State]
                BY DEF Typed
            <4> HIDE DEF incident, n, t
            <4>3. exec' = [exec EXCEPT ![x] = s]
                BY <1>3, <4>1, <4>2 DEF State
            <4> QED BY <3>0, <4>3
        <3>2. Becomes(s)
            <4> HIDE DEF incident, n, t, h
            <4> QED BY <1>1, <1>3, <1>8, <2>1, <3>1 DEF State
        <3> QED BY <3>1, <3>2
    <2> QED BY <2>2, <2>3
<1>12. s \in State
    BY <1>11
<1>13. /\ s.incident = incident /\ s.correlation_id = incident.delivery_id
       /\ s.events = h \o t
       /\ s.proposal = IF n = 5 THEN Propose(incident) ELSE exec[x].proposal
       /\ s.approval = IF n = 5 THEN Propose(incident) ELSE exec[x].approval
    BY <1>11
<1> HIDE DEF Becomes
<1>14. /\ exec' \in [Executions -> State] /\ exec'[x] = s
       /\ \A y \in Executions \ {x} : exec'[y] = exec[y]
    BY <1>11, <1>12 DEF Typed
<1> HIDE DEF incident, n, t, h
<1>15. TypeOK'
    <2>1. s.proposal \in Proposals \cup {None} /\ s.approval = s.proposal
        BY <1>3, <1>4, <1>13 DEF Typed, TypeOK, State
    <2> QED
        BY <1>1, <1>10, <1>11, <1>13, <1>14, <2>1 DEF Typed, TypeOK
<1>16. Alone(x, t) /\ Started(x, incident, t) /\ Typed'
    BY <1>1, <1>6, <1>5, <1>7, <1>11, <1>13, <1>14, <1>15
       DEF Alone, Started, Typed, Timeline, h, n
<1> QED BY <1>16 DEF incident

(* A refusal adds the decision and its end and changes nothing else.       *)
LEMMA RefusalMoves ==
    ASSUME Typed, NEW x \in Executions, NEW d \in Decisions, NEW f, Refuse(x, d, f)
    PROVE  \E t : Alone(x, t) /\ Refused(x, t) /\ Typed'
<1> DEFINE c == exec[x].correlation_id
           t == <<Event("approval_decided", c, d),
                  Event("execution_finished", c, Status(d))>>
           h == exec[x].events
<1>1. exec[x].proposal # None /\ results' = results /\ exec[x] \in State
    BY DEF Refuse, Decidable, Typed
<1>2. Status(d) \in {"denied", "revision_requested", "expired"}
    BY DEF Refuse, Status, Decisions
<1>3. t \in Seq(Happening) /\ Len(t) = 2
    BY <1>1, <1>2 DEF Event, Happening, State, Data, Types
<1>4. /\ t[1].event_type = "approval_decided" /\ t[2].event_type = "execution_finished"
    BY DEF Event
<1>5. exec' = [exec EXCEPT ![x].events = h \o t]
    BY DEF Refuse
<1> HIDE DEF t
<1>6. h \in Seq(Happening) /\ h \o t \in Seq(Happening)
    BY <1>1, <1>3, Concatenated DEF State
<1>7. /\ exec' \in [Executions -> State] /\ Kept(x) /\ exec'[x].events = h \o t
      /\ \A y \in Executions \ {x} : exec'[y] = exec[y]
    BY <1>1, <1>5, <1>6 DEF Typed, State, Kept
<1>8. TypeOK'
    BY <1>1, <1>7, BaselineAssumption DEF Typed, TypeOK, Kept
<1> QED
    BY <1>1, <1>3, <1>4, <1>7, <1>8 DEF Alone, Refused, Typed, Timeline

(* An approval adds its events and executes the key of what is at hand.    *)
LEMMA ApprovalMoves ==
    ASSUME Typed, NEW x \in Executions, NEW d \in Decisions, NEW f, Approve(x, d, f)
    PROVE  \E t : Alone(x, t) /\ Approved(x, t) /\ Typed'
<1> DEFINE c == exec[x].correlation_id
           k == Key(x)
           done == [key |-> k, replayed |-> k \in results]
           t == <<Event("approval_decided", c, d), Event("action_completed", c, done),
                  Event("execution_finished", c, "completed")>>
           h == exec[x].events
<1>1. exec[x].proposal # None /\ d = "approve" /\ exec[x] \in State
    BY DEF Approve, Decidable, Typed
<1>2. k \in Keys
    BY <1>1, KeyOfProposal
<1>3. done \in Completion
    BY <1>2 DEF Completion
<1>4. /\ exec' = [exec EXCEPT ![x].events = h \o t] /\ results' = results \cup {k}
    BY DEF Approve, Key, Execute, Replayed
<1> HIDE DEF done, k
<1>5. t \in Seq(Happening) /\ Len(t) = 3
    BY <1>1, <1>3 DEF Event, Happening, State, Data, Types
<1>6. /\ t[1].event_type = "approval_decided" /\ t[1].data = "approve"
      /\ t[2].event_type = "action_completed" /\ t[2].data = done
      /\ t[3].event_type = "execution_finished"
      /\ t[1].correlation_id = c /\ t[2].correlation_id = c
    BY <1>1 DEF Event
<1> HIDE DEF t
<1>7. h \in Seq(Happening) /\ h \o t \in Seq(Happening)
    BY <1>1, <1>5, Concatenated DEF State
<1>8. /\ exec' \in [Executions -> State] /\ Kept(x) /\ exec'[x].events = h \o t
      /\ \A y \in Executions \ {x} : exec'[y] = exec[y]
    BY <1>1, <1>4, <1>7 DEF Typed, State, Kept
<1>9. TypeOK'
    BY <1>1, <1>2, <1>4, <1>8, BaselineAssumption DEF Typed, TypeOK, Kept
<1>10. Alone(x, t) /\ Approved(x, t) /\ Typed'
    BY <1>1, <1>4, <1>5, <1>6, <1>8, <1>9
       DEF Alone, Approved, Typed, Timeline, done, k
<1> QED BY <1>10

----------------------------------------------------------------------------
(* The latest approval request of a timeline up to i.                      *)
LastRequest(h, i, j) ==
    /\ j \in 1..i /\ h[j].event_type = "approval_requested"
    /\ \A k \in (j + 1)..i : h[k].event_type # "approval_requested"

(* A proposal at hand is the one last shown.                               *)
ShownInv(x) ==
    LET h == Timeline(x) IN
    exec[x].proposal # None =>
        \E j : LastRequest(h, Len(h), j) /\ h[j].data = exec[x].proposal

(* Every completion, replays included, has its approval directly before    *)
(* it, under its own correlation and of the proposal last shown, and its   *)
(* effect in the table.                                                    *)
Approvals(h, i) ==
    /\ i - 1 \in DOMAIN h
    /\ h[i - 1].event_type = "approval_decided" /\ h[i - 1].data = "approve"
    /\ h[i - 1].correlation_id = h[i].correlation_id

CompletionInv(x) ==
    LET h == Timeline(x) IN
    \A i \in DOMAIN h : h[i].event_type = "action_completed" =>
        /\ Approvals(h, i)
        /\ h[i].data \in Completion /\ h[i].data.key \in results
        /\ h[i].data.key[1] = h[i].correlation_id
        /\ \E j : LastRequest(h, i, j) /\ h[j].data = h[i].data.key[2]

(* What came since the last start is about the incident and the proposal   *)
(* at hand.                                                                *)
SinceStart(h, j) ==
    \A k \in (j + 1)..Len(h) : h[k].event_type # "incident_validated"

CurrentInv(x) ==
    LET h == Timeline(x) IN
    \A j \in DOMAIN h : SinceStart(h, j) =>
        /\ h[j].event_type = "approval_requested"
             => exec[x].proposal = Propose(exec[x].incident)
        /\ h[j].event_type = "action_completed" => h[j].data.key = Key(x)

TimelineInv(x) == ShownInv(x) /\ CompletionInv(x) /\ CurrentInv(x)

(* As many completions that are no replays as effects.                     *)
TableInv ==
    /\ IsFiniteSet(results) /\ IsFiniteSet(Performed)
    /\ Cardinality(Performed) = Cardinality(results)
    /\ \A k \in results : \E p \in Performed : exec[p[1]].events[p[2]].data.key = k

IInv == Typed /\ TableInv /\ \A x \in Executions : TimelineInv(x)

(* A latest request stays the latest while none is added. *)
LEMMA RequestKept ==
    ASSUME NEW h \in Seq(Happening), NEW t \in Seq(Happening), NEW i \in 1..Len(h), NEW j
    PROVE  LastRequest(h, i, j) <=> LastRequest(h \o t, i, j)
<1>1. /\ Len(h) \in Nat /\ \A k \in 1..Len(h) : (h \o t)[k] = h[k]
    BY Concatenated
<1>2. \A k \in 1..i : (h \o t)[k] = h[k]
    BY <1>1
<1>3. j \in 1..i => \A k \in (j + 1)..i : k \in 1..i
    BY <1>1
<1> QED BY <1>2, <1>3 DEF LastRequest

(* ... and there is only one. *)
LEMMA RequestUnique ==
    ASSUME NEW h, NEW i \in Nat, NEW j, NEW k, LastRequest(h, i, j), LastRequest(h, i, k)
    PROVE  j = k
<1>1. j \in 1..i /\ k \in 1..i
    BY DEF LastRequest
<1>2. CASE j < k
    <2>1. k \in (j + 1)..i
        BY <1>1, <1>2
    <2> QED BY <2>1 DEF LastRequest
<1>3. CASE k < j
    <2>1. j \in (k + 1)..i
        BY <1>1, <1>3
    <2> QED BY <2>1 DEF LastRequest
<1> QED BY <1>1, <1>2, <1>3

----------------------------------------------------------------------------
(* One call keeps its execution's timeline in order. *)
LEMMA MovedTimeline ==
    ASSUME IInv, Typed', NEW x \in Executions, NEW t, Alone(x, t),
           \/ \E incident : Started(x, incident, t)
           \/ Refused(x, t)
           \/ Approved(x, t)
    PROVE  TimelineInv(x)' /\ results \subseteq results'
<1> DEFINE h == Timeline(x)
           g == h \o t
           n == Len(h)
<1>1. /\ h \in Seq(Happening) /\ t \in Seq(Happening) /\ Timeline(x)' = g
    BY DEF IInv, Typed, State, Timeline, Alone
<1>2. /\ n \in Nat /\ Len(t) \in Nat /\ Len(g) = n + Len(t)
      /\ DOMAIN h = 1..n /\ DOMAIN t = 1..Len(t) /\ DOMAIN g = 1..(n + Len(t))
      /\ \A i \in 1..n : g[i] = h[i]
      /\ \A i \in 1..Len(t) : g[n + i] = t[i]
    BY <1>1, Concatenated
<1>3. \A i \in 1..n : \A j : LastRequest(h, i, j) <=> LastRequest(g, i, j)
    BY <1>1, RequestKept
<1>4. /\ ShownInv(x) /\ CompletionInv(x) /\ CurrentInv(x)
      /\ results \subseteq results'
    BY DEF IInv, TimelineInv, Started, Refused, Approved
<1> HIDE DEF g, h, n
<1>5. ShownInv(x) => \A i \in 1..Len(t) :
         /\ exec[x].proposal # None
         /\ \A k \in 1..i : t[k].event_type # "approval_requested"
         => \E j : LastRequest(g, n + i, j) /\ g[j].data = exec[x].proposal
    <2> SUFFICES ASSUME ShownInv(x), NEW i \in 1..Len(t), exec[x].proposal # None,
                        \A k \in 1..i : t[k].event_type # "approval_requested"
                 PROVE  \E j : LastRequest(g, n + i, j) /\ g[j].data = exec[x].proposal
        OBVIOUS
    <2>1. PICK j : LastRequest(h, n, j) /\ h[j].data = exec[x].proposal
        BY DEF ShownInv, h, n
    <2>2. /\ j \in 1..n /\ h[j].event_type = "approval_requested"
          /\ \A k \in (j + 1)..n : h[k].event_type # "approval_requested"
        BY <2>1 DEF LastRequest
    <2>3. j \in 1..(n + i) /\ g[j] = h[j]
        BY <1>2, <2>2
    <2>4. ASSUME NEW k \in (j + 1)..(n + i)
          PROVE  g[k].event_type # "approval_requested"
        <3>1. CASE k \in 1..n
            BY <1>2, <2>2, <3>1
        <3>2. CASE k \notin 1..n
            <4>1. k - n \in 1..i /\ k - n \in 1..Len(t) /\ k = n + (k - n)
                BY <1>2, <2>2, <3>2
            <4> QED BY <1>2, <4>1
        <3> QED BY <3>1, <3>2
    <2> QED BY <2>1, <2>2, <2>3, <2>4 DEF LastRequest
<1>6. ShownInv(x)'
    <2>1. CASE exec'[x].proposal # exec[x].proposal \/ Len(t) = 5
        <3>1. PICK incident : Started(x, incident, t)
            BY <2>1 DEF Refused, Approved, Kept
        <3>2. Len(t) = 5 /\ exec'[x].proposal = t[5].data
            BY <2>1, <3>1 DEF Started
        <3>3. t[5].event_type = "approval_requested"
            BY <3>1, <3>2, StartEventNames DEF Started
        <3>4. LastRequest(g, Len(g), n + 5) /\ g[n + 5].data = exec'[x].proposal
            BY <1>2, <3>2, <3>3 DEF LastRequest
        <3> QED BY <1>1, <3>4 DEF ShownInv
    <2>2. CASE exec'[x].proposal = exec[x].proposal /\ Len(t) # 5
        <3>1. ASSUME NEW i \in 1..Len(t)
              PROVE  t[i].event_type # "approval_requested"
            <4>1. CASE \E incident : Started(x, incident, t)
                BY <2>2, <4>1, ReachedPoints, StartEventNames DEF Started
            <4>2. CASE Refused(x, t)
                BY <4>2 DEF Refused
            <4>3. CASE Approved(x, t)
                BY <4>3 DEF Approved
            <4> QED BY <4>1, <4>2, <4>3
        <3>2. Len(t) \in 1..Len(t)
            BY <1>2, ReachedPoints DEF Started, Refused, Approved
        <3>3. exec[x].proposal # None
                => \E j : LastRequest(g, n + Len(t), j) /\ g[j].data = exec[x].proposal
            BY <1>4, <1>5, <3>1, <3>2
        <3> QED BY <1>1, <1>2, <2>2, <3>3 DEF ShownInv
    <2> QED BY <2>1, <2>2
<1>7. CompletionInv(x)'
    <2> DEFINE Right(i) ==
                 /\ Approvals(g, i)
                 /\ g[i].data \in Completion /\ g[i].data.key \in results'
                 /\ g[i].data.key[1] = g[i].correlation_id
                 /\ \E j : LastRequest(g, i, j) /\ g[j].data = g[i].data.key[2]
    <2>1. ASSUME NEW i \in 1..n, g[i].event_type = "action_completed"
          PROVE  Right(i)
        <3>1. g[i] = h[i]
            BY <1>2
        <3>2. /\ Approvals(h, i)
              /\ h[i].data \in Completion /\ h[i].data.key \in results
              /\ h[i].data.key[1] = h[i].correlation_id
              /\ \E j : LastRequest(h, i, j) /\ h[j].data = h[i].data.key[2]
            BY <1>2, <1>4, <2>1, <3>1 DEF CompletionInv, h
        <3>3. Approvals(g, i)
            BY <1>2, <3>1, <3>2 DEF Approvals
        <3>4. PICK j : LastRequest(h, i, j) /\ h[j].data = h[i].data.key[2]
            BY <3>2
        <3>5. LastRequest(g, i, j) /\ g[j] = h[j]
            <4>1. j \in 1..n
                BY <1>2, <3>4 DEF LastRequest
            <4> QED BY <1>2, <1>3, <3>4, <4>1
        <3> QED BY <1>4, <3>1, <3>2, <3>3, <3>4, <3>5
    <2>2. ASSUME NEW i \in 1..Len(t), t[i].event_type = "action_completed"
          PROVE  Right(n + i)
        <3>1. Approved(x, t) /\ i = 2
            <4>1. ~ \E incident : Started(x, incident, t)
                BY <2>2, ReachedPoints, StartEventNames DEF Started
            <4>2. ~ Refused(x, t)
                BY <2>2 DEF Refused
            <4> QED BY <2>2, <4>1, <4>2 DEF Approved
        <3>2. /\ g[n + 1] = t[1] /\ g[n + 2] = t[2]
              /\ n + 1 \in DOMAIN g /\ (n + 2) - 1 = n + 1
            BY <1>2, <3>1 DEF Approved
        <3>3. exec[x].proposal # None /\ Typed
            BY <3>1 DEF Approved, Kept, IInv
        <3>4. /\ Key(x) \in Keys /\ Key(x)[1] = exec[x].correlation_id
              /\ Key(x)[2] = exec[x].proposal
            BY <3>3, KeyOfProposal DEF Key, IdempotencyKey
        <3>5. /\ Approvals(g, n + 2)
              /\ g[n + 2].data = [key |-> Key(x), replayed |-> Key(x) \in results]
              /\ g[n + 2].correlation_id = exec[x].correlation_id
              /\ Key(x) \in results'
            BY <3>1, <3>2 DEF Approved, Approvals
        <3>6. \A k \in 1..2 : t[k].event_type # "approval_requested"
            BY <3>1 DEF Approved
        <3>7. \E j : LastRequest(g, n + 2, j) /\ g[j].data = exec[x].proposal
            BY <1>4, <1>5, <3>1, <3>3, <3>6
        <3>8. g[n + 2].data \in Completion
            BY <3>4, <3>5 DEF Completion
        <3> HIDE DEF Right
        <3> QED BY <3>1, <3>4, <3>5, <3>7, <3>8 DEF Right
    <2>3. ASSUME NEW i \in DOMAIN g, g[i].event_type = "action_completed"
          PROVE  Right(i)
        <3>1. CASE i \in 1..n
            BY <2>1, <2>3, <3>1
        <3>2. CASE i \notin 1..n
            <4>1. i - n \in 1..Len(t) /\ i = n + (i - n) /\ g[i] = t[i - n]
                BY <1>2, <3>2
            <4> HIDE DEF Right
            <4> QED BY <2>2, <2>3, <4>1
        <3> QED BY <3>1, <3>2
    <2> QED BY <1>1, <2>3 DEF CompletionInv
<1>8. CurrentInv(x)'
    <2> SUFFICES ASSUME NEW j \in DOMAIN g, SinceStart(g, j)
                 PROVE  /\ g[j].event_type = "approval_requested"
                             => exec'[x].proposal = Propose(exec'[x].incident)
                        /\ g[j].event_type = "action_completed" => g[j].data.key = Key(x)'
        BY <1>1 DEF CurrentInv
    <2>1. CASE \E incident : Started(x, incident, t)
        <3>1. PICK incident : Started(x, incident, t)
            BY <2>1
        <3>2. Len(t) \in {1, 2, 3, 5} /\ t[1].event_type = "incident_validated"
            BY <1>2, <3>1, ReachedPoints, StartEventNames DEF Started
        <3>3. j \notin 1..n
            <4>1. g[n + 1].event_type = "incident_validated" /\ n + 1 \in 1..Len(g)
                BY <1>2, <3>2
            <4>2. j \in 1..n => n + 1 \in (j + 1)..Len(g)
                BY <1>2, <3>2
            <4> QED BY <4>1, <4>2 DEF SinceStart
        <3>4. j - n \in 1..Len(t) /\ g[j] = t[j - n]
            <4>1. j - n \in 1..Len(t) /\ j = n + (j - n)
                BY <1>2, <3>3
            <4> QED BY <1>2, <4>1
        <3>5. g[j].event_type = StartEvents[j - n] /\ j - n \in 1..5
            BY <3>1, <3>2, <3>4 DEF Started
        <3>6. g[j].event_type # "action_completed"
            BY <3>5, StartEventNames
        <3>7. g[j].event_type = "approval_requested" => Len(t) = 5
            <4>1. g[j].event_type = "approval_requested" => j - n \notin 1..4
                BY <3>5, StartEventNames
            <4>2. j - n \in 1..5 /\ j - n \notin 1..4 => j - n = 5
                BY <1>2
            <4> QED BY <3>2, <3>4, <3>5, <4>1, <4>2
        <3> QED BY <3>1, <3>6, <3>7 DEF Started
    <2>2. CASE Refused(x, t) \/ Approved(x, t)
        <3>1. Kept(x) /\ Key(x)' = Key(x)
            BY <2>2 DEF Refused, Approved, Kept, Key
        <3>2. CASE j \in 1..n
            <4>1. SinceStart(h, j) /\ g[j] = h[j]
                BY <1>2, <3>2 DEF SinceStart
            <4>2. /\ h[j].event_type = "approval_requested"
                       => exec[x].proposal = Propose(exec[x].incident)
                  /\ h[j].event_type = "action_completed" => h[j].data.key = Key(x)
                BY <1>2, <1>4, <3>2, <4>1 DEF CurrentInv, h
            <4> QED BY <3>1, <4>1, <4>2 DEF Kept
        <3>3. CASE j \notin 1..n
            <4>1. j - n \in 1..Len(t) /\ j = n + (j - n)
                BY <1>2, <3>3
            <4>2. g[j] = t[j - n]
                BY <1>2, <4>1
            <4>3. t[j - n].event_type # "approval_requested"
                BY <2>2, <4>1 DEF Refused, Approved
            <4>4. t[j - n].event_type = "action_completed" => t[j - n].data.key = Key(x)
                BY <2>2, <4>1 DEF Refused, Approved
            <4> QED BY <3>1, <4>2, <4>3, <4>4
        <3> QED BY <3>2, <3>3
    <2> QED BY <2>1, <2>2
<1> QED BY <1>4, <1>6, <1>7, <1>8 DEF TimelineInv

(* The timelines of the others stay in order. *)
LEMMA OtherTimeline ==
    ASSUME NEW x, TimelineInv(x), exec'[x] = exec[x], results \subseteq results'
    PROVE  TimelineInv(x)'
<1>1. Timeline(x)' = Timeline(x) /\ Key(x)' = Key(x)
    BY DEF Timeline, Key
<1>2. ShownInv(x)' /\ CurrentInv(x)'
    BY <1>1 DEF TimelineInv, ShownInv, CurrentInv
<1>3. CompletionInv(x)'
    BY <1>1 DEF TimelineInv, CompletionInv
<1> QED BY <1>2, <1>3 DEF TimelineInv

----------------------------------------------------------------------------
Effect(e) == e.event_type = "action_completed" /\ ~e.data.replayed

LEMMA PerformedPoints ==
    \A p : p \in Performed <=>
        \E y \in Executions : \E i \in DOMAIN Timeline(y) :
            p = <<y, i>> /\ Effect(Timeline(y)[i])
BY DEF Performed, Effect, Timeline

(* What is performed by one call: nothing, or the key it adds.             *)
LEMMA PerformedMoved ==
    ASSUME Typed, NEW x \in Executions, NEW t, Alone(x, t)
    PROVE  \A p : p \in Performed' <=>
               \/ p \in Performed
               \/ \E i \in DOMAIN t : p = <<x, Len(Timeline(x)) + i>> /\ Effect(t[i])
<1> DEFINE h == Timeline(x)
           g == h \o t
           n == Len(h)
<1>1. h \in Seq(Happening) /\ t \in Seq(Happening) /\ Timeline(x)' = g
    BY DEF Typed, State, Timeline, Alone
<1>2. /\ n \in Nat /\ Len(t) \in Nat /\ Len(g) = n + Len(t)
      /\ DOMAIN h = 1..n /\ DOMAIN t = 1..Len(t) /\ DOMAIN g = 1..(n + Len(t))
      /\ \A i \in 1..n : g[i] = h[i]
      /\ \A i \in 1..Len(t) : g[n + i] = t[i]
    BY <1>1, Concatenated
<1>3. \A y \in Executions \ {x} : Timeline(y)' = Timeline(y)
    BY DEF Alone, Timeline
<1>4. \A p : p \in Performed' <=>
          \E y \in Executions : \E i \in DOMAIN Timeline(y)' :
              p = <<y, i>> /\ Effect(Timeline(y)'[i])
    BY DEF Performed, Effect, Timeline
<1> SUFFICES ASSUME NEW p
             PROVE  p \in Performed' <=>
                       \/ p \in Performed
                       \/ \E i \in DOMAIN t : p = <<x, n + i>> /\ Effect(t[i])
    OBVIOUS
<1> HIDE DEF g, h, n
<1>5. ASSUME p \in Performed'
      PROVE  p \in Performed \/ \E i \in DOMAIN t : p = <<x, n + i>> /\ Effect(t[i])
    <2>1. PICK y \in Executions : \E i \in DOMAIN Timeline(y)' :
              p = <<y, i>> /\ Effect(Timeline(y)'[i])
        BY <1>4, <1>5
    <2>2. CASE y # x
        BY <1>3, <2>1, <2>2, PerformedPoints
    <2>3. CASE y = x
        <3>1. PICK i \in DOMAIN g : p = <<x, i>> /\ Effect(g[i])
            BY <1>1, <2>1, <2>3
        <3>2. CASE i \in 1..n
            BY <1>2, <3>1, <3>2, PerformedPoints DEF h
        <3>3. CASE i \notin 1..n
            <4>1. i - n \in DOMAIN t /\ i = n + (i - n)
                BY <1>2, <3>3
            <4>2. g[i] = t[i - n]
                BY <1>2, <4>1
            <4> QED BY <3>1, <4>1, <4>2
        <3> QED BY <3>2, <3>3
    <2> QED BY <2>2, <2>3
<1>6. ASSUME p \in Performed
      PROVE  p \in Performed'
    <2>1. PICK y \in Executions : \E i \in DOMAIN Timeline(y) :
              p = <<y, i>> /\ Effect(Timeline(y)[i])
        BY <1>6, PerformedPoints
    <2>2. CASE y # x
        BY <1>3, <1>4, <2>1, <2>2
    <2>3. CASE y = x
        <3>1. PICK i \in DOMAIN h : p = <<x, i>> /\ Effect(h[i])
            BY <2>1, <2>3 DEF h
        <3>2. i \in DOMAIN g /\ g[i] = h[i]
            BY <1>2, <3>1
        <3> QED BY <1>1, <1>4, <3>1, <3>2
    <2> QED BY <2>2, <2>3
<1>7. ASSUME NEW i \in DOMAIN t, p = <<x, n + i>>, Effect(t[i])
      PROVE  p \in Performed'
    <2>1. n + i \in DOMAIN g /\ g[n + i] = t[i]
        BY <1>2
    <2> QED BY <1>1, <1>4, <1>7, <2>1
<1> QED BY <1>5, <1>6, <1>7

(* The table and the completions keep in step.                             *)
LEMMA MovedTable ==
    ASSUME IInv, NEW x \in Executions, NEW t, Alone(x, t), Typed',
           \/ \E incident : Started(x, incident, t)
           \/ Refused(x, t)
           \/ Approved(x, t)
    PROVE  TableInv'
<1>0. PICK n : n = Len(Timeline(x))
    OBVIOUS
<1> DEFINE KeyAt(q) == exec[q[1]].events[q[2]].data.key
<1>1. Typed /\ TableInv /\ t \in Seq(Happening)
    BY DEF IInv, Alone
<1>2. DOMAIN t = 1..Len(t) /\ Len(t) \in Nat /\ n \in Nat
    BY <1>0, <1>1 DEF Typed, State, Timeline
<1>a. PICK p : p = <<x, n + 2>>
    OBVIOUS
<1>b. Approved(x, t) => /\ Effect(t[2]) <=> Key(x) \notin results
                       /\ Len(t) = 3 /\ ~Effect(t[1]) /\ ~Effect(t[3])
    <2> SUFFICES ASSUME Approved(x, t)
                 PROVE  /\ Effect(t[2]) <=> Key(x) \notin results
                        /\ Len(t) = 3 /\ ~Effect(t[1]) /\ ~Effect(t[3])
        OBVIOUS
    <2>1. t[2].event_type = "action_completed" /\ t[2].data.replayed = (Key(x) \in results)
        BY DEF Approved
    <2>2. Effect(t[2]) <=> ~ t[2].data.replayed
        BY <2>1 DEF Effect
    <2>3. Effect(t[2]) <=> Key(x) \notin results
        BY <2>1, <2>2
    <2> QED BY <2>3 DEF Approved, Effect
<1>c. Approved(x, t) => DOMAIN t = {1, 2, 3}
    <2>1. Len(t) = 3 => 1..Len(t) = {1, 2, 3}
        OBVIOUS
    <2> QED BY <1>2, <1>b, <2>1
<1>3. ASSUME NEW q \in Performed
      PROVE  KeyAt(q)' = KeyAt(q)
    <2>1. PICK y \in Executions : \E i \in DOMAIN Timeline(y) : q = <<y, i>>
        BY PerformedPoints
    <2>2. PICK i \in DOMAIN Timeline(y) : q = <<y, i>>
        BY <2>1
    <2>3. Timeline(y)'[i] = Timeline(y)[i]
        <3>1. CASE y # x
            BY <3>1 DEF Alone, Timeline
        <3>2. CASE y = x
            <4>1. Timeline(x) \in Seq(Happening) /\ Timeline(x)' = Timeline(x) \o t
                BY <1>1 DEF Typed, State, Timeline, Alone
            <4> QED BY <1>1, <2>2, <3>2, <4>1, Concatenated
        <3> QED BY <3>1, <3>2
    <2> QED BY <2>2, <2>3 DEF Timeline
<1>4. CASE \/ \E incident : Started(x, incident, t)
           \/ Refused(x, t)
           \/ Approved(x, t) /\ Key(x) \in results
    <2>1. results' = results
        BY <1>4 DEF Started, Refused, Approved
    <2>2. \A i \in DOMAIN t : ~Effect(t[i])
        <3>1. CASE \E incident : Started(x, incident, t)
            BY <1>2, <3>1, ReachedPoints, StartEventNames DEF Started, Effect
        <3>2. CASE Refused(x, t)
            BY <1>2, <3>2 DEF Refused, Effect
        <3>3. CASE Approved(x, t) /\ Key(x) \in results
            BY <1>b, <1>c, <3>3
        <3> QED BY <1>4, <3>1, <3>2, <3>3
    <2>3. Performed' = Performed
        BY <1>1, <2>2, PerformedMoved
    <2> QED BY <1>1, <1>3, <2>1, <2>3 DEF TableInv
<1>5. CASE Approved(x, t) /\ Key(x) \notin results
    <2>1. results' = results \cup {Key(x)}
        BY <1>5 DEF Approved
    <2>2. \A i \in DOMAIN t : Effect(t[i]) <=> i = 2
        <3>1. DOMAIN t = {1, 2, 3} /\ Effect(t[2]) /\ ~Effect(t[1]) /\ ~Effect(t[3])
            BY <1>b, <1>c, <1>5
        <3> QED BY <3>1
    <2>3. 2 \in DOMAIN t
        BY <1>2, <1>5 DEF Approved
    <2>4. Performed' = Performed \cup {p}
        BY <1>0, <1>1, <1>a, <2>2, <2>3, PerformedMoved
    <2>5. p \notin Performed
        <3>1. n + 2 \notin DOMAIN Timeline(x)
            BY <1>0, <1>1, <1>2 DEF Typed, State, Timeline
        <3> QED BY <1>a, <3>1, PerformedPoints
    <2>6. KeyAt(p)' = Key(x)
        <3>1. Timeline(x) \in Seq(Happening) /\ Timeline(x)' = Timeline(x) \o t
            BY <1>1 DEF Typed, State, Timeline, Alone
        <3>2. Timeline(x)'[n + 2] = t[2]
            BY <1>0, <1>1, <2>3, <3>1, Concatenated
        <3>3. t[2].data.key = Key(x)
            BY <1>5 DEF Approved
        <3> QED BY <1>a, <3>2, <3>3 DEF Timeline
    <2>7. /\ IsFiniteSet(results') /\ Cardinality(results') = Cardinality(results) + 1
          /\ IsFiniteSet(Performed') /\ Cardinality(Performed') = Cardinality(Performed) + 1
        BY <1>1, <1>5, <2>1, <2>4, <2>5, FS_AddElement DEF TableInv
    <2>8. \A k \in results' : \E q \in Performed' : KeyAt(q)' = k
        <3>1. \A k \in results : \E q \in Performed : KeyAt(q) = k
            BY <1>1 DEF TableInv
        <3>2. \A k \in results : \E q \in Performed' : KeyAt(q)' = k
            BY <1>3, <2>4, <3>1
        <3>3. p \in Performed'
            BY <2>4
        <3> HIDE DEF KeyAt
        <3> QED BY <2>1, <2>6, <3>2, <3>3
    <2> QED BY <1>1, <2>7, <2>8 DEF TableInv
<1> QED BY <1>4, <1>5

----------------------------------------------------------------------------
LEMMA IInvInitially == Init => IInv
<1> SUFFICES ASSUME Init PROVE IInv
    OBVIOUS
<1> DEFINE s == [incident |-> None, correlation_id |-> Blank, proposal |-> None,
                 approval |-> None, events |-> <<>>]
<1>1. exec = [x \in Executions |-> s] /\ results = {}
    BY DEF Init, ExecutorInit
<1>2. s \in State
    BY DEF State, Correlations
<1>3. Typed
    BY <1>1, <1>2 DEF Typed, TypeOK
<1>4. Performed = {}
    BY <1>1, PerformedPoints DEF Timeline
<1>5. TableInv
    BY <1>1, <1>4, FS_EmptySet DEF TableInv
<1>6. \A x \in Executions : TimelineInv(x)
    BY <1>1 DEF TimelineInv, ShownInv, CompletionInv, CurrentInv, Timeline
<1> QED BY <1>3, <1>5, <1>6 DEF IInv

LEMMA Inductive == IInv /\ [Next]_vars => IInv'
<1> SUFFICES ASSUME IInv, [Next]_vars PROVE IInv'
    OBVIOUS
<1>0. Typed /\ TableInv /\ \A x \in Executions : TimelineInv(x)
    BY DEF IInv
<1>1. ASSUME NEW x \in Executions, NEW t, Alone(x, t), Typed',
             \/ \E incident : Started(x, incident, t)
             \/ Refused(x, t)
             \/ Approved(x, t)
      PROVE  IInv'
    <2>1. TimelineInv(x)' /\ results \subseteq results'
        BY <1>1, MovedTimeline
    <2>2. \A y \in Executions \ {x} : TimelineInv(y)'
        BY <1>0, <1>1, <2>1, OtherTimeline DEF Alone
    <2>3. TableInv'
        BY <1>1, MovedTable
    <2> QED BY <1>1, <2>1, <2>2, <2>3 DEF IInv
<1>2. CASE UNCHANGED vars
    <2>1. Typed' /\ results' = results /\ exec' = exec
        BY <1>0, <1>2 DEF vars, Typed, TypeOK
    <2>2. Performed' = Performed
        BY <2>1 DEF Performed
    <2>3. TableInv'
        BY <1>0, <2>1, <2>2 DEF TableInv
    <2>4. \A x \in Executions : TimelineInv(x)'
        BY <1>0, <2>1, OtherTimeline
    <2> QED BY <2>1, <2>3, <2>4 DEF IInv
<1>3. CASE Next
    <2>1. PICK x \in Executions :
              \/ \E raw \in RawIncidents[x] : StartProposes(x, raw) \/ StartFails(x, raw)
              \/ \E d \in Decisions, f \in Fingerprints : Refuse(x, d, f) \/ Approve(x, d, f)
        BY <1>3 DEF Next
    <2>2. CASE \E raw \in RawIncidents[x] : StartProposes(x, raw) \/ StartFails(x, raw)
        BY <1>0, <1>1, <2>2, StartMoves
    <2>3. CASE \E d \in Decisions, f \in Fingerprints : Refuse(x, d, f)
        BY <1>0, <1>1, <2>3, RefusalMoves
    <2>4. CASE \E d \in Decisions, f \in Fingerprints : Approve(x, d, f)
        BY <1>0, <1>1, <2>4, ApprovalMoves
    <2> QED BY <2>1, <2>2, <2>3, <2>4
<1> QED BY <1>2, <1>3

(* A proposal for another incident is left only where a start fell short.  *)
LEMMA ForeignKept ==
    IInv /\ ForeignProposalOnlyAfterFailedStart /\ [Next]_vars
        => ForeignProposalOnlyAfterFailedStart'
<1> DEFINE Own(x) == exec[x].proposal # None /\ Reached(exec[x].incident) = 5
                        => exec[x].proposal = Propose(exec[x].incident)
<1> SUFFICES ASSUME IInv, \A x \in Executions : Own(x), [Next]_vars
             PROVE  \A x \in Executions : Own(x)'
    BY DEF ForeignProposalOnlyAfterFailedStart
<1>1. ASSUME NEW x \in Executions, NEW t, Alone(x, t),
             \/ \E incident : Started(x, incident, t)
             \/ Refused(x, t)
             \/ Approved(x, t)
      PROVE  \A y \in Executions : Own(y)'
    <2>1. Own(x)'
        <3>1. CASE \E incident : Started(x, incident, t)
            BY <3>1 DEF Started
        <3>2. CASE Refused(x, t) \/ Approved(x, t)
            BY <3>2 DEF Refused, Approved, Kept
        <3> QED BY <1>1, <3>1, <3>2
    <2>2. ASSUME NEW y \in Executions, y # x PROVE Own(y)'
        BY <1>1, <2>2 DEF Alone
    <2> QED BY <2>1, <2>2
<1>2. CASE UNCHANGED vars
    BY <1>2 DEF vars
<1>3. CASE Next
    <2>0. Typed
        BY DEF IInv
    <2>1. PICK x \in Executions :
              \/ \E raw \in RawIncidents[x] : StartProposes(x, raw) \/ StartFails(x, raw)
              \/ \E d \in Decisions, f \in Fingerprints : Refuse(x, d, f) \/ Approve(x, d, f)
        BY <1>3 DEF Next
    <2>2. \E t : Alone(x, t) /\ (\/ \E incident : Started(x, incident, t)
                                 \/ Refused(x, t) \/ Approved(x, t))
        BY <2>0, <2>1, StartMoves, RefusalMoves, ApprovalMoves
    <2> HIDE DEF Own
    <2> QED BY <1>1, <2>2
<1> QED BY <1>2, <1>3

LEMMA Invariance == Spec => []IInv
BY IInvInitially, Inductive, PTL DEF Spec

----------------------------------------------------------------------------
(* Executions hold incidents, proposals and approval requests that belong  *)
(* together, and only keys of these are executed, however many executions  *)
(* share the executor.                                                     *)
THEOREM TypeCorrect == Spec => []TypeOK
<1>1. IInv => TypeOK
    BY DEF IInv, Typed
<1> QED BY <1>1, Invariance, PTL

(* What the approver was last shown before a completion is what was        *)
(* executed.                                                               *)
LEMMA ShownBefore ==
    ASSUME IInv, NEW x \in Executions, NEW i \in DOMAIN Timeline(x), NEW j,
           LastRequest(Timeline(x), i, j)
    PROVE  Shown(x, i) = Timeline(x)[j].data
<1> DEFINE h == Timeline(x)
           P(k) == /\ h[k].event_type = "approval_requested"
                   /\ \A l \in (k + 1)..i : h[l].event_type # "approval_requested"
<1>1. i \in Nat
    BY DEF IInv, Typed, State, Timeline
<1>2. \A k \in 1..i : P(k) => LastRequest(h, i, k)
    BY DEF LastRequest
<1>3. j \in 1..i /\ P(j)
    BY DEF LastRequest
<1>4. \A k \in 1..i : P(k) => k = j
    BY <1>1, <1>2, RequestUnique
<1>5. (CHOOSE k \in 1..i : P(k)) = j
    <2> HIDE DEF P
    <2> QED BY <1>3, <1>4
<1> QED BY <1>5 DEF Shown, Timeline

(* However many executions share the executor, and however often an        *)
(* incident is delivered, decided and approved again: the effects are the  *)
(* recorded completions that are no replays, one each, each approved       *)
(* directly before and of the proposal last shown (decide, execute).       *)
THEOREM EffectsAccounted == Spec => []EffectsAudited
<1>1. ASSUME IInv PROVE EffectsAudited
    <2> DEFINE KeyAt(p) == exec[p[1]].events[p[2]].data.key
    <2>1. TableInv /\ \A x \in Executions : TimelineInv(x)
        BY <1>1 DEF IInv
    <2>2. ASSUME NEW p \in Performed
          PROVE  /\ KeyAt(p) \in results
                 /\ LET h == exec[p[1]].events
                        i == p[2]
                    IN  /\ h[i - 1].event_type = "approval_decided"
                        /\ h[i - 1].data = "approve"
                        /\ h[i - 1].correlation_id = h[i].correlation_id
                        /\ h[i].data.key[1] = h[i].correlation_id
                        /\ h[i].data.key[2] = Shown(p[1], i)
        <3>1. PICK x \in Executions : \E i \in DOMAIN Timeline(x) :
                  p = <<x, i>> /\ Effect(Timeline(x)[i])
            BY PerformedPoints
        <3>2. PICK i \in DOMAIN Timeline(x) : p = <<x, i>> /\ Effect(Timeline(x)[i])
            BY <3>1
        <3> DEFINE h == Timeline(x)
        <3>3. /\ Approvals(h, i) /\ h[i].data.key \in results
              /\ h[i].data.key[1] = h[i].correlation_id
              /\ \E j : LastRequest(h, i, j) /\ h[j].data = h[i].data.key[2]
            BY <2>1, <3>2 DEF TimelineInv, CompletionInv, Effect
        <3>4. h[i].data.key[2] = Shown(x, i)
            BY <1>1, <3>3, ShownBefore
        <3> QED BY <3>2, <3>3, <3>4 DEF Approvals, Timeline
    <2>3. results = {KeyAt(p) : p \in Performed}
        BY <2>1, <2>2 DEF TableInv
    <2> QED BY <2>1, <2>2, <2>3 DEF EffectsAudited, TableInv, EffectCount
<1> QED BY <1>1, Invariance, PTL

(* The events of a completed timeline: one start, one request, one action. *)
LEMMA CompletedNames ==
    /\ DOMAIN CompletedEventTypes = 1..8
    /\ CompletedEventTypes[5] = "approval_requested"
    /\ CompletedEventTypes[7] = "action_completed"
    /\ \A k \in 2..8 : CompletedEventTypes[k] # "incident_validated"
<1> DEFINE b == <<"approval_decided", "action_completed", "execution_finished">>
           c == StartEvents \o b
<1>1. StartEvents \in Seq(Types) /\ Len(StartEvents) = 5
    BY DEF StartEvents, Types
<1>2. b \in Seq(Types) /\ Len(b) = 3
    BY DEF Types
<1>3. b[1] = "approval_decided" /\ b[2] = "action_completed" /\ b[3] = "execution_finished"
    OBVIOUS
<1> HIDE DEF b
<1>4. /\ DOMAIN c = 1..8
      /\ \A i \in 1..5 : c[i] = StartEvents[i]
      /\ c[6] = b[1] /\ c[7] = b[2] /\ c[8] = b[3]
    <2>1. ASSUME NEW p \in Seq(Types), NEW q \in Seq(Types), Len(p) = 5, Len(q) = 3
          PROVE  /\ DOMAIN (p \o q) = 1..8
                 /\ \A i \in 1..5 : (p \o q)[i] = p[i]
                 /\ (p \o q)[6] = q[1] /\ (p \o q)[7] = q[2] /\ (p \o q)[8] = q[3]
        <3>1. /\ DOMAIN (p \o q) = 1..(Len(p) + Len(q))
              /\ \A i \in 1..Len(p) : (p \o q)[i] = p[i]
              /\ \A i \in 1..Len(q) : (p \o q)[Len(p) + i] = q[i]
            OBVIOUS
        <3>2. 1 \in 1..Len(q) /\ 2 \in 1..Len(q) /\ 3 \in 1..Len(q)
            BY <2>1
        <3>3. (p \o q)[5 + 1] = q[1] /\ (p \o q)[5 + 2] = q[2] /\ (p \o q)[5 + 3] = q[3]
            BY <2>1, <3>1, <3>2
        <3> QED BY <2>1, <3>1, <3>3
    <2> QED BY <1>1, <1>2, <2>1
<1>5. \A k \in 2..8 : k \in 2..5 \/ k = 6 \/ k = 7 \/ k = 8
    OBVIOUS
<1> HIDE DEF c
<1>6. c[5] = "approval_requested" /\ \A k \in 2..8 : c[k] # "incident_validated"
    BY <1>3, <1>4, <1>5, StartEventNames
<1> QED BY <1>3, <1>4, <1>6 DEF CompletedEventTypes, c, b

(* A timeline that passes the checker is of the incident at hand, and its  *)
(* effect is in the table the checker never reads                          *)
(* (verify_completed_timeline).                                            *)
THEOREM VerifiedIsTrue == Spec => []VerifiedTimelineIsTrue
<1>1. ASSUME IInv, NEW x \in Executions, Verified(exec[x].events)
      PROVE  /\ exec[x].proposal.incident_id = exec[x].incident.incident_id
             /\ IdempotencyKey(exec[x].incident, exec[x].proposal) \in results
    <2> DEFINE h == Timeline(x)
    <2>1. /\ CompletionInv(x) /\ CurrentInv(x) /\ h \in Seq(Happening)
          /\ DOMAIN h = 1..Len(h) /\ Len(h) \in Nat
        BY <1>1 DEF IInv, Typed, TimelineInv, State, Timeline
    <2>2. [i \in DOMAIN h |-> h[i].event_type] = CompletedEventTypes
        BY <1>1 DEF Verified, Timeline
    <2>3. DOMAIN h = 1..8 /\ \A i \in 1..8 : h[i].event_type = CompletedEventTypes[i]
        BY <2>2, CompletedNames
    <2>4. 5 \in DOMAIN h /\ 7 \in DOMAIN h
        BY <2>3
    <2>5. Len(h) = 8
        <3>1. ASSUME NEW m \in Nat, 1..m = 1..8
              PROVE  m = 8
            <4>1. 8 \in 1..m /\ (m # 0 => m \in 1..8)
                BY <3>1
            <4> QED BY <4>1
        <3> HIDE DEF h
        <3> QED BY <2>1, <2>3, <3>1
    <2>6. /\ h[5].event_type = "approval_requested" /\ h[7].event_type = "action_completed"
          /\ \A k \in 2..8 : h[k].event_type # "incident_validated"
        BY <2>3, CompletedNames
    <2>7. SinceStart(h, 5) /\ SinceStart(h, 7)
        BY <2>5, <2>6 DEF SinceStart
    <2>8. exec[x].proposal = Propose(exec[x].incident) /\ h[7].data.key = Key(x)
        BY <1>1, <2>4, <2>6, <2>7 DEF CurrentInv, IInv, TimelineInv
    <2>9. h[7].data.key \in results
        BY <1>1, <2>4, <2>6 DEF CompletionInv, IInv, TimelineInv
    <2> QED BY <2>8, <2>9 DEF Key, Propose, Proposal
<1>2. IInv => VerifiedTimelineIsTrue
    BY <1>1 DEF VerifiedTimelineIsTrue
<1> QED BY <1>2, Invariance, PTL

(* Only a start that raised after it replaced the incident leaves a        *)
(* proposal for another one (start), whatever was decided in between.      *)
THEOREM ForeignOnlyAfterFailure == Spec => []ForeignProposalOnlyAfterFailedStart
<1>1. Init => ForeignProposalOnlyAfterFailedStart
    BY DEF Init, ForeignProposalOnlyAfterFailedStart
<1> QED BY <1>1, ForeignKept, Invariance, PTL DEF Spec
===================================================================================
