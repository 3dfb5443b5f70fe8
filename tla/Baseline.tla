--------------------------------- MODULE Baseline ---------------------------------
(***************************************************************************)
(* BaselineExecution: the ordinary Python flow, several executions sharing *)
(* one executor.  start() proposes, decide() settles and executes; both    *)
(* write the correlated timeline that verify_completed_timeline reads.     *)
(* A call that raises before it changes anything is a stuttering step.     *)
(***************************************************************************)
EXTENDS IncidentContracts, ActionExecutor

CONSTANTS
    Executions,   \* the BaselineExecution objects of the process
    RawIncidents, \* execution -> the incident objects delivered to it
    MaxEvents     \* bound: execution -> length of its timeline

VARIABLE exec     \* per execution: incident, correlation, proposal, approval, events

vars == <<exec, results>>

Init ==
    /\ ExecutorInit
    /\ exec = [x \in Executions |->
                  [incident |-> None, correlation_id |-> Blank, proposal |-> None,
                   approval |-> None, events |-> <<>>]]

(* DeterministicFakeModel.propose: everything follows from the runbook and *)
(* the inspection of the service, the rationale included.                  *)
Propose(incident) == Proposal(incident, Runbooks[incident.service], incident.service)

----------------------------------------------------------------------------
Event(type, correlation_id, data) ==
    [event_type |-> type, correlation_id |-> correlation_id, data |-> data]

StartEvents == <<"incident_validated", "runbook_retrieved", "inspection_completed",
                 "proposal_created", "approval_requested">>

(* How far start() gets: each lookup that fails, and an error rate below   *)
(* the threshold, raises after the events before it have been recorded.    *)
Reached(incident) ==
    CASE ~HasRunbook(incident.service)    -> 1
      [] ~HasInspection(incident.service) -> 2
      [] ~Inspections[incident.service]   -> 3
      [] OTHER                            -> 5

Recorded(x, incident) ==
    exec[x].events \o
        [i \in 1..Reached(incident) |->
            Event(StartEvents[i], incident.delivery_id,
                  IF i >= 4 THEN Propose(incident) ELSE None)]

Room(x, n) == Len(exec[x].events) + n <= MaxEvents[x]

Deliverable(x, raw) == Valid(raw) /\ Room(x, Reached(FromDict(raw)))

(* Mutant: an execution that has proposed once keeps that proposal.        *)
StartKeepsProposal(x, raw) ==
    LET incident == FromDict(raw)
        kept == IF exec[x].proposal = None THEN Propose(incident) ELSE exec[x].proposal
    IN  /\ Deliverable(x, raw) /\ Reached(incident) = 5
        /\ exec' = [exec EXCEPT ![x] =
                       [incident |-> incident, correlation_id |-> incident.delivery_id,
                        proposal |-> kept, approval |-> kept,
                        events |-> Recorded(x, incident)]]
        /\ UNCHANGED results

StartProposes(x, raw) ==
    LET incident == FromDict(raw)
    IN  /\ Deliverable(x, raw) /\ Reached(incident) = 5
        /\ exec' = [exec EXCEPT ![x] =
                       [incident |-> incident, correlation_id |-> incident.delivery_id,
                        proposal |-> Propose(incident), approval |-> Propose(incident),
                        events |-> Recorded(x, incident)]]
        /\ UNCHANGED results

(* Mutant: the proposal is cleared as soon as a new incident is validated, *)
(* the approval request is not.                                            *)
StartDropsProposal(x, raw) ==
    LET incident == FromDict(raw)
    IN  /\ Deliverable(x, raw) /\ Reached(incident) < 5
        /\ exec' = [exec EXCEPT ![x].incident = incident, ![x].proposal = None,
                                ![x].correlation_id = incident.delivery_id,
                                ![x].events = Recorded(x, incident)]
        /\ UNCHANGED results

(* A start that raises has already replaced the incident and correlation,  *)
(* but an earlier proposal and its approval request stay in place.         *)
StartFails(x, raw) ==
    LET incident == FromDict(raw)
    IN  /\ Deliverable(x, raw) /\ Reached(incident) < 5
        /\ exec' = [exec EXCEPT ![x].incident = incident,
                                ![x].correlation_id = incident.delivery_id,
                                ![x].events = Recorded(x, incident)]
        /\ UNCHANGED results

----------------------------------------------------------------------------
(* decide() asks for a proposal and its exact fingerprint, nothing else.   *)
Decidable(x, fingerprint) ==
    /\ exec[x].proposal # None /\ exec[x].approval # None
    /\ fingerprint = exec[x].approval

Status(decision) ==
    CASE decision = "deny"   -> "denied"
      [] decision = "revise" -> "revision_requested"
      [] decision = "expire" -> "expired"

Refuse(x, decision, fingerprint) ==
    /\ Decidable(x, fingerprint) /\ decision # "approve" /\ Room(x, 2)
    /\ LET c == exec[x].correlation_id
       IN  exec' = [exec EXCEPT ![x].events = @ \o
                       <<Event("approval_decided", c, decision),
                         Event("execution_finished", c, Status(decision))>>]
    /\ UNCHANGED results

(* Mutant: a replay is recorded as if it were the effect.                  *)
ApproveHidesReplay(x, decision, fingerprint) ==
    /\ Decidable(x, fingerprint) /\ decision = "approve" /\ Room(x, 3)
    /\ LET c == exec[x].correlation_id
           key == IdempotencyKey(exec[x].incident, exec[x].proposal)
       IN  /\ Execute(key)
           /\ exec' = [exec EXCEPT ![x].events = @ \o
                 <<Event("approval_decided", c, decision),
                   Event("action_completed", c, [key |-> key, replayed |-> FALSE]),
                   Event("execution_finished", c, "completed")>>]

(* An approval executes at once, under the delivery of the execution's     *)
(* current incident.                                                       *)
Approve(x, decision, fingerprint) ==
    /\ Decidable(x, fingerprint) /\ decision = "approve" /\ Room(x, 3)
    /\ LET c == exec[x].correlation_id
           key == IdempotencyKey(exec[x].incident, exec[x].proposal)
       IN  /\ Execute(key)
           /\ exec' = [exec EXCEPT ![x].events = @ \o
                 <<Event("approval_decided", c, decision),
                   Event("action_completed", c,
                         [key |-> key, replayed |-> Replayed(key)]),
                   Event("execution_finished", c, "completed")>>]

Fingerprints == {exec[x].approval : x \in Executions}

Next ==
    \E x \in Executions :
        \/ \E raw \in RawIncidents[x] : StartProposes(x, raw) \/ StartFails(x, raw)
        \/ \E d \in Decisions, f \in Fingerprints : Refuse(x, d, f) \/ Approve(x, d, f)

Spec == Init /\ [][Next]_vars

----------------------------------------------------------------------------
(* verify_completed_timeline: exactly the happy path, under one            *)
(* correlation, approved and finished as completed.                        *)
CompletedEventTypes ==
    StartEvents \o <<"approval_decided", "action_completed", "execution_finished">>

Verified(events) ==
    /\ [i \in DOMAIN events |-> events[i].event_type] = CompletedEventTypes
    /\ Cardinality({events[i].correlation_id : i \in DOMAIN events}) = 1
    /\ events[6].data = "approve"
    /\ events[8].data = "completed"

----------------------------------------------------------------------------
Incidents ==
    {FromDict(raw) : raw \in {r \in UNION {RawIncidents[x] : x \in Executions} : Valid(r)}}

(* None is no incident, and no proposal.                                   *)
ASSUME BaselineAssumption == None \notin Incidents

Proposals == {Propose(i) : i \in {j \in Incidents : Reached(j) = 5}}

Keys == {IdempotencyKey(i, p) : i \in Incidents, p \in Proposals}

(* The fields of an execution have their types, an approval request is     *)
(* always for the proposal at hand, and a proposal always has an incident. *)
TypeOK ==
    /\ results \subseteq Keys
    /\ \A x \in Executions :
          LET s == exec[x]
          IN  /\ s.incident \in Incidents \cup {None}
              /\ s.proposal \in Proposals \cup {None}
              /\ s.approval = s.proposal
              /\ s.incident = None => s.proposal = None /\ s.events = <<>>
              /\ s.incident # None => s.correlation_id = s.incident.delivery_id

(* The proposal the approver was last shown before event i of x.           *)
Shown(x, i) ==
    LET h == exec[x].events
        j == CHOOSE j \in 1..i : /\ h[j].event_type = "approval_requested"
                                 /\ \A k \in (j + 1)..i : h[k].event_type # "approval_requested"
    IN  h[j].data

Performed ==
    {p \in UNION {{x} \X DOMAIN exec[x].events : x \in Executions} :
        LET e == exec[p[1]].events[p[2]]
        IN  e.event_type = "action_completed" /\ ~e.data.replayed}

(* The timelines account for the effects: every effect was performed by    *)
(* exactly one recorded action of one execution, directly after an         *)
(* approval with the same correlation, of exactly the proposal last shown  *)
(* to the approver; every other recorded action is a replay (decide,       *)
(* SimulatedActionExecutor.execute).                                       *)
EffectsAudited ==
    /\ results = {exec[p[1]].events[p[2]].data.key : p \in Performed}
    /\ Cardinality(Performed) = EffectCount
    /\ \A p \in Performed :
          LET h == exec[p[1]].events
              i == p[2]
          IN  /\ h[i - 1].event_type = "approval_decided"
              /\ h[i - 1].data = "approve"
              /\ h[i - 1].correlation_id = h[i].correlation_id
              /\ h[i].data.key[1] = h[i].correlation_id
              /\ h[i].data.key[2] = Shown(p[1], i)

(* A timeline that passes verification proves what it claims: the effect   *)
(* of this very delivery and of a proposal for this very incident has      *)
(* happened, although the checker never looks at the executor.             *)
VerifiedTimelineIsTrue ==
    \A x \in Executions :
        Verified(exec[x].events) =>
            /\ exec[x].proposal.incident_id = exec[x].incident.incident_id
            /\ IdempotencyKey(exec[x].incident, exec[x].proposal) \in results

(* An execution holds a proposal for anything but its current incident     *)
(* only when its last start raised after replacing the incident.           *)
ForeignProposalOnlyAfterFailedStart ==
    \A x \in Executions :
        exec[x].proposal # None /\ Reached(exec[x].incident) = 5
            => exec[x].proposal = Propose(exec[x].incident)

(* A refusal persists: after a denial or an expiry nothing is approved     *)
(* until approval has been requested again (the test catalog's "Deny or    *)
(* revise", docs/RESEARCH_PLAN.md:102).                                    *)
DecisionPersists ==
    \A x \in Executions : \A i, j \in DOMAIN exec[x].events :
        LET h == exec[x].events
        IN  /\ i < j
            /\ h[i].event_type = "approval_decided" /\ h[i].data \in {"deny", "expire"}
            /\ h[j].event_type = "approval_decided" /\ h[j].data = "approve"
            => \E k \in i..j : h[k].event_type = "approval_requested"
===================================================================================
