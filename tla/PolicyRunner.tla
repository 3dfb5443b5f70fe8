----------------------------- MODULE PolicyRunner -----------------------------
(***************************************************************************)
(* DeterministicRunner.run (policy_lab/runner.py): one scenario under one  *)
(* control model.  The runner presents the scenario's steps in order, asks *)
(* the model's authorizer, invokes the tool of an allowed step, logs       *)
(* evidence, stops at the first refusal or tool error the step does not    *)
(* continue over, and classifies the run.                                  *)
(***************************************************************************)
EXTENDS PolicyLab

CONSTANTS
  ControlModels,   \* the control models to run
  KnownCallers,    \* PromptOnlyAuthorizer.known_callers
  Scenarios,       \* the scenarios to run
  Catalog,         \* those of the fixture catalog, with declared outcomes
  NoChange         \* None, as a change identifier

\* A step of a scenario; steps are named by their position.
Step == [caller : Callers, session : Sessions, request : Requests,
         onError : BOOLEAN, onDeny : BOOLEAN]

AllControlModels == {"prompt_only", "stateless_auth", "temporal_policy"}

Results == {"allow", "deny", "tool_error", "validation_error", "mixed",
            "rate_limited", "not_applicable"}

\* Scopes: "authorization" is the one the three local models support.
Scenario == [scope : {"authorization", "gateway_rate_limit"},
             steps : Seq(Step), unsafe : SUBSET Nat,
             denies : [AllControlModels -> SUBSET Nat],
             expected : [AllControlModels -> Results]]

ASSUME RunnerAssumption ==
  /\ ControlModels \subseteq AllControlModels
  /\ KnownCallers \subseteq Callers
  /\ Catalog \subseteq Scenarios
  /\ \A x \in Scenarios : x.steps \in Seq(Step) /\ Len(x.steps) > 0
  /\ NoChange \notin Ids

VARIABLES
  control,         \* authorizer.control_model
  scenario,        \* the scenario being run
  evidence,        \* EvidenceLog: one event per presented step
  denied, allowed, \* denied_steps, allowed_steps
  toolErrors,      \* tool_errors
  authErrors,      \* authorization_errors: the codes, as a set
  completed,       \* tool calls completed
  retries,         \* retries presented and executed
  previousChange,  \* previous_change_id
  stoppedAt,       \* stopped_at: a position, 0 for None
  result           \* actual_result, "running" before the summary

books == <<evidence, denied, allowed, toolErrors, authErrors, completed,
           retries, previousChange, stoppedAt>>

runVars == <<vars, control, scenario, books, result>>

Current == Len(evidence) + 1

CurrentStep == scenario.steps[Current]

EvidenceEvent == [caller : Callers, session : Sessions, request : Requests,
                  at : Nat, decision : {"allow", "deny", "error"},
                  outcome : Outcomes \cup {"not_started"}]

RunTypeOK ==
  /\ TypeOK
  /\ control \in ControlModels
  /\ scenario \in Scenarios
  /\ evidence \in Seq(EvidenceEvent)
  /\ Len(evidence) <= Len(scenario.steps)
  /\ denied \cup allowed \subseteq 1..Len(evidence) /\ denied \cap allowed = {}
  /\ toolErrors \in Nat /\ completed \in Nat
  /\ authErrors \subseteq {"VALIDATION_ERROR"}
  /\ retries \in [presented : Nat, executed : Nat]
  /\ previousChange \in Ids \cup {NoChange}
  /\ stoppedAt \in {0, Len(evidence)}
  /\ result \in Results \cup {"running"}

RunInit ==
  /\ Init
  /\ control \in ControlModels
  /\ scenario \in Scenarios
  /\ evidence = <<>>
  /\ denied = {} /\ allowed = {} /\ authErrors = {}
  /\ toolErrors = 0 /\ completed = 0 /\ stoppedAt = 0
  /\ retries = [presented |-> 0, executed |-> 0]
  /\ previousChange = NoChange
  /\ result = "running"

-----------------------------------------------------------------------------

\* mutant: the session's history is not consulted
ChooseByPermission(c, s, q) ==
  IF control = "prompt_only" \/ q.tool \in Permissions[c] THEN "allow" ELSE "deny"

\* authorize() of the three control models.
Choose(c, s, q) ==
  CASE control = "prompt_only" ->
         IF c \in KnownCallers THEN "allow" ELSE "deny"
    [] control = "stateless_auth" ->
         IF q.tool \in Permissions[c] THEN "allow" ELSE "deny"
    [] control = "temporal_policy" -> Decision(c, s, q)

\* observe(): only the temporal authorizer keeps a history.
ObserveBy(c, s, q, outcome) ==
  IF control = "temporal_policy" THEN Observe(c, s, q, outcome)
                                 ELSE UNCHANGED history

ChangeOf(q) ==
  IF q.tool = "execute_write" /\ q.mode # "malformed" THEN q.change ELSE NoChange

IsRetry(q) == ChangeOf(q) # NoChange /\ ChangeOf(q) = previousChange

Log(decision, outcome) ==
  evidence' = Append(evidence,
    [caller |-> CurrentStep.caller, session |-> CurrentStep.session,
     request |-> CurrentStep.request, at |-> clock, decision |-> decision,
     outcome |-> outcome])

Presented(q, executed) ==
  /\ retries' = [presented |-> retries.presented + (IF IsRetry(q) THEN 1 ELSE 0),
                 executed |-> retries.executed +
                                (IF IsRetry(q) /\ executed THEN 1 ELSE 0)]
  /\ previousChange' = ChangeOf(q)

\* mutant: a step that may continue over a denial continues over errors too
StopAlways(go) == stoppedAt' = stoppedAt

\* mutant: the position recorded is that of the step that will not be presented
StopBeforeNext(go) == stoppedAt' = IF go THEN stoppedAt ELSE Current + 1

StopUnless(go) == stoppedAt' = IF go THEN stoppedAt ELSE Current

Running == result = "running" /\ stoppedAt = 0 /\ scenario.scope = "authorization"

More == Current <= Len(scenario.steps)

\* An allowed step reaches its tool; a tool error stops the run unless the
\* step continues on error.
AllowedStep ==
  /\ Running /\ More
  /\ clock < MaxClock
  /\ LET x == CurrentStep
         q == x.request
     IN /\ Choose(x.caller, x.session, q) = "allow"
        /\ allowed' = allowed \cup {Current}
        /\ \E outcome \in Outcomes :
             /\ Invoke(q, outcome)
             /\ ObserveBy(x.caller, x.session, q, outcome)
             /\ completed' = completed + (IF outcome = "success" THEN 1 ELSE 0)
             /\ toolErrors' = toolErrors + (IF outcome = "error" THEN 1 ELSE 0)
             /\ Log("allow", outcome)
             /\ StopUnless(outcome = "success" \/ x.onError)
        /\ Presented(q, TRUE)
        /\ clock' = clock + 1
  /\ UNCHANGED <<control, scenario, denied, authErrors, result>>

DeniedStep ==
  /\ Running /\ More
  /\ LET x == CurrentStep
     IN /\ Choose(x.caller, x.session, x.request) = "deny"
        /\ denied' = denied \cup {Current}
        /\ Log("deny", "not_started")
        /\ StopUnless(x.onDeny)
        /\ Presented(x.request, FALSE)
  /\ UNCHANGED <<vars, control, scenario, allowed, toolErrors, authErrors,
                 completed, result>>

\* The temporal authorizer's only error: a missing or malformed session.
FailedStep ==
  /\ Running /\ More
  /\ LET x == CurrentStep
     IN /\ Choose(x.caller, x.session, x.request) = "error"
        /\ authErrors' = authErrors \cup {"VALIDATION_ERROR"}
        /\ Log("error", "not_started")
        /\ StopUnless(x.onError)
        /\ Presented(x.request, FALSE)
  /\ UNCHANGED <<vars, control, scenario, allowed, denied, toolErrors,
                 completed, result>>

ContinuedDenial == \E i \in denied : scenario.steps[i].onDeny

\* mutant: tool errors hide denials
ClassifyErrorsFirst ==
  IF authErrors # {} THEN "validation_error"
  ELSE IF toolErrors > 0 THEN "tool_error"
  ELSE IF denied # {} /\ ContinuedDenial THEN "mixed"
  ELSE IF denied # {} THEN "deny"
  ELSE "allow"

Classify ==
  IF authErrors \cap {"RATE_LIMITED", "THROTTLED", "ThrottlingException"} # {}
    THEN "rate_limited"
  ELSE IF authErrors # {} THEN "validation_error"
  ELSE IF denied # {} /\ (toolErrors > 0 \/ ContinuedDenial) THEN "mixed"
  ELSE IF denied # {} THEN "deny"
  ELSE IF toolErrors > 0 THEN "tool_error"
  ELSE "allow"

Summarize ==
  /\ Running \/ (result = "running" /\ stoppedAt # 0)
  /\ stoppedAt # 0 \/ ~More
  /\ result' = Classify
  /\ UNCHANGED <<vars, control, scenario, books>>

\* A scenario whose scope the control model does not support is not run.
NotApplicable ==
  /\ result = "running"
  /\ scenario.scope # "authorization"
  /\ result' = "not_applicable"
  /\ UNCHANGED <<vars, control, scenario, books>>

RunNext == AllowedStep \/ DeniedStep \/ FailedStep \/ Summarize \/ NotApplicable

\* run() is one synchronous call: it keeps going until it returns.
RunSpec == RunInit /\ [][RunNext]_runVars

FalseAllow == scenario.unsafe \cap allowed # {}

FalseDenial == denied \ scenario.denies[control] # {}

-----------------------------------------------------------------------------

(***************************************************************************)
(* The rules, read from a log alone.  Event k of a log is audited against  *)
(* the events before it: neither the authorizer's history nor the store is *)
(* consulted.  Prior are the earlier invoked events of the same caller and *)
(* session.                                                                *)
(***************************************************************************)
Prior(log, k) ==
  {i \in 1..(k - 1) : /\ log[i].caller = log[k].caller
                      /\ log[i].session = log[k].session
                      /\ log[i].outcome # "not_started"}

AuditedWrite(log, k) ==
  LET q == log[k].request
      prior == Prior(log, k)
      approving == {i \in prior : IsApproval(log[i], q.record, q.approval)}
      under == {i \in prior : /\ log[i].request.tool = "execute_write"
                              /\ log[i].request.approval = q.approval}
  IN /\ q.mode # "malformed"
     /\ \E i \in prior : IsLookup(log[i], q.record)
     /\ \E i \in approving : /\ \A j \in approving : j <= i
                             /\ log[i].request.expiry > log[k].at
     /\ \A i \in under : log[i].outcome = "error"
     /\ Cardinality(under) < RetryLimit
     /\ Cardinality({i \in prior : IsWrite(log[i], "success")}) < WriteLimit

AuditedDecision(model, log, k) ==
  LET e == log[k]
  IN IF \/ model = "prompt_only" /\ e.caller \notin KnownCallers
        \/ model # "prompt_only" /\ e.request.tool \notin Permissions[e.caller]
       THEN "deny"
     ELSE IF model = "temporal_policy" /\ e.session \notin ValidSessions THEN "error"
     ELSE IF /\ model = "temporal_policy" /\ e.request.tool = "execute_write"
             /\ ~AuditedWrite(log, k) THEN "deny"
     ELSE "allow"

\* An invoked write that reached the store under the key (record, change).
Reached(e, r, c) ==
  /\ e.request.tool = "execute_write" /\ e.outcome # "not_started"
  /\ WellFormed(e.request) /\ KnownRecord(e.request)
  /\ Strip[e.request.record] = r /\ Strip[e.request.change] = c

\* What the tool must have answered: a change has the outcome of the first
\* write under its key, whoever sent it and in whatever session.
AuditedSuccess(log, k) ==
  LET q == log[k].request
      before == {i \in 1..(k - 1) :
                   Reached(log[i], Strip[q.record], Strip[q.change])}
  IN /\ WellFormed(q)
     /\ \/ q.tool \in {"lookup_record", "record_human_approval"} /\ KnownRecord(q)
        \/ /\ q.tool = "execute_write" /\ KnownRecord(q)
           /\ IF before = {} THEN q.mode # "force_error"
                             ELSE \E i \in before : log[i].outcome = "success"
        \/ q.tool = "get_operation_status" /\ before # {}

AuditedOutcome(log, k) ==
  IF log[k].decision # "allow" THEN "not_started"
  ELSE IF AuditedSuccess(log, k) THEN "success"
  ELSE "error"

\* The logical clock counts the events invoked before this one.
AuditedEvent(model, log, k) ==
  /\ log[k].at = Cardinality({i \in 1..(k - 1) : log[i].decision = "allow"})
  /\ log[k].decision = AuditedDecision(model, log, k)
  /\ log[k].outcome = AuditedOutcome(log, k)

(***************************************************************************)
(* The evidence log is enough to audit a run under any control model: read *)
(* on its own, without the authorizer's history and without the store, it  *)
(* says when each step was decided, what the decision had to be and what   *)
(* the tool had to answer, and the logged event agrees.                    *)
(***************************************************************************)
EvidenceAudits ==
  \A k \in DOMAIN evidence : AuditedEvent(control, evidence, k)

Continues(e, x) ==
  \/ e.outcome = "success"
  \/ e.decision = "deny" /\ x.onDeny
  \/ e.decision # "deny" /\ x.onError

(***************************************************************************)
(* A run stops at the first refusal or tool error its step does not        *)
(* continue over: no later step is presented, and an earlier one never     *)
(* should have stopped it.                                                 *)
(***************************************************************************)
StopsInTime ==
  \A k \in DOMAIN evidence :
    /\ k < Len(evidence) => Continues(evidence[k], scenario.steps[k])
    /\ stoppedAt = k <=> ~Continues(evidence[k], scenario.steps[k])

(***************************************************************************)
(* The summary of a run is what its evidence shows, although the runner    *)
(* keeps its counters, its previous change and its stop beside the log:    *)
(* the counters can be recomputed from the log, the class "allow" means    *)
(* that every step of the scenario was presented and succeeded, a denial   *)
(* or an error always shows in the class, and the run stopped where it had *)
(* to.                                                                     *)
(***************************************************************************)
Decided(d) == {k \in DOMAIN evidence : evidence[k].decision = d}

Ended(outcome) == {k \in DOMAIN evidence : evidence[k].outcome = outcome}

Retried ==
  {k \in DOMAIN evidence \ {1} :
     /\ ChangeOf(evidence[k].request) # NoChange
     /\ ChangeOf(evidence[k].request) = ChangeOf(evidence[k - 1].request)}

SummaryMatchesEvidence ==
  /\ completed = Cardinality(Ended("success"))
  /\ toolErrors = Cardinality(Ended("error"))
  /\ retries.presented = Cardinality(Retried)
  /\ retries.executed = Cardinality(Retried \cap Decided("allow"))
  /\ result = "allow" <=>
       /\ result # "running" /\ scenario.scope = "authorization"
       /\ Ended("success") = DOMAIN scenario.steps
  /\ result \in {"deny", "mixed"} => Decided("deny") # {}
  /\ result = "tool_error" => Decided("deny") \cup Decided("error") = {}
  /\ StopsInTime

(***************************************************************************)
(* The log a scenario's text calls for: its steps in order, each decided   *)
(* and answered as the audit of the log so far says, until one of them     *)
(* stops the run.  Nothing here is executed.                               *)
(***************************************************************************)
Replayed(steps, model) ==
  LET over(log) == log # <<>> /\ ~Continues(log[Len(log)], steps[Len(log)])
      clockAfter(log) == Cardinality({i \in DOMAIN log : log[i].decision = "allow"})
      next(log, k) ==
        LET x == steps[k]
            asked == Append(log, [caller |-> x.caller, session |-> x.session,
                                  request |-> x.request, at |-> clockAfter(log),
                                  decision |-> "deny", outcome |-> "not_started"])
            decided == [asked EXCEPT ![k].decision = AuditedDecision(model, asked, k)]
        IN [decided EXCEPT ![k].outcome = AuditedOutcome(decided, k)]
      upTo[k \in 0..Len(steps)] ==
        IF k = 0 THEN <<>>
        ELSE IF over(upTo[k - 1]) THEN upTo[k - 1]
        ELSE next(upTo[k - 1], k)
  IN upTo[Len(steps)]

\* A log of these steps that the audit accepts from beginning to end.
FollowsText(steps, model, log) ==
  /\ log \in Seq(EvidenceEvent)
  /\ Len(log) <= Len(steps)
  /\ \A k \in DOMAIN log :
       /\ log[k].caller = steps[k].caller /\ log[k].session = steps[k].session
       /\ log[k].request = steps[k].request
       /\ AuditedEvent(model, log, k)
       /\ k < Len(log) => Continues(log[k], steps[k])
  /\ Len(log) < Len(steps) =>
       log # <<>> /\ ~Continues(log[Len(log)], steps[Len(log)])

LogClass(steps, log) ==
  LET denials == {k \in DOMAIN log : log[k].decision = "deny"}
      failures == {k \in DOMAIN log : log[k].outcome = "error"}
  IN IF \E k \in DOMAIN log : log[k].decision = "error" THEN "validation_error"
     ELSE IF /\ denials # {}
             /\ failures # {} \/ \E k \in denials : steps[k].onDeny THEN "mixed"
     ELSE IF denials # {} THEN "deny"
     ELSE IF failures # {} THEN "tool_error"
     ELSE "allow"

\* What a scenario declares for a control model is what its text calls for.
DeclaresTheText(x, model) ==
  LET log == Replayed(x.steps, model)
  IN IF x.scope # "authorization" THEN x.expected[model] = "not_applicable"
     ELSE /\ FollowsText(x.steps, model, log)
          /\ x.expected[model] = LogClass(x.steps, log)
          /\ \A k \in DOMAIN log :
               /\ model = "temporal_policy" /\ log[k].decision = "allow"
                    => k \notin x.unsafe
               /\ log[k].decision = "deny" => k \in x.denies[model]

ASSUME CatalogAssumption ==
  \A x \in Catalog, model \in ControlModels : DeclaresTheText(x, model)

(***************************************************************************)
(* Every scenario of the catalog ends in the outcome its fixture declares  *)
(* for the control model (fixtures/scenarios-v1.json), the temporal policy *)
(* allows no step the fixture calls unsafe, and no model denies a step the *)
(* fixture does not expect it to deny.                                     *)
(***************************************************************************)
CatalogAsDeclared ==
  result # "running" /\ scenario \in Catalog =>
    /\ result = scenario.expected[control]
    /\ control = "temporal_policy" => ~FalseAllow
    /\ ~FalseDenial

(***************************************************************************)
(* A run under the temporal policy is a behaviour of PolicyLab: whatever   *)
(* the scenario, each of its steps is an allowed or refused request there, *)
(* or leaves the store, the clock and the histories alone.                 *)
(***************************************************************************)
TemporalRunsAreLabSteps ==
  [][control = "temporal_policy" => Next]_vars
=============================================================================
