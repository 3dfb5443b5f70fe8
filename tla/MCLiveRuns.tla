------------------------------- MODULE MCLiveRuns -------------------------------
(***************************************************************************)
(* The parts only a live run has, in one model for TLC: a model session    *)
(* (01), the Dapr agent (03), the evidence a managed run leaves, its       *)
(* publication and the cloud stacks (06).  A behaviour belongs to one      *)
(* part, whose module moves while the variables of the others stay.        *)
(***************************************************************************)
EXTENDS TLC, ModelSession, EvidenceBatch, IncidentAgent, EvidencePublication, Teardown

CONSTANTS r1, r2,
          Parts  \* the parts the run is about

VARIABLE part

\* Two services with a runbook each, one incident for either.
MCStrip == [t \in {"", "because"} |-> t]
MCRunbooks == [s \in {"checkout", "billing"} |-> s]
MCInspections == [s \in {"checkout", "billing"} |-> TRUE]
MCIncidents == {[incident_id |-> s, delivery_id |-> s, service |-> s] : s \in DOMAIN MCRunbooks}
MCDrafts == [remedy : {"checkout", "billing"}, rationale : {"", "because"}]

-----------------------------------------------------------------------------

TaskOf(batch, mode, clean) == [batch |-> batch, mode |-> mode, clean |-> clean]

Assign(t1, t2) == [r \in Runners |-> IF r = r1 THEN t1 ELSE t2]

\* Two runners of one batch, of one mode and of two, one of them with a payload
\* that is refused; and two batches.
MCTasks ==
  LET temporal == TaskOf("b1", "managed_temporal", TRUE)
      rate == TaskOf("b1", "gateway_rate_limit", TRUE)
      refused == TaskOf("b1", "managed_temporal", FALSE)
  IN {Assign(temporal, refused), Assign(temporal, rate), Assign(refused, rate),
      Assign(temporal, TaskOf("b2", "managed_temporal", TRUE))}

-----------------------------------------------------------------------------

A(kind, n) == <<[kind |-> kind, n |-> n, public |-> FALSE]>>

Second == 1000000

\* What all events have; the response headers have whole seconds.
EventOf(session, aws, mcp, moment, kind) ==
  [session_id |-> A("session", session), policy_session_header |-> A("session", session),
   aws_request_id |-> A("request", aws), aws_request_header |-> A("request", aws),
   request_id |-> A("request", mcp), response_id |-> A("request", mcp),
   request_at |-> A(kind, moment), date |-> A("seconds", moment - (moment % Second)),
   run_id |-> A("word", 1) \o A("digits", 1)]

\* A write that was answered.
Write(session, aws, mcp, moment, kind) ==
  EventOf(session, aws, mcp, moment, kind) @@
    [response_text |-> A("word", 2) \o A("request", aws),
     raw_response_body |-> A("request", mcp) \o A("word", 2) \o A("request", aws),
     tool_response |-> A("word", 2) \o A("request", aws)]

\* A denial whose message names the gateway, traced by the load balancer.
Denial(session, aws, mcp, moment, kind) ==
  EventOf(session, aws, mcp, moment, kind) @@
    [decision |-> Deny, error_message |-> A("word", 4) \o A("gateway", 1),
     raw_response_body |-> A("request", mcp) \o A("word", 4) \o A("gateway", 1),
     trace_header |-> A("trace", 1), trace_id |-> A("trace", 1)]

\* A response that is not an object.
Unparsed(aws, mcp, moment) ==
  [aws_request_id |-> A("request", aws), request_id |-> A("request", mcp),
   request_at |-> A("microseconds", moment),
   raw_response_body |-> A("word", 5) \o A("gateway", 1)]

Operation(n) == A("operation", n) \o A("digits", 1)

\* The gateway, its engine and policies as the control plane shows them, and the
\* resources and operations of the rate stack.
ControlFile(resource1, resource2) ==
  <<[gatewayId |-> A("gateway", 1), gatewayUrl |-> A("url", 1) \o A("gateway", 1),
     roleArn |-> A("arn", 1) \o A("digits", 1), createdAt |-> A("microseconds", 700001)],
    [policyId |-> A("policy", 1), policyEngineId |-> A("engine", 1)],
    [PhysicalResourceId |-> resource1, OperationId |-> Operation(1),
     Timestamp |-> A("milliseconds", 901000)],
    [PhysicalResourceId |-> resource2, OperationId |-> Operation(2),
     StatusReason |-> Operation(2)]>>

ConfigurationFile ==
  <<[gateway_id |-> A("gateway", 1), gateway_url |-> A("url", 1) \o A("gateway", 1),
     engine_id |-> A("engine", 1), primary_role_arn |-> A("arn", 1) \o A("digits", 1)]>>

\* Metrics have whole seconds; the commit is in a file of the environment.
ObservabilityFile == <<[Timestamp |-> A("seconds", 2 * Second)], [git_commit |-> A("commit", 1)]>>

EvidenceOf(a, b, control) == [events_a |-> a, events_b |-> b, control_plane |-> control,
                              configuration |-> ConfigurationFile,
                              observability |-> ObservabilityFile]

\* The two event files share an identifier, or differ in all, or one uses a
\* request identifier the other way; resources are names, the gateway (whose
\* categories overlap), or ARNs.
MCEvidence ==
  LET one == Write(1, 1, 2, 1900001, "microseconds")
  IN {EvidenceOf(<<one>>, <<Denial(1, 1, 3, 1000000, "seconds"), Unparsed(1, 2, 2000500)>>,
                 ControlFile(A("resource", 1), A("resource", 2))),
      EvidenceOf(<<one>>, <<Write(2, 4, 3, 2000500, "microseconds")>>,
                 ControlFile(A("gateway", 1), A("resource", 1))),
      EvidenceOf(<<one>>, <<Denial(2, 4, 1, 2000500, "microseconds")>>,
                 ControlFile(A("arn", 2) \o A("digits", 2), A("arn", 3)))}

MCObjects == UNION {UNION {Range(t[f]) : f \in DOMAIN t} : t \in MCEvidence}

\* Of the first batch there are only the events.
MCPreceding ==
  [events_a |-> {}, events_b |-> {}, control_plane |-> {"events_b"},
   configuration |-> {"events_b", "control_plane"},
   observability |-> {"events_b", "control_plane", "configuration"}]

-----------------------------------------------------------------------------

MCInit ==
  /\ part \in Parts
  /\ SessionInit /\ AgentInit /\ Init /\ PublicationInit /\ CloudInit
  /\ part # "batch" => task = CHOOSE t \in MCTasks : TRUE
  /\ part # "publication" => text = CHOOSE t \in Evidence : TRUE

MCNext ==
  \/ /\ part = "session" /\ SessionNext
     /\ UNCHANGED <<part, agentVars, vars, publicationVars, cloudVars>>
  \/ /\ part = "agent" /\ AgentNext
     /\ UNCHANGED <<part, sessionVars, vars, publicationVars, cloudVars>>
  \/ /\ part = "batch" /\ Next
     /\ UNCHANGED <<part, sessionVars, agentVars, publicationVars, cloudVars>>
  \/ /\ part = "publication" /\ PublicationNext
     /\ UNCHANGED <<part, sessionVars, agentVars, vars, cloudVars>>
  \/ /\ part = "cloud" /\ CloudNext
     /\ UNCHANGED <<part, sessionVars, agentVars, vars, publicationVars>>

MCSpec ==
  MCInit /\ [][MCNext]_<<part, sessionVars, agentVars, vars, publicationVars, cloudVars>>
================================================================================
