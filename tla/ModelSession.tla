------------------------------ MODULE ModelSession ------------------------------
(***************************************************************************)
(* OpenAIResponsesSession under BoundedIncidentAgent: a session that keeps *)
(* the input and output of its first turn in two fields, and an agent that *)
(* asks it for one tool call, runs the tool and asks for one proposal.     *)
(* The session is used for one run after another; a run ends early where   *)
(* the code raises.  The provider answers whatever it likes.               *)
(***************************************************************************)
EXTENDS IncidentContracts

CONSTANTS
  Incidents,
  Drafts,    \* the proposals a model may return
  MaxTurns   \* bound: answers the provider gives

\* Incident.from_dict: the fields every incident has.
ASSUME SessionIncidents ==
  \A i \in Incidents : {"incident_id", "delivery_id", "service"} \subseteq DOMAIN i

VARIABLES
  input,     \* _input: the incident of the last request_tool
  first,     \* _first_output: the output last accepted, or None
  run,       \* the agent's run: its incident and its accepted tool call
  turns,     \* answers so far, which numbers them
  posted,    \* history: the proposal requests posted
  produced   \* history: the results returned

sessionVars == <<input, first, run, turns, posted, produced>>

NoRun == [incident |-> None, call |-> None]

\* A tool call: its turn is its call id, its service its argument.
ToolCall == [turn : 1..MaxTurns, known : BOOLEAN, service : {i.service : i \in Incidents}]

SessionInit ==
  /\ input = None /\ first = None
  /\ run = NoRun /\ turns = 0
  /\ posted = {} /\ produced = {}

Answered == turns < MaxTurns /\ turns' = turns + 1

\* mutant: the first turn of the session is kept
KeepFirst(output) == IF first = None THEN output ELSE first

FirstOutput(output) == output

\* request_tool raises: no answer, no single well-formed call, or an output
\* that is kept before its missing response id is noticed.
ToolRefused(i, kept) ==
  /\ run = NoRun /\ Answered
  /\ input' = i
  /\ first' = IF kept THEN FirstOutput([turn |-> turns + 1, incident |-> i]) ELSE first
  /\ UNCHANGED <<run, posted, produced>>

\* One well-formed call, of whatever tool and service.
ToolCalled(i, known, service) ==
  /\ run = NoRun /\ Answered
  /\ input' = i
  /\ first' = FirstOutput([turn |-> turns + 1, incident |-> i])
  /\ run' = [incident |-> i,
             call |-> [turn |-> turns + 1, known |-> known, service |-> service]]
  /\ UNCHANGED <<posted, produced>>

\* mutant: the call's service is looked up, not compared with the incident's
ReadableAny(i, call) == call.known /\ HasRunbook(call.service) /\ HasInspection(call.service)

Readable(i, call) == call.known /\ ContextReadable(i, call.service)

\* Another tool, or an argument the context tool refuses.
CallRefused ==
  /\ run # NoRun /\ ~Readable(run.incident, run.call)
  /\ run' = NoRun
  /\ UNCHANGED <<input, first, turns, posted, produced>>

Post == posted' = posted \cup
  {[input |-> input, first |-> first, call |-> run.call]}

\* request_proposal posts; its answer is no proposal or one that is refused.
ProposalRefused ==
  /\ run # NoRun /\ Readable(run.incident, run.call)
  /\ first # None /\ Answered /\ Post
  /\ run' = NoRun
  /\ UNCHANGED <<input, first, produced>>

\* The draft is the remediation the tool output permits.
ProposalReturned(draft) ==
  /\ run # NoRun /\ Readable(run.incident, run.call)
  /\ first # None /\ Answered /\ Post
  /\ DraftPermitted([run.incident EXCEPT !.service = run.call.service], draft)
  /\ produced' = produced \cup
       {[proposal |-> FromDraft(run.incident, draft), incident |-> run.incident,
         responses |-> <<run.call.turn, turns + 1>>]}
  /\ run' = NoRun
  /\ UNCHANGED <<input, first>>

SessionNext ==
  \/ \E i \in Incidents : \/ \E kept \in BOOLEAN : ToolRefused(i, kept)
                          \/ \E call \in ToolCall : ToolCalled(i, call.known, call.service)
  \/ CallRefused
  \/ ProposalRefused \/ \E draft \in Drafts : ProposalReturned(draft)

SessionSpec == SessionInit /\ [][SessionNext]_sessionVars

-----------------------------------------------------------------------------

(***************************************************************************)
(* Whatever earlier runs of the session left in its two fields, a proposal *)
(* request carries one conversation: the incident, the output of the turn  *)
(* asked about it and the result of that turn's call on that incident; and *)
(* a result is the permitted remediation of its own incident, with two     *)
(* response ids no other result has.                                       *)
(***************************************************************************)
OneConversation ==
  /\ \A p \in posted :
       /\ p.first.incident = p.input
       /\ p.first.turn = p.call.turn
       /\ p.call.service = p.input.service
  /\ \A r \in produced :
       /\ r.proposal.remedy = Runbooks[r.incident.service]
       /\ r.proposal.incident_id = r.incident.incident_id
       /\ r.responses[1] < r.responses[2]
       /\ \A q \in produced \ {r} :
            {r.responses[1], r.responses[2]} \cap {q.responses[1], q.responses[2]} = {}
================================================================================
