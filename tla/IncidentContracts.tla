---------------------------- MODULE IncidentContracts ----------------------------
(***************************************************************************)
(* The business contracts every incident runtime of the lab shares         *)
(* (shared/contracts, shared/tools, the proposal check of shared/agent):   *)
(* incidents, trusted fixture data, proposals, fingerprints, idempotency   *)
(* keys.  Hashes (stable_id) are taken to be collision free, so a          *)
(* fingerprint is the proposal it is computed from and an idempotency key  *)
(* is the pair it is computed from.                                        *)
(***************************************************************************)
EXTENDS Integers, Sequences, FiniteSets

CONSTANTS
    Strip,        \* str.strip() on the texts in use, as a function
    Blank,        \* the empty text
    Runbooks,     \* service -> its permitted remediation (action, target, parameters)
    Inspections,  \* service -> does the observed error rate meet the threshold?
    None          \* Python's None

Texts == DOMAIN Strip

Decisions == {"approve", "deny", "revise", "expire"}

(***************************************************************************)
(* Incident.from_dict: every required field must be a string that is not   *)
(* blank, and is kept stripped.                                            *)
(***************************************************************************)
Valid(raw) == \A f \in DOMAIN raw : Strip[raw[f]] # Blank

FromDict(raw) == [f \in DOMAIN raw |-> Strip[raw[f]]]

(***************************************************************************)
(* FixtureRepository: runbook_for and inspect raise LookupError outside    *)
(* their own tables.                                                       *)
(***************************************************************************)
HasRunbook(service) == service \in DOMAIN Runbooks
HasInspection(service) == service \in DOMAIN Inspections

(***************************************************************************)
(* IncidentContextTool.execute: the read-only call the agents are given.   *)
(***************************************************************************)
ContextReadable(incident, service) ==
    /\ service = incident.service
    /\ HasRunbook(service)
    /\ HasInspection(service)

(***************************************************************************)
(* A proposal; its fingerprint covers every field, the rationale included. *)
(***************************************************************************)
Proposal(incident, remedy, rationale) ==
    [incident_id |-> incident.incident_id, remedy |-> remedy, rationale |-> rationale]

(***************************************************************************)
(* validate_model_proposal: the draft must be the permitted remediation of *)
(* the inspected service, and its rationale must not be blank.             *)
(***************************************************************************)
DraftPermitted(incident, draft) ==
    /\ Strip[draft.rationale] # Blank
    /\ draft.remedy = Runbooks[incident.service]

FromDraft(incident, draft) ==
    Proposal(incident, draft.remedy, Strip[draft.rationale])

IdempotencyKey(incident, proposal) == <<incident.delivery_id, proposal>>
==================================================================================
