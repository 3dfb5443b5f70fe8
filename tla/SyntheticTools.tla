---------------------------- MODULE SyntheticTools ----------------------------
(***************************************************************************)
(* The four synthetic tools of the policy lab and the store they act on    *)
(* (policy_lab/tools.py, policy_lab/store.py).  A tool call is a Request;  *)
(* each handler is an action of the request and of the outcome the runner  *)
(* derives from the handler's response or exception.                       *)
(*                                                                         *)
(* Identifiers reach the tools as raw strings and are stripped by          *)
(* require_string, so Strip maps the identifier a request carries to the   *)
(* one the store uses.  A record's value is left out: no check reads it.   *)
(***************************************************************************)
EXTENDS Integers, FiniteSets

CONSTANTS
  Ids,      \* identifiers a request may carry, stripped or not
  Strip,    \* what require_string makes of them
  Records   \* the records of the synthetic store

ASSUME StripAssumption ==
  /\ Strip \in [Ids -> Ids]
  /\ \A i \in Ids : Strip[Strip[i]] = Strip[i]

ASSUME RecordsAssumption ==
  /\ Records \subseteq Ids
  /\ \A r \in Records : Strip[r] = r

VARIABLES
  version,     \* store.records[r]["version"]
  approvals,   \* store.approvals: a list nothing reads, kept as a set
  operations   \* store.operations, with its index _operations_by_change

storeVars == <<version, approvals, operations>>

Tools == {"lookup_record", "record_human_approval", "execute_write",
          "get_operation_status"}

(***************************************************************************)
(* How well the arguments are formed: "force_error" is a valid change that *)
(* asks for a declared failure, "invalid" arguments pass an authorizer and *)
(* make the tool raise, and the change of a "malformed" write is not an    *)
(* object, so that its identifiers cannot even be read.                    *)
(***************************************************************************)
Modes == {"valid", "force_error", "invalid", "malformed"}

Request == [tool : Tools \cup {"unknown_tool"}, record : Ids, approval : Ids,
            change : Ids, expiry : Nat, mode : Modes]

Outcomes == {"success", "error"}

Approval == [record : Records, approval : Ids, expiry : Nat]

Operation == [record : Records, change : Ids, approval : Ids,
              status : {"SUCCEEDED", "FAILED"}]

StoreTypeOK ==
  /\ version \in [Records -> Nat]
  /\ approvals \subseteq Approval
  /\ operations \subseteq Operation

StoreInit ==
  /\ version = [r \in Records |-> 1]
  /\ approvals = {}
  /\ operations = {}

WellFormed(q) == q.mode \in {"valid", "force_error"}

KnownRecord(q) == Strip[q.record] \in Records

\* The operation recorded under the key (record, change), if there is one.
Stored(r, c) == {o \in operations : o.record = r /\ o.change = c}

Succeeded == {o \in operations : o.status = "SUCCEEDED"}

-----------------------------------------------------------------------------

LookupRecord(q, outcome) ==
  /\ outcome = IF WellFormed(q) /\ KnownRecord(q) THEN "success" ELSE "error"
  /\ UNCHANGED storeVars

RecordHumanApproval(q, outcome) ==
  IF WellFormed(q) /\ KnownRecord(q)
    THEN /\ outcome = "success"
         /\ approvals' = approvals \cup
              {[record |-> Strip[q.record], approval |-> Strip[q.approval],
                expiry |-> q.expiry]}
         /\ UNCHANGED <<version, operations>>
    ELSE outcome = "error" /\ UNCHANGED storeVars

NewOperation(q, status) ==
  [record |-> Strip[q.record], change |-> Strip[q.change],
   approval |-> Strip[q.approval], status |-> status]

\* mutant: a retried change is applied again
ApplyChangeTwice(q) ==
  /\ version' = [version EXCEPT ![Strip[q.record]] = @ + 1]
  /\ operations' = operations \cup {NewOperation(q, "SUCCEEDED")}
  /\ UNCHANGED approvals

\* mutant: a change that failed before is applied under the same key
ApplyChangeAfterFailure(q) ==
  LET existing == Stored(Strip[q.record], Strip[q.change])
  IN IF \E o \in existing : o.status = "SUCCEEDED"
       THEN UNCHANGED storeVars
       ELSE /\ version' = [version EXCEPT ![Strip[q.record]] = @ + 1]
            /\ operations' = (operations \ existing) \cup
                                 {NewOperation(q, "SUCCEEDED")}
            /\ UNCHANGED approvals

ApplyChange(q) ==
  IF Stored(Strip[q.record], Strip[q.change]) # {}
    THEN UNCHANGED storeVars
    ELSE /\ version' = [version EXCEPT ![Strip[q.record]] = @ + 1]
         /\ operations' = operations \cup {NewOperation(q, "SUCCEEDED")}
         /\ UNCHANGED approvals

\* mutant: a declared failure bumps the record before it is recorded
FailAfterMutation(q) ==
  IF Stored(Strip[q.record], Strip[q.change]) # {}
    THEN UNCHANGED storeVars
    ELSE /\ operations' = operations \cup {NewOperation(q, "FAILED")}
         /\ version' = [version EXCEPT ![Strip[q.record]] = @ + 1]
         /\ UNCHANGED approvals

RecordFailedChange(q) ==
  IF Stored(Strip[q.record], Strip[q.change]) # {}
    THEN UNCHANGED storeVars
    ELSE /\ operations' = operations \cup {NewOperation(q, "FAILED")}
         /\ UNCHANGED <<version, approvals>>

\* The outcome is the status of the operation the call returns, which for a
\* replayed call is the status recorded by the first one.
ExecuteWrite(q, outcome) ==
  IF WellFormed(q) /\ KnownRecord(q)
    THEN /\ IF q.mode = "force_error" THEN RecordFailedChange(q)
                                      ELSE ApplyChange(q)
         /\ outcome = IF \E o \in operations' :
                           /\ o.record = Strip[q.record]
                           /\ o.change = Strip[q.change]
                           /\ o.status = "SUCCEEDED"
                        THEN "success" ELSE "error"
    ELSE outcome = "error" /\ UNCHANGED storeVars

\* An operation_id is a hash of (run, record, change): it is known exactly when
\* an operation is stored under that key.
GetOperationStatus(q, outcome) ==
  /\ outcome = IF WellFormed(q) /\ Stored(Strip[q.record], Strip[q.change]) # {}
                 THEN "success" ELSE "error"
  /\ UNCHANGED storeVars

UnknownTool(q, outcome) == outcome = "error" /\ UNCHANGED storeVars

Invoke(q, outcome) ==
  \/ q.tool = "lookup_record" /\ LookupRecord(q, outcome)
  \/ q.tool = "record_human_approval" /\ RecordHumanApproval(q, outcome)
  \/ q.tool = "execute_write" /\ ExecuteWrite(q, outcome)
  \/ q.tool = "get_operation_status" /\ GetOperationStatus(q, outcome)
  \/ q.tool \notin Tools /\ UnknownTool(q, outcome)
=============================================================================
