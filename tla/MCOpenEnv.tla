------------------------------- MODULE MCOpenEnv -------------------------------
(***************************************************************************)
(* Two environments built from the same fixture and sharing one executor:  *)
(* the incident is delivered to both, and again after every reset.         *)
(***************************************************************************)
EXTENDS OpenEnvIncident, TLC

CONSTANTS e1, e2

MCEnvs == {e1, e2}
MCStrip == [t \in {"", "because", " because ", "other"} |->
               IF t = " because " THEN "because" ELSE t]
MCRunbooks == [s \in {"checkout-api"} |-> "restart replica-2"]
MCInspections == [s \in {"checkout-api"} |-> TRUE]

Delivered == [incident_id |-> "inc-1", delivery_id |-> "del-1",
              service |-> "checkout-api"]
MCIncidentOf == [e \in MCEnvs |-> Delivered]

(* One environment runs a long episode and a second one after a reset, the *)
(* other a single episode just long enough to execute.                     *)
MCMaxSteps == (e1 :> 6) @@ (e2 :> 4)
MCMaxResets == (e1 :> 1) @@ (e2 :> 0)

(* Two acceptable rationales, one of them also with blanks around it, and  *)
(* the drafts the validator refuses.                                       *)
MCDrafts == [remedy : {"restart replica-2"}, rationale : {"because", "other", " because "}]
       \cup {[remedy |-> "restart billing-db", rationale |-> "because"],
             [remedy |-> "restart replica-2", rationale |-> ""]}
================================================================================
