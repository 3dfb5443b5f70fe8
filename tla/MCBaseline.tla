-------------------------------- MODULE MCBaseline --------------------------------
(***************************************************************************)
(* Two executions sharing an executor.  The deliveries: an incident, the   *)
(* same one redelivered with blanks around its delivery id, another        *)
(* incident of the service, and incidents whose start fails at each of its *)
(* four points.                                                            *)
(***************************************************************************)
EXTENDS Baseline, TLC

CONSTANTS x1, x2

MCExecutions == {x1, x2}
MCMaxEvents == (x1 :> 13) @@ (x2 :> 8)
MCStrip == [t \in {"", "del-1", " del-1 ", "del-2", "inc-1", "inc-2",
                   "checkout-api", "unknown", "unwatched", "quiet"} |->
               IF t = " del-1 " THEN "del-1" ELSE t]
MCRunbooks == [s \in {"checkout-api", "unwatched", "quiet"} |-> "restart " \o s]
MCInspections == ("checkout-api" :> TRUE) @@ ("quiet" :> FALSE)

Raw(i, d, s) == [incident_id |-> i, delivery_id |-> d, service |-> s]

Good == {Raw("inc-1", "del-1", "checkout-api"), Raw("inc-1", " del-1 ", "checkout-api"),
         Raw("inc-2", "del-2", "checkout-api")}

Bad ==
    {Raw("inc-2", "del-2", "unknown"),
     Raw("inc-2", "del-2", "unwatched"), Raw("inc-2", "del-2", "quiet"),
     Raw("inc-1", "del-1", "")}

(* One execution meets every kind of delivery in a long timeline; the      *)
(* other runs a single happy path beside it.                               *)
MCRawIncidents == (x1 :> Good \cup Bad) @@ (x2 :> Good)
===================================================================================
