------------------------------ MODULE MCDaprRecovery ------------------------------
(* Two workflow instances of the delivery, five processes: enough for an   *)
(* instance to fail three times, and for two resumed instances to overlap. *)
EXTENDS DaprRecovery

CONSTANTS i1, i2

MCInstances == {i1, i2}
===================================================================================
