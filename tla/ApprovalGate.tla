------------------------------ MODULE ApprovalGate ------------------------------
(***************************************************************************)
(* What an approval-gated runtime promises, without phases, fingerprints   *)
(* or rewards: an actor holds at most one standing approval, an effect     *)
(* happens only under a standing approval for exactly that effect, and an  *)
(* effect is never undone.                                                 *)
(***************************************************************************)
CONSTANTS Actors, Keys

VARIABLES
    standing,  \* the approvals in force, pairs of an actor and a key
    effects    \* the keys whose effect has happened

vars == <<standing, effects>>

Init == standing = {} /\ effects = {}

Approve(a, k) ==
    /\ \A p \in standing : p[1] # a
    /\ standing' = standing \cup {<<a, k>>}
    /\ UNCHANGED effects

Withdraw(a) ==
    /\ standing' = {p \in standing : p[1] # a}
    /\ UNCHANGED effects

Perform(a, k) ==
    /\ <<a, k>> \in standing
    /\ effects' = effects \cup {k}
    /\ UNCHANGED standing

Next ==
    \E a \in Actors :
        \/ \E k \in Keys : Approve(a, k) \/ Perform(a, k)
        \/ Withdraw(a)

Spec == Init /\ [][Next]_vars
================================================================================
