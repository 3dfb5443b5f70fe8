----------------------------- MODULE ActionExecutor -----------------------------
(***************************************************************************)
(* SimulatedActionExecutor: the process-local table of authoritative       *)
(* effects, keyed by idempotency key.  Several environments or executions  *)
(* may share one executor.                                                 *)
(***************************************************************************)
EXTENDS FiniteSets

VARIABLE results   \* the idempotency keys that have a result

ExecutorInit == results = {}

(* A request whose key has a result is answered from it, marked replayed.  *)
Replayed(key) == key \in results

(* Mutant: a remediation done for one delivery stands in for every other.  *)
ExecuteOncePerProposal(key) ==
    results' = IF \E k \in results : k[2] = key[2] THEN results ELSE results \cup {key}

Execute(key) == results' = results \cup {key}

EffectCount == Cardinality(results)
================================================================================
