------------------------------ MODULE IncidentAgent ------------------------------
(***************************************************************************)
(* The live Dapr agent: a smoke process starts one workflow instance of    *)
(* the agent, answers one pending approval and waits for its own instance. *)
(* Instances outlive processes: the engine and the provider, modelled from *)
(* how the code uses them, let any process that is up carry on with any    *)
(* instance, run a tool again when its result was lost, and let the model  *)
(* choose the tools.  Executors are in memory, one for each process.       *)
(***************************************************************************)
EXTENDS Naturals, FiniteSets

CONSTANTS
  Processes,  \* smoke processes; each starts the instance of its own name
  Choices,  \* approve, deny
  MaxCalls    \* bound: tool calls of an instance

VARIABLES
  process,    \* where each process is and with which decision
  instance,   \* per instance: where it is, its calls, the call it is about
  answers,    \* the approval responses that were raised
  effects     \* per process: the calls its executor took effect for

agentVars == <<process, instance, answers, effects>>

AgentInit ==
  /\ process = [p \in Processes |-> [at |-> "new", decision |-> "none"]]
  /\ instance = [i \in Processes |-> [at |-> "none", calls |-> 0, exact |-> FALSE]]
  /\ answers = {}
  /\ effects = [p \in Processes |-> {}]

Up(p) == process[p].at \in {"polling", "waiting"}

\* A tool call, which is also the approval request for it.
CallOf(i) == [instance |-> i, number |-> instance[i].calls, exact |-> instance[i].exact]

Start(p, decision) ==
  /\ process[p].at = "new"
  /\ process' = [process EXCEPT ![p] = [at |-> "polling", decision |-> decision]]
  /\ instance' = [instance EXCEPT ![p].at = "asking"]
  /\ UNCHANGED <<answers, effects>>

\* p carries on with instance i, whoever started it.
Carries(p, i, from, to) ==
  /\ Up(p) /\ instance[i].at = from
  /\ instance' = [instance EXCEPT ![i].at = to]

\* The model calls a tool; the hook pauses the one that changes state.
Chooses(p, i, to, exact) ==
  /\ Up(p) /\ instance[i].at = "asking" /\ instance[i].calls < MaxCalls
  /\ instance' = [instance EXCEPT ![i] =
                    [at |-> to, calls |-> @.calls + 1, exact |-> exact]]
  /\ UNCHANGED <<process, answers, effects>>

\* The read-only tool returns or refuses, and the model is asked again.
CallsInspect(p, i) == Chooses(p, i, "asking", FALSE)

\* mutant: the hook knows the tool by another name
HookProceeds == "executing"

HookDecision == "pending"

CallsExecute(p, i, exact) == Chooses(p, i, HookDecision, exact)

Finishes(p, i) ==
  /\ Carries(p, i, "asking", "done")
  /\ UNCHANGED <<process, answers, effects>>

\* The smoke answers the first pending approval, of whichever instance.
Answer(p, i) ==
  /\ process[p].at = "polling" /\ instance[i].at = "pending"
  /\ answers' = answers \cup {[call |-> CallOf(i), by |-> p,
                               approved |-> process[p].decision = "approve"]}
  /\ process' = [process EXCEPT ![p].at = "waiting"]
  /\ UNCHANGED <<instance, effects>>

\* The event is named for its request, so no other request takes it.
Approved(p, i) ==
  /\ Carries(p, i, "pending", "executing")
  /\ \E a \in answers : a.call = CallOf(i) /\ a.approved
  /\ UNCHANGED <<process, answers, effects>>

\* A refusal, or no answer within the hook's timeout, even if one comes late.
NotApproved(p, i) ==
  /\ Carries(p, i, "pending", "asking")
  /\ UNCHANGED <<process, answers, effects>>

\* mutant: the runtime executes what it is asked to
PermittedAny(i) == TRUE

\* The exact action, target, reason and delivery id.
Permitted(i) == instance[i].exact

\* Other arguments raise; the executor replays the delivery's second call.
TakesEffect(p, i) ==
  effects' = IF Permitted(i) /\ effects[p] = {}
               THEN [effects EXCEPT ![p] = {CallOf(i)}] ELSE effects

Execute(p, i) ==
  /\ Carries(p, i, "executing", "asking")
  /\ TakesEffect(p, i)
  /\ UNCHANGED <<process, answers>>

Ends(p) == process' = [process EXCEPT ![p].at = "ended"]

\* The process stops before the engine has the tool's result.
ExecuteAndStop(p, i) ==
  /\ Up(p) /\ instance[i].at = "executing"
  /\ TakesEffect(p, i)
  /\ Ends(p)
  /\ UNCHANGED <<instance, answers>>

\* Its own instance is complete: the smoke reports its decision and count.
Report(p) ==
  /\ process[p].at = "waiting" /\ instance[p].at = "done"
  /\ process' = [process EXCEPT ![p].at = "reported"]
  /\ UNCHANGED <<instance, answers, effects>>

\* No approval within 90 seconds, no completion within 120, or a crash.
GiveUp(p) ==
  /\ Up(p) /\ Ends(p)
  /\ UNCHANGED <<instance, answers, effects>>

AgentNext ==
  \E p \in Processes :
    \/ \E decision \in Choices : Start(p, decision)
    \/ Report(p) \/ GiveUp(p)
    \/ \E i \in Processes :
         \/ CallsInspect(p, i) \/ \E exact \in BOOLEAN : CallsExecute(p, i, exact)
         \/ Finishes(p, i) \/ Answer(p, i) \/ Approved(p, i) \/ NotApproved(p, i)
         \/ Execute(p, i) \/ ExecuteAndStop(p, i)

AgentSpec == AgentInit /\ [][AgentNext]_agentVars

-----------------------------------------------------------------------------

(***************************************************************************)
(* What a smoke's evidence is worth when instances outlive processes: an   *)
(* effect is of the exact remediation and of a request some smoke          *)
(* approved, so one that denied counts an effect only for a request        *)
(* another approved; and of the processes in which a request took effect   *)
(* at most one did not end without a report, so reports never count it     *)
(* twice.                                                                  *)
(***************************************************************************)
EffectsExplained ==
  /\ \A p \in Processes : \A c \in effects[p] :
       /\ c.exact
       /\ \E a \in answers : /\ a.call = c /\ a.approved
                             /\ process[p].decision = "deny" => a.by # p
  /\ \A p, q \in Processes :
       p # q /\ effects[p] \cap effects[q] # {}
         => "ended" \in {process[p].at, process[q].at}
================================================================================
