----------------------------- MODULE OpenEnvIncident -----------------------------
(***************************************************************************)
(* IncidentEnvironment: OpenEnv episodes over one incident each, several   *)
(* environments sharing one executor.  step() accepts one of four typed    *)
(* requests or turns the exception into a rejected observation.            *)
(***************************************************************************)
EXTENDS IncidentContracts, ActionExecutor

CONSTANTS
    Envs,       \* the environments of the process
    IncidentOf, \* environment -> the incident of its fixture
    Drafts,     \* the (remedy, rationale) drafts an agent may submit
    MaxSteps,   \* bound: environment -> steps per episode
    MaxResets   \* bound: environment -> resets

(* None is no proposal.                                                    *)
ASSUME OpenEnvAssumption ==
    None \notin {FromDraft(IncidentOf[e], d) : e \in Envs, d \in Drafts}

VARIABLES
    env,        \* per environment: its private fields and its IncidentState
    paid        \* history variable: completion rewards handed out so far

vars == <<env, results, paid>>

Phases == {"awaiting_inspection", "awaiting_proposal", "awaiting_approval",
           "approved", "completed", "denied", "expired"}

Tags == {"reset", "context_inspected", "proposal_submitted", "approval:approve",
         "approval:deny", "approval:revise", "approval:expire",
         "execution_completed", "execution_replayed", "rejected"}

Proposals == {FromDraft(IncidentOf[e], d) : e \in Envs, d \in Drafts}

Keys == {IdempotencyKey(IncidentOf[e], p) : e \in Envs, p \in Proposals}

Requests ==
         {[type |-> "inspect_context", service |-> s] :
              s \in {IncidentOf[e].service : e \in Envs}}
    \cup {[type |-> "submit_proposal", draft |-> d] : d \in Drafts}
    \cup {[type |-> "decide_approval", decision |-> d, fingerprint |-> p] :
              d \in Decisions, p \in Proposals}
    \cup {[type |-> "execute_approved", fingerprint |-> p] : p \in Proposals}

----------------------------------------------------------------------------
(* A fresh IncidentState; the constructor leaves history empty, the count  *)
(* of effects zero and the episode unnamed until the first reset.          *)
NewState(resets, effects, history) ==
    [phase |-> "awaiting_inspection", context |-> FALSE, proposal |-> None,
     approval |-> None, decision |-> None, cumulative_reward |-> 0,
     authoritative_effect_count |-> effects, history |-> history,
     step_count |-> 0, reset_count |-> resets]

Init ==
    /\ ExecutorInit
    /\ env = [e \in Envs |-> NewState(0, 0, <<>>)]
    /\ paid = 0

(* Mutant: the reward of the previous episode survives a reset.             *)
ResetKeepsReward(e) ==
    /\ env[e].reset_count < MaxResets[e]
    /\ env' = [env EXCEPT ![e] =
                  [NewState(env[e].reset_count + 1, EffectCount, <<"reset">>)
                      EXCEPT !.cumulative_reward = env[e].cumulative_reward]]
    /\ UNCHANGED <<results, paid>>

(* reset() forgets the episode, proposal and approval, never the effects.  *)
Reset(e) ==
    /\ env[e].reset_count < MaxResets[e]
    /\ env' = [env EXCEPT ![e] =
                  NewState(env[e].reset_count + 1, EffectCount, <<"reset">>)]
    /\ UNCHANGED <<results, paid>>

(* Mutant: the observation reports the count read before the handler ran.  *)
ObserveEarly(e, changed, entry, reward) ==
    env' = [env EXCEPT ![e] =
               [changed EXCEPT !.history = Append(@, entry),
                               !.step_count = @ + 1,
                               !.cumulative_reward = @ + reward,
                               !.authoritative_effect_count = EffectCount]]

(***************************************************************************)
(* What every handler ends with: one history entry, the step counted, and  *)
(* in _observe the reward added (in tenths) and the executor's count read. *)
(***************************************************************************)
Observe(e, changed, entry, reward) ==
    env' = [env EXCEPT ![e] =
               [changed EXCEPT !.history = Append(@, entry),
                               !.step_count = @ + 1,
                               !.cumulative_reward = @ + reward,
                               !.authoritative_effect_count = Cardinality(results')]]

----------------------------------------------------------------------------
(* The conditions under which each handler does not raise.                 *)
MayInspect(e, r) ==
    /\ r.type = "inspect_context"
    /\ env[e].phase = "awaiting_inspection"
    /\ ContextReadable(IncidentOf[e], r.service)

MaySubmit(e, r) ==
    /\ r.type = "submit_proposal"
    /\ env[e].phase = "awaiting_proposal"
    /\ env[e].context
    /\ DraftPermitted(IncidentOf[e], r.draft)

(* Mutant: a decision is accepted whenever an approval request exists.      *)
MayDecideAnytime(e, r) ==
    /\ r.type = "decide_approval"
    /\ env[e].approval # None
    /\ r.fingerprint = env[e].approval

MayDecide(e, r) ==
    /\ r.type = "decide_approval"
    /\ env[e].phase = "awaiting_approval"
    /\ env[e].approval # None
    /\ r.fingerprint = env[e].approval

(* Mutant: a pending approval request is enough to execute.                 *)
MayExecuteUndecided(e, r) ==
    /\ r.type = "execute_approved"
    /\ env[e].phase \in {"awaiting_approval", "approved", "completed"}
    /\ env[e].approval # None
    /\ r.fingerprint = env[e].approval

MayExecute(e, r) ==
    /\ r.type = "execute_approved"
    /\ env[e].phase \in {"approved", "completed"}
    /\ env[e].proposal # None
    /\ env[e].approval # None
    /\ r.fingerprint = env[e].approval

----------------------------------------------------------------------------
Inspect(e, r) ==
    /\ MayInspect(e, r)
    /\ UNCHANGED <<results, paid>>
    /\ Observe(e, [env[e] EXCEPT !.context = TRUE, !.phase = "awaiting_proposal"],
               "context_inspected", 1)

Submit(e, r) ==
    /\ MaySubmit(e, r)
    /\ UNCHANGED <<results, paid>>
    /\ LET p == FromDraft(IncidentOf[e], r.draft)
       IN  Observe(e, [env[e] EXCEPT !.proposal = p, !.approval = p,
                                     !.phase = "awaiting_approval"],
                   "proposal_submitted", 2)

(* The verdict is recorded before its consequences are.                    *)
Approve(e, r) ==
    /\ MayDecide(e, r) /\ r.decision = "approve"
    /\ UNCHANGED <<results, paid>>
    /\ Observe(e, [env[e] EXCEPT !.decision = "approve", !.phase = "approved"],
               "approval:approve", 2)

(* Mutant: a revision forgets to drop the proposal under review.            *)
ReviseKeepsProposal(e, r) ==
    /\ MayDecide(e, r) /\ r.decision = "revise"
    /\ UNCHANGED <<results, paid>>
    /\ Observe(e, [env[e] EXCEPT !.decision = "revise", !.phase = "awaiting_proposal"],
               "approval:revise", 0)

(* A revision drops the proposal and its approval request.                 *)
Revise(e, r) ==
    /\ MayDecide(e, r) /\ r.decision = "revise"
    /\ UNCHANGED <<results, paid>>
    /\ Observe(e, [env[e] EXCEPT !.decision = "revise", !.proposal = None,
                                 !.approval = None, !.phase = "awaiting_proposal"],
               "approval:revise", 0)

(* A denial or an expiry ends the episode and keeps the proposal.          *)
Close(e, r) ==
    /\ MayDecide(e, r) /\ r.decision \in {"deny", "expire"}
    /\ UNCHANGED <<results, paid>>
    /\ LET closed == IF r.decision = "deny" THEN "denied" ELSE "expired"
       IN  Observe(e, [env[e] EXCEPT !.decision = r.decision, !.phase = closed],
                   IF r.decision = "deny" THEN "approval:deny" ELSE "approval:expire", 5)

(* Mutant: a replay earns the completion reward again.                      *)
ExecutePaysReplays(e, r) ==
    /\ MayExecute(e, r)
    /\ LET key == IdempotencyKey(IncidentOf[e], env[e].proposal)
       IN  /\ Execute(key)
           /\ paid' = paid + 1
           /\ Observe(e, [env[e] EXCEPT !.phase = "completed"],
                      IF Replayed(key) THEN "execution_replayed"
                                       ELSE "execution_completed", 10)

(* The executor decides whether this is the effect or a replay of it; only *)
(* the effect itself earns the completion reward.                          *)
ExecuteApproved(e, r) ==
    /\ MayExecute(e, r)
    /\ LET key == IdempotencyKey(IncidentOf[e], env[e].proposal)
           reward == IF Replayed(key) THEN 0 ELSE 10
       IN  /\ Execute(key)
           /\ paid' = IF reward = 10 THEN paid + 1 ELSE paid
           /\ Observe(e, [env[e] EXCEPT !.phase = "completed"],
                      IF Replayed(key) THEN "execution_replayed"
                                       ELSE "execution_completed", reward)

(* Any exception of a handler becomes an observation worth -1.             *)
Reject(e, r) ==
    /\ ~(MayInspect(e, r) \/ MaySubmit(e, r) \/ MayDecide(e, r) \/ MayExecute(e, r))
    /\ UNCHANGED <<results, paid>>
    /\ Observe(e, env[e], "rejected", -10)

Step(e, r) ==
    /\ env[e].step_count < MaxSteps[e]
    /\ \/ Inspect(e, r)
       \/ Submit(e, r)
       \/ Approve(e, r) \/ Revise(e, r) \/ Close(e, r)
       \/ ExecuteApproved(e, r)
       \/ Reject(e, r)

Next == \E e \in Envs : Reset(e) \/ \E r \in Requests : Step(e, r)

Spec == Init /\ [][Next]_vars

----------------------------------------------------------------------------
UnderReview == {"awaiting_approval", "approved", "completed", "denied", "expired"}

EnvState ==
    [phase : Phases, context : BOOLEAN,
     proposal : Proposals \cup {None}, approval : Proposals \cup {None},
     decision : Decisions \cup {None}, cumulative_reward : Int,
     authoritative_effect_count : Nat, history : Seq(Tags),
     step_count : Nat, reset_count : Nat]

Coherent(e) ==
    /\ env[e].proposal = env[e].approval
    /\ env[e].proposal # None <=> env[e].phase \in UnderReview
    /\ env[e].context <=> env[e].phase # "awaiting_inspection"

(* Every environment's fields have their types, and the fields a phase     *)
(* relies on are there: a proposal and its approval request exist, and     *)
(* agree, exactly from submission until a revision or a reset.             *)
TypeOK ==
    /\ env \in [Envs -> EnvState]
    /\ results \subseteq Keys
    /\ paid \in Nat
    /\ \A e \in Envs : Coherent(e)

(* The completion reward (1.0) is handed out once per authoritative        *)
(* effect, whatever environments, resets and repeated executions share the *)
(* executor: reward cannot be earned by replaying an effect.               *)
PaidOncePerEffect == paid = EffectCount

Count(e, tags) == Cardinality({i \in DOMAIN env[e].history : env[e].history[i] \in tags})

Executions == {"execution_completed", "execution_replayed"}

(* The episode's history accounts for it, although each handler writes     *)
(* entry, counter and reward separately: one entry per step and per reset, *)
(* and a cumulative reward that is the worth of the entries.  Every        *)
(* execution has an approval before it, with nothing between them but      *)
(* executions and rejected requests; and it completes its effect at most   *)
(* once, every later execution being a replay.                             *)
HistoryAudits ==
    \A e \in Envs : LET h == env[e].history IN
        /\ Len(h) = env[e].step_count + (IF env[e].reset_count > 0 THEN 1 ELSE 0)
        /\ env[e].cumulative_reward =
                   Count(e, {"context_inspected"})
             + 2 * Count(e, {"proposal_submitted", "approval:approve"})
             + 5 * Count(e, {"approval:deny", "approval:expire"})
             + 10 * Count(e, {"execution_completed"})
             - 10 * Count(e, {"rejected"})
        /\ \A i \in DOMAIN h : h[i] \in Executions =>
              \E j \in 1..(i - 1) :
                  /\ h[j] = "approval:approve"
                  /\ \A k \in (j + 1)..(i - 1) : h[k] \in Executions \cup {"rejected"}
        /\ \A i, j \in DOMAIN h :
              h[i] = "execution_completed" /\ h[j] \in Executions => i <= j

(* The count an environment reports is read at its own last step, so it    *)
(* may be stale, but it never exceeds the executor's count and always      *)
(* includes the effect of the environment's own execution.                 *)
ReportedCountIsPast ==
    \A e \in Envs :
        /\ env[e].authoritative_effect_count <= EffectCount
        /\ env[e].phase = "completed" => env[e].authoritative_effect_count > 0

(* Rewards, the executor and the reported counts agree, whatever           *)
(* environments and episodes share the executor.                           *)
EffectsAccounted == PaidOncePerEffect /\ ReportedCountIsPast

(* A denial or an expiry persists: until the environment is reset, no      *)
(* request of any kind reopens the episode or changes the decision, and a  *)
(* completed episode stays completed.                                      *)
DecisionPersists ==
    [][\A e \in Envs :
          env[e].phase \in {"denied", "expired", "completed"}
              => \/ env'[e].reset_count > env[e].reset_count
                 \/ /\ env'[e].phase = env[e].phase
                    /\ env'[e].decision = env[e].decision]_vars

(* The environments implement the approval gate: an environment holds an   *)
(* approval from the decision until its next reset.                        *)
Standing ==
    {<<e, IdempotencyKey(IncidentOf[e], env[e].proposal)>> :
         e \in {d \in Envs : env[d].phase \in {"approved", "completed"}}}

Gate == INSTANCE ApprovalGate
            WITH Actors <- Envs, standing <- Standing, effects <- results

ImplementsGate == Gate!Spec

(* One delivery, one authoritative effect, however often it is delivered:  *)
(* what the test catalog asks of a duplicate delivery (docs/RESEARCH_PLAN  *)
(* .md:97).                                                                *)
OneEffectPerDelivery == \A k, l \in results : k[1] = l[1] => k = l
==================================================================================
