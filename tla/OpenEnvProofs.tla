------------------------------ MODULE OpenEnvProofs ------------------------------
(***************************************************************************)
(* Proofs about OpenEnvIncident: its types, that it implements the         *)
(* approval gate, and that the completion reward is paid once per effect,  *)
(* for any set of environments, incidents and drafts.                      *)
(***************************************************************************)
EXTENDS OpenEnvIncident, FiniteSetTheorems, TLAPS

Fields == env \in [Envs -> EnvState]

(* What a request of each kind carries.                                    *)
LEMMA RequestFields ==
    ASSUME NEW r \in Requests
    PROVE  /\ r.type = "submit_proposal" => r.draft \in Drafts
           /\ r.type = "decide_approval" => r.decision \in Decisions
           /\ r.type = "execute_approved" => r.fingerprint \in Proposals
BY DEF Requests

(* Observing adds to the accounts and leaves every other field as the      *)
(* handler changed it, and every other environment alone.                  *)
LEMMA Observed ==
    ASSUME Fields, NEW e \in Envs, NEW changed \in EnvState,
           NEW entry \in Tags, NEW reward \in Int,
           Cardinality(results') \in Nat, Observe(e, changed, entry, reward)
    PROVE  /\ Fields'
           /\ \A f \in Envs \ {e} : env'[f] = env[f]
           /\ env'[e].phase = changed.phase
           /\ env'[e].proposal = changed.proposal
           /\ env'[e].approval = changed.approval
           /\ env'[e].context = changed.context
           /\ env'[e].decision = changed.decision
           /\ env'[e].reset_count = changed.reset_count
           /\ env'[e].authoritative_effect_count = Cardinality(results')
<1> DEFINE after == [changed EXCEPT !.history = Append(@, entry),
                                    !.step_count = @ + 1,
                                    !.cumulative_reward = @ + reward,
                                    !.authoritative_effect_count = Cardinality(results')]
<1>1. env' = [env EXCEPT ![e] = after]
    BY DEF Observe
<1>2. Append(changed.history, entry) \in Seq(Tags)
    BY DEF EnvState
<1>3. /\ changed.step_count + 1 \in Nat
      /\ changed.cumulative_reward + reward \in Int
    BY DEF EnvState
<1>4. after \in EnvState
    BY <1>2, <1>3 DEF EnvState
<1>5. /\ after.phase = changed.phase /\ after.proposal = changed.proposal
      /\ after.approval = changed.approval /\ after.context = changed.context
      /\ after.decision = changed.decision /\ after.reset_count = changed.reset_count
      /\ after.authoritative_effect_count = Cardinality(results')
    BY DEF EnvState
<1> HIDE DEF after
<1>6. env'[e] = after
    BY <1>1 DEF Fields
<1> QED
    BY <1>1, <1>4, <1>5, <1>6 DEF Fields
----------------------------------------------------------------------------
(* The ways a step of environment e moves it, as far as the properties     *)
(* tell them apart.                                                        *)
Quiet == results' = results /\ paid' = paid

Restarted(e) ==
    /\ Quiet
    /\ env'[e].phase = "awaiting_inspection"
    /\ env'[e].reset_count > env[e].reset_count

Refused(e) ==
    /\ Quiet
    /\ env'[e].phase = env[e].phase
    /\ env'[e].proposal = env[e].proposal
    /\ env'[e].decision = env[e].decision

Reviewed(e) ==
    /\ Quiet
    /\ env[e].phase \in {"awaiting_inspection", "awaiting_proposal", "awaiting_approval"}
    /\ env'[e].phase \notin {"approved", "completed"}

Granted(e) ==
    /\ Quiet
    /\ env[e].phase = "awaiting_approval"
    /\ env'[e].phase = "approved"
    /\ env'[e].proposal \in Proposals

Key(e) == IdempotencyKey(IncidentOf[e], env[e].proposal)

Executed(e) ==
    /\ env[e].phase \in {"approved", "completed"}
    /\ env'[e].phase = "completed"
    /\ env'[e].proposal = env[e].proposal
    /\ env'[e].decision = env[e].decision
    /\ env[e].proposal \in Proposals
    /\ results' = results \cup {Key(e)}
    /\ paid' = IF Key(e) \in results THEN paid ELSE paid + 1

Moved(e) == Restarted(e) \/ Refused(e) \/ Reviewed(e) \/ Granted(e) \/ Executed(e)

(* The inductive invariant: the types, and the table of effects is finite  *)
(* and has been paid for.                                                  *)
Accounted == IsFiniteSet(results) /\ paid = Cardinality(results)

IInv == TypeOK /\ Accounted

(* Every step moves one environment, keeps its fields coherent and shows   *)
(* it the count of effects; the others are not touched.                    *)
Moving(e) ==
    /\ \A f \in Envs \ {e} : env'[f] = env[f]
    /\ env'[e].authoritative_effect_count = Cardinality(results')
    /\ Coherent(e)'
    /\ Fields'
    /\ Moved(e)

(* A reset restarts its environment and keeps the effects. *)
LEMMA ResetMoves ==
    ASSUME IInv, NEW e \in Envs, Reset(e)
    PROVE  Moving(e)
<1> DEFINE n == env[e].reset_count + 1
           m == EffectCount
           h == <<"reset">>
           fresh == NewState(n, m, h)
<1>1. n \in Nat /\ n > env[e].reset_count
    BY DEF IInv, TypeOK, EnvState
<1>2. m \in Nat
    BY FS_CardinalityType DEF IInv, Accounted, EffectCount
<1>3. h \in Seq(Tags)
    BY DEF Tags
<1>5. env' = [env EXCEPT ![e] = fresh] /\ Quiet
    BY DEF Reset, Quiet
<1>a. m = EffectCount
    OBVIOUS
<1> HIDE DEF n, m, h
<1>4. /\ fresh \in EnvState /\ fresh.phase = "awaiting_inspection"
      /\ fresh.proposal = None /\ fresh.approval = None /\ fresh.context = FALSE
      /\ fresh.reset_count = n /\ fresh.authoritative_effect_count = m
    BY <1>1, <1>2, <1>3 DEF NewState, EnvState, Phases
<1> HIDE DEF fresh
<1>6. env'[e] = fresh /\ Fields' /\ \A f \in Envs \ {e} : env'[f] = env[f]
    BY <1>4, <1>5 DEF IInv, TypeOK, Fields
<1>7. Coherent(e)'
    BY <1>4, <1>6 DEF Coherent, UnderReview
<1>8. Restarted(e)
    BY <1>1, <1>4, <1>5, <1>6 DEF Restarted
<1>9. env'[e].authoritative_effect_count = Cardinality(results')
    BY <1>4, <1>5, <1>6, <1>a DEF Quiet, EffectCount
<1> QED
    BY <1>6, <1>7, <1>8, <1>9 DEF Moving, Moved

(* The steps that leave the effects alone: inspecting, submitting,         *)
(* deciding, and being rejected.                                           *)
LEMMA ReviewMoves ==
    ASSUME IInv, NEW e \in Envs, NEW r \in Requests,
           \/ Inspect(e, r) \/ Submit(e, r) \/ Approve(e, r)
           \/ Revise(e, r) \/ Close(e, r) \/ Reject(e, r)
    PROVE  Moving(e)
<1>1. /\ Fields /\ Coherent(e)
      /\ env[e] \in EnvState
    BY DEF IInv, TypeOK, Fields
<1>2. Quiet /\ Cardinality(results') \in Nat
    BY FS_CardinalityType
       DEF IInv, Accounted, Quiet, Inspect, Submit, Approve, Revise, Close, Reject
<1>3. CASE Inspect(e, r)
    <2> DEFINE changed == [env[e] EXCEPT !.context = TRUE, !.phase = "awaiting_proposal"]
    <2>1. /\ changed \in EnvState /\ changed.phase = "awaiting_proposal"
          /\ changed.context = TRUE /\ changed.proposal = env[e].proposal
          /\ changed.approval = env[e].approval
        BY <1>1 DEF EnvState, Phases
    <2>2. Observe(e, changed, "context_inspected", 1) /\ env[e].phase = "awaiting_inspection"
        BY <1>3 DEF Inspect, MayInspect
    <2> HIDE DEF changed
    <2>3. Moving(e)
        BY <1>1, <1>2, <2>1, <2>2, Observed
           DEF Moving, Moved, Reviewed, Coherent, UnderReview, Tags
    <2> QED BY <2>3
<1>4. CASE Submit(e, r)
    <2> DEFINE p == FromDraft(IncidentOf[e], r.draft)
               changed == [env[e] EXCEPT !.proposal = p, !.approval = p,
                                         !.phase = "awaiting_approval"]
    <2>1. p \in Proposals /\ p # None
        BY <1>4, RequestFields, OpenEnvAssumption DEF Submit, MaySubmit, Proposals
    <2>2. Observe(e, changed, "proposal_submitted", 2) /\ env[e].phase = "awaiting_proposal"
        BY <1>4 DEF Submit, MaySubmit
    <2> HIDE DEF p
    <2>3. /\ changed \in EnvState /\ changed.phase = "awaiting_approval"
          /\ changed.context = env[e].context /\ changed.proposal = p
          /\ changed.approval = p
        BY <1>1, <2>1 DEF EnvState, Phases
    <2> HIDE DEF changed
    <2>4. Moving(e)
        BY <1>1, <1>2, <2>1, <2>2, <2>3, Observed
           DEF Moving, Moved, Reviewed, Coherent, UnderReview, Tags
    <2> QED BY <2>4
<1>5. CASE Approve(e, r)
    <2> DEFINE changed == [env[e] EXCEPT !.decision = "approve", !.phase = "approved"]
    <2>1. /\ changed \in EnvState /\ changed.phase = "approved"
          /\ changed.context = env[e].context /\ changed.proposal = env[e].proposal
          /\ changed.approval = env[e].approval
        BY <1>1 DEF EnvState, Phases, Decisions
    <2>2. Observe(e, changed, "approval:approve", 2) /\ env[e].phase = "awaiting_approval"
        BY <1>5 DEF Approve, MayDecide
    <2>3. env[e].proposal \in Proposals
        BY <1>1, <2>2 DEF EnvState, Coherent, UnderReview
    <2> HIDE DEF changed
    <2>4. Moving(e)
        BY <1>1, <1>2, <2>1, <2>2, <2>3, Observed
           DEF Moving, Moved, Granted, Coherent, UnderReview, Tags
    <2> QED BY <2>4
<1>6. CASE Revise(e, r)
    <2> DEFINE changed == [env[e] EXCEPT !.decision = "revise", !.proposal = None,
                                 !.approval = None, !.phase = "awaiting_proposal"]
    <2>1. /\ changed \in EnvState /\ changed.phase = "awaiting_proposal"
          /\ changed.context = env[e].context /\ changed.proposal = None
          /\ changed.approval = None
        BY <1>1 DEF EnvState, Phases, Decisions
    <2>2. Observe(e, changed, "approval:revise", 0) /\ env[e].phase = "awaiting_approval"
        BY <1>6 DEF Revise, MayDecide
    <2> HIDE DEF changed
    <2>3. Moving(e)
        BY <1>1, <1>2, <2>1, <2>2, Observed
           DEF Moving, Moved, Reviewed, Coherent, UnderReview, Tags
    <2> QED BY <2>3
<1>7. CASE Close(e, r)
    <2> DEFINE closed == IF r.decision = "deny" THEN "denied" ELSE "expired"
               tag == IF r.decision = "deny" THEN "approval:deny" ELSE "approval:expire"
               changed == [env[e] EXCEPT !.decision = r.decision, !.phase = closed]
    <2>1. /\ closed \in {"denied", "expired"} /\ tag \in Tags
          /\ r.decision \in Decisions
        BY <1>7, RequestFields DEF Close, MayDecide, Tags
    <2>2. Observe(e, changed, tag, 5) /\ env[e].phase = "awaiting_approval"
        BY <1>7 DEF Close, MayDecide
    <2> HIDE DEF closed, tag
    <2>3. /\ changed \in EnvState /\ changed.phase = closed
          /\ changed.context = env[e].context /\ changed.proposal = env[e].proposal
          /\ changed.approval = env[e].approval
        BY <1>1, <2>1 DEF EnvState, Phases, Decisions
    <2> HIDE DEF changed
    <2>4. Moving(e)
        BY <1>1, <1>2, <2>1, <2>2, <2>3, Observed
           DEF Moving, Moved, Reviewed, Coherent, UnderReview
    <2> QED BY <2>4
<1>8. CASE Reject(e, r)
    <2>1. Observe(e, env[e], "rejected", -10)
        BY <1>8 DEF Reject
    <2>2. Moving(e)
        BY <1>1, <1>2, <2>1, Observed
           DEF Moving, Moved, Refused, Coherent, UnderReview, Tags
    <2> QED BY <2>2
<1> QED
    BY <1>3, <1>4, <1>5, <1>6, <1>7, <1>8

(* Executing: the key joins the effects, and is paid for if it is new.     *)
LEMMA ExecutionMoves ==
    ASSUME IInv, NEW e \in Envs, NEW r \in Requests, ExecuteApproved(e, r)
    PROVE  Moving(e)
<1>1. Fields /\ Coherent(e) /\ env[e] \in EnvState
    BY DEF IInv, TypeOK, Fields
<1>2. env[e].phase \in {"approved", "completed"} /\ env[e].proposal \in Proposals
    BY <1>1 DEF ExecuteApproved, MayExecute, EnvState
<1>3. /\ results' = results \cup {Key(e)}
      /\ paid' = IF Key(e) \in results THEN paid ELSE paid + 1
    BY DEF ExecuteApproved, Execute, Replayed, Key
<1>4. Cardinality(results') \in Nat
    BY <1>3, FS_AddElement, FS_CardinalityType DEF IInv, Accounted
<1> DEFINE changed == [env[e] EXCEPT !.phase = "completed"]
           tag == IF Replayed(Key(e)) THEN "execution_replayed" ELSE "execution_completed"
           reward == IF Replayed(Key(e)) THEN 0 ELSE 10
<1>5. Observe(e, changed, tag, reward)
    BY DEF ExecuteApproved, Key
<1>6. tag \in Tags /\ reward \in Int
    BY DEF Tags
<1>7. /\ changed \in EnvState /\ changed.phase = "completed"
      /\ changed.context = env[e].context /\ changed.proposal = env[e].proposal
      /\ changed.approval = env[e].approval /\ changed.decision = env[e].decision
    BY <1>1 DEF EnvState, Phases
<1> HIDE DEF changed, tag, reward
<1>8. Moving(e)
    BY <1>1, <1>2, <1>3, <1>4, <1>5, <1>6, <1>7, Observed
       DEF Moving, Moved, Executed, Coherent, UnderReview
<1> QED BY <1>8

(* Every step of the specification moves some environment.                 *)
LEMMA NextMoves ==
    ASSUME IInv, Next
    PROVE  \E e \in Envs : Moving(e)
BY ResetMoves, ReviewMoves, ExecutionMoves DEF Next, Step
----------------------------------------------------------------------------
(* A fresh process satisfies the invariant. *)
LEMMA InitIInv == Init => IInv
<1> SUFFICES ASSUME Init PROVE IInv
    OBVIOUS
<1> DEFINE fresh == NewState(0, 0, <<>>)
<1>1. /\ fresh \in EnvState /\ fresh.phase = "awaiting_inspection"
      /\ fresh.proposal = None /\ fresh.approval = None /\ fresh.context = FALSE
    <2>1. <<>> \in Seq(Tags)
        OBVIOUS
    <2> QED BY <2>1 DEF NewState, EnvState, Phases
<1>2. env = [e \in Envs |-> fresh] /\ results = {} /\ paid = 0
    BY DEF Init, ExecutorInit
<1> HIDE DEF fresh
<1>3. TypeOK
    BY <1>1, <1>2 DEF TypeOK, Coherent, UnderReview
<1>4. Accounted
    BY <1>2, FS_EmptySet DEF Accounted
<1> QED BY <1>3, <1>4 DEF IInv

(* One moved environment preserves the invariant.                          *)
LEMMA MovingKeepsIInv ==
    ASSUME IInv, NEW e \in Envs, Moving(e)
    PROVE  IInv'
<1>1. \A f \in Envs : Coherent(f)'
    BY DEF IInv, TypeOK, Moving, Coherent
<1>2. CASE results' = results /\ paid' = paid
    BY <1>1, <1>2 DEF IInv, TypeOK, Accounted, Moving, Fields, Coherent
<1>3. CASE Executed(e)
    <2>1. Key(e) \in Keys
        BY <1>3 DEF Executed, Key, Keys
    <2>2. TypeOK'
        BY <1>1, <1>3, <2>1 DEF IInv, TypeOK, Moving, Fields, Executed
    <2>3. Accounted'
        BY <1>3, FS_AddElement, FS_CardinalityType DEF IInv, Accounted, Executed
    <2> QED BY <2>2, <2>3 DEF IInv
<1> QED
    BY <1>2, <1>3 DEF Moving, Moved, Restarted, Refused, Reviewed, Granted, Quiet

(* The invariant is inductive. *)
LEMMA Inductive == Spec => []IInv
<1>1. IInv /\ [Next]_vars => IInv'
    <2>1. CASE UNCHANGED vars
        BY <2>1 DEF vars, IInv, TypeOK, Accounted, Coherent
    <2>2. CASE Next
        BY <2>2, NextMoves, MovingKeepsIInv
    <2> QED BY <2>1, <2>2
<1> QED BY InitIInv, <1>1, PTL DEF Spec

(* The fields a phase relies on are there, in every environment, after any *)
(* sequence of requests and resets (step, reset).                          *)
THEOREM TypeCorrect == Spec => []TypeOK
BY Inductive, PTL DEF IInv

(* The completion reward is paid once per authoritative effect (_execute). *)
THEOREM PaidOnce == Spec => []PaidOncePerEffect
<1>1. IInv => PaidOncePerEffect
    BY DEF IInv, Accounted, PaidOncePerEffect, EffectCount
<1> QED BY <1>1, Inductive, PTL

----------------------------------------------------------------------------
(* A denial, an expiry or a completion persists until the next reset       *)
(* (_decide, _execute).                                                    *)
THEOREM Persistent == Spec => DecisionPersists
<1> DEFINE Kept(e) ==
        env[e].phase \in {"denied", "expired", "completed"}
            => \/ env'[e].reset_count > env[e].reset_count
               \/ /\ env'[e].phase = env[e].phase
                  /\ env'[e].decision = env[e].decision
<1>1. IInv /\ Next => \A e \in Envs : Kept(e)
    <2> SUFFICES ASSUME IInv, Next, NEW f \in Envs PROVE Kept(f)
        OBVIOUS
    <2>1. PICK e \in Envs : Moving(e)
        BY NextMoves
    <2>2. CASE f # e
        BY <2>1, <2>2 DEF Moving
    <2>3. CASE f = e
        BY <2>1, <2>3
           DEF Moving, Moved, Restarted, Refused, Reviewed, Granted, Executed
    <2> QED BY <2>2, <2>3
<1>2. IInv /\ [Next]_vars => [\A e \in Envs : Kept(e)]_vars
    BY <1>1
<1> QED BY <1>2, Inductive, PTL DEF Spec, DecisionPersists

(* What an environment reports of the effects is what the executor counted *)
(* at the environment's last step: never more than there are, and at least *)
(* its own (_observe).                                                     *)
THEOREM ReportedPast == Spec => []ReportedCountIsPast
<1>1. Init => ReportedCountIsPast
    <2> SUFFICES ASSUME Init PROVE ReportedCountIsPast
        OBVIOUS
    <2>2. \A e \in Envs : /\ env[e].phase = "awaiting_inspection"
                          /\ env[e].authoritative_effect_count = 0
        BY DEF Init, NewState
    <2> QED
        BY <2>2, FS_EmptySet DEF Init, ExecutorInit, ReportedCountIsPast, EffectCount
<1>2. IInv /\ IInv' /\ ReportedCountIsPast /\ [Next]_vars => ReportedCountIsPast'
    <2> SUFFICES ASSUME IInv, IInv', ReportedCountIsPast, [Next]_vars
                 PROVE  ReportedCountIsPast'
        OBVIOUS
    <2>1. CASE UNCHANGED vars
        BY <2>1 DEF vars, ReportedCountIsPast, EffectCount
    <2>2. CASE Next
        <3>1. PICK e \in Envs : Moving(e)
            BY <2>2, NextMoves
        <3>2. results \subseteq results'
            BY <3>1 DEF Moving, Moved, Restarted, Refused, Reviewed, Granted,
                        Executed, Quiet
        <3>3. /\ IsFiniteSet(results') /\ Cardinality(results') \in Nat
              /\ Cardinality(results) \in Nat
              /\ Cardinality(results) <= Cardinality(results')
            BY <3>2, FS_Subset, FS_CardinalityType DEF IInv, Accounted
        <3>4. \A f \in Envs \ {e} :
                 /\ env'[f].authoritative_effect_count <= Cardinality(results')
                 /\ env'[f].phase = "completed" => env'[f].authoritative_effect_count > 0
            BY <3>1, <3>3 DEF Moving, ReportedCountIsPast, EffectCount, IInv, TypeOK, EnvState
        <3>5. /\ env'[e].authoritative_effect_count <= Cardinality(results')
              /\ env'[e].phase = "completed" => Cardinality(results') > 0
            <4>1. env'[e].authoritative_effect_count = Cardinality(results')
                BY <3>1 DEF Moving
            <4>2. CASE Executed(e)
                <5>1. results' # {}
                    BY <4>2 DEF Executed
                <5> QED BY <3>3, <4>1, <5>1, FS_EmptySet
            <4>3. CASE Refused(e)
                BY <3>3, <4>1, <4>3 DEF Refused, ReportedCountIsPast, EffectCount,
                                        IInv, TypeOK, EnvState
            <4>4. CASE Restarted(e) \/ Reviewed(e) \/ Granted(e)
                BY <3>3, <4>1, <4>4 DEF Restarted, Reviewed, Granted
            <4> QED BY <3>1, <4>2, <4>3, <4>4 DEF Moving, Moved
        <3> QED
            BY <3>1, <3>4, <3>5 DEF Moving, ReportedCountIsPast, EffectCount
    <2> QED BY <2>1, <2>2
<1> QED BY <1>1, <1>2, Inductive, PTL DEF Spec

(* Rewards and reported counts account for the effects of the shared       *)
(* executor (_execute, _observe, reset).                                   *)
THEOREM Accounting == Spec => []EffectsAccounted
BY PaidOnce, ReportedPast, PTL DEF EffectsAccounted

----------------------------------------------------------------------------
(* The environments implement the approval gate: an effect happens only    *)
(* under an approval of exactly that action, standing in the environment   *)
(* that executes it, and an approval is replaced only after it has been    *)
(* withdrawn (_decide, _execute, reset).                                   *)
THEOREM GateImplemented == Spec => ImplementsGate
<1>1. Init => Gate!Init
    <2> SUFFICES ASSUME Init PROVE Standing = {} /\ results = {}
        BY DEF Gate!Init
    <2>2. \A e \in Envs : env[e].phase = "awaiting_inspection"
        BY DEF Init, NewState
    <2> QED BY <2>2 DEF Init, ExecutorInit, Standing
<1>2. IInv /\ [Next]_vars => [Gate!Next]_Gate!vars
    <2> SUFFICES ASSUME IInv, [Next]_vars PROVE [Gate!Next]_Gate!vars
        OBVIOUS
    <2> DEFINE Held(f) == env[f].phase \in {"approved", "completed"}
    <2>1. CASE UNCHANGED vars
        BY <2>1 DEF vars, Gate!vars, Standing
    <2>2. CASE Next
        <3>1. PICK e \in Envs : Moving(e)
            BY <2>2, NextMoves
        <3>2. \A f \in Envs \ {e} : Held(f)' = Held(f) /\ Key(f)' = Key(f)
            BY <3>1 DEF Moving, Key
        <3>3. /\ Standing = {<<f, Key(f)>> : f \in {d \in Envs : Held(d)}}
              /\ Standing' = {<<f, Key(f)'>> : f \in {d \in Envs : Held(d)'}}
            BY DEF Standing, Key
        <3> HIDE DEF Held
        <3>4. CASE Held(e) /\ Held(e)' /\ Key(e)' = Key(e)
            <4>1. Standing' = Standing
                BY <3>2, <3>3, <3>4
            <4>2. CASE results' = results
                BY <4>1, <4>2 DEF Gate!vars
            <4>3. CASE Executed(e)
                <5>1. <<e, Key(e)>> \in Standing /\ Key(e) \in Keys
                    BY <3>3, <3>4, <4>3 DEF Executed, Key, Keys
                <5>2. Gate!Perform(e, Key(e))
                    BY <4>1, <4>3, <5>1 DEF Gate!Perform, Executed
                <5> QED BY <5>1, <5>2 DEF Gate!Next
            <4> QED
                BY <3>1, <4>2, <4>3
                   DEF Moving, Moved, Restarted, Refused, Reviewed, Granted, Quiet
        <3>5. CASE ~Held(e) /\ Held(e)'
            <4>1. results' = results /\ Key(e)' \in Keys
                BY <3>1, <3>5 DEF Held, Moving, Moved, Restarted, Refused, Reviewed,
                                  Granted, Executed, Quiet, Key, Keys
            <4>2. \A p \in Standing : p[1] # e
                BY <3>3, <3>5
            <4>3. Standing' = Standing \cup {<<e, Key(e)'>>}
                BY <3>2, <3>3, <3>5
            <4>4. Gate!Approve(e, Key(e)')
                BY <4>1, <4>2, <4>3 DEF Gate!Approve
            <4> QED BY <4>1, <4>4 DEF Gate!Next
        <3>6. CASE ~Held(e)'
            <4>1. results' = results
                BY <3>1, <3>6 DEF Held, Moving, Moved, Restarted, Refused, Reviewed,
                                  Granted, Executed, Quiet
            <4>2. Standing' = {p \in Standing : p[1] # e}
                BY <3>2, <3>3, <3>6
            <4>3. Gate!Withdraw(e)
                BY <4>1, <4>2 DEF Gate!Withdraw
            <4> QED BY <4>3 DEF Gate!Next
        <3>7. Held(e) /\ Held(e)' => Key(e)' = Key(e)
            BY <3>1 DEF Held, Moving, Moved, Restarted, Refused, Reviewed, Granted,
                        Executed, Key
        <3> QED BY <3>4, <3>5, <3>6, <3>7
    <2> QED BY <2>1, <2>2
<1> QED BY <1>1, <1>2, Inductive, PTL DEF Spec, ImplementsGate, Gate!Spec
----------------------------------------------------------------------------
(* The history of an episode: how often a history has the tags, and what   *)
(* its entries are worth together (in tenths).                             *)
Counted(h, tags) == Cardinality({i \in DOMAIN h : h[i] \in tags})

Earned(h) ==
             Counted(h, {"context_inspected"})
       + 2 * Counted(h, {"proposal_submitted", "approval:approve"})
       + 5 * Counted(h, {"approval:deny", "approval:expire"})
       + 10 * Counted(h, {"execution_completed"})
       - 10 * Counted(h, {"rejected"})

Worth(tag) ==
    IF tag = "context_inspected" THEN 1
    ELSE IF tag \in {"proposal_submitted", "approval:approve"} THEN 2
    ELSE IF tag \in {"approval:deny", "approval:expire"} THEN 5
    ELSE IF tag = "execution_completed" THEN 10
    ELSE IF tag = "rejected" THEN -10 ELSE 0

(* What an appended entry does to a sequence. *)
LEMMA Appended ==
    ASSUME NEW h \in Seq(Tags), NEW tag \in Tags
    PROVE  /\ Len(h) \in Nat /\ DOMAIN h = 1..Len(h)
           /\ Len(Append(h, tag)) = Len(h) + 1
           /\ DOMAIN Append(h, tag) = 1..(Len(h) + 1)
           /\ \A i \in 1..Len(h) : Append(h, tag)[i] = h[i]
           /\ Append(h, tag)[Len(h) + 1] = tag
OBVIOUS

(* An appended entry is counted once under the tags it is among. *)
LEMMA CountAppended ==
    ASSUME NEW h \in Seq(Tags), NEW tag \in Tags, NEW tags
    PROVE  /\ Counted(h, tags) \in Nat
           /\ Counted(Append(h, tag), tags) =
                 Counted(h, tags) + (IF tag \in tags THEN 1 ELSE 0)
<1> DEFINE g == Append(h, tag)
           n == Len(h) + 1
           S == {i \in DOMAIN h : h[i] \in tags}
           T == {i \in DOMAIN g : g[i] \in tags}
<1>1. /\ Len(h) \in Nat /\ DOMAIN h = 1..Len(h)
      /\ DOMAIN g = 1..(Len(h) + 1)
      /\ \A i \in 1..Len(h) : g[i] = h[i]
      /\ g[Len(h) + 1] = tag
    BY Appended
<1>2. IsFiniteSet(S)
    <2>1. 1 \in Int /\ Len(h) \in Int
        BY <1>1
    <2>2. IsFiniteSet(1..Len(h))
        BY <2>1, FS_Interval
    <2>3. S \subseteq 1..Len(h)
        BY <1>1
    <2> QED BY <2>2, <2>3, FS_Subset
<1> HIDE DEF g
<1>3. T = IF tag \in tags THEN S \cup {n} ELSE S
    BY <1>1
<1>4. n \notin S
    BY <1>1
<1> HIDE DEF S, T, n
<1>5. Cardinality(S) \in Nat
    BY <1>2, FS_CardinalityType
<1>6. Cardinality(T) = Cardinality(S) + (IF tag \in tags THEN 1 ELSE 0)
    <2>1. Cardinality(S \cup {n}) = Cardinality(S) + 1
        BY <1>2, <1>4, FS_AddElement
    <2>2. CASE tag \in tags
        BY <1>3, <2>1, <2>2
    <2>3. CASE tag \notin tags
        BY <1>3, <1>5, <2>3
    <2> QED BY <2>2, <2>3
<1> QED BY <1>5, <1>6 DEF Counted, S, T, g

(* The weighed sum of the counts is linear. *)
LEMMA Weighed ==
    ASSUME NEW a \in Nat, NEW b \in Nat, NEW c \in Nat, NEW d \in Nat, NEW e \in Nat,
           NEW p \in Nat, NEW q \in Nat, NEW r \in Nat, NEW s \in Nat, NEW t \in Nat
    PROVE  /\ a + 2 * b + 5 * c + 10 * d - 10 * e \in Int
           /\ (a + p) + 2 * (b + q) + 5 * (c + r) + 10 * (d + s) - 10 * (e + t) =
                 (a + 2 * b + 5 * c + 10 * d - 10 * e)
                   + (p + 2 * q + 5 * r + 10 * s - 10 * t)
OBVIOUS

(* An appended entry adds its worth. *)
LEMMA EarnedAppended ==
    ASSUME NEW h \in Seq(Tags), NEW tag \in Tags
    PROVE  Earned(h) \in Int /\ Earned(Append(h, tag)) = Earned(h) + Worth(tag)
<1> DEFINE g == Append(h, tag)
           once(tags) == IF tag \in tags THEN 1 ELSE 0
<1>1. ASSUME NEW tags
      PROVE  Counted(h, tags) \in Nat /\ Counted(g, tags) = Counted(h, tags) + once(tags)
    BY CountAppended
<1> DEFINE inspected == {"context_inspected"}
           drafted == {"proposal_submitted", "approval:approve"}
           closed == {"approval:deny", "approval:expire"}
           done == {"execution_completed"}
           refused == {"rejected"}
<1>2. /\ Counted(h, inspected) \in Nat /\ Counted(h, drafted) \in Nat
      /\ Counted(h, closed) \in Nat /\ Counted(h, done) \in Nat
      /\ Counted(h, refused) \in Nat
      /\ Counted(g, inspected) = Counted(h, inspected) + once(inspected)
      /\ Counted(g, drafted) = Counted(h, drafted) + once(drafted)
      /\ Counted(g, closed) = Counted(h, closed) + once(closed)
      /\ Counted(g, done) = Counted(h, done) + once(done)
      /\ Counted(g, refused) = Counted(h, refused) + once(refused)
    BY <1>1
<1>3. Worth(tag) = once(inspected) + 2 * once(drafted) + 5 * once(closed)
                   + 10 * once(done) - 10 * once(refused)
    BY DEF Worth
<1>4. /\ once(inspected) \in Nat /\ once(drafted) \in Nat /\ once(closed) \in Nat
      /\ once(done) \in Nat /\ once(refused) \in Nat
    OBVIOUS
<1>5. \A k \in {h, g} :
        Earned(k) = Counted(k, inspected) + 2 * Counted(k, drafted) + 5 * Counted(k, closed)
                    + 10 * Counted(k, done) - 10 * Counted(k, refused)
    BY DEF Earned
<1> HIDE DEF once, inspected, drafted, closed, done, refused, g
<1>6. Earned(g) = Earned(h) + Worth(tag) /\ Earned(h) \in Int
    <2>1. /\ Earned(g) = Counted(g, inspected) + 2 * Counted(g, drafted)
                         + 5 * Counted(g, closed) + 10 * Counted(g, done)
                         - 10 * Counted(g, refused)
          /\ Earned(h) = Counted(h, inspected) + 2 * Counted(h, drafted)
                         + 5 * Counted(h, closed) + 10 * Counted(h, done)
                         - 10 * Counted(h, refused)
        BY <1>5, Zenon
    <2> DEFINE a == Counted(h, inspected)
               b == Counted(h, drafted)
               c == Counted(h, closed)
               d == Counted(h, done)
               e == Counted(h, refused)
               p == once(inspected)
               q == once(drafted)
               r == once(closed)
               s == once(done)
               t == once(refused)
    <2>2. /\ a \in Nat /\ b \in Nat /\ c \in Nat /\ d \in Nat /\ e \in Nat
          /\ p \in Nat /\ q \in Nat /\ r \in Nat /\ s \in Nat /\ t \in Nat
        BY <1>2, <1>4
    <2>3. Earned(g) = (a + p) + 2 * (b + q) + 5 * (c + r) + 10 * (d + s) - 10 * (e + t)
        BY <1>2, <2>1
    <2>4. /\ Earned(h) = a + 2 * b + 5 * c + 10 * d - 10 * e
          /\ Worth(tag) = p + 2 * q + 5 * r + 10 * s - 10 * t
        BY <1>3, <2>1
    <2> HIDE DEF a, b, c, d, e, p, q, r, s, t
    <2> QED BY <2>2, <2>3, <2>4, Weighed
<1> QED BY <1>6 DEF g

(* Nothing is earned by histories of none of the tags. *)
LEMMA EarnedNothing ==
    /\ Earned(<<>>) = 0
    /\ Earned(<<"reset">>) = 0
<1>1. ASSUME NEW h, h = <<>> \/ h = <<"reset">>, NEW tags, "reset" \notin tags
      PROVE  Counted(h, tags) = 0
    <2>1. {i \in DOMAIN h : h[i] \in tags} = {}
        BY <1>1
    <2> QED BY <2>1, FS_EmptySet DEF Counted
<1>2. ASSUME NEW h, h = <<>> \/ h = <<"reset">>
      PROVE  /\ Counted(h, {"context_inspected"}) = 0
             /\ Counted(h, {"proposal_submitted", "approval:approve"}) = 0
             /\ Counted(h, {"approval:deny", "approval:expire"}) = 0
             /\ Counted(h, {"execution_completed"}) = 0
             /\ Counted(h, {"rejected"}) = 0
    <2>1. /\ "reset" \notin {"context_inspected"}
          /\ "reset" \notin {"proposal_submitted", "approval:approve"}
          /\ "reset" \notin {"approval:deny", "approval:expire"}
          /\ "reset" \notin {"execution_completed"} /\ "reset" \notin {"rejected"}
        OBVIOUS
    <2> QED BY <1>1, <1>2, <2>1
<1> QED BY <1>2 DEF Earned
----------------------------------------------------------------------------
(* A handled request appends one entry, counts one step and adds the worth *)
(* of the entry; what the entry says of the phases and the effects.        *)
Wrote(e, tag) ==
    /\ tag \in Tags
    /\ env'[e].history = Append(env[e].history, tag)
    /\ env'[e].step_count = env[e].step_count + 1
    /\ env'[e].reset_count = env[e].reset_count
    /\ env'[e].cumulative_reward = env[e].cumulative_reward + Worth(tag)
    /\ results \subseteq results'
    /\ tag \in Executions =>
          /\ env[e].phase \in {"approved", "completed"}
          /\ env'[e].phase = "completed"
          /\ env'[e].proposal = env[e].proposal
          /\ Key(e) \in results'
          /\ tag = "execution_completed" => Key(e) \notin results
    /\ tag = "rejected" =>
          /\ env'[e].phase = env[e].phase
          /\ env'[e].proposal = env[e].proposal
    /\ tag \notin Executions \cup {"rejected"} =>
          /\ env[e].phase \notin {"approved", "completed"}
          /\ env'[e].phase # "completed"
          /\ env'[e].phase = "approved" => tag = "approval:approve"

Alone(e) == \A f \in Envs \ {e} : env'[f] = env[f]

(* What observing does to the history and its accounts. *)
LEMMA ObservedHistory ==
    ASSUME Fields, NEW e \in Envs, NEW changed \in EnvState,
           changed.history = env[e].history,
           changed.step_count = env[e].step_count,
           changed.reset_count = env[e].reset_count,
           changed.cumulative_reward = env[e].cumulative_reward,
           NEW entry \in Tags, NEW reward \in Int, Observe(e, changed, entry, reward)
    PROVE  /\ Alone(e)
           /\ env'[e].history = Append(env[e].history, entry)
           /\ env'[e].step_count = env[e].step_count + 1
           /\ env'[e].reset_count = env[e].reset_count
           /\ env'[e].cumulative_reward = env[e].cumulative_reward + reward
           /\ env'[e].phase = changed.phase
           /\ env'[e].proposal = changed.proposal
<1> DEFINE after == [changed EXCEPT !.history = Append(@, entry),
                                    !.step_count = @ + 1,
                                    !.cumulative_reward = @ + reward,
                                    !.authoritative_effect_count = Cardinality(results')]
<1>1. env' = [env EXCEPT ![e] = after]
    BY DEF Observe
<1>2. /\ after.history = Append(env[e].history, entry)
      /\ after.step_count = env[e].step_count + 1
      /\ after.reset_count = env[e].reset_count
      /\ after.cumulative_reward = env[e].cumulative_reward + reward
      /\ after.phase = changed.phase /\ after.proposal = changed.proposal
    BY DEF EnvState
<1> HIDE DEF after
<1>3. env'[e] = after /\ Alone(e)
    BY <1>1 DEF Fields, Alone
<1> QED BY <1>2, <1>3

(* Every step of an episode writes one entry. *)
LEMMA StepWrites ==
    ASSUME IInv, NEW e \in Envs, NEW r \in Requests, Step(e, r)
    PROVE  Alone(e) /\ \E tag \in Tags : Wrote(e, tag)
<1>1. Fields /\ env[e] \in EnvState
    BY DEF IInv, TypeOK, Fields
<1> DEFINE Same(changed) == /\ changed \in EnvState
                            /\ changed.history = env[e].history
                            /\ changed.step_count = env[e].step_count
                            /\ changed.reset_count = env[e].reset_count
                            /\ changed.cumulative_reward = env[e].cumulative_reward
<1>2. CASE Inspect(e, r)
    <2> DEFINE changed == [env[e] EXCEPT !.context = TRUE, !.phase = "awaiting_proposal"]
    <2>1. Same(changed) /\ changed.phase = "awaiting_proposal"
        BY <1>1 DEF EnvState, Phases
    <2>2. /\ Observe(e, changed, "context_inspected", 1) /\ results' = results
          /\ env[e].phase = "awaiting_inspection"
        BY <1>2 DEF Inspect, MayInspect
    <2>3. "context_inspected" \in Tags /\ Worth("context_inspected") = 1
        BY DEF Tags, Worth
    <2> HIDE DEF changed
    <2>4. Alone(e) /\ Wrote(e, "context_inspected")
        BY <1>1, <2>1, <2>2, <2>3, ObservedHistory DEF Wrote, Executions
    <2> QED BY <2>3, <2>4
<1>3. CASE Submit(e, r)
    <2> DEFINE p == FromDraft(IncidentOf[e], r.draft)
               changed == [env[e] EXCEPT !.proposal = p, !.approval = p,
                                         !.phase = "awaiting_approval"]
    <2>1. p \in Proposals
        BY <1>3, RequestFields DEF Submit, MaySubmit, Proposals
    <2>2. /\ Observe(e, changed, "proposal_submitted", 2) /\ results' = results
          /\ env[e].phase = "awaiting_proposal"
        BY <1>3 DEF Submit, MaySubmit
    <2> HIDE DEF p
    <2>3. Same(changed) /\ changed.phase = "awaiting_approval"
        BY <1>1, <2>1 DEF EnvState, Phases
    <2>4. "proposal_submitted" \in Tags /\ Worth("proposal_submitted") = 2
        BY DEF Tags, Worth
    <2> HIDE DEF changed
    <2>5. Alone(e) /\ Wrote(e, "proposal_submitted")
        BY <1>1, <2>2, <2>3, <2>4, ObservedHistory DEF Wrote, Executions
    <2> QED BY <2>4, <2>5
<1>4. CASE Approve(e, r)
    <2> DEFINE changed == [env[e] EXCEPT !.decision = "approve", !.phase = "approved"]
    <2>1. Same(changed) /\ changed.phase = "approved"
        BY <1>1 DEF EnvState, Phases, Decisions
    <2>2. /\ Observe(e, changed, "approval:approve", 2) /\ results' = results
          /\ env[e].phase = "awaiting_approval"
        BY <1>4 DEF Approve, MayDecide
    <2>3. "approval:approve" \in Tags /\ Worth("approval:approve") = 2
        BY DEF Tags, Worth
    <2> HIDE DEF changed
    <2>4. Alone(e) /\ Wrote(e, "approval:approve")
        BY <1>1, <2>1, <2>2, <2>3, ObservedHistory DEF Wrote, Executions
    <2> QED BY <2>3, <2>4
<1>5. CASE Revise(e, r)
    <2> DEFINE changed == [env[e] EXCEPT !.decision = "revise", !.proposal = None,
                                 !.approval = None, !.phase = "awaiting_proposal"]
    <2>1. Same(changed) /\ changed.phase = "awaiting_proposal"
        BY <1>1 DEF EnvState, Phases, Decisions
    <2>2. /\ Observe(e, changed, "approval:revise", 0) /\ results' = results
          /\ env[e].phase = "awaiting_approval"
        BY <1>5 DEF Revise, MayDecide
    <2>3. "approval:revise" \in Tags /\ Worth("approval:revise") = 0
        BY DEF Tags, Worth
    <2> HIDE DEF changed
    <2>4. Alone(e) /\ Wrote(e, "approval:revise")
        BY <1>1, <2>1, <2>2, <2>3, ObservedHistory DEF Wrote, Executions
    <2> QED BY <2>3, <2>4
<1>6. CASE Close(e, r)
    <2> DEFINE closed == IF r.decision = "deny" THEN "denied" ELSE "expired"
               tag == IF r.decision = "deny" THEN "approval:deny" ELSE "approval:expire"
               changed == [env[e] EXCEPT !.decision = r.decision, !.phase = closed]
    <2>1. /\ closed \in {"denied", "expired"}
          /\ tag \in {"approval:deny", "approval:expire"} /\ r.decision \in Decisions
        BY <1>6, RequestFields DEF Close, MayDecide
    <2>2. /\ Observe(e, changed, tag, 5) /\ results' = results
          /\ env[e].phase = "awaiting_approval"
        BY <1>6 DEF Close, MayDecide
    <2> HIDE DEF closed, tag
    <2>3. Same(changed) /\ changed.phase = closed
        BY <1>1, <2>1 DEF EnvState, Phases, Decisions
    <2>4. tag \in Tags /\ Worth(tag) = 5
        BY <2>1 DEF Tags, Worth
    <2> HIDE DEF changed
    <2>5. Alone(e) /\ Wrote(e, tag)
        BY <1>1, <2>1, <2>2, <2>3, <2>4, ObservedHistory DEF Wrote, Executions
    <2> QED BY <2>4, <2>5
<1>7. CASE ExecuteApproved(e, r)
    <2> DEFINE changed == [env[e] EXCEPT !.phase = "completed"]
               tag == IF Replayed(Key(e)) THEN "execution_replayed" ELSE "execution_completed"
               reward == IF Replayed(Key(e)) THEN 0 ELSE 10
    <2>1. /\ Same(changed) /\ changed.phase = "completed"
          /\ changed.proposal = env[e].proposal
        BY <1>1 DEF EnvState, Phases
    <2>2. /\ Observe(e, changed, tag, reward) /\ results' = results \cup {Key(e)}
          /\ env[e].phase \in {"approved", "completed"}
        BY <1>7 DEF ExecuteApproved, MayExecute, Execute, Key
    <2>3. /\ tag \in Tags /\ tag \in Executions /\ Worth(tag) = reward /\ reward \in Int
          /\ tag = "execution_completed" => Key(e) \notin results
        BY DEF Tags, Executions, Worth, Replayed
    <2> HIDE DEF changed, tag, reward
    <2>4. tag # "rejected"
        BY <2>3 DEF Executions
    <2>5. Alone(e) /\ Wrote(e, tag)
        BY <1>1, <2>1, <2>2, <2>3, <2>4, ObservedHistory DEF Wrote
    <2> QED BY <2>3, <2>5
<1>8. CASE Reject(e, r)
    <2>1. Observe(e, env[e], "rejected", -10) /\ results' = results
        BY <1>8 DEF Reject
    <2>2. "rejected" \in Tags /\ Worth("rejected") = -10 /\ -10 \in Int
        BY DEF Tags, Worth
    <2>3. Alone(e) /\ Wrote(e, "rejected")
        BY <1>1, <2>1, <2>2, ObservedHistory DEF Wrote, Executions
    <2> QED BY <2>2, <2>3
<1> QED
    BY <1>2, <1>3, <1>4, <1>5, <1>6, <1>7, <1>8 DEF Step
----------------------------------------------------------------------------
(* A run of executions and rejected requests since an approval. *)
SinceApproval(h, n) ==
    \E j \in 1..(n - 1) :
        /\ h[j] = "approval:approve"
        /\ \A k \in (j + 1)..(n - 1) : h[k] \in Executions \cup {"rejected"}

(* What the audit of one episode needs besides its own four statements: a  *)
(* history with an execution is of a completed episode, an approved or     *)
(* completed episode has had nothing since its approval but executions and *)
(* rejected requests, and a completed one has its effect in the table.     *)
Audited(e) ==
    LET h == env[e].history IN
    /\ Len(h) = env[e].step_count + (IF env[e].reset_count > 0 THEN 1 ELSE 0)
    /\ env[e].cumulative_reward = Earned(h)
    /\ \A i \in DOMAIN h : h[i] \in Executions => SinceApproval(h, i)
    /\ \A i, j \in DOMAIN h :
          h[i] = "execution_completed" /\ h[j] \in Executions => i <= j
    /\ \A i \in DOMAIN h : h[i] \in Executions => env[e].phase = "completed"
    /\ env[e].phase \in {"approved", "completed"} => SinceApproval(h, Len(h) + 1)
    /\ env[e].phase = "completed" => Key(e) \in results

AllAudited == \A e \in Envs : Audited(e)

(* An entry keeps the audit of its episode. *)
LEMMA WroteAudited ==
    ASSUME IInv, NEW e \in Envs, NEW tag \in Tags, Wrote(e, tag), Audited(e)
    PROVE  Audited(e)'
<1> DEFINE h == env[e].history
           g == Append(h, tag)
           n == Len(h) + 1
<1>1. /\ h \in Seq(Tags) /\ env[e].step_count \in Nat /\ env[e].reset_count \in Nat
    BY DEF IInv, TypeOK, EnvState
<1>2. /\ Len(h) \in Nat /\ DOMAIN h = 1..Len(h)
      /\ Len(g) = n /\ DOMAIN g = 1..n
      /\ \A i \in 1..Len(h) : g[i] = h[i]
      /\ g[n] = tag
    BY <1>1, Appended
<1>3. env'[e].history = g
    BY DEF Wrote
<1>4. Len(g) = env'[e].step_count + (IF env'[e].reset_count > 0 THEN 1 ELSE 0)
    BY <1>1, <1>2 DEF Audited, Wrote
<1>5. env'[e].cumulative_reward = Earned(g)
    BY <1>1, EarnedAppended DEF Audited, Wrote
<1> HIDE DEF g
<1>6. \A i \in 1..n : SinceApproval(g, i) <=> SinceApproval(h, i)
    <2> TAKE i \in 1..n
    <2>1. \A j \in 1..(i - 1) : g[j] = h[j]
        BY <1>2
    <2>2. \A j \in 1..(i - 1) : \A k \in (j + 1)..(i - 1) : k \in 1..(i - 1)
        BY <1>2
    <2> QED BY <2>1, <2>2 DEF SinceApproval
<1>7. tag \in Executions => SinceApproval(h, n)
    BY DEF Wrote, Audited
<1>8. \A i \in DOMAIN g : g[i] \in Executions => SinceApproval(g, i)
    <2> SUFFICES ASSUME NEW i \in 1..n, g[i] \in Executions PROVE SinceApproval(h, i)
        BY <1>2, <1>6
    <2>1. CASE i = n
        BY <1>2, <1>7, <2>1
    <2>2. CASE i # n
        BY <1>2, <2>2 DEF Audited
    <2> QED BY <2>1, <2>2
<1>9. \A i \in DOMAIN h : h[i] \in Executions => env[e].phase = "completed"
    BY DEF Audited
<1>10. tag = "execution_completed" => \A i \in DOMAIN h : h[i] \notin Executions
    BY <1>9 DEF Wrote, Audited, Executions
<1>11. \A i, j \in DOMAIN g :
          g[i] = "execution_completed" /\ g[j] \in Executions => i <= j
    <2> SUFFICES ASSUME NEW i \in 1..n, NEW j \in 1..n,
                        g[i] = "execution_completed", g[j] \in Executions
                 PROVE  i <= j
        BY <1>2
    <2>1. CASE j = n
        BY <1>2, <2>1
    <2>2. CASE j # n /\ i # n
        <3>1. i \in DOMAIN h /\ j \in DOMAIN h /\ g[i] = h[i] /\ g[j] = h[j]
            BY <1>2, <2>2
        <3> QED BY <3>1 DEF Audited
    <2>3. CASE j # n /\ i = n
        BY <1>2, <1>10, <2>3
    <2> QED BY <2>1, <2>2, <2>3
<1>12. \A i \in DOMAIN g : g[i] \in Executions => env'[e].phase = "completed"
    <2> SUFFICES ASSUME NEW i \in 1..n, g[i] \in Executions
                 PROVE  env'[e].phase = "completed"
        BY <1>2
    <2>1. CASE i = n
        BY <1>2, <2>1 DEF Wrote
    <2>2. CASE i # n
        <3>1. env[e].phase = "completed"
            BY <1>2, <1>9, <2>2
        <3>2. tag \in Executions \cup {"rejected"}
            BY <3>1 DEF Wrote
        <3> QED BY <3>1, <3>2 DEF Wrote
    <2> QED BY <2>1, <2>2
<1>13. env'[e].phase \in {"approved", "completed"} => SinceApproval(g, Len(g) + 1)
    <2> SUFFICES ASSUME env'[e].phase \in {"approved", "completed"}
                 PROVE  SinceApproval(g, n + 1)
        BY <1>2
    <2>1. CASE tag \in Executions \cup {"rejected"}
        <3>1. env[e].phase \in {"approved", "completed"}
            BY <2>1 DEF Wrote
        <3>2. SinceApproval(h, n)
            BY <3>1 DEF Audited
        <3>3. PICK j \in 1..(n - 1) :
                 /\ h[j] = "approval:approve"
                 /\ \A k \in (j + 1)..(n - 1) : h[k] \in Executions \cup {"rejected"}
            BY <3>2 DEF SinceApproval
        <3>4. j \in 1..((n + 1) - 1) /\ g[j] = "approval:approve"
            BY <1>2, <3>3
        <3>5. ASSUME NEW k \in (j + 1)..((n + 1) - 1)
              PROVE  g[k] \in Executions \cup {"rejected"}
            <4>1. CASE k = n
                BY <1>2, <2>1, <4>1
            <4>2. CASE k # n
                <5>1. k \in (j + 1)..(n - 1) /\ k \in 1..Len(h)
                    BY <1>2, <4>2
                <5> QED BY <1>2, <3>3, <5>1
            <4> QED BY <4>1, <4>2
        <3> QED BY <3>4, <3>5 DEF SinceApproval
    <2>2. CASE tag \notin Executions \cup {"rejected"}
        <3>1. tag = "approval:approve"
            BY <2>2 DEF Wrote
        <3>2. n \in 1..((n + 1) - 1) /\ \A k \in (n + 1)..((n + 1) - 1) : FALSE
            BY <1>2
        <3> QED BY <1>2, <3>1, <3>2 DEF SinceApproval
    <2> QED BY <2>1, <2>2
<1>14. env'[e].phase = "completed" => Key(e)' \in results'
    <2> SUFFICES ASSUME env'[e].phase = "completed" PROVE Key(e)' \in results'
        OBVIOUS
    <2>1. CASE tag \in Executions
        BY <2>1 DEF Wrote, Key
    <2>2. CASE tag = "rejected"
        BY <2>2 DEF Wrote, Key, Audited
    <2>3. CASE tag \notin Executions \cup {"rejected"}
        BY <2>3 DEF Wrote
    <2> QED BY <2>1, <2>2, <2>3
<1> QED
    BY <1>3, <1>4, <1>5, <1>8, <1>11, <1>12, <1>13, <1>14 DEF Audited

(* A reset begins an audited episode. *)
LEMMA ResetAudited ==
    ASSUME IInv, NEW e \in Envs, Reset(e)
    PROVE  Audited(e)' /\ Alone(e) /\ results' = results
<1>1. env' = [env EXCEPT ![e] =
                 NewState(env[e].reset_count + 1, EffectCount, <<"reset">>)]
    BY DEF Reset
<1>2. env \in [Envs -> EnvState] /\ env[e].reset_count \in Nat
    BY DEF IInv, TypeOK, EnvState
<1>3. /\ Alone(e)
      /\ env'[e] = NewState(env[e].reset_count + 1, EffectCount, <<"reset">>)
    BY <1>1, <1>2 DEF Alone
<1>4. /\ env'[e].history = <<"reset">> /\ env'[e].step_count = 0
      /\ env'[e].reset_count = env[e].reset_count + 1
      /\ env'[e].cumulative_reward = 0
      /\ env'[e].phase = "awaiting_inspection"
    BY <1>3 DEF NewState
<1> DEFINE h == <<"reset">>
<1>5. Len(h) = 1 /\ \A i \in DOMAIN h : h[i] \notin Executions
    BY DEF Executions
<1>6. Earned(h) = 0
    BY EarnedNothing
<1>7. env'[e].reset_count > 0
    BY <1>2, <1>4
<1> HIDE DEF h
<1>8. env'[e].history = h
    BY <1>4 DEF h
<1>9. Audited(e)'
    BY <1>4, <1>5, <1>6, <1>7, <1>8 DEF Audited, Executions
<1> QED BY <1>3, <1>9 DEF Reset

(* The audit of an environment that did not move. *)
LEMMA AuditKept ==
    ASSUME NEW f \in Envs, Audited(f), env'[f] = env[f], results \subseteq results'
    PROVE  Audited(f)'
BY DEF Audited, Key

(***************************************************************************)
(* Every episode's history accounts for it, for any number of environments *)
(* and any length of episode: entries and steps, rewards and entries, one  *)
(* approval before every execution, and one completed effect (_append,     *)
(* _observe, _execute).                                                    *)
(***************************************************************************)
THEOREM HistoriesAudit == Spec => []HistoryAudits
<1>1. Init => AllAudited
    <2> SUFFICES ASSUME Init, NEW e \in Envs PROVE Audited(e)
        BY DEF AllAudited
    <2>1. /\ env[e].history = <<>> /\ env[e].step_count = 0 /\ env[e].reset_count = 0
          /\ env[e].cumulative_reward = 0 /\ env[e].phase = "awaiting_inspection"
        BY DEF Init, NewState
    <2>2. Len(<<>>) = 0 /\ DOMAIN <<>> = {}
        OBVIOUS
    <2>3. Earned(<<>>) = 0
        BY EarnedNothing
    <2> QED BY <2>1, <2>2, <2>3 DEF Audited
<1>2. IInv /\ AllAudited /\ [Next]_vars => AllAudited'
    <2> SUFFICES ASSUME IInv, AllAudited, [Next]_vars, NEW f \in Envs
                 PROVE  Audited(f)'
        BY DEF AllAudited
    <2>1. CASE UNCHANGED vars
        BY <2>1, AuditKept DEF vars, AllAudited
    <2>2. CASE Next
        <3>1. PICK e \in Envs : Reset(e) \/ \E r \in Requests : Step(e, r)
            BY <2>2 DEF Next
        <3>2. CASE Reset(e)
            BY <3>2, ResetAudited, AuditKept DEF AllAudited, Alone
        <3>3. CASE \E r \in Requests : Step(e, r)
            <4>1. PICK tag \in Tags : Wrote(e, tag) /\ Alone(e)
                BY <3>3, StepWrites
            <4>2. results \subseteq results'
                BY <4>1 DEF Wrote
            <4> QED BY <4>1, <4>2, WroteAudited, AuditKept DEF AllAudited, Alone
        <3> QED BY <3>1, <3>2, <3>3
    <2> QED BY <2>1, <2>2
<1>3. AllAudited => HistoryAudits
    <2> SUFFICES ASSUME AllAudited PROVE HistoryAudits
        OBVIOUS
    <2>1. \A e \in Envs : \A tags : Count(e, tags) = Counted(env[e].history, tags)
        BY DEF Count, Counted
    <2>2. \A e \in Envs : Audited(e)
        BY DEF AllAudited
    <2> QED BY <2>1, <2>2 DEF HistoryAudits, Audited, SinceApproval, Earned
<1> QED BY <1>1, <1>2, <1>3, Inductive, PTL DEF Spec
==================================================================================
