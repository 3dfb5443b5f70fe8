---------------------------- MODULE DaprRecoveryProofs ----------------------------
(***************************************************************************)
(* Proofs about DaprRecovery, for any number of workflow instances and of  *)
(* probe processes, stopped anywhere: what the store, the decisions, the   *)
(* reports and the written records say of each other.                      *)
(***************************************************************************)
EXTENDS DaprRecovery, TLAPS

Phases == {"unscheduled", "inspecting", "awaiting_approval", "executing"} \cup Finished

Workflow == [phase : Phases, failures : 0..MaxAttempts,
             decision : Verdicts \cup {"none"}, replayed : BOOLEAN]

(* The process that is up; a start has not scheduled its instance yet      *)
(* while it comes up.                                                      *)
ProcessInv ==
    Up => /\ proc \in Process
          /\ proc.mode = "resume" => proc.decision \in Verdicts
          /\ proc.mode = "start" /\ proc.stage = "up"
               => wf[proc.instance].phase = "unscheduled"

(* An activity runs in the phase that dispatched it, and one that performed *)
(* or replayed leaves the effect in the store.                              *)
ActivityInv ==
    \A i \in Instances :
        /\ inflight[i] = "inspected" => wf[i].phase = "inspecting"
        /\ inflight[i] \in {"performs", "performed", "replays"} => wf[i].phase = "executing"
        /\ inflight[i] \in {"performed", "replays"} => effect

First(i, d) == raised[i] # <<>> /\ Head(raised[i]) = d

(* The first event raised decides, and only an approval has an effect.     *)
DecisionInv ==
    /\ \A i \in Instances :
          /\ wf[i].phase \in {"executing", "completed"} => First(i, "approve")
          /\ wf[i].phase = "denied" => First(i, "deny")
          /\ wf[i].phase = "completed" => effect
    /\ effect => \E i \in Instances : First(i, "approve")

(* Every process that has been up has failed at most one attempt of an     *)
(* instance, and one that is not warm none; only the third ends it.        *)
FailureInv ==
    \A i \in Instances :
        /\ wf[i].failures + (IF Up /\ ~warm THEN 1 ELSE 0) <= launched
        /\ wf[i].phase = "failed" => wf[i].failures = MaxAttempts
        /\ wf[i].phase # "failed" => wf[i].failures < MaxAttempts

(* An instance that takes the effect for its own, or will.                 *)
Claims(i) ==
    \/ inflight[i] \in {"performs", "performed"}
    \/ wf[i].phase = "completed" /\ ~wf[i].replayed

ClaimsInv ==
    \A i, j \in Instances : i # j /\ Claims(i) /\ Claims(j) => {i, j} \in overlaps

(* A record is of a finished instance, and finished is for good.           *)
RecordsInv ==
    \A r \in records :
        /\ r.instance \in Instances /\ r.decision \in Verdicts
        /\ r.outcome \in Finished /\ wf[r.instance].phase = r.outcome

IInv ==
    /\ TypeOK /\ ProcessInv /\ ActivityInv /\ DecisionInv
    /\ FailureInv /\ ClaimsInv /\ RecordsInv

----------------------------------------------------------------------------
(* No process has been launched, no instance scheduled. *)
LEMMA InitIInv == Init => IInv
<1> SUFFICES ASSUME Init PROVE IInv
    OBVIOUS
<1>1. /\ \A i \in Instances : /\ wf[i].phase = "unscheduled" /\ wf[i].failures = 0
                              /\ ~wf[i].replayed
                              /\ inflight[i] = "idle"
      /\ launched = 0 /\ ~Up /\ ~effect /\ records = {}
    BY DEF Init, Up
<1>2. TypeOK
    <2>1. wf \in [Instances -> Workflow]
        BY DEF Init, Workflow, Phases, Finished, MaxAttempts
    <2>2. raised \in [Instances -> Seq(Verdicts)]
        BY DEF Init
    <2>3. inflight \in [Instances -> Activities]
        BY DEF Init, Activities
    <2>4. launched \in 0..MaxProcesses
        BY DaprAssumption DEF Init
    <2> QED
        BY <1>1, <2>1, <2>2, <2>3, <2>4 DEF Init, TypeOK, Workflow, Phases
<1>3. ProcessInv /\ ActivityInv /\ DecisionInv /\ ClaimsInv /\ RecordsInv
    BY <1>1 DEF ProcessInv, ActivityInv, DecisionInv, ClaimsInv, RecordsInv, Claims, Finished
<1>4. FailureInv
    BY <1>1 DEF FailureInv, MaxAttempts
<1> QED BY <1>2, <1>3, <1>4 DEF IInv

(* The types, in the form the steps below use them. *)
LEMMA Typed ==
    ASSUME TypeOK
    PROVE  /\ wf \in [Instances -> Workflow]
           /\ raised \in [Instances -> Seq(Verdicts)]
           /\ inflight \in [Instances -> Activities]
           /\ launched \in Nat /\ MaxAttempts = 3
BY DEF TypeOK, Workflow, Phases, MaxAttempts

----------------------------------------------------------------------------
(* A step of the worker moves one instance and its activity; the client,   *)
(* the events and every other instance are left alone, and neither the     *)
(* effect nor an overlap is forgotten.                                     *)
Worked(i) ==
    /\ Up /\ Up' /\ proc' = proc /\ launched' = launched /\ records' = records
    /\ raised' = raised
    /\ effect => effect'
    /\ overlaps \subseteq overlaps'
    /\ \A j \in Instances \ {i} : wf'[j] = wf[j] /\ inflight'[j] = inflight[j]

(* What it does to the instance, as far as the properties tell.            *)
Attempted(i) ==  \* an inspection raised
    /\ wf[i].phase = "inspecting" /\ inflight[i] = "idle" /\ inflight'[i] = "idle"
    /\ ~warm /\ warm' /\ effect' = effect
    /\ wf'[i].failures = wf[i].failures + 1
    /\ wf'[i].phase = IF wf'[i].failures = MaxAttempts THEN "failed" ELSE "inspecting"

Inspected(i) ==  \* one was saved
    /\ wf[i].phase = "inspecting" /\ inflight'[i] = "inspected"
    /\ wf'[i] = wf[i] /\ warm' = warm /\ effect' = effect

Advanced(i) ==  \* one returned, or a decision was consumed
    /\ inflight'[i] = "idle" /\ warm' = warm /\ effect' = effect
    /\ wf'[i].failures = wf[i].failures
    /\ \/ wf[i].phase = "inspecting" /\ wf'[i].phase = "awaiting_approval"
       \/ /\ wf[i].phase = "awaiting_approval"
          /\ \/ wf'[i].phase = "executing" /\ First(i, "approve")
             \/ wf'[i].phase = "denied" /\ First(i, "deny")

Looked(i) ==  \* the effect was read
    /\ wf[i].phase = "executing" /\ wf'[i] = wf[i]
    /\ warm' = warm /\ effect' = effect
    /\ inflight'[i] = IF effect THEN "replays" ELSE "performs"
    /\ ~effect => \A j \in Instances \ {i} :
                     inflight[j] = "performs" => {i, j} \in overlaps'

Saved(i) ==  \* the effect was saved
    /\ inflight[i] = "performs" /\ inflight'[i] = "performed"
    /\ wf'[i] = wf[i] /\ warm' = warm /\ effect'

Returned(i) ==  \* the execution returned
    /\ inflight[i] \in {"replays", "performed"} /\ inflight'[i] = "idle"
    /\ warm' = warm /\ effect' = effect
    /\ wf'[i].phase = "completed" /\ wf'[i].failures = wf[i].failures
    /\ wf'[i].replayed = (inflight[i] = "replays")

(* Every step of the worker is one of these, and keeps the types.          *)
LEMMA WorkMoves ==
    ASSUME IInv, NEW i \in Instances, Work(i)
    PROVE  /\ TypeOK' /\ Worked(i)
           /\ \/ Attempted(i) \/ Inspected(i) \/ Advanced(i)
              \/ Looked(i) \/ Saved(i) \/ Returned(i)
<1>1. /\ TypeOK
      /\ wf \in [Instances -> Workflow] /\ wf[i] \in Workflow
      /\ raised \in [Instances -> Seq(Verdicts)]
      /\ inflight \in [Instances -> Activities]
    BY Typed DEF IInv
<1>2. inflight[i] # "idle" => Up
    BY <1>1 DEF TypeOK
<1>3. CASE InspectFails(i)
    <2> DEFINE w == [wf[i] EXCEPT !.failures = @ + 1,
                                  !.phase = IF wf[i].failures + 1 = MaxAttempts
                                            THEN "failed" ELSE @]
    <2>1. /\ Up /\ wf[i].phase = "inspecting" /\ inflight[i] = "idle" /\ ~warm
          /\ warm' = TRUE /\ wf' = [wf EXCEPT ![i] = w]
          /\ UNCHANGED <<raised, inspected, effect, inflight, proc, launched,
                         records, overlaps>>
        BY <1>1, <1>3 DEF InspectFails, Dispatchable, store, client, Workflow
    <2>2. wf[i].failures \in 0..2
        <3>1. wf[i].failures \in 0..MaxAttempts
            BY <1>1 DEF Workflow
        <3>2. wf[i].failures < MaxAttempts
            BY <2>1 DEF IInv, FailureInv
        <3> QED BY <3>1, <3>2 DEF MaxAttempts
    <2>3. /\ w \in Workflow /\ w.failures = wf[i].failures + 1
          /\ w.phase = IF w.failures = MaxAttempts THEN "failed" ELSE "inspecting"
        <3> DEFINE n == wf[i].failures + 1
                   p == IF n = MaxAttempts THEN "failed" ELSE wf[i].phase
        <3>1. n \in 0..MaxAttempts
            BY <2>2 DEF MaxAttempts
        <3>2. p \in Phases /\ p = IF n = MaxAttempts THEN "failed" ELSE "inspecting"
            BY <2>1 DEF Phases, Finished
        <3>3. w = [wf[i] EXCEPT !.failures = n, !.phase = p]
            OBVIOUS
        <3> HIDE DEF n, p, w
        <3>4. w \in Workflow /\ w.failures = n /\ w.phase = p
            BY <1>1, <3>1, <3>2, <3>3 DEF Workflow
        <3> QED BY <3>2, <3>4 DEF n
    <2> HIDE DEF w
    <2>4. wf' \in [Instances -> Workflow] /\ wf'[i] = w
        BY <1>1, <2>1, <2>3
    <2>5. TypeOK'
        BY <1>1, <2>1, <2>4 DEF TypeOK, Workflow, Phases, Up
    <2>6. Worked(i) /\ Attempted(i)
        BY <1>1, <2>1, <2>3, <2>4 DEF Worked, Attempted, Up
    <2> QED BY <2>5, <2>6
<1>4. CASE InspectSaves(i)
    <2>1. /\ Up /\ wf[i].phase = "inspecting" /\ inflight' = [inflight EXCEPT ![i] = "inspected"]
          /\ inspected' = inspected \cup {i}
          /\ UNCHANGED <<wf, raised, effect, warm, proc, launched, records, overlaps>>
        BY <1>4 DEF InspectSaves, Dispatchable, engine, client
    <2>2. inflight' \in [Instances -> Activities] /\ inflight'[i] = "inspected"
        BY <1>1, <2>1 DEF Activities
    <2>3. TypeOK'
        BY <1>1, <2>1, <2>2 DEF TypeOK, Up
    <2>4. Worked(i) /\ Inspected(i)
        BY <1>1, <2>1, <2>2 DEF Worked, Inspected, Up
    <2> QED BY <2>3, <2>4
<1>5. CASE InspectReturns(i)
    <2> DEFINE w == [wf[i] EXCEPT !.phase = "awaiting_approval"]
    <2>1. /\ Up /\ wf[i].phase = "inspecting"
          /\ wf' = [wf EXCEPT ![i] = w] /\ inflight' = [inflight EXCEPT ![i] = "idle"]
          /\ UNCHANGED <<raised, inspected, effect, warm, proc, launched, records, overlaps>>
        BY <1>1, <1>2, <1>5 DEF InspectReturns, store, client, Workflow, IInv, ActivityInv
    <2>2. w \in Workflow /\ w.phase = "awaiting_approval" /\ w.failures = wf[i].failures
        BY <1>1 DEF Workflow, Phases
    <2> HIDE DEF w
    <2>3. /\ wf' \in [Instances -> Workflow] /\ wf'[i] = w
          /\ inflight' \in [Instances -> Activities] /\ inflight'[i] = "idle"
        BY <1>1, <2>1, <2>2 DEF Activities
    <2>4. TypeOK'
        BY <1>1, <2>1, <2>3 DEF TypeOK, Workflow, Phases, Up
    <2>5. Worked(i) /\ Advanced(i)
        BY <1>1, <2>1, <2>2, <2>3 DEF Worked, Advanced, Up
    <2> QED BY <2>4, <2>5
<1>6. CASE Decide(i)
    <2> DEFINE d == Head(raised[i])
               w == [wf[i] EXCEPT !.decision = d,
                                  !.phase = IF d = "approve" THEN "executing" ELSE "denied"]
    <2>1. /\ Up /\ wf[i].phase = "awaiting_approval" /\ inflight[i] = "idle"
          /\ raised[i] # <<>> /\ wf' = [wf EXCEPT ![i] = w]
          /\ UNCHANGED <<raised, inspected, effect, inflight, warm, proc, launched,
                         records, overlaps>>
        BY <1>1, <1>6 DEF Decide, Dispatchable, store, worker, client, Workflow
    <2>2. d \in Verdicts
        BY <1>1, <2>1
    <2>3. /\ w \in Workflow /\ w.failures = wf[i].failures
          /\ w.phase = IF d = "approve" THEN "executing" ELSE "denied"
        BY <1>1, <2>2 DEF Workflow, Phases, Finished
    <2>4. First(i, d)
        BY <2>1 DEF First
    <2> HIDE DEF w, d
    <2>5. wf' \in [Instances -> Workflow] /\ wf'[i] = w
        BY <1>1, <2>1, <2>3
    <2>6. TypeOK'
        BY <1>1, <2>1, <2>5 DEF TypeOK, Workflow, Phases, Up
    <2>7. Worked(i) /\ Advanced(i)
        BY <1>1, <2>1, <2>2, <2>3, <2>4, <2>5 DEF Worked, Advanced, Up, Verdicts
    <2> QED BY <2>6, <2>7
<1>7. CASE ExecuteReads(i)
    <2>1. /\ Up /\ wf[i].phase = "executing"
          /\ inflight' = [inflight EXCEPT ![i] = IF effect THEN "replays" ELSE "performs"]
          /\ UNCHANGED <<wf, raised, inspected, effect, warm, proc, launched, records>>
        BY <1>7 DEF ExecuteReads, Dispatchable, engine, store, client
    <2>2. /\ overlaps \subseteq overlaps'
          /\ ~effect => \A j \in Instances \ {i} :
                           inflight[j] = "performs" => {i, j} \in overlaps'
        BY <1>7 DEF ExecuteReads
    <2>3. /\ inflight' \in [Instances -> Activities]
          /\ inflight'[i] = IF effect THEN "replays" ELSE "performs"
        BY <1>1, <2>1 DEF Activities
    <2>4. TypeOK'
        BY <1>1, <2>1, <2>3 DEF TypeOK, Up
    <2>5. Worked(i) /\ Looked(i)
        BY <1>1, <2>1, <2>2, <2>3 DEF Worked, Looked, Up
    <2> QED BY <2>4, <2>5
<1>8. CASE ExecuteSaves(i)
    <2>1. /\ Up /\ inflight[i] = "performs" /\ effect' = TRUE
          /\ inflight' = [inflight EXCEPT ![i] = "performed"]
          /\ UNCHANGED <<wf, raised, inspected, warm, proc, launched, records, overlaps>>
        BY <1>2, <1>8 DEF ExecuteSaves, engine, client
    <2>2. inflight' \in [Instances -> Activities] /\ inflight'[i] = "performed"
        BY <1>1, <2>1 DEF Activities
    <2>3. TypeOK'
        BY <1>1, <2>1, <2>2 DEF TypeOK, Up
    <2>4. Worked(i) /\ Saved(i)
        BY <1>1, <2>1, <2>2 DEF Worked, Saved, Up
    <2> QED BY <2>3, <2>4
<1>9. CASE ExecuteReturns(i)
    <2> DEFINE replay == (inflight[i] = "replays")
               w == [wf[i] EXCEPT !.phase = "completed", !.replayed = replay]
    <2>1. /\ Up /\ inflight[i] \in {"replays", "performed"}
          /\ wf' = [wf EXCEPT ![i] = w] /\ inflight' = [inflight EXCEPT ![i] = "idle"]
          /\ UNCHANGED <<raised, inspected, effect, warm, proc, launched, records, overlaps>>
        BY <1>1, <1>2, <1>9 DEF ExecuteReturns, store, client, Workflow
    <2>2. /\ w \in Workflow /\ w.phase = "completed" /\ w.failures = wf[i].failures
          /\ w.replayed = replay
        BY <1>1 DEF Workflow, Phases, Finished
    <2> HIDE DEF w
    <2>3. /\ wf' \in [Instances -> Workflow] /\ wf'[i] = w
          /\ inflight' \in [Instances -> Activities] /\ inflight'[i] = "idle"
        BY <1>1, <2>1, <2>2 DEF Activities
    <2>4. TypeOK'
        BY <1>1, <2>1, <2>3 DEF TypeOK, Workflow, Phases, Up
    <2>5. Worked(i) /\ Returned(i)
        BY <1>1, <2>1, <2>2, <2>3 DEF Worked, Returned, Up
    <2> QED BY <2>4, <2>5
<1> QED
    BY <1>3, <1>4, <1>5, <1>6, <1>7, <1>8, <1>9 DEF Work

(* The invariant survives every step of the worker. *)
LEMMA WorkKeepsIInv ==
    ASSUME IInv, NEW i \in Instances, Work(i)
    PROVE  IInv'
<1>1. /\ TypeOK /\ TypeOK' /\ Worked(i)
      /\ \/ Attempted(i) \/ Inspected(i) \/ Advanced(i)
         \/ Looked(i) \/ Saved(i) \/ Returned(i)
    BY WorkMoves DEF IInv
<1>2. ProcessInv'
    <2>1. wf[i].phase = "unscheduled" => FALSE
        BY <1>1 DEF Attempted, Inspected, Advanced, Looked, Saved, Returned, IInv, ActivityInv
    <2>2. Up' /\ proc' = proc /\ ProcessInv /\ Up
        BY <1>1 DEF Worked, IInv
    <2>3. \A j \in Instances : wf[j].phase = "unscheduled" => wf'[j].phase = "unscheduled"
        BY <1>1, <2>1 DEF Worked
    <2> QED BY <2>2, <2>3 DEF ProcessInv, Process
<1>3. ActivityInv'
    <2> SUFFICES ASSUME NEW j \in Instances
                 PROVE  /\ inflight'[j] = "inspected" => wf'[j].phase = "inspecting"
                        /\ inflight'[j] \in {"performs", "performed", "replays"}
                             => wf'[j].phase = "executing"
                        /\ inflight'[j] \in {"performed", "replays"} => effect'
        BY DEF ActivityInv
    <2>1. CASE j # i
        BY <1>1, <2>1 DEF Worked, IInv, ActivityInv
    <2>2. CASE j = i
        BY <1>1, <2>2 DEF Attempted, Inspected, Advanced, Looked, Saved, Returned,
                          IInv, ActivityInv
    <2> QED BY <2>1, <2>2
<1>4. DecisionInv'
    <2>1. \A j, d : First(j, d)' <=> First(j, d)
        BY <1>1 DEF Worked, First
    <2>2. \A j \in Instances :
             /\ wf'[j].phase \in {"executing", "completed"} => First(j, "approve")
             /\ wf'[j].phase = "denied" => First(j, "deny")
             /\ wf'[j].phase = "completed" => effect'
        <3> TAKE j \in Instances
        <3>1. CASE j # i
            BY <1>1, <3>1 DEF Worked, IInv, DecisionInv
        <3>2. CASE j = i
            BY <1>1, <3>2 DEF Worked, Attempted, Inspected, Advanced, Looked, Saved, Returned,
                              IInv, DecisionInv, ActivityInv
        <3> QED BY <3>1, <3>2
    <2>3. effect' => \E j \in Instances : First(j, "approve")
        <3>1. CASE effect
            BY <3>1 DEF IInv, DecisionInv
        <3>2. CASE Saved(i)
            BY <3>2 DEF Saved, IInv, ActivityInv, DecisionInv
        <3> QED
            BY <1>1, <3>1, <3>2 DEF Attempted, Inspected, Advanced, Looked, Returned
    <2> QED BY <2>1, <2>2, <2>3 DEF DecisionInv
<1>5. FailureInv'
    <2>1. wf \in [Instances -> Workflow] /\ wf' \in [Instances -> Workflow]
        BY <1>1, Typed DEF TypeOK, Workflow, Phases
    <2>2. /\ launched \in Nat /\ launched' = launched /\ MaxAttempts = 3 /\ Up /\ Up'
          /\ \A j \in Instances : wf[j].failures \in Nat /\ wf'[j].failures \in Nat
        <3>1. launched \in Nat /\ launched' = launched /\ MaxAttempts = 3 /\ Up /\ Up'
            BY <1>1, Typed DEF Worked
        <3>2. 0..MaxAttempts \subseteq Nat
            BY <3>1
        <3>3. \A j \in Instances : /\ wf[j].failures \in 0..MaxAttempts
                                   /\ wf'[j].failures \in 0..MaxAttempts
            BY <2>1 DEF Workflow
        <3> QED BY <3>1, <3>2, <3>3
    <2>3. \A j \in Instances : /\ wf[j].failures + (IF ~warm THEN 1 ELSE 0) <= launched
                               /\ wf[j].phase = "failed" => wf[j].failures = MaxAttempts
                               /\ wf[j].phase # "failed" => wf[j].failures < MaxAttempts
        BY <2>2 DEF IInv, FailureInv
    <2>4. warm => warm'
        BY <1>1 DEF Attempted, Inspected, Advanced, Looked, Saved, Returned
    <2>5. ASSUME NEW j \in Instances
          PROVE  /\ wf'[j].failures + (IF ~warm' THEN 1 ELSE 0) <= launched
                 /\ wf'[j].phase = "failed" => wf'[j].failures = MaxAttempts
                 /\ wf'[j].phase # "failed" => wf'[j].failures < MaxAttempts
        <3>1. CASE j # i
            BY <1>1, <2>2, <2>3, <2>4, <3>1 DEF Worked
        <3>2. CASE j = i /\ Attempted(i)
            <4>1. wf[i].failures < MaxAttempts /\ wf[i].failures + 1 <= launched /\ warm'
                BY <2>3, <3>2 DEF Attempted
            <4> QED BY <2>2, <3>2, <4>1 DEF Attempted
        <3>3. CASE j = i /\ ~Attempted(i)
            <4>1. /\ wf'[i].failures = wf[i].failures
                  /\ wf'[i].phase # "failed" /\ wf[i].phase # "failed"
                BY <1>1, <3>3 DEF Inspected, Advanced, Looked, Saved, Returned,
                                  IInv, ActivityInv
            <4> QED BY <2>2, <2>3, <2>4, <3>3, <4>1
        <3> QED BY <3>1, <3>2, <3>3
    <2> QED BY <2>2, <2>5 DEF FailureInv
<1>6. ClaimsInv'
    <2>1. \A j \in Instances \ {i} : Claims(j)' <=> Claims(j)
        BY <1>1 DEF Worked, Claims
    <2>2. Claims(i)' => Claims(i) \/ (Looked(i) /\ ~effect)
        BY <1>1 DEF Attempted, Inspected, Advanced, Looked, Saved, Returned, Claims
    <2>3. ASSUME Looked(i), ~effect, NEW j \in Instances \ {i}, Claims(j)
          PROVE  {i, j} \in overlaps'
        <3>1. inflight[j] = "performs"
            BY <2>3 DEF Claims, IInv, ActivityInv, DecisionInv
        <3> QED BY <2>3, <3>1 DEF Looked
    <2>4. \A j \in Instances \ {i} : Claims(i)' /\ Claims(j)' => {i, j} \in overlaps'
        BY <1>1, <2>1, <2>2, <2>3 DEF Worked, IInv, ClaimsInv
    <2>5. \A j \in Instances \ {i} : {i, j} = {j, i}
        OBVIOUS
    <2>6. \A j, k \in Instances \ {i} :
             j # k /\ Claims(j)' /\ Claims(k)' => {j, k} \in overlaps'
        BY <1>1, <2>1 DEF Worked, IInv, ClaimsInv
    <2> QED BY <2>4, <2>5, <2>6 DEF ClaimsInv
<1>7. RecordsInv'
    <2>1. wf[i].phase \notin Finished
        BY <1>1 DEF Attempted, Inspected, Advanced, Looked, Saved, Returned,
                    IInv, ActivityInv, Finished
    <2>2. \A j \in Instances : wf[j].phase \in Finished => wf'[j].phase = wf[j].phase
        BY <1>1, <2>1 DEF Worked
    <2> QED BY <1>1, <2>2 DEF Worked, IInv, RecordsInv
<1> QED
    BY <1>1, <1>2, <1>3, <1>4, <1>5, <1>6, <1>7 DEF IInv

----------------------------------------------------------------------------
(* What the steps of the client and of the operator do to the process. *)
Launched(i, mode, d) ==
    /\ ~Up /\ launched' = launched + 1 /\ launched < MaxProcesses
    /\ proc' = [mode |-> mode, instance |-> i, decision |-> d, stage |-> "up"]
    /\ mode = "start" => wf[i].phase = "unscheduled"
    /\ mode = "resume" => d \in Verdicts

WentOn(stage) ==
    /\ Up /\ launched' = launched
    /\ proc' = [proc EXCEPT !.stage = stage] /\ stage \in {"announced", "recorded", "waiting"}

(* A process that is launched or goes on is up, and as the invariant says  *)
(* of it.                                                                  *)
LEMMA ProcessGoesOn ==
    ASSUME IInv, NEW i \in Instances, NEW mode \in {"start", "resume"},
           NEW d \in Verdicts \cup {"none"}, NEW stage, wf' = wf,
           Launched(i, mode, d) \/ WentOn(stage)
    PROVE  ProcessInv' /\ Up'
<1>1. CASE Launched(i, mode, d)
    <2> DEFINE p == [mode |-> mode, instance |-> i, decision |-> d, stage |-> "up"]
    <2>1. p \in Process /\ proc' = p
        BY <1>1 DEF Launched, Process
    <2>2. /\ p.mode = "start" => wf'[p.instance].phase = "unscheduled"
          /\ p.mode = "resume" => p.decision \in Verdicts
        BY <1>1 DEF Launched
    <2>3. Up'
        BY <2>1, DaprAssumption DEF Up
    <2> QED BY <2>1, <2>2, <2>3 DEF ProcessInv
<1>2. CASE WentOn(stage)
    <2>1. /\ proc \in Process
          /\ proc.mode = "resume" => proc.decision \in Verdicts
        BY <1>2 DEF WentOn, IInv, ProcessInv
    <2>2. /\ proc' \in Process /\ proc'.stage # "up"
          /\ proc'.mode = proc.mode /\ proc'.decision = proc.decision
        BY <1>2, <2>1 DEF WentOn, Process
    <2>3. Up'
        BY <2>2, DaprAssumption DEF Up
    <2> QED BY <2>1, <2>2, <2>3 DEF ProcessInv
<1> QED BY <1>1, <1>2

(* Launching adds a process and going on none, so no instance has failed   *)
(* more attempts than there were processes.                                *)
LEMMA FailuresBounded ==
    ASSUME IInv, Up', launched' \in Nat,
           \A i \in Instances : /\ wf'[i].failures = wf[i].failures
                                /\ wf'[i].phase = "failed" <=> wf[i].phase = "failed",
           warm' = warm,
           \/ ~Up /\ launched' = launched + 1
           \/ Up /\ launched' = launched
    PROVE  FailureInv'
<1>1. wf \in [Instances -> Workflow] /\ launched \in Nat /\ MaxAttempts = 3
    BY Typed DEF IInv
<1>2. 0..MaxAttempts \subseteq Nat
    BY <1>1
<1>3. \A i \in Instances : wf[i].failures \in Nat
    BY <1>1, <1>2 DEF Workflow
<1>4. ASSUME NEW i \in Instances
      PROVE  /\ wf'[i].failures + (IF Up' /\ ~warm' THEN 1 ELSE 0) <= launched'
             /\ wf'[i].phase = "failed" => wf'[i].failures = MaxAttempts
             /\ wf'[i].phase # "failed" => wf'[i].failures < MaxAttempts
    <2>1. /\ wf[i].failures + (IF Up /\ ~warm THEN 1 ELSE 0) <= launched
          /\ wf[i].phase = "failed" => wf[i].failures = MaxAttempts
          /\ wf[i].phase # "failed" => wf[i].failures < MaxAttempts
        BY DEF IInv, FailureInv
    <2> QED BY <1>1, <1>3, <2>1
<1> QED BY <1>4 DEF FailureInv

(* What no step of the client changes keeps its part of the invariant. *)
LEMMA ClientUnchanged ==
    ASSUME IInv, UNCHANGED <<wf, inflight, effect, overlaps>>,
           \A i \in Instances : \A d : First(i, d) => First(i, d)'
    PROVE  ActivityInv' /\ DecisionInv' /\ ClaimsInv'
<1>1. ActivityInv' /\ ClaimsInv'
    BY DEF IInv, ActivityInv, ClaimsInv, Claims
<1>2. DecisionInv'
    BY DEF IInv, DecisionInv
<1> QED BY <1>1, <1>2

(* The invariant survives the steps of the client and of the operator. *)
LEMMA LaunchKeepsIInv ==
    ASSUME IInv, NEW i \in Instances, NEW mode \in {"start", "resume"},
           NEW d \in Verdicts \cup {"none"}, mode = "resume" => d \in Verdicts,
           Launch(mode, i, d)
    PROVE  IInv'
<1>1. /\ Launched(i, mode, d)
      /\ UNCHANGED <<wf, raised, inspected, effect, inflight, warm, records, overlaps>>
    BY DEF Launch, Launched, engine, store, worker
<1>2. ProcessInv' /\ Up'
    BY <1>1, ProcessGoesOn
<1>3. launched \in 0..MaxProcesses
    BY DEF IInv, TypeOK
<1>4. launched' \in 0..MaxProcesses /\ launched' \in Nat
    BY <1>1, <1>3, DaprAssumption DEF Launched
<1>5. TypeOK'
    BY <1>1, <1>2, <1>4 DEF IInv, TypeOK, Up
<1>6. FailureInv'
    BY <1>1, <1>2, <1>4, FailuresBounded DEF Launched
<1>7. ActivityInv' /\ DecisionInv' /\ ClaimsInv'
    BY <1>1, ClientUnchanged DEF First
<1>8. RecordsInv'
    BY <1>1 DEF IInv, RecordsInv
<1> QED BY <1>2, <1>5, <1>6, <1>7, <1>8 DEF IInv

(* Announcing, raising an event and recording. *)
LEMMA ClientKeepsIInv ==
    ASSUME IInv, Announce \/ RaiseEvent \/ Record
    PROVE  IInv'
<1>1. /\ Up /\ proc \in Process
      /\ proc.mode = "resume" => proc.decision \in Verdicts
    BY DEF Announce, RaiseEvent, Record, IInv, ProcessInv
<1>2. /\ UNCHANGED <<wf, inspected, effect, inflight, warm, launched, overlaps>>
      /\ WentOn("announced") \/ WentOn("waiting") \/ WentOn("recorded")
    BY DEF Announce, RaiseEvent, Record, engine, store, worker, WentOn
<1>3. proc.instance \in Instances /\ proc.mode \in {"start", "resume"}
    BY <1>1 DEF Process
<1>4. ProcessInv' /\ Up'
    BY <1>2, <1>3, ProcessGoesOn
<1>5. /\ raised' \in [Instances -> Seq(Verdicts)]
      /\ \A i \in Instances : \A d : First(i, d) => First(i, d)'
    <2>1. raised \in [Instances -> Seq(Verdicts)]
        BY DEF IInv, TypeOK
    <2>2. CASE Announce \/ Record
        BY <2>1, <2>2 DEF Announce, Record, engine, First
    <2>3. CASE RaiseEvent
        <3>1. /\ raised' = [raised EXCEPT ![proc.instance] = Append(@, proc.decision)]
              /\ proc.decision \in Verdicts
            BY <1>1, <2>3 DEF RaiseEvent
        <3>2. \A h \in Seq(Verdicts) : \A d \in Verdicts :
                 /\ Append(h, d) \in Seq(Verdicts) /\ Append(h, d) # <<>>
                 /\ h # <<>> => Head(Append(h, d)) = Head(h)
            OBVIOUS
        <3> QED BY <1>3, <2>1, <3>1, <3>2 DEF First
    <2> QED BY <2>2, <2>3
<1>6. TypeOK'
    BY <1>2, <1>4, <1>5 DEF IInv, TypeOK, Up
<1>7. FailureInv'
    <2>1. launched \in Nat
        BY Typed DEF IInv
    <2> QED BY <1>1, <1>2, <1>4, <2>1, FailuresBounded
<1>8. ActivityInv' /\ DecisionInv' /\ ClaimsInv'
    BY <1>2, <1>5, ClientUnchanged
<1>9. RecordsInv'
    <2>1. CASE Announce \/ RaiseEvent
        BY <1>2, <2>1 DEF Announce, RaiseEvent, IInv, RecordsInv
    <2>2. CASE Record
        <3>1. /\ records' = records \cup {[instance |-> proc.instance,
                                           decision |-> proc.decision,
                                           outcome |-> wf[proc.instance].phase]}
              /\ wf[proc.instance].phase \in Finished
              /\ proc.decision \in Verdicts
            BY <1>1, <2>2 DEF Record
        <3> QED BY <1>2, <1>3, <3>1 DEF IInv, RecordsInv
    <2> QED BY <2>1, <2>2
<1> QED BY <1>4, <1>6, <1>7, <1>8, <1>9 DEF IInv

(* Scheduling begins the inspection of an instance that had no phase. *)
LEMMA ScheduleKeepsIInv ==
    ASSUME IInv, Schedule
    PROVE  IInv'
<1> DEFINE i == proc.instance
           w == [wf[i] EXCEPT !.phase = "inspecting"]
<1>1. /\ Up /\ proc \in Process /\ i \in Instances
      /\ wf[i].phase = "unscheduled" /\ proc.mode = "start"
    BY DEF Schedule, IInv, ProcessInv, Process
<1>2. /\ wf \in [Instances -> Workflow] /\ wf[i] \in Workflow
    BY <1>1, Typed DEF IInv
<1>3. /\ wf' = [wf EXCEPT ![i] = w] /\ proc' = [proc EXCEPT !.stage = "waiting"]
      /\ UNCHANGED <<raised, inspected, effect, inflight, warm, launched, records, overlaps>>
    BY <1>2 DEF Schedule, store, worker, Workflow
<1>4. /\ w \in Workflow /\ w.phase = "inspecting" /\ w.failures = wf[i].failures
    BY <1>2 DEF Workflow, Phases
<1> HIDE DEF w, i
<1>5. /\ wf' \in [Instances -> Workflow] /\ wf'[i] = w
      /\ \A j \in Instances \ {i} : wf'[j] = wf[j]
    BY <1>1, <1>2, <1>3, <1>4
<1>6. ProcessInv' /\ Up'
    <2>1. proc' \in Process /\ proc'.stage = "waiting" /\ proc'.mode = "start"
        BY <1>1, <1>3 DEF Process
    <2>2. Up'
        BY <2>1, DaprAssumption DEF Up
    <2> QED BY <2>1, <2>2 DEF ProcessInv
<1>7. TypeOK'
    BY <1>3, <1>5, <1>6 DEF IInv, TypeOK, Up, Workflow, Phases
<1>8. FailureInv'
    <2>1. launched \in Nat
        BY Typed DEF IInv
    <2>2. \A j \in Instances : /\ wf'[j].failures = wf[j].failures
                               /\ wf'[j].phase = "failed" <=> wf[j].phase = "failed"
        BY <1>1, <1>4, <1>5
    <2> QED BY <1>1, <1>3, <1>6, <2>1, <2>2, FailuresBounded
<1>9. \A j \in Instances : /\ Claims(j)' <=> Claims(j)
                           /\ wf[j].phase \notin {"unscheduled"} => wf'[j].phase = wf[j].phase
                           /\ wf'[j].phase # wf[j].phase => wf'[j].phase = "inspecting"
    BY <1>1, <1>3, <1>4, <1>5 DEF Claims
<1>10. ActivityInv' /\ ClaimsInv'
    BY <1>3, <1>9 DEF IInv, ActivityInv, ClaimsInv
<1>11. DecisionInv'
    BY <1>3, <1>9 DEF IInv, DecisionInv, First
<1>12. RecordsInv'
    BY <1>3, <1>9 DEF IInv, RecordsInv, Finished
<1> QED BY <1>6, <1>7, <1>8, <1>10, <1>11, <1>12 DEF IInv

(* The end of a process takes its activities and its attempt counter. *)
LEMMA StopKeepsIInv ==
    ASSUME IInv, Stop
    PROVE  IInv'
<1>1. /\ Up /\ ~Up' /\ warm' = FALSE /\ \A i \in Instances : inflight'[i] = "idle"
      /\ inflight' \in [Instances -> Activities]
      /\ UNCHANGED <<wf, raised, inspected, effect, launched, records, overlaps>>
    BY DEF Stop, Up, engine, store, Activities
<1>2. TypeOK'
    BY <1>1 DEF IInv, TypeOK
<1>3. ProcessInv' /\ ActivityInv' /\ DecisionInv' /\ RecordsInv'
    BY <1>1 DEF IInv, ProcessInv, ActivityInv, DecisionInv, RecordsInv, First
<1>4. \A i \in Instances : Claims(i)' => Claims(i)
    BY <1>1 DEF Claims
<1>5. ClaimsInv'
    BY <1>1, <1>4 DEF IInv, ClaimsInv
<1>6. FailureInv'
    <2>1. wf \in [Instances -> Workflow] /\ launched \in Nat /\ MaxAttempts = 3
        BY Typed DEF IInv
    <2>2. 0..MaxAttempts \subseteq Nat
        BY <2>1
    <2>3. \A i \in Instances : wf[i].failures \in Nat
        BY <2>1, <2>2 DEF Workflow
    <2>4. \A i \in Instances : wf[i].failures <= launched
        BY <2>1, <2>3 DEF IInv, FailureInv
    <2> QED BY <1>1, <2>1, <2>3, <2>4 DEF IInv, FailureInv
<1> QED BY <1>2, <1>3, <1>5, <1>6 DEF IInv

(* The invariant is inductive. *)
LEMMA Inductive == Spec => []IInv
<1>1. IInv /\ [Next]_vars => IInv'
    <2> SUFFICES ASSUME IInv, [Next]_vars PROVE IInv'
        OBVIOUS
    <2>1. CASE UNCHANGED vars
        BY <2>1 DEF vars, engine, store, worker, client, IInv, TypeOK, ProcessInv,
                    ActivityInv, DecisionInv, FailureInv, ClaimsInv, RecordsInv,
                    Claims, First, Up
    <2>2. CASE \E i \in Instances : Work(i)
        BY <2>2, WorkKeepsIInv
    <2>3. CASE \E i \in Instances :
                  Launch("start", i, "none") \/ \E d \in Verdicts : Launch("resume", i, d)
        BY <2>3, LaunchKeepsIInv
    <2>4. CASE Client
        BY <2>4, ClientKeepsIInv, ScheduleKeepsIInv DEF Client
    <2>5. CASE Stop
        BY <2>5, StopKeepsIInv
    <2> QED BY <2>1, <2>2, <2>3, <2>4, <2>5 DEF Next
<1> QED BY InitIInv, <1>1, PTL DEF Spec

----------------------------------------------------------------------------
(* The engine's, the store's and the process's state keep their types, and *)
(* activities run only in a process (run_probe).                           *)
THEOREM ProbeTypeCorrect == Spec => []TypeOK
BY Inductive, PTL DEF IInv

(***************************************************************************)
(* Whichever steps the stopped processes lost, the effect is in the store  *)
(* only after an approval came first, no denied instance performs it, and  *)
(* every completed one has left it there (incident_workflow,               *)
(* execute_activity).                                                      *)
(***************************************************************************)
THEOREM EffectsKept == Spec => []EffectsApprovedAndKept
<1>1. IInv => EffectsApprovedAndKept
    BY DEF IInv, DecisionInv, First, EffectsApprovedAndKept, EffectNeedsApproval,
           CompletedIsStored
<1> QED BY <1>1, Inductive, PTL

(***************************************************************************)
(* Of any number of instances of the delivery, two report the effect as    *)
(* their own only if their activities overlapped between reading and       *)
(* saving (execute_activity).                                              *)
(***************************************************************************)
THEOREM TwiceMeansOverlap == Spec => []TwiceOnlyIfOverlapping
<1>1. IInv => TwiceOnlyIfOverlapping
    BY DEF IInv, ClaimsInv, Claims, TwiceOnlyIfOverlapping
<1> QED BY <1>1, Inductive, PTL

(***************************************************************************)
(* A written record is the real and lasting end of its instance, the one   *)
(* its decision asks for unless an earlier event decided otherwise; an end *)
(* by failure took at least three processes (resume, RetryPolicy).         *)
(***************************************************************************)
THEOREM RecordsAreTrue == Spec => []RecordsTellTheEnd
<1>1. IInv => RecordsTellTheEnd
    <2> SUFFICES ASSUME IInv PROVE RecordsTellTheEnd
        OBVIOUS
    <2>1. FailureNeedsThreeProcesses
        <3>1. wf \in [Instances -> Workflow] /\ launched \in Nat /\ MaxAttempts = 3
            BY Typed DEF IInv
        <3>2. \A i \in Instances : wf[i].phase = "failed" =>
                 wf[i].failures = 3 /\ 3 + (IF Up /\ ~warm THEN 1 ELSE 0) <= launched
            BY <3>1 DEF IInv, FailureInv
        <3> QED BY <3>1, <3>2 DEF FailureNeedsThreeProcesses
    <2>2. ASSUME NEW r \in records
          PROVE  /\ wf[r.instance].phase = r.outcome /\ r.outcome \in Finished
                 /\ \/ r.outcome = "failed"
                    \/ r.outcome = (IF r.decision = "approve" THEN "completed" ELSE "denied")
                    \/ Head(raised[r.instance]) # r.decision
        BY DEF IInv, RecordsInv, DecisionInv, First, Finished, Verdicts
    <2> QED BY <2>1, <2>2 DEF RecordsTellTheEnd
<1> QED BY <1>1, Inductive, PTL
===================================================================================
