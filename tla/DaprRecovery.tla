------------------------------- MODULE DaprRecovery -------------------------------
(***************************************************************************)
(* The crash/restart probe: workflow instances of one delivery, run by     *)
(* whichever probe process is up.  The workflow engine and the state store *)
(* are durable and external: an activity whose result was not recorded     *)
(* runs again in the next process, an external event is kept until the     *)
(* workflow asks for it.  A process may stop between any two steps, by a   *)
(* crash, an interrupt or one of its 30 second timeouts.                   *)
(***************************************************************************)
EXTENDS Integers, Sequences, FiniteSets

CONSTANTS
    Instances,    \* workflow instance ids
    MaxProcesses, \* bound: probe processes ever launched
    NoProcess     \* no probe process is up

MaxAttempts == 3  \* RetryPolicy.max_number_of_attempts

VARIABLES
    wf,        \* engine: per instance its phase, failed attempts, decision, result
    raised,    \* engine: per instance the events raised, oldest first
    inspected, \* store: the instances whose inspection is saved
    effect,    \* store: is the delivery's effect recorded?
    inflight,  \* process: per instance how far its running activity is
    warm,      \* process: has an inspection been attempted (_inspection_attempts > 0)?
    proc,      \* the probe process: its mode, instance, decision and stage
    launched,  \* processes launched so far
    records,   \* evidence written by resume
    overlaps   \* history: pairs of instances that both found no effect at a time

engine == <<wf, raised>>
store  == <<inspected, effect>>
worker == <<inflight, warm>>
client == <<proc, launched, records>>
vars   == <<engine, store, worker, client, overlaps>>

Verdicts == {"approve", "deny"}
Finished == {"completed", "denied", "failed"}

(* A probe process: start(instance), or resume(instance, decision).        *)
Process == [mode : {"start", "resume"}, instance : Instances,
            decision : Verdicts \cup {"none"},
            stage : {"up", "waiting", "announced", "recorded"}]

ASSUME DaprAssumption == MaxProcesses \in Nat /\ NoProcess \notin Process

Init ==
    /\ wf = [i \in Instances |-> [phase |-> "unscheduled", failures |-> 0,
                                  decision |-> "none", replayed |-> FALSE]]
    /\ raised = [i \in Instances |-> <<>>]
    /\ inspected = {} /\ effect = FALSE
    /\ inflight = [i \in Instances |-> "idle"] /\ warm = FALSE
    /\ proc = NoProcess /\ launched = 0 /\ records = {}
    /\ overlaps = {}

Up == proc # NoProcess

----------------------------------------------------------------------------
(* The client side of a process: start(i) or resume(i, d).                 *)
Launch(mode, i, d) ==
    /\ ~Up /\ launched < MaxProcesses
    /\ mode = "start" => wf[i].phase = "unscheduled"
    /\ mode = "resume" => wf[i].phase # "unscheduled"
    /\ proc' = [mode |-> mode, instance |-> i, decision |-> d, stage |-> "up"]
    /\ launched' = launched + 1
    /\ UNCHANGED <<engine, store, worker, records, overlaps>>

Schedule ==
    /\ Up /\ proc.mode = "start" /\ proc.stage = "up"
    /\ wf' = [wf EXCEPT ![proc.instance].phase = "inspecting"]
    /\ proc' = [proc EXCEPT !.stage = "waiting"]
    /\ UNCHANGED <<raised, store, worker, launched, records, overlaps>>

(* wait_for_inspection polls the store, not the workflow.                  *)
Announce ==
    /\ Up /\ proc.mode = "start" /\ proc.stage = "waiting"
    /\ proc.instance \in inspected
    /\ proc' = [proc EXCEPT !.stage = "announced"]
    /\ UNCHANGED <<engine, store, worker, launched, records, overlaps>>

RaiseEvent ==
    /\ Up /\ proc.mode = "resume" /\ proc.stage = "up"
    /\ raised' = [raised EXCEPT ![proc.instance] = Append(@, proc.decision)]
    /\ proc' = [proc EXCEPT !.stage = "waiting"]
    /\ UNCHANGED <<wf, store, worker, launched, records, overlaps>>

(* The record pairs the decision of this process with the workflow's end,  *)
(* whoever raised the event the workflow acted on.                         *)
Record ==
    /\ Up /\ proc.mode = "resume" /\ proc.stage = "waiting"
    /\ wf[proc.instance].phase \in Finished
    /\ records' = records \cup {[instance |-> proc.instance, decision |-> proc.decision,
                                 outcome |-> wf[proc.instance].phase]}
    /\ proc' = [proc EXCEPT !.stage = "recorded"]
    /\ UNCHANGED <<engine, store, worker, launched, overlaps>>

(* The process ends, in order or not: its activities and its attempt       *)
(* counter are gone.                                                       *)
Stop ==
    /\ Up
    /\ proc' = NoProcess /\ warm' = FALSE
    /\ inflight' = [i \in Instances |-> "idle"]
    /\ UNCHANGED <<engine, store, launched, records, overlaps>>

----------------------------------------------------------------------------
(* The worker side: activities of every instance, whoever was launched.    *)
Dispatchable(i, phase) == Up /\ wf[i].phase = phase /\ inflight[i] = "idle"

(* Mutant: a failed attempt is never the last one.                         *)
InspectFailsForever(i) ==
    /\ Dispatchable(i, "inspecting") /\ ~warm
    /\ warm' = FALSE
    /\ wf' = [wf EXCEPT ![i].failures = IF @ < MaxAttempts THEN @ + 1 ELSE @]
    /\ UNCHANGED <<raised, store, inflight, client, overlaps>>

(* Mutant: nobody looks at the number of failed attempts.                  *)
InspectFailsUncounted(i) ==
    /\ Dispatchable(i, "inspecting") /\ ~warm
    /\ warm' = TRUE
    /\ wf' = [wf EXCEPT ![i].failures = @ + 1]
    /\ UNCHANGED <<raised, store, inflight, client, overlaps>>

(* Mutant: the policy gives up after the second attempt.                   *)
InspectFailsTwice(i) ==
    /\ Dispatchable(i, "inspecting") /\ ~warm
    /\ warm' = TRUE
    /\ wf' = [wf EXCEPT ![i].failures = @ + 1,
                        ![i].phase = IF wf[i].failures + 1 = MaxAttempts - 1 THEN "failed" ELSE @]
    /\ UNCHANGED <<raised, store, inflight, client, overlaps>>

(* The first inspection attempt in each process raises; the third failed   *)
(* attempt of an instance fails its workflow.                              *)
InspectFails(i) ==
    /\ Dispatchable(i, "inspecting") /\ ~warm
    /\ warm' = TRUE
    /\ wf' = [wf EXCEPT ![i].failures = @ + 1,
                        ![i].phase = IF wf[i].failures + 1 = MaxAttempts THEN "failed" ELSE @]
    /\ UNCHANGED <<raised, store, inflight, client, overlaps>>

InspectSaves(i) ==
    /\ Dispatchable(i, "inspecting") /\ warm
    /\ inspected' = inspected \cup {i}
    /\ inflight' = [inflight EXCEPT ![i] = "inspected"]
    /\ UNCHANGED <<engine, effect, warm, client, overlaps>>

InspectReturns(i) ==
    /\ inflight[i] = "inspected"
    /\ wf' = [wf EXCEPT ![i].phase = "awaiting_approval"]
    /\ inflight' = [inflight EXCEPT ![i] = "idle"]
    /\ UNCHANGED <<raised, store, warm, client, overlaps>>

(* Mutant: any event at all lets the workflow go on to execute.            *)
DecideAnything(i) ==
    /\ Dispatchable(i, "awaiting_approval") /\ raised[i] # <<>>
    /\ wf' = [wf EXCEPT ![i].decision = Head(raised[i]), ![i].phase = "executing"]
    /\ UNCHANGED <<raised, store, worker, client, overlaps>>

(* Mutant: the workflow acts on the latest event.                          *)
DecideLatest(i) ==
    /\ Dispatchable(i, "awaiting_approval") /\ raised[i] # <<>>
    /\ LET d == raised[i][Len(raised[i])]
       IN  wf' = [wf EXCEPT ![i].decision = d,
                            ![i].phase = IF d = "approve" THEN "executing" ELSE "denied"]
    /\ UNCHANGED <<raised, store, worker, client, overlaps>>

(* Mutant: a denial is waited out instead of ending the workflow.          *)
DecideApprovalsOnly(i) ==
    /\ Dispatchable(i, "awaiting_approval") /\ raised[i] # <<>>
    /\ Head(raised[i]) = "approve"
    /\ wf' = [wf EXCEPT ![i].decision = "approve", ![i].phase = "executing"]
    /\ UNCHANGED <<raised, store, worker, client, overlaps>>

(* The workflow consumes the first event raised for it.                    *)
Decide(i) ==
    /\ Dispatchable(i, "awaiting_approval") /\ raised[i] # <<>>
    /\ LET d == Head(raised[i])
       IN  wf' = [wf EXCEPT ![i].decision = d,
                            ![i].phase = IF d = "approve" THEN "executing" ELSE "denied"]
    /\ UNCHANGED <<raised, store, worker, client, overlaps>>

(* Mutant: the activity does not look for an existing result.              *)
ExecuteNeverReplays(i) ==
    /\ Dispatchable(i, "executing")
    /\ inflight' = [inflight EXCEPT ![i] = "performs"]
    /\ overlaps' = IF effect THEN overlaps ELSE
           overlaps \cup {{i, j} : j \in {k \in Instances \ {i} : inflight[k] = "performs"}}
    /\ UNCHANGED <<engine, store, warm, client>>

(* execute_activity reads the effect key, saves the effect if there is     *)
(* none, and returns: three steps other instances can fall between.        *)
ExecuteReads(i) ==
    /\ Dispatchable(i, "executing")
    /\ inflight' = [inflight EXCEPT ![i] = IF effect THEN "replays" ELSE "performs"]
    /\ overlaps' = IF effect THEN overlaps ELSE
           overlaps \cup {{i, j} : j \in {k \in Instances \ {i} : inflight[k] = "performs"}}
    /\ UNCHANGED <<engine, store, warm, client>>

(* Mutant: the result is returned without having been saved.               *)
ExecuteForgets(i) ==
    /\ inflight[i] = "performs"
    /\ inflight' = [inflight EXCEPT ![i] = "performed"]
    /\ UNCHANGED <<engine, store, warm, client, overlaps>>

ExecuteSaves(i) ==
    /\ inflight[i] = "performs"
    /\ effect' = TRUE
    /\ inflight' = [inflight EXCEPT ![i] = "performed"]
    /\ UNCHANGED <<engine, inspected, warm, client, overlaps>>

ExecuteReturns(i) ==
    /\ inflight[i] \in {"replays", "performed"}
    /\ wf' = [wf EXCEPT ![i].phase = "completed",
                        ![i].replayed = (inflight[i] = "replays")]
    /\ inflight' = [inflight EXCEPT ![i] = "idle"]
    /\ UNCHANGED <<raised, store, warm, client, overlaps>>

----------------------------------------------------------------------------
Work(i) ==
    \/ InspectFails(i) \/ InspectSaves(i) \/ InspectReturns(i)
    \/ Decide(i)
    \/ ExecuteReads(i) \/ ExecuteSaves(i) \/ ExecuteReturns(i)

Client == Schedule \/ Announce \/ RaiseEvent \/ Record

Next ==
    \/ \E i \in Instances :
          \/ Work(i)
          \/ Launch("start", i, "none")
          \/ \E d \in Verdicts : Launch("resume", i, d)
    \/ Client
    \/ Stop

(* A process that is up goes on: its client and its activities make        *)
(* progress.  Nothing makes an operator launch or stop one.                *)
Fairness == WF_vars(Client) /\ \A i \in Instances : WF_vars(Work(i))

Spec == Init /\ [][Next]_vars /\ Fairness

----------------------------------------------------------------------------
Activities == {"idle", "inspected", "performs", "performed", "replays"}

(* Every variable has its type, and activities run only in a process.      *)
TypeOK ==
    /\ wf \in [Instances ->
                 [phase : {"unscheduled", "inspecting", "awaiting_approval", "executing"}
                              \cup Finished,
                  failures : 0..MaxAttempts, decision : Verdicts \cup {"none"},
                  replayed : BOOLEAN]]
    /\ raised \in [Instances -> Seq(Verdicts)]
    /\ inspected \subseteq Instances /\ effect \in BOOLEAN /\ warm \in BOOLEAN
    /\ inflight \in [Instances -> Activities]
    /\ ~Up => ~warm /\ \A i \in Instances : inflight[i] = "idle"
    /\ launched \in 0..MaxProcesses

(* The effect is recorded only after some instance was told to approve by  *)
(* the first event raised for it; an instance whose first event is a       *)
(* denial never performs or replays it (incident_workflow).                *)
EffectNeedsApproval ==
    /\ effect => \E i \in Instances : raised[i] # <<>> /\ Head(raised[i]) = "approve"
    /\ \A i \in Instances :
          wf[i].phase \in {"executing", "completed"} => Head(raised[i]) = "approve"

(* A workflow that reports completion has its effect in the store, however *)
(* often its activity was interrupted and run again.                       *)
CompletedIsStored == \A i \in Instances : wf[i].phase = "completed" => effect

(* What is in the store agrees with the decisions and with the reports,    *)
(* whichever steps a stopped process lost.                                 *)
EffectsApprovedAndKept == EffectNeedsApproval /\ CompletedIsStored

(* Two instances of one delivery both report the effect as their own only  *)
(* if their activities overlapped between reading and saving; one that     *)
(* reads after another has saved reports a replay.                         *)
TwiceOnlyIfOverlapping ==
    \A i, j \in Instances :
        /\ i # j
        /\ wf[i].phase = "completed" /\ ~wf[i].replayed
        /\ wf[j].phase = "completed" /\ ~wf[j].replayed
        => {i, j} \in overlaps

(* The synthetic failure hits once per process, so three attempts are      *)
(* enough for every instance that lives through fewer than three processes.*)
FailureNeedsThreeProcesses ==
    \A i \in Instances : wf[i].phase = "failed" => launched >= MaxAttempts

(* What resume writes down is the workflow's real end, and the end its own *)
(* decision asks for unless inspection failed or an earlier resume of the  *)
(* instance had raised the other decision before.  An end by failure takes *)
(* three processes.                                                        *)
RecordsTellTheEnd ==
    /\ \A r \in records :
          /\ wf[r.instance].phase = r.outcome
          /\ r.outcome \in Finished
          /\ \/ r.outcome = "failed"
             \/ r.outcome = (IF r.decision = "approve" THEN "completed" ELSE "denied")
             \/ Head(raised[r.instance]) # r.decision
    /\ FailureNeedsThreeProcesses

(* A start that is not stopped announces the approval wait, and a resume   *)
(* that is not stopped writes its record: retries end, and the workflow    *)
(* comes to an end in the process that resumed it.                         *)
StartAnnounces ==
    \A i \in Instances :
        Up /\ proc.mode = "start" /\ proc.instance = i
            ~> ~Up \/ wf[i].phase \in Finished \/ proc.stage = "announced"

ResumeRecords ==
    (Up /\ proc.mode = "resume") ~> (~Up \/ proc.stage = "recorded")

(* Either probe comes to its end in a process that is not stopped.         *)
ProbesFinish == StartAnnounces /\ ResumeRecords
===================================================================================
