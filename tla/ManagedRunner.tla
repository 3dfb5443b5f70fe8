----------------------------- MODULE ManagedRunner -----------------------------
(***************************************************************************)
(* ManagedTrajectoryRunner (policy_lab/managed.py) against the gateway.    *)
(* A proof presents one trajectory several times, a warm-up first, each    *)
(* time under fresh session, approval and change identifiers; a burst      *)
(* sends its calls from as many threads, released by a barrier.  A call    *)
(* may be throttled or lost at either end of the gateway, and the          *)
(* transport may raise, which ends the batch without any output.           *)
(***************************************************************************)
EXTENDS ManagedGateway

CONSTANTS
  Trajectories,  \* what a proof may present; Requests are what it may send
  Repetitions,   \* measured runs after the warm-up
  SessionFor,    \* run -> session label -> session: _session_map
  Renamed,       \* run -> identifier -> identifier: the namespace suffix
  Burst,         \* the call of the burst, as a step
  NoChange       \* None, as a change identifier

Runs == 0..Repetitions

Unusable == {"missing", "malformed"}

\* A step; its request is namespaced when it is sent.
Step == [caller : Callers, label : (DOMAIN SessionFor[0]) \cup Unusable,
         request : Call, onError : BOOLEAN, onDeny : BOOLEAN]

\* An approval expires fifteen minutes from now, or has expired a minute ago.
NamespacedArguments(n, q, at) ==
  [q EXCEPT
     !.approval = IF q.tool \in {"record_human_approval", "execute_write"}
                    THEN Renamed[n][@] ELSE @,
     !.change = IF q.tool = "execute_write" THEN Renamed[n][@] ELSE @,
     !.expiry = IF q.tool # "record_human_approval" THEN @
                ELSE IF @ = 0 THEN (IF at = 0 THEN 0 ELSE at - 1)
                ELSE at + 15]

Answers == {"success", "tool_error", "deny", "validation_error",
            "transport_error", "rate_limited"}

Verdicts == {"allow", "deny", "tool_error", "mixed", "validation_error",
             "transport_error", "rate_limited", "inconclusive"}

ASSUME ManagedRunnerAssumption ==
  /\ Repetitions \in Nat \ {0}
  /\ SessionFor \in [Runs -> [DOMAIN SessionFor[0] -> Sessions]]
  /\ Burst \in Step /\ Burst.label \notin Unusable /\ Burst.request \in Requests
  /\ \A x \in Trajectories :
       /\ x.steps \in Seq(Step) /\ Len(x.steps) > 0
       /\ \A i \in DOMAIN x.steps, n \in Runs, at \in 0..MaxNow :
            NamespacedArguments(n, x.steps[i].request, at) \in Requests
       /\ \A i, j \in DOMAIN x.steps, n \in Runs :
            LET a == x.steps[i].request.approval
                b == x.steps[j].request.approval
            IN Renamed[n][a] = Renamed[n][b] => a = b
  /\ \A m, n \in Runs, l, k \in DOMAIN SessionFor[0] :
       SessionFor[m][l] = SessionFor[n][k] => m = n /\ l = k
  /\ NoChange \notin Ids

VARIABLES
  mode,       \* "proof" or "rate_limit"
  stage,      \* "running", "finished", or "aborted" by an exception
  trajectory, \* the trajectory of the proof; of no matter in a burst
  run,        \* the locals of _execute_scenario
  summaries,  \* one for each measured run, or for the burst
  threads     \* burst: how far the thread of each step is, or its outcome

runnerVars == <<mode, stage, trajectory, run, summaries, threads>>

batchVars == <<vars, runnerVars>>

Recorded == UNION {{p} \X DOMAIN events[p] : p \in Pairs}

\* began and before are history variables: the minute in which the run started
\* and the events the gateway had recorded by then.
NewRun(n) == [repetition |-> n, log |-> <<>>, retries |-> 0,
              previous |-> NoChange, continued |-> FALSE, stopped |-> 0,
              began |-> now, before |-> Cardinality(Recorded)]

BatchInit ==
  /\ Init
  /\ mode \in {"proof", "rate_limit"}
  /\ stage = "running"
  /\ trajectory \in Trajectories
  /\ mode = "rate_limit" => trajectory = CHOOSE x \in Trajectories : TRUE
  /\ run = NewRun(0)
  /\ summaries = <<>>
  /\ threads = [k \in Connections |-> "queued"]

-----------------------------------------------------------------------------

Position == Len(run.log) + 1

CurrentStep == trajectory.steps[Position]

\* mutant: sessions are named after the trajectory only
PairOfAnyRun(n, x) == <<x.caller, SessionFor[0][x.label]>>

PairOf(n, x) == <<x.caller, SessionFor[n][x.label]>>

ChangeOf(q) == IF q.tool = "execute_write" THEN q.change ELSE NoChange

Refusals == {"deny", "validation_error", "transport_error", "rate_limited"}

\* A run stops unless the step continues over its answer.  Over a refusal
\* either flag continues.
GoesOn(x, answer) ==
  \/ answer = "success"
  \/ answer \in Refusals /\ (x.onDeny \/ x.onError)
  \/ answer = "tool_error" /\ x.onError

\* What every step ends with: the answer is logged, and the run goes on or not.
Conclude(answer) ==
  LET x == CurrentStep
      goesOn == GoesOn(x, answer)
      change == ChangeOf(x.request)
      retry == change # NoChange /\ change = run.previous
  IN run' = [run EXCEPT
       !.log = Append(@, [step |-> x, answer |-> answer]),
       !.retries = @ + (IF retry THEN 1 ELSE 0),
       !.previous = change,
       !.continued = @ \/ (answer \in Refusals /\ goesOn),
       !.stopped = IF goesOn THEN 0 ELSE Position]

Presenting ==
  /\ mode = "proof" /\ stage = "running" /\ run.stopped = 0
  /\ Position <= Len(trajectory.steps)

\* The trajectory runner has one call outstanding.
Main == CHOOSE k \in Connections : TRUE

ProofSame == UNCHANGED <<mode, stage, trajectory, summaries, threads>>

\* A malformed session is rejected; for a missing one the service's documents
\* disagree: it is rejected, or a session of its own is made up for the call,
\* in which no write is permitted.
SendUnsessioned ==
  /\ Presenting /\ flight = <<>>
  /\ CurrentStep.label \in Unusable
  /\ \/ Conclude("validation_error")
     \/ /\ CurrentStep.label = "missing" /\ CurrentStep.request.tool = "lookup_record"
        /\ Conclude("success")
  /\ ProofSame /\ UNCHANGED vars

Supplied == CurrentStep.label \notin Unusable

SentRequest == NamespacedArguments(run.repetition, CurrentStep.request, now)

SendForwarded ==
  /\ Presenting /\ flight = <<>> /\ Supplied
  /\ Forward(Main, PairOf(run.repetition, CurrentStep), SentRequest)
  /\ ProofSame /\ UNCHANGED run

SendDenied ==
  /\ Presenting /\ flight = <<>> /\ Supplied
  /\ Deny(PairOf(run.repetition, CurrentStep), SentRequest)
  /\ Conclude("deny")
  /\ ProofSame

\* The call is throttled, or fails before it reaches the gateway.
SendFails ==
  /\ Presenting /\ flight = <<>>
  /\ Conclude("rate_limited") \/ Conclude("transport_error")
  /\ ProofSame /\ UNCHANGED vars

\* mutant: a declared failure is a successful envelope
ClassifyEnvelope(result) == "success"

\* classify_response for an answered call: a declared failure is a tool error.
Classify(result) == IF result = "FAILED" THEN "tool_error" ELSE "success"

ReceiveAnswer ==
  /\ Presenting /\ Main \in DOMAIN flight
  /\ Respond(Main)
  /\ Conclude(Classify(flight[Main].result)) \/ Conclude("transport_error")
  /\ ProofSame

\* A function that raised or timed out is reported as an isError result, or as
\* an error of the gateway.
ReceiveError ==
  /\ Presenting /\ Main \in DOMAIN flight
  /\ LoseResponse(Main)
  /\ Conclude("tool_error") \/ Conclude("transport_error")
  /\ ProofSame

\* Only HTTP errors are caught: a time-out or a refused connection leaves
\* run_proof, and nothing is written.  The function's time-out is the shorter
\* one, so the call has ended in the gateway.
TransportRaises ==
  /\ Presenting
  /\ \/ flight = <<>> /\ UNCHANGED vars
     \/ Respond(Main)
     \/ LoseResponse(Main)
  /\ stage' = "aborted"
  /\ UNCHANGED <<mode, trajectory, run, summaries, threads>>

-----------------------------------------------------------------------------

Answered(log, answer) == {i \in DOMAIN log : log[i].answer = answer}

Actual(log, continued) ==
  IF Answered(log, "validation_error") # {} THEN "validation_error"
  ELSE IF Answered(log, "transport_error") # {} THEN "transport_error"
  ELSE IF Answered(log, "rate_limited") # {} THEN "rate_limited"
  ELSE IF Answered(log, "deny") # {}
    THEN IF Answered(log, "tool_error") # {} \/ continued THEN "mixed" ELSE "deny"
  ELSE IF Answered(log, "tool_error") # {} THEN "tool_error" ELSE "allow"

FalseAllow(log) ==
  trajectory.unsafe \cap (Answered(log, "success") \cup Answered(log, "tool_error")) # {}

FalseDenial(log) == ~(Answered(log, "deny") \subseteq trajectory.denies)

\* The run is summarized; the warm-up's summary is dropped.
FinishRun ==
  /\ mode = "proof" /\ stage = "running"
  /\ run.stopped # 0 \/ Position > Len(trajectory.steps)
  /\ summaries' = IF run.repetition = 0 THEN summaries
       ELSE Append(summaries,
              [actual |-> Actual(run.log, run.continued),
               false_allow |-> FalseAllow(run.log),
               false_denial |-> FalseDenial(run.log),
               completed |-> Cardinality(Answered(run.log, "success"))])
  /\ IF run.repetition = Repetitions
       THEN stage' = "finished" /\ UNCHANGED run
       ELSE run' = NewRun(run.repetition + 1) /\ UNCHANGED stage
  /\ UNCHANGED <<vars, mode, trajectory, threads>>

-----------------------------------------------------------------------------

Bursting == mode = "rate_limit" /\ stage = "running"

BurstSame == UNCHANGED <<mode, stage, trajectory, run, summaries>>

Moved(k, to) == threads' = [threads EXCEPT ![k] = to]

\* mutant: the pool has one worker less than there are steps
FewerWorkers == Cardinality(Connections) - 1

\* max_workers of the pool: one for each step of the burst
Workers == Cardinality(Connections)

Occupied == {k \in Connections : threads[k] \in {"arrived", "calling"}}

Arrive(k) ==
  /\ Bursting /\ threads[k] = "queued"
  /\ Cardinality(Occupied) < Workers
  /\ Moved(k, "arrived")
  /\ BurstSame /\ UNCHANGED vars

\* The barrier's parties are the steps of the burst.
Released == \A k \in Connections : threads[k] # "queued"

BurstPair == PairOf(0, Burst)

\* The rate limit, a policy or the transport may answer instead of the tool,
\* and the transport may raise in its thread.
BurstCall(k) ==
  /\ Bursting /\ threads[k] = "arrived" /\ Released
  /\ \/ Forward(k, BurstPair, Burst.request) /\ Moved(k, "calling")
     \/ /\ UNCHANGED vars
        /\ \E answer \in {"rate_limited", "deny", "transport_error", "raised"} :
             Moved(k, answer)
  /\ BurstSame

BurstAnswer(k) ==
  /\ Bursting /\ threads[k] = "calling"
  /\ \/ Respond(k) /\ Moved(k, Classify(flight[k].result))
     \/ /\ Respond(k) \/ LoseResponse(k)
        /\ \E answer \in {"transport_error", "raised"} : Moved(k, answer)
     \/ LoseResponse(k) /\ Moved(k, "tool_error")
  /\ BurstSame

Among(answers) == {k \in Connections : threads[k] \in answers}

BurstVerdict ==
  IF Among(Answers \ {"success", "rate_limited"}) # {} THEN "inconclusive"
  ELSE IF Among({"rate_limited"}) # {} THEN "rate_limited" ELSE "allow"

\* map() returns when every thread has ended; an exception in one is raised
\* again, and nothing is written.
Collect ==
  /\ Bursting
  /\ \A k \in Connections : threads[k] \in Answers \cup {"raised"}
  /\ IF Among({"raised"}) # {}
       THEN stage' = "aborted" /\ UNCHANGED summaries
       ELSE /\ stage' = "finished"
            /\ summaries' = <<[actual |-> BurstVerdict, false_allow |-> FALSE,
                               false_denial |-> FALSE,
                               completed |-> Cardinality(Among({"success"}))]>>
  /\ UNCHANGED <<vars, mode, trajectory, run, threads>>

-----------------------------------------------------------------------------

FunctionRuns(k) == Invoke(k) /\ stage = "running" /\ UNCHANGED runnerVars

Progress ==
  \/ SendUnsessioned \/ SendForwarded \/ SendDenied \/ SendFails
  \/ ReceiveAnswer \/ ReceiveError \/ TransportRaises \/ FinishRun
  \/ \E k \in Connections :
       FunctionRuns(k) \/ Arrive(k) \/ BurstCall(k) \/ BurstAnswer(k)
  \/ Collect

MinutePasses == Tick /\ stage = "running" /\ UNCHANGED runnerVars

BatchNext == Progress \/ MinutePasses

\* The runner and its threads run until they wait for an answer, and every
\* call ends: the function's and the transport's time-outs see to it.
BatchSpec == BatchInit /\ [][BatchNext]_batchVars /\ WF_batchVars(Progress)

-----------------------------------------------------------------------------

BatchTypeOK ==
  /\ GatewayTypeOK
  /\ mode \in {"proof", "rate_limit"}
  /\ stage \in {"running", "finished", "aborted"}
  /\ trajectory \in Trajectories
  /\ run.repetition \in Runs /\ Len(run.log) <= Len(trajectory.steps)
  /\ run.stopped \in {0, Len(run.log)}
  /\ \A i \in DOMAIN run.log :
       run.log[i].step = trajectory.steps[i] /\ run.log[i].answer \in Answers
  /\ \A i \in DOMAIN summaries : summaries[i].actual \in Verdicts
  /\ Len(summaries) <= Repetitions
  /\ threads \in [Connections ->
                    Answers \cup {"queued", "arrived", "calling", "raised"}]

\* The events of the sessions of run n.
RunSessions(n) == {SessionFor[n][l] : l \in DOMAIN SessionFor[n]}

EventsOf(n) ==
  UNION {{p} \X DOMAIN events[p] : p \in Callers \X RunSessions(n)}

Unfailed(n) == {x \in EventsOf(n) : events[x[1]][x[2]].result # "FAILED"}

\* The call of a log's entry was sent with the session of its step.
Usable(entry) == entry.step.label \notin Unusable

InSession(i) == Usable(run.log[i])

(***************************************************************************)
(* What the batch counts as completed is what the gateway recorded as      *)
(* done, although neither sees the other's bookkeeping: a completed call   *)
(* has its event, and an event that was not counted has a transport error  *)
(* in its place; a run classified "allow" had every call recorded and      *)
(* every write of its trajectory stored as succeeded; a burst that is not  *)
(* inconclusive had each of its calls either throttled or recorded         *)
(* (classify_response, _execute_scenario, run_rate_limit).                 *)
(***************************************************************************)
CompletedIsRecorded ==
  LET done == {i \in Answered(run.log, "success") : InSession(i)}
      lost == Answered(run.log, "transport_error")
      recorded == Cardinality(Unfailed(run.repetition))
  IN /\ mode = "proof" /\ stage # "aborted" =>
          /\ Cardinality(done) <= recorded
          /\ recorded <= Cardinality(done) + Cardinality(lost)
          /\ stage = "finished" /\ summaries[Len(summaries)].actual = "allow"
               => /\ recorded = Cardinality({i \in DOMAIN run.log : InSession(i)})
                  /\ Len(run.log) = Len(trajectory.steps)
                  /\ \A i \in DOMAIN trajectory.steps :
                       LET q == NamespacedArguments(run.repetition,
                                                    trajectory.steps[i].request, now)
                       IN q.tool = "execute_write" => OperationOf(q) \in table
     /\ mode = "rate_limit" /\ stage = "finished" /\ summaries[1].actual # "inconclusive"
          => Cardinality(Among({"rate_limited"})) + Len(events[BurstPair])
               = Cardinality(Connections)

\* Every call of the run that was not denied left its response event.
NothingLost ==
  Cardinality(Recorded) - run.before =
    Cardinality({i \in DOMAIN run.log : InSession(i) /\ run.log[i].answer # "deny"})

IsWrite(entry) == Usable(entry) /\ entry.step.request.tool = "execute_write"

\* The calls before step i of a log that the policy knows of when a step x is
\* presented, if nothing was lost.
Known(log, i, x) ==
  {j \in 1..(i - 1) : /\ Usable(log[j]) /\ log[j].answer # "deny"
                      /\ log[j].step.caller = x.caller
                      /\ log[j].step.label = x.label}

\* The writes among the calls K of a log, and those under one approval.
WritesOf(K, log, effect) ==
  {j \in K : /\ log[j].step.request.tool = "execute_write"
             /\ log[j].step.request.mode = effect}

WritesUnder(K, log, effect, a) ==
  {j \in WritesOf(K, log, effect) : log[j].step.request.approval = a}

\* What the calls K of a log, in the identifiers of the trajectory, say of a
\* write q.
JustifiedFor(K, log, q) ==
  /\ \E j \in K : /\ log[j].step.request.tool = "lookup_record"
                  /\ log[j].step.request.record = q.record
  /\ \E j \in K : /\ log[j].step.request.tool = "record_human_approval"
                  /\ log[j].step.request.record = q.record
                  /\ log[j].step.request.approval = q.approval
                  /\ log[j].step.request.expiry # 0
                  /\ \A k \in WritesUnder(K, log, "valid", q.approval) : k < j
  /\ Cardinality(WritesOf(K, log, "valid")) < WriteLimit
  /\ Cardinality(WritesUnder(K, log, "force_error", q.approval)) < RetryLimit

\* What the log itself says of a step x presented as step i.
Justified(log, i, x) == JustifiedFor(Known(log, i, x), log, x.request)

SameWrite(x, y) ==
  /\ x.caller = y.caller /\ x.label = y.label
  /\ x.request.record = y.request.record /\ x.request.approval = y.request.approval

\* Since a write like x was denied last, its record was looked up or an approval
\* of the record recorded.
Reopened(log, j, x) ==
  \A i \in 1..(j - 1) :
    IsWrite(log[i]) /\ log[i].answer = "deny" /\ SameWrite(log[i].step, x)
      => \E k \in Known(log, j, x) :
           /\ i < k /\ log[k].step.request.record = x.request.record
           /\ log[k].step.request.tool \in {"lookup_record", "record_human_approval"}

DenialsStay(log) ==
  \A j \in DOMAIN log : IsWrite(log[j]) /\ log[j].answer # "deny"
                          => Reopened(log, j, log[j].step)

\* The run has not lasted longer than failures are counted, or longer than an
\* approval and a lookup stay fresh.
Counting == now - run.began <= FailureWindow

Fresh == now - run.began <= ApprovalWindow /\ now - run.began <= LookupWindow

(***************************************************************************)
(* A proof sends one call at a time, so whatever is lost an approval backs *)
(* one successful write per recording and the caps hold exactly.  And if   *)
(* every call that was not denied left its event, the policy decided on    *)
(* the history the runner presented: every write it let through is         *)
(* justified by the run's own log, of the same caller and session label    *)
(* and under the fixture's identifiers, while everything is fresh none     *)
(* that is justified was denied, and what it denied stays denied until its *)
(* record is looked up or approved again.  Neither earlier runs nor the    *)
(* suffixes show (_session_map, _namespaced_arguments, the temporal        *)
(* statements).                                                            *)
(***************************************************************************)
DecisionsFollowTheLog ==
  mode = "proof" =>
    /\ UsesWithin(1) /\ CapsWithin(1)
    /\ stage # "aborted" /\ NothingLost /\ Counting =>
         /\ \A i \in DOMAIN run.log : IsWrite(run.log[i]) =>
              /\ run.log[i].answer # "deny" => Justified(run.log, i, run.log[i].step)
              /\ run.log[i].answer = "deny" /\ Fresh => ~Justified(run.log, i, run.log[i].step)
         /\ DenialsStay(run.log)

\* Within the minutes an approval and a lookup stay fresh.
Clean ==
  /\ Answered(run.log, "transport_error") \cup Answered(run.log, "rate_limited") = {}
  /\ NothingLost /\ Fresh

\* What a step of a trajectory is answered when nothing is throttled, lost or
\* raised and the steps D are refused.
AnswerOf(x, D) ==
  IF x.label \in Unusable THEN IF D THEN "validation_error" ELSE "success"
  ELSE IF D THEN "deny"
  ELSE IF x.request.tool = "execute_write" /\ x.request.mode = "force_error"
    THEN "tool_error" ELSE "success"

\* The log of the first n steps when D are refused.
LogOf(steps, D, n) ==
  [i \in 1..n |-> [step |-> steps[i], answer |-> AnswerOf(steps[i], i \in D)]]

\* What may be refused, and what always is: a lookup without a session is
\* rejected or not.
MayRefuse(x) == x.label \in Unusable \/ x.request.tool = "execute_write"

MustRefuse(x) ==
  \/ x.label \in Unusable \ {"missing"}
  \/ x.label \in Unusable /\ x.request.tool # "lookup_record"

\* A run may end after this log: it went on over every answer but the last.
EndsLike(steps, log) ==
  /\ \A i \in DOMAIN log : i < Len(log) => GoesOn(log[i].step, log[i].answer)
  /\ Len(log) = Len(steps) \/ ~GoesOn(log[Len(log)].step, log[Len(log)].answer)

ContinuedOver(log) ==
  \E i \in DOMAIN log : log[i].answer \in Refusals /\ GoesOn(log[i].step, log[i].answer)

\* The fixtures declare of every trajectory what the policy's text says of it:
\* no unsafe step is let through while every write let through is justified
\* and denials stay; and when exactly the unjustified writes are denied, the
\* trajectory ends as expected with no denial but the declared ones.
ASSUME FixturesDeclareTheText ==
  \A t \in Trajectories : \A n \in DOMAIN t.steps :
    \A D \in SUBSET {i \in 1..n : MayRefuse(t.steps[i])} :
      LET log == LogOf(t.steps, D, n)
          unjustified == {i \in 1..n : IsWrite(log[i]) /\ ~Justified(log, i, log[i].step)}
          denied == Answered(log, "deny")
      IN /\ unjustified \subseteq D /\ DenialsStay(log)
              /\ (\A i \in denied : i < n => GoesOn(log[i].step, "deny"))
            => t.unsafe \cap 1..n \subseteq D
         /\ denied = unjustified /\ {i \in 1..n : MustRefuse(t.steps[i])} \subseteq D
              /\ EndsLike(t.steps, log)
            => /\ Actual(log, ContinuedOver(log)) = t.expected
               /\ denied \subseteq t.denies

(***************************************************************************)
(* A summary accuses the policy of a false allow only when some call of    *)
(* the run was throttled or left no response event: the history the policy *)
(* saw was shorter than the one the runner presented.  And a run whose     *)
(* calls were all answered, while an approval and a lookup stay fresh,     *)
(* ends as the fixture declares, the warm-up and every repetition alike,   *)
(* with neither a false allow nor a false denial: what an earlier run left *)
(* in the gateway never shows in a later one.                              *)
(***************************************************************************)
CleanRunsAsDeclared ==
  mode = "proof" /\ stage # "aborted" /\ flight = <<>> =>
    /\ NothingLost /\ Counting => ~FalseAllow(run.log)
    /\ Clean /\ (run.stopped # 0 \/ Position > Len(trajectory.steps)) =>
         /\ Actual(run.log, run.continued) = trajectory.expected
         /\ ~FalseDenial(run.log)

(***************************************************************************)
(* Every batch ends, in a result or in an exception: the trajectory has    *)
(* finitely many steps, and no thread of the burst waits at the barrier    *)
(* for one that the pool cannot start.                                     *)
(***************************************************************************)
BatchEnds == <>(stage # "running")
=============================================================================
