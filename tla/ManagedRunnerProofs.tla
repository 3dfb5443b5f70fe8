-------------------------- MODULE ManagedRunnerProofs --------------------------
(***************************************************************************)
(* Proofs about ManagedRunner, with trajectories and bursts of any size: a *)
(* batch only does what clients of the gateway do, so what is proved of    *)
(* the gateway for every client holds of every batch; and what the batch   *)
(* writes down of its calls is what the gateway recorded and decided.      *)
(***************************************************************************)
EXTENDS ManagedRunner, ManagedGatewayProofs

-----------------------------------------------------------------------------
(***************************************************************************)
(* The batch: every step of the runner is a step of the gateway.           *)
(***************************************************************************)
Logged == [step : Step, answer : Answers]

\* What a step needs to know of the runner to be a step of the gateway.
BatchShape ==
  /\ GatewayTypeOK
  /\ trajectory \in Trajectories
  /\ DOMAIN run = {"repetition", "log", "retries", "previous", "continued",
                   "stopped", "began", "before"}
  /\ run.repetition \in Runs
  /\ run.log \in Seq(Logged)

LEMMA MainIsAConnection == Main \in Connections
BY GatewayAssumption DEF Main

\* The sessions a step is sent in are those of the gateway.
LEMMA PairOfStep ==
  ASSUME NEW n \in Runs, NEW x \in Step, x.label \notin Unusable
  PROVE  PairOf(n, x) \in Pairs
<1>1. 0 \in Runs
  BY ManagedRunnerAssumption DEF Runs
<1>2. x.caller \in Callers /\ x.label \in DOMAIN SessionFor[0]
  BY DEF Step
<1>3. SessionFor[n] \in [DOMAIN SessionFor[0] -> Sessions]
  BY ManagedRunnerAssumption
<1> QED
  BY <1>2, <1>3 DEF PairOf, Pairs

\* The step presented is one of the trajectory's, and what is sent for it is
\* one of the gateway's requests.
LEMMA PresentedStep ==
  ASSUME BatchShape, Presenting
  PROVE  /\ Position \in DOMAIN trajectory.steps
         /\ CurrentStep \in Step
         /\ SentRequest \in Requests
<1>1. trajectory.steps \in Seq(Step)
  BY ManagedRunnerAssumption DEF BatchShape
<1>2. Len(run.log) \in Nat
  BY DEF BatchShape
<1>3. Position \in 1..Len(trajectory.steps)
  BY <1>1, <1>2 DEF Position, Presenting
<1>4. Position \in DOMAIN trajectory.steps /\ CurrentStep \in Step
  BY <1>1, <1>3 DEF CurrentStep
<1>5. now \in 0..MaxNow /\ run.repetition \in Runs
  BY DEF BatchShape, GatewayTypeOK
<1>6. SentRequest \in Requests
  BY <1>4, <1>5, ManagedRunnerAssumption DEF BatchShape, SentRequest, CurrentStep
<1> QED
  BY <1>4, <1>6

\* Every step of the batch is a step of the gateway or leaves it alone.
LEMMA BatchStepIsGatewayStep ==
  ASSUME BatchShape, [BatchNext]_batchVars
  PROVE  [Next]_vars
<1>1. CASE SendUnsessioned
  BY <1>1 DEF SendUnsessioned
<1>2. CASE SendForwarded
  <2>1. PairOf(run.repetition, CurrentStep) \in Pairs
    BY <1>2, PresentedStep, PairOfStep DEF SendForwarded, Supplied, BatchShape
  <2>2. SentRequest \in Requests
    BY <1>2, PresentedStep DEF SendForwarded
  <2> QED
    BY <1>2, <2>1, <2>2, MainIsAConnection DEF SendForwarded, Next
<1>3. CASE SendDenied
  BY <1>3 DEF SendDenied, Deny
<1>4. CASE SendFails
  BY <1>4 DEF SendFails
<1>5. CASE ReceiveAnswer
  BY <1>5, MainIsAConnection DEF ReceiveAnswer, Next
<1>6. CASE ReceiveError
  BY <1>6, MainIsAConnection DEF ReceiveError, Next
<1>7. CASE TransportRaises
  BY <1>7, MainIsAConnection DEF TransportRaises, Next
<1>8. CASE FinishRun
  BY <1>8 DEF FinishRun
<1>9. CASE Collect
  BY <1>9 DEF Collect
<1>10. ASSUME NEW k \in Connections, FunctionRuns(k)
       PROVE  [Next]_vars
  BY <1>10 DEF FunctionRuns, Next
<1>11. ASSUME NEW k \in Connections, Arrive(k)
       PROVE  [Next]_vars
  BY <1>11 DEF Arrive
<1>12. ASSUME NEW k \in Connections, BurstCall(k)
       PROVE  [Next]_vars
  <2>1. BurstPair \in Pairs /\ Burst.request \in Requests
    BY PairOfStep, ManagedRunnerAssumption DEF BurstPair, Runs
  <2> QED
    BY <1>12, <2>1 DEF BurstCall, Next
<1>13. ASSUME NEW k \in Connections, BurstAnswer(k)
       PROVE  [Next]_vars
  BY <1>13 DEF BurstAnswer, Next
<1>14. CASE MinutePasses
  BY <1>14 DEF MinutePasses, Next
<1>15. CASE UNCHANGED batchVars
  BY <1>15 DEF batchVars
<1> QED
  BY <1>1, <1>2, <1>3, <1>4, <1>5, <1>6, <1>7, <1>8, <1>9, <1>10, <1>11, <1>12,
     <1>13, <1>14, <1>15 DEF BatchNext, Progress

-----------------------------------------------------------------------------

LEMMA ShapeInitial == BatchInit => BatchShape
<1> SUFFICES ASSUME BatchInit PROVE BatchShape
  OBVIOUS
<1>1. 0 \in Runs
  BY ManagedRunnerAssumption DEF Runs
<1> QED
  BY <1>1, GatewayTypeInitial DEF BatchInit, BatchShape, NewRun

\* Concluding a step appends its entry to the log.
LEMMA ConcludeStep ==
  ASSUME BatchShape, Presenting, NEW answer \in Answers, Conclude(answer)
  PROVE  /\ DOMAIN run' = DOMAIN run
         /\ run'.repetition = run.repetition
         /\ run'.log = Append(run.log, [step |-> CurrentStep, answer |-> answer])
         /\ run'.log \in Seq(Logged)
<1>1. CurrentStep \in Step
  BY PresentedStep
<1>2. [step |-> CurrentStep, answer |-> answer] \in Logged
  BY <1>1 DEF Logged
<1>3. /\ DOMAIN run' = DOMAIN run
      /\ run'.repetition = run.repetition
      /\ run'.log = Append(run.log, [step |-> CurrentStep, answer |-> answer])
  BY DEF Conclude, BatchShape
<1> QED
  BY <1>2, <1>3 DEF BatchShape

LEMMA ShapeStep ==
  ASSUME BatchShape, [BatchNext]_batchVars
  PROVE  BatchShape'
<1>1. GatewayTypeOK'
  BY BatchStepIsGatewayStep, GatewayTypePreserved DEF BatchShape
<1>2. trajectory' = trajectory
  BY DEF BatchNext, Progress, SendUnsessioned, SendForwarded, SendDenied,
         SendFails, ReceiveAnswer, ReceiveError, TransportRaises, FinishRun,
         FunctionRuns, Arrive, BurstCall, BurstAnswer, Collect, MinutePasses,
         ProofSame, BurstSame, runnerVars, batchVars
<1>3. CASE UNCHANGED run
  BY <1>1, <1>2, <1>3 DEF BatchShape
<1>4. CASE Presenting /\ \E answer \in Answers : Conclude(answer)
  BY <1>1, <1>2, <1>4, ConcludeStep DEF BatchShape
<1>5. CASE FinishRun /\ run' = NewRun(run.repetition + 1) /\ run.repetition # Repetitions
  <2>1. run.repetition + 1 \in Runs
    BY <1>5, ManagedRunnerAssumption DEF BatchShape, Runs
  <2> QED
    BY <1>1, <1>2, <1>5, <2>1 DEF BatchShape, NewRun
<1>6. \A result : Classify(result) \in Answers
  BY DEF Classify, Answers
<1> QED
  BY <1>3, <1>4, <1>5, <1>6
     DEF BatchNext, Progress, SendUnsessioned, SendForwarded, SendDenied,
         SendFails, ReceiveAnswer, ReceiveError, TransportRaises, FinishRun,
         FunctionRuns, Arrive, BurstCall, BurstAnswer, Collect, MinutePasses,
         ProofSame, BurstSame, runnerVars, batchVars, Answers

(***************************************************************************)
(* Every batch, of any trajectories, repetitions and size of burst, is a   *)
(* behaviour of clients of the gateway (managed.py, run_proof and          *)
(* run_rate_limit).                                                        *)
(***************************************************************************)
THEOREM BatchesAreClients == BatchSpec => Spec
<1>1. BatchInit => Init /\ BatchShape
  BY ShapeInitial DEF BatchInit
<1>2. BatchShape /\ [BatchNext]_batchVars => BatchShape'
  BY ShapeStep
<1>3. BatchShape /\ [BatchNext]_batchVars => [Next]_vars
  BY BatchStepIsGatewayStep
<1> QED
  BY <1>1, <1>2, <1>3, PTL DEF BatchSpec, Spec

(***************************************************************************)
(* So no batch, whatever is throttled, lost or raised in it, has a write   *)
(* sent, recorded or stored without a fresh lookup and approval, and none  *)
(* uses an approval more often than calls were outstanding.                *)
(***************************************************************************)
THEOREM BatchesAreBacked == BatchSpec => [](WritesBacked /\ UsesPerRecording)
BY BatchesAreClients, WritesAreBacked, UsesAreBounded, PTL

-----------------------------------------------------------------------------
(***************************************************************************)
(* The runner's own variables.  That there is a summary for every measured *)
(* run needs the runner's place in its loop: one for each repetition       *)
(* before this one, none for the warm-up.                                  *)
(***************************************************************************)
ThreadStates == Answers \cup {"queued", "arrived", "calling", "raised"}

Summary == [actual : Verdicts, false_allow : BOOLEAN, false_denial : BOOLEAN,
            completed : Nat]

LogFollows ==
  /\ Len(run.log) <= Len(trajectory.steps)
  /\ run.stopped \in {0, Len(run.log)}
  /\ \A i \in DOMAIN run.log : run.log[i].step = trajectory.steps[i]

SummariesKept ==
  /\ summaries \in Seq(Summary)
  /\ Len(summaries) <= Repetitions
  /\ stage = "running" /\ mode = "rate_limit" => summaries = <<>>
  /\ stage = "running" /\ mode = "proof" =>
       Len(summaries) = IF run.repetition = 0 THEN 0 ELSE run.repetition - 1

BatchInv ==
  /\ BatchShape
  /\ mode \in {"proof", "rate_limit"}
  /\ stage \in {"running", "finished", "aborted"}
  /\ threads \in [Connections -> ThreadStates]
  /\ LogFollows
  /\ SummariesKept

LEMMA BatchInitial == BatchInit => BatchInv
<1> SUFFICES ASSUME BatchInit PROVE BatchInv
  OBVIOUS
<1>1. BatchShape
  BY ShapeInitial
<1>2. threads \in [Connections -> ThreadStates]
  BY DEF BatchInit, ThreadStates
<1>3. LogFollows
  <2>1. trajectory.steps \in Seq(Step)
    BY <1>1, ManagedRunnerAssumption DEF BatchShape
  <2> QED
    BY <2>1 DEF BatchInit, NewRun, LogFollows
<1>4. SummariesKept
  BY ManagedRunnerAssumption DEF BatchInit, NewRun, SummariesKept
<1> QED
  BY <1>1, <1>2, <1>3, <1>4 DEF BatchInit, BatchInv

\* Concluding a step keeps the log in step with the trajectory.
LEMMA ConcludeFollows ==
  ASSUME BatchInv, Presenting, NEW answer \in Answers, Conclude(answer),
         UNCHANGED trajectory
  PROVE  LogFollows'
<1>1. /\ run.log \in Seq(Logged)
      /\ run'.log = Append(run.log, [step |-> CurrentStep, answer |-> answer])
      /\ run'.log \in Seq(Logged)
  BY ConcludeStep DEF BatchInv, BatchShape
<1>2. trajectory.steps \in Seq(Step)
  BY ManagedRunnerAssumption DEF BatchInv, BatchShape
<1>3. /\ DOMAIN run'.log = 1..(Len(run.log) + 1)
      /\ Len(run'.log) = Len(run.log) + 1
      /\ DOMAIN run.log = 1..Len(run.log) /\ Len(run.log) \in Nat
  BY <1>1
<1>4. Len(run.log) + 1 <= Len(trajectory.steps)
  BY DEF Presenting, Position
<1>5. run'.stopped \in {0, Len(run.log) + 1}
  BY DEF Conclude, BatchInv, BatchShape, Position
<1>6. ASSUME NEW i \in DOMAIN run'.log
      PROVE  run'.log[i].step = trajectory.steps[i]
  <2>1. CASE i = Len(run.log) + 1
    BY <1>1, <1>3, <2>1 DEF CurrentStep, Position
  <2>2. CASE i # Len(run.log) + 1
    <3>1. i \in DOMAIN run.log /\ run'.log[i] = run.log[i]
      BY <1>1, <1>3, <1>6, <2>2
    <3> QED
      BY <3>1 DEF BatchInv, LogFollows
  <2> QED
    BY <2>1, <2>2
<1> QED
  BY <1>3, <1>4, <1>5, <1>6 DEF LogFollows

LEMMA RunSummary ==
  ASSUME BatchShape
  PROVE  [actual |-> Actual(run.log, run.continued),
          false_allow |-> FalseAllow(run.log),
          false_denial |-> FalseDenial(run.log),
          completed |-> Cardinality(Answered(run.log, "success"))] \in Summary
<1>1. run.log \in Seq(Logged)
  BY DEF BatchShape
<1>2. DOMAIN run.log = 1..Len(run.log) /\ Len(run.log) \in Nat
  BY <1>1
<1>3. IsFiniteSet(1..Len(run.log))
  BY <1>2, FS_Interval
<1>4. Answered(run.log, "success") \subseteq 1..Len(run.log)
  BY <1>2 DEF Answered
<1>5. Cardinality(Answered(run.log, "success")) \in Nat
  BY <1>3, <1>4, FS_Subset, FS_CardinalityType
<1>6. Actual(run.log, run.continued) \in Verdicts
  BY DEF Actual, Verdicts
<1>7. FalseAllow(run.log) \in BOOLEAN /\ FalseDenial(run.log) \in BOOLEAN
  BY DEF FalseAllow, FalseDenial
<1> QED
  BY <1>5, <1>6, <1>7 DEF Summary

LEMMA BurstSummary ==
  [actual |-> BurstVerdict, false_allow |-> FALSE, false_denial |-> FALSE,
   completed |-> Cardinality(Among({"success"}))] \in Summary
<1>1. Among({"success"}) \subseteq Connections
  BY DEF Among
<1>2. Cardinality(Among({"success"})) \in Nat
  BY <1>1, GatewayAssumption, FS_Subset, FS_CardinalityType
<1>3. BurstVerdict \in Verdicts
  BY DEF BurstVerdict, Verdicts
<1> QED
  BY <1>2, <1>3 DEF Summary

-----------------------------------------------------------------------------

LEMMA FinishKeeps ==
  ASSUME BatchInv, FinishRun
  PROVE  LogFollows' /\ SummariesKept'
<1>1. UNCHANGED <<mode, trajectory, threads>> /\ mode = "proof" /\ stage = "running"
  BY DEF FinishRun
<1>2. run.repetition \in 0..Repetitions /\ Repetitions \in Nat \ {0}
  BY ManagedRunnerAssumption DEF BatchInv, BatchShape, Runs
<1>3. /\ summaries \in Seq(Summary)
      /\ Len(summaries) = IF run.repetition = 0 THEN 0 ELSE run.repetition - 1
  BY <1>1 DEF BatchInv, SummariesKept
<1>4. /\ summaries' \in Seq(Summary)
      /\ Len(summaries') = run.repetition
  <2>1. CASE run.repetition = 0
    BY <1>3, <2>1 DEF FinishRun
  <2>2. CASE run.repetition # 0
    BY <1>2, <1>3, <2>2, RunSummary DEF FinishRun, BatchInv
  <2> QED
    BY <2>1, <2>2
<1>5. CASE run.repetition = Repetitions
  <2>1. stage' = "finished" /\ UNCHANGED run
    BY <1>5 DEF FinishRun
  <2> QED
    BY <1>1, <1>2, <1>4, <1>5, <2>1 DEF BatchInv, LogFollows, SummariesKept
<1>6. CASE run.repetition # Repetitions
  <2>1. run' = NewRun(run.repetition + 1) /\ UNCHANGED stage
    BY <1>6 DEF FinishRun
  <2>2. run'.repetition = run.repetition + 1 /\ run'.log = <<>> /\ run'.stopped = 0
    BY <2>1 DEF NewRun
  <2>3. trajectory.steps \in Seq(Step)
    BY ManagedRunnerAssumption DEF BatchInv, BatchShape
  <2>4. LogFollows'
    BY <1>1, <2>2, <2>3 DEF LogFollows
  <2>5. SummariesKept'
    BY <1>1, <1>2, <1>4, <1>6, <2>1, <2>2 DEF SummariesKept
  <2> QED
    BY <2>4, <2>5
<1> QED
  BY <1>5, <1>6

LEMMA CollectKeeps ==
  ASSUME BatchInv, Collect
  PROVE  SummariesKept'
<1>1. mode = "rate_limit" /\ stage = "running" /\ UNCHANGED <<mode, run>>
  BY DEF Collect, Bursting
<1>2. summaries = <<>> /\ Repetitions \in Nat \ {0}
  BY <1>1, ManagedRunnerAssumption DEF BatchInv, SummariesKept
<1>3. stage' # "running"
  BY DEF Collect
<1>4. summaries' \in Seq(Summary) /\ Len(summaries') <= 1
  <2>1. CASE Among({"raised"}) # {}
    BY <1>2, <2>1 DEF Collect
  <2>2. CASE Among({"raised"}) = {}
    <3>1. PICK x \in Summary : summaries' = <<x>>
      BY <2>2, BurstSummary DEF Collect
    <3> QED
      BY <3>1
  <2> QED
    BY <2>1, <2>2
<1> QED
  BY <1>2, <1>3, <1>4 DEF SummariesKept

\* A thread moves to a state of a thread.
LEMMA MovedTyped ==
  ASSUME threads \in [Connections -> ThreadStates],
         NEW k \in Connections, NEW to \in ThreadStates, Moved(k, to)
  PROVE  threads' \in [Connections -> ThreadStates]
BY DEF Moved

LEMMA BatchStep ==
  ASSUME BatchInv, [BatchNext]_batchVars
  PROVE  BatchInv'
<1>1. BatchShape'
  BY ShapeStep DEF BatchInv
<1> DEFINE Own == UNCHANGED <<mode, stage, trajectory, summaries, threads>>
           Rest == /\ mode' \in {"proof", "rate_limit"}
                   /\ stage' \in {"running", "finished", "aborted"}
                   /\ threads' \in [Connections -> ThreadStates]
                   /\ LogFollows'
                   /\ SummariesKept'
<1> SUFFICES Rest
  BY <1>1 DEF BatchInv
<1>2. CASE UNCHANGED runnerVars
  BY <1>2 DEF runnerVars, BatchInv, LogFollows, SummariesKept
<1>3. ASSUME Presenting, Own, NEW answer \in Answers, Conclude(answer)
      PROVE  Rest
  <2>1. LogFollows'
    BY <1>3, ConcludeFollows
  <2>2. run'.repetition = run.repetition
    BY <1>3, ConcludeStep DEF BatchInv
  <2> QED
    BY <1>3, <2>1, <2>2 DEF BatchInv, SummariesKept
<1>4. CASE SendUnsessioned \/ SendDenied \/ SendFails \/ ReceiveAnswer \/ ReceiveError
  <2>1. \A result : Classify(result) \in Answers
    BY DEF Classify, Answers
  <2>2. Presenting /\ Own /\ \E answer \in Answers : Conclude(answer)
    BY <1>4, <2>1 DEF SendUnsessioned, SendDenied, SendFails, ReceiveAnswer,
                      ReceiveError, ProofSame, Answers
  <2> QED
    BY <1>3, <2>2
<1>5. CASE SendForwarded
  BY <1>5 DEF SendForwarded, ProofSame, BatchInv, LogFollows, SummariesKept
<1>6. CASE TransportRaises
  BY <1>6 DEF TransportRaises, BatchInv, LogFollows, SummariesKept
<1>7. CASE FinishRun
  <2>1. stage' \in {"running", "finished", "aborted"}
    BY <1>7 DEF FinishRun, BatchInv
  <2>2. UNCHANGED <<mode, threads>>
    BY <1>7 DEF FinishRun
  <2> QED
    BY <1>7, <2>1, <2>2, FinishKeeps DEF BatchInv
<1>8. CASE Collect
  <2>1. stage' \in {"finished", "aborted"} /\ UNCHANGED <<mode, trajectory, run, threads>>
    BY <1>8 DEF Collect
  <2> QED
    BY <1>8, <2>1, CollectKeeps DEF BatchInv, LogFollows
<1>9. ASSUME NEW k \in Connections, Arrive(k) \/ BurstCall(k) \/ BurstAnswer(k)
      PROVE  Rest
  <2>1. BurstSame
    BY <1>9 DEF Arrive, BurstCall, BurstAnswer
  <2>2. \E to \in ThreadStates : Moved(k, to)
    <3>1. \A result : Classify(result) \in Answers
      BY DEF Classify, Answers
    <3> QED
      BY <1>9, <3>1 DEF Arrive, BurstCall, BurstAnswer, ThreadStates, Answers
  <2>3. threads' \in [Connections -> ThreadStates]
    BY <2>2, MovedTyped DEF BatchInv
  <2> QED
    BY <2>1, <2>3 DEF BurstSame, BatchInv, LogFollows, SummariesKept
<1>10. ASSUME NEW k \in Connections, FunctionRuns(k)
       PROVE  UNCHANGED runnerVars
  BY <1>10 DEF FunctionRuns
<1>11. CASE MinutePasses
  BY <1>2, <1>11 DEF MinutePasses
<1>12. CASE UNCHANGED batchVars
  BY <1>2, <1>12 DEF batchVars
<1> QED
  BY <1>2, <1>4, <1>5, <1>6, <1>7, <1>8, <1>9, <1>10, <1>11, <1>12
     DEF BatchNext, Progress

(***************************************************************************)
(* The runner's log follows its trajectory step by step, a stop is the     *)
(* last step presented, and no batch has more summaries than measured runs *)
(* (managed.py, _execute_scenario and run_proof).                          *)
(***************************************************************************)
THEOREM BatchTypeCorrect == BatchSpec => []BatchTypeOK
<1>1. BatchInv => BatchTypeOK
  <2> SUFFICES ASSUME BatchInv PROVE BatchTypeOK
    OBVIOUS
  <2>1. \A i \in DOMAIN run.log : run.log[i].answer \in Answers
    <3>1. \A i \in DOMAIN run.log : run.log[i] \in Logged
      BY DEF BatchInv, BatchShape
    <3> QED
      BY <3>1 DEF Logged
  <2>2. \A i \in DOMAIN summaries : summaries[i].actual \in Verdicts
    <3>1. \A i \in DOMAIN summaries : summaries[i] \in Summary
      BY DEF BatchInv, SummariesKept
    <3> QED
      BY <3>1 DEF Summary
  <2> QED
    BY <2>1, <2>2 DEF BatchInv, BatchShape, LogFollows, SummariesKept, ThreadStates,
                      BatchTypeOK
<1> QED
  BY <1>1, BatchInitial, BatchStep, PTL DEF BatchSpec
===============================================================================
