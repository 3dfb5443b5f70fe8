# TLA+ models of the AI infrastructure field lab

The repository compares agent runtimes on one synthetic incident (a service
with a failing replica, one permitted remediation, a human approval) and, in
`experiments/06-strands-agentcore`, compares control models for tool calls.
Nothing in it touches a real system: effects are entries in in-memory tables, a
file-backed state store, or one DynamoDB table of a lab stack. What it is
about is *control*: who may call what after which history, and what is true of
the effects when calls are repeated, denied, reordered, lost or interrupted.
That is what these modules model.

Paths below are relative to `src/`. Times are in the units of the code
(milliseconds in the policy lab, minutes in the managed policies).

## 1. The system

### Components, their state and their operations

| Component | Source | State it keeps | Operations | Module |
|---|---|---|---|---|
| Contracts and lookups | `shared/contracts/models.py`, `shared/tools/incident.py`, `shared/agent/loop.py` | none (pure) | `Incident.from_dict`, `RemediationProposal.fingerprint`, runbook and inspection lookups, `validate_model_proposal` | `IncidentContracts` |
| Action executor | `shared/tools/incident.py` (`SimulatedActionExecutor`) | results by idempotency key | `execute`, `effect_count` | `ActionExecutor` |
| Baseline flow | `experiments/00-baseline/baseline.py`, `shared/verification/invariants.py` | incident, correlation, proposal, approval, timeline | `start`, `decide`, `verify_completed_timeline` | `Baseline` |
| OpenEnv environment | `experiments/01-openenv/environment/incident_environment.py` | phase, proposal, approval, reward, history, counters | `reset`, `step` with four request types | `OpenEnvIncident`, `ApprovalGate` |
| Dapr recovery probe | `experiments/03-dapr-agents/recovery_probe.py` | engine's workflow state, state store keys, a per-process attempt counter | `start`, `resume`, workflow, two activities | `DaprRecovery` |
| Policy lab store and tools | `experiments/06-strands-agentcore/policy_lab/{contracts,tools,store}.py` | records with versions, approvals, operations by change | four tools | `SyntheticTools` |
| Policy lab authorizers | `policy_lab/policies.py` | event history per caller and session | `authorize`, `observe` for three control models | `TemporalPolicy`, `PolicyLab`, `PolicyRunner` |
| Policy lab runner | `policy_lab/{runner,evidence,clock}.py`, `fixtures/scenarios-v1.json` | evidence log, counters, previous change, stop | `run` | `PolicyRunner` |
| AgentCore gateway and function | `infrastructure/agentcore-policy-lab.yaml` | response events per session, operation table | permit/forbid, forward, invoke, respond | `ManagedGateway` |
| Managed and Dogwood policies | the same template, `policies/` | none (formulas over events) | temporal permits and caps | `ManagedPolicy` |
| Managed runner | `policy_lab/managed.py` | trajectory position, log and counters, summaries, threads of a burst | `_execute_scenario`, `run_proof`, `run_rate_limit` | `ManagedRunner` |
| Managed evidence | `policy_lab/managed.py` (`_ensure_new_batch`, `_write_outputs`), `run_agentcore_managed.py` | a batch's directories and files below two roots | check, write nine files | `EvidenceBatch` |
| Publication | `infrastructure/redact.ps1`, `redaction-rules.json`, `publicize_evidence.py` | candidate and public directories | redact, collect, alias, shift, compare, certify | `EvidencePublication` |
| Cloud scripts | `infrastructure/deploy.ps1`, `teardown.ps1` | two stacks and their resources | deploy, capture, delete, verify | `Teardown` |
| Bounded agent and model session | `shared/agent/loop.py`, `01-openenv/adapters/openai_responses.py`, `01-openenv/live_smoke.py` | the session's input and first output | `run`, `request_tool`, `request_proposal` | `ModelSession` |
| Dapr live agent | `03-dapr-agents/{incident_runtime,live_smoke}.py` | instances of the agent, an executor per process | start, answer an approval, tools | `IncidentAgent` |
| The rest | reports, `run_policy_lab.py`, capture scripts, `plan.ps1`, `verify.ps1`, `04-vercel/` | files | print, capture | not modelled, see 7 |

### How they interact

* The baseline and the OpenEnv environments *share an executor object*: it
  outlives an execution and an episode, and is the only state two of them have
  in common. They call it with the key `delivery_id:fingerprint`.
* The policy lab runner calls, for every step, the authorizer, then the tool
  (which changes the store), then the authorizer's `observe`, then the evidence
  log. The authorizer reads its history only; the store is never consulted.
* In the managed layer the same four tools sit behind a gateway. The decision
  is taken on *recorded response events*; forwarding, executing and recording
  are three separate moments, so calls that overlap, time out or lose their
  response are decided on events that do not contain each other.
* The managed runner is a client of that gateway. It sees answers, not events:
  its summary and the gateway's histories are two accounts of one run that
  nothing compares, and a lost answer or a throttled call makes them differ.
* In the Dapr probe one process both schedules the workflow and hosts the
  worker. The engine and the store are durable; everything in the process is
  lost when it ends, and any activity whose result was not recorded runs again.
* The managed runner leaves a batch of files, which `redact.ps1` copies to a
  candidate directory and `publicize_evidence.py` to a public one. Each step reads
  what the one before it left, complete or not.
* A model session outlives the runs of the bounded agent that use it; an
  instance of the Dapr agent outlives the smoke process that started it, and any
  later smoke may carry it on or answer its approval.

### What is hard here, and what makes each part correct

* *Policy lab*: long sequences of legal calls that reach an illegal state. An
  approval must back at most one successful write of its session, under any
  mixture of retries, declared failures, re-recorded approvals and padded
  identifiers; both caps must hold; one caller's history must never authorize
  another's write; the store must remain idempotent and permanent.
* *Runner*: five counters and a stop position kept beside the log must agree
  with the log; denials, tool errors and authorization errors with two continue
  flags decide whether the run goes on.
* *Executor users*: redelivery, reset and a second environment must not pay or
  perform twice; a refusal must stand; a verified timeline must be true.
* *Managed layer*: overlapping calls overshoot single use and the caps; how
  much is the question. Lost responses leave effects without events. Freshness
  windows and a `since` clause replace the local bookkeeping.
* *Managed runner*: what it counts as completed must be what the gateway
  recorded; repetitions must not see each other; a burst must not wait at its
  barrier for a thread that cannot start.
* *Dapr*: crash between any two steps; a read-then-save without etag; a retry
  counter that is per process where the retry policy is across processes.
* *Evidence*: a directory checked twice and never locked; files written one by
  one, by runners and scripts that may end anywhere; one alias per identifier over
  all files. A summary, a manifest and a "verified absent" must be worth
  what they say.
* *Live agents*: fields of a session that survive a refused run; approvals
  that come late, or are of another process's instance.

The complete list, with lines, is `hazards` in `PROJECT.json`.

## 2. Modules

```
SyntheticTools <- TemporalPolicy <- PolicyLab <- PolicyRunner
                        ^              ^- MCPolicyLab   ^- MCPolicyRunner
                        |                              ^- PolicyLabProofs
   ManagedPolicy <- ManagedGateway (INSTANCE TemporalPolicy as Local)
                        ^- MCManagedGateway
                        ^- ManagedRunner <- MCManagedRunner
                        ^- ManagedGatewayProofs
                                  ^- ManagedRunnerProofs <- ManagedAccountProofs

IncidentContracts, ActionExecutor <- OpenEnvIncident (INSTANCE ApprovalGate)
                        |               ^- MCOpenEnv   ^- OpenEnvProofs
                        ^- Baseline <- MCBaseline, BaselineProofs
DaprRecovery <- MCDaprRecovery, DaprRecoveryProofs
IncidentContracts <- ModelSession
ModelSession, EvidenceBatch, IncidentAgent, Teardown, EvidencePublication
     ^- MCLiveRuns   ^- LiveRunsProofs
```

**SyntheticTools** is `store.py` and `tools.py`. `version`, `approvals` and
`operations` are the three dictionaries; an operation is a record with the
change, the approval, the record and its status. `Invoke(q, outcome)` is one
tool call: validation (identifiers are stripped by `require_string`, as the
constant function `Strip`), the idempotent answer to a known change, the
declared failure of mode `force_error`, the version increment. The *value* of a
synthetic record is left out, nothing depends on it.

**TemporalPolicy** is `LocalTemporalSpecificationAuthorizer.authorize` and its helpers as
operators on a history: `Authorize(h, c, s, q, now)` gives `allow`, `deny` or
`error` in the code's order of checks. **PolicyLab** gives every caller and
valid session a history and composes decision, invocation, observation and
clock (`Perform`; `Refuse` changes nothing). Any caller may send any request at
any time: this is the abstract specification of the lab.

**PolicyRunner** is `DeterministicRunner.run`: `AllowedStep`, `DeniedStep`,
`FailedStep` are the loop body's three ways, each with all its bookkeeping
(evidence, counters, retry detection, stop), `Summarize` is the classification
and `NotApplicable` the early return. `Choose` has the three control models. Each run
has a store and sessions of its own, as `run` builds them, and a clock that starts
at 0: `run_policy_lab.py:56-63` gives every run a runner and a clock of its own. A
runner used for several runs would keep its clock, which the model leaves out.
`TemporalRunsAreLabSteps` says the runner under the temporal policy
implements PolicyLab.

**IncidentContracts** and **ActionExecutor** are shared by the two flows
below. A fingerprint is the proposal itself (the hash covers every field, the
rationale included), a key is the pair of delivery id and proposal.

**OpenEnvIncident**: one record per environment with the fields of
`IncidentState`; `Reset` and `Step` with one operator per handler. A step whose
handler raises is `Reject`: an entry `rejected` and a penalty. Rewards are in
tenths. `paid` is a history variable, the number of completion rewards handed
out. **ApprovalGate** is the abstract specification: an actor has at most one
standing approval, an effect happens only under one for exactly that effect,
effects are never undone.

**Baseline**: `start` succeeds or raises after one, two or three events, having
already replaced the incident (`StartFails`); `decide` approves, which executes,
or refuses: denies, asks for a revision, or lets expire. `Verified` is `verify_completed_timeline`.

**DaprRecovery**: the client (`Launch`, `Stop`, `Schedule`, `Announce`, `RaiseEvent`,
`Record`), the worker per instance (`InspectFails`, `InspectSaves`,
`InspectReturns`, `Decide`, `ExecuteReads`, `ExecuteSaves`, `ExecuteReturns`). `Stop`
may come between any two of them. An activity is three steps, since other instances run between its
read, its save and its return. `overlaps` is a history variable. The engine and
the store are external, modelled by what the probe relies on: durable state,
at-least-once activities, queued events. Two launches are not separate actions:
scheduling an id the engine already has, or resuming one it does not know, only
brings a worker up until the call fails; a resume stopped before it raises its
event covers both.

**ManagedPolicy** has the formulas: `WritePermitted` for the three deployed
statements (the write permit with its freshness windows and `since` clause, the
session limit, the retry limit), `DogwoodPermitted` for the set in `policies/`.
**ManagedGateway** has `Forward` (the decision), `Invoke` (the function, with its
`put_item`), `Respond` (the event the policies read), `LoseResponse` (the
function raised, or timed out before or after the put), `Deny` and `Tick`. The
number of `Connections` is the number of calls outstanding at once: 1 for the
trajectory runner, more for concurrent clients. It is modelled with the engine
in mode `ENFORCE` and the policies active. The template's default is `LOG_ONLY`,
but `confirm_enforcement` (`managed.py:212-266`) refuses to run in any other
mode.

**ManagedRunner** EXTENDS the gateway and drives it in one of two modes. In a
proof one trajectory is presented to the end of its last repetition. A step is
*sent* (`SendForwarded`), or answered at once (`SendDenied`, `SendFails` for a
throttled or unreachable gateway, `SendUnsessioned` for a missing or malformed
session), and a sent one is answered in a later step (`ReceiveAnswer`,
`ReceiveError`), so that the function runs and the minute may pass in between.
Either end may lose it: `ReceiveAnswer` with `transport_error` is an answer
lost after its event was recorded, `ReceiveError` a call without an event.
`TransportRaises` is an exception that `UrllibTransport.send` does not catch
and that ends the batch. `Conclude` is what the loop body does after every
call: log, retry count, `continued_denial`, stop. `FinishRun` is the
classification and the next repetition; `NamespacedArguments` and `SessionFor`
are the identifiers it gets. In a burst every thread waits at the barrier for
a worker to start it (`Arrive`), calls (`BurstCall`, `BurstAnswer`), and
`Collect` is the end of `executor.map`. `run.began` and `run.before` are
history variables. A proof presents one trajectory per behaviour: trajectories
have sessions and identifiers of their own, as their namespaces differ.

**EvidenceBatch**: a runner is one call of `run_proof` or `run_rate_limit` with
the command line around it. `Begin` and `Recheck` are the two calls of
`_ensure_new_batch`, `MakePrivate` and `MakeRedacted` the two `mkdir`s, `Open` and
`Close` the writing of each of the nine files, the last two by the command line.
A file holds the set of runners whose text is in it, whether it is whole, and whether
its payload was clean; `Admitted` is the check for managed identifiers, which comes
after the comparison and before the summary. `Stop` is any exception or crash. Two
runners have the same batch when `batch_id` is given to the constructor, or
when a random one repeats. `met` is a history variable.

**EvidencePublication**: a text is a sequence of objects (the events of a file, the
answers of the control plane), an object a function from its keys, nested ones
included, to values, a value a sequence of atoms, so one value can contain another,
which is what makes the order of replacement matter. `RedactFile` applies the rules to
one file; `StartPublication` reads the candidate, and refuses an existing directory and
overlapping categories; `PublicizeFile` writes one file if its projection is
unchanged; `WriteManifest` and `CopyReadme` end it. `ScriptEnds` covers every raise.
`Sanitized` is `sanitize_event`: after everything was replaced, the headers that are not
allowed are dropped, an error message gives way to one of two fixed ones, the raw body
is written anew from the parsed response, and `public_redaction` is added. `Truncated`
is `format_shifted`: a moment is written to the precision it was read in, and what its
distance to the earliest moment has beyond that is lost. A runner writes its files in
the order of `Preceding`, so a candidate may have the control plane without the
configuration.
`EvidenceAssumption` says what values there are: a value has at most three
atoms; moments and ARNs are values of their own, sessions values of their keys, and
nothing collected has a word; identifiers in one value are nested or apart, and told
from any other text by more than the digits redaction blots out. It does *not* say that
a file has the identifiers it mentions under collected keys, because the files do not:
`control-plane.json` names the gateway as `gatewayId`, `gatewayUrl` and `OutputValue`
only, and no key collects a `policyId`. An event whose response was parsed also has
the raw body it was parsed from, as `_execute_scenario` records both (`managed.py:713-714`).

**Teardown**: `DeployMain` and `DeployRate` are `deploy.ps1`; `ReadMain` captures,
then the rate stack, the main stack and the verification follow in the script's order.
A deployment is one step each: it creates a stack that was absent and is complete when
the script goes on. CloudFormation is external: `DeletionEnds` may fail, and may leave resources behind.
`missed` and `abandoned` are history variables.

**ModelSession**: `ToolRefused`, `ToolCalled` are the outcomes of `request_tool`, with
`_input` set before the call and `_first_output` after its checks;
`CallRefused`, `ProposalRefused` and `ProposalReturned` the ends of `run`. An answer
of the provider is its number. `posted` and `produced` are history variables.

**IncidentAgent**: a process polls for 90 seconds, answers the first pending
approval, of any instance, and waits 120 seconds for its own. The agent
framework is external: the model chooses tools freely, the hook's answer or
timeout is one of two actions, a tool whose result was lost runs again
(`ExecuteAndStop`).

**MCLiveRuns** puts these five in one state space, one *part* per behaviour: the part
is chosen in the initial state and the others stand still. In the same way
`campaign` in MCPolicyLab and MCManagedGateway chooses one of two sets of callers,
requests and bounds, so that one run answers what belongs together.

## 3. Runs

All runs exhaust their state space. "violation" runs show a disagreement
between code and document, with a counterexample.

| Run | What it asks | States | Bounds |
|---|---|---|---|
| `policy_lab` | two campaigns: one session under twelve requests in every order; two callers and three sessions (one malformed) with the same identifiers. Single use and its reach, both caps, idempotence, permanence, effects backed by one history | 433 k | 7 and 6 invocations, limits 2 |
| `policy_runner` | the twelve catalog scenarios and every trajectory of at most four steps from a pool of eight, and one of a caller that may approve but not write, under three control models: evidence, summary, stop, declared outcomes, refinement | 79 k | limits 3 as in the code, `MaxClock` 13 |
| `openenv` | two environments and one executor, any request at any time | 234 k | e1: 6 steps, 1 reset; e2: 4 steps |
| `baseline` | two executions and one executor, good, redelivered and failing deliveries, decisions in any order | 180 k | timelines of 13 and 8 events |
| `dapr_recovery` | two instances of one delivery, processes that stop anywhere, retries, resumes | 213 k | 5 processes |
| `managed_gateway` | two campaigns: two connections race lookups, repeated approvals and writes; one connection, two records, expiries and windows that pass, lost responses, three policy texts compared | 754 k | 1 minute and 6 events; 2 minutes and 5 events |
| `managed_runner` | eleven catalog scenarios and two trajectories that go on after everything, a warm-up and a measured run each, any call throttled, lost or raised; a burst of three threads | 481 k | limits 3, 1 minute passes |
| `live_runs` | five parts: a session used for one incident after another; two smokes of the Dapr agent; two runners of one batch and of two; five evidence files (two of events, control plane, configuration, metrics), redacted and published; two deployments and their teardowns | 714 k | 7 answers; 2 calls per instance; 2 runners; 1 copy; 2 deployments |
| `openenv_redelivery` | violation: one delivery, one effect | | as `openenv` |
| `baseline_refusal` | violation: a refusal persists | | as `baseline` |
| `managed_reuse` | violation: a consumed approval is consumed for good | | as `managed_gateway`, calls in order |
| `live_engine_ids` | violation: policy-engine identifiers are replaced | | as `live_runs`, publication only |

### Why the bounds are enough

* *Limits.* The code's limits are 3 successful writes and 3 failed attempts.
  `policy_runner` uses 3, because the fixtures do. The lab and gateway runs use 2,
  which keeps the histories that reach and hit a limit short: with 7 invocations
  a history holds lookup, approvals, failures up to the retry limit, a success,
  a second approval and a second success. The theorems hold for every limit.
* *MaxClock* bounds invoked requests, since an invocation advances the
  logical clock by one; the approval expiries 4 and 99 make one expire in mid-run.
  13 in `policy_runner` is more than the longest scenario uses.
* *MaxSteps/MaxResets* (`openenv`): inspect, submit, approve, execute takes four
  steps; six leave room for a revision, a replay or rejected requests; the reset
  gives e1 a second episode over the same executor while e2 is in its own.
* *MaxEvents* (`baseline`): a completed timeline is eight events; 13 lets one
  execution be started again after it, or fail to start and be decided.
* *MaxProcesses* 5: three failing processes (the retry policy's maximum), a
  start of the other instance and a resume.
* *MaxEvents, MaxNow and windows* (gateway): the windows 5/10/60/1440 minutes
  become 0 or 1 minute against a clock of 1 or 2, so each can be inside and
  outside its window; six events hold lookup, two recordings and three writes.
  `Tick` requires that outstanding calls were sent in the current minute, since
  the function's timeout is 10 seconds: the minute may change once under a call.
* *`managed_runner`*: one measured run after the warm-up is enough for a
  repetition to meet the events of another; the longest scenario has 12 steps,
  which `MaxEvents` 12 lets one session hold. Three threads are the smallest
  burst in which some may be answered, throttled and waiting at once.
* *`live_runs`*: seven answers give a session three complete runs and a refused one,
  so a field left by one is met by a later; two smokes and two tool calls let
  one process answer the other's instance, and an instance ask again after a late
  answer; a race for a directory takes two runners (the theorems are for any
  number); two event files that share identifiers, differ, or use one both ways
  and a control file cover the aliasing, moments of three precisions the shift, a
  write, a denial and a response that is no object the sanitizing, and a batch may stop
  before its configuration. One public directory is enough: a publication writes into a
  directory that did not exist and reads the candidate only, so no directory bears on
  another, and the theorem is for any number of them; the second deployment is torn down
  after a teardown of the first that ended early. `Kinds` has a resource the
  script cannot verify and two it can.

### Fairness and deadlock

* `DaprRecovery` has weak fairness of the client and of each instance's work:
  while the process is up its threads run. Nothing forces an operator to launch
  or to stop a process, so both liveness properties have "or the process is
  down" in their conclusion. The attempt counter's `+= 1` and `== 1` are one step:
  CPython 3.12, which `03-dapr-agents/README.md` names, does not switch threads
  between them.
* `BatchSpec` has weak fairness of `Progress`, the runner, its threads and the
  function together: between calls the runner does not wait, and every call
  ends, since the function times out after 10 seconds and the transport after 30.
  `BatchEnds` needs no more: each progress step is one of finitely many.
* Safety modules have no fairness, and claim no liveness.
* `CHECK_DEADLOCK FALSE` stands where the program or the bound really ends a
  behaviour: a run or a batch that has ended, an environment out of its bounded steps, a smoke or a script that is done, a
  timeline at its bound, the last process stopped, a history at its bound. The
  lab runs check deadlock, since a request in a malformed session is always refused.

## 4. What the properties say

* Policy lab: `ApprovalSingleUse`, `CapsHold` (writes and retries) on histories;
  `EffectsBacked` and `ApprovalReach` relate *store* and histories, which the code
  never compares; `StoreIsIdempotent` (one operation per change, versions that
  count them) and `OperationsPermanent` on the store.
* Runner: `EvidenceAudits` audits every event of the log from the events before it:
  its decision from the callers' permissions and the rules, its outcome from the first
  write under the same key, its time from the calls invoked. Neither a history nor the
  store is read, and the authorizer and the tools must agree; `SummaryMatchesEvidence`,
  of which `StopsInTime` is a part, `CatalogAsDeclared`.
* OpenEnv: `EffectsAccounted` (the reward is handed out once per effect, and the
  copied effect count may be stale but never ahead), `HistoryAudits` (reward,
  counters and the order of executions against the history), `DecisionPersists`, `ImplementsGate`.
* Baseline: `EffectsAudited` (all timelines together account for the executor's
  table exactly), `VerifiedTimelineIsTrue`, `ForeignProposalOnlyAfterFailedStart`.
* Dapr: `EffectsApprovedAndKept`, `TwiceOnlyIfOverlapping`
  (the exact condition under which the probe reports one effect twice),
  `RecordsTellTheEnd` (with the three processes a failed inspection takes), `ProbesFinish`
  (start and resume). That the approval wait may be announced before the workflow
  waits is what the code does, and no property forbids it.
* Gateway: `UsesPerRecording` and `CapsOvershootByOutstanding` say by how much
  races overshoot; `WritesBacked` that no write and no stored effect lacks a fresh
  lookup and approval, lost responses included; `LayersAgree` compares the local
  specification, the Dogwood set and the managed policies on the gateway's events
  and names each difference: Dogwood ties consumption to the record and reports
  `approved: true` for an approval recorded expired; the local specification has no
  lookup window (the contract says ten minutes) and uses the latest approval
  only; the managed policies look at expiry only when it is recorded.

* Managed runner: `CompletedIsRecorded` compares the two accounts, call by call
  and for a run classified `allow`. `DecisionsFollowTheLog` says that a proof,
  which sends one call at a time, has no overshoot at all, whatever it loses, and
  compares the policy with the runner's log: if nothing was lost, every write let through is justified by the
  log of its own run, in the fixture's identifiers; while everything is fresh no
  justified one was denied; and a denied write stays denied until its record is
  looked up or approved again. `CleanRunsAsDeclared` says when a summary may accuse
  the policy, only if the policy saw less than the runner presented, and that with
  all answers recorded and fresh every run, the warm-up and the repetitions alike,
  ends as the catalog declares. `BatchEnds` that it does.
  Two bounds belong to the claims. `Counting`: a run longer than the failure window
  may see its failures forgotten, and with them a denial. And a batch that a raise
  aborted is left out: the call it was in has no entry in the log.

* Live runs: `OneConversation` ties the request, the first output and the tool
  result of a proposal together over refused runs; `EffectsExplained` every
  counted effect to an approval of some smoke, and no two reports to one effect;
  `BatchesAreOwned` and `SummaryMeansComplete` say when a batch's files are whole
  and whose, and what a summary may be taken for; `PublicCopyFaithful` what a
  manifest certifies, file by file and across files (a text that mentions an identifier
  shows its alias or, where a longer identifier is around it, that one's alias), and
  what it does not, see below; `AbsenceProven` what a
  teardown's report of success leaves open, which is more than it says: a second
  run after one that ended early has no identifiers left to verify.

What `PublicCopyFaithful` leaves open is as much a result as what it says:

* An identifier survives exactly where no file that was read has it under a collected
  key. A candidate of a batch that stopped between `control-plane.json` and
  `configuration.json` (`managed.py:913-920`) is certified with the real gateway
  identifier in it; policy, engine and trace identifiers survive any copy (a `policyId`
  is in `evidence/` of the repository, `8d21c017f03f/managed_temporal-control-plane.json:54`).
  Sessions, ARNs, account numbers and exact times survive none.
* The manifest says `shifted_to_synthetic_anchor_preserving_intervals`
  (`publicize_evidence.py:500`). Intervals are preserved between moments of one
  precision. Between others, whole-second metric timestamps beside events in
  microseconds, they are off by less than one unit of the coarser one.
* Of an event not every field is as it was: headers other than five are dropped, messages of errors are fixed texts, and a raw body repeats nothing
  but what the parsed response beside it shows. A body that was not parsed to an
  object keeps its text, with what is collected replaced.

### Disagreements found

1. `OneEffectPerDelivery` (`openenv_redelivery`): `docs/RESEARCH_PLAN.md:97` says
   repeated input does not duplicate authoritative effects. The key contains the
   fingerprint, which contains the rationale, so a redelivered incident proposed
   with other words is a second effect.
2. `Baseline!DecisionPersists` (`baseline_refusal`): `docs/RESEARCH_PLAN.md:102`
   says a denial persists. `decide` has no memory of it: APPROVE after DENY or
   EXPIRE executes the refused proposal. (The OpenEnv environment keeps it.)
3. `ApprovalConsumedForGood` (`managed_reuse`): `POLICY_LAB_CONTRACT.md:55` says a
   write is allowed only if no successful write has consumed its approval. With the
   managed `since` clause, recording the same approval again revives it; the local
   specification refuses it for good (`policies.py:217`).
4. `EngineIdentifiersReplaced` (`live_engine_ids`): `PUBLIC_EVIDENCE.md:11-12`, a
   copy of which is published as README, says policy-engine identifiers are
   replaced. Only values of the key `policy_engine_id` are collected
   (`publicize_evidence.py:45-47`); the evidence names the engine `engine_id` and
   `policyEngineId`.

## 5. Proofs

The proofs hold for every value of the constants that satisfies the named
assumptions, which the runs evaluate: `StripAssumption` (stripping is
idempotent), `RecordsAssumption`, `SessionAssumption`, `LimitAssumption` (limits
are positive), `RequestsAssumption`, `MaxClockAssumption`, `RunnerAssumption`,
`OpenEnvAssumption` (`None` is no proposal), `WindowAssumption`,
`CatalogAssumption`, `CapAssumption`, `GatewayAssumption` (finitely many connections),
`ManagedRunnerAssumption` (the suffix of a run keeps a trajectory's approvals apart,
and no two runs, or labels of a run, share a session), `FixturesDeclareTheText`,
`TasksAssumption` (every runner has a task), `BaselineAssumption` (`None` is no
incident), `DaprAssumption` (the bound on processes is a number, and no process is
none), `SessionIncidents` (an incident has its fields) and `EvidenceAssumption`.
`WindowAssumption` has approvals expire no later than failures (5 minutes and 60 in
the template). `FixturesDeclareTheText` is about the fixtures alone, without states:
for every trajectory and every set of refusals it compares what the declared
`unsafe`, `denies` and `expected` say with what the text of the policy says of the
steps as a log. TLC evaluates it on the trajectories of the run, eleven of the catalog
among them. `CatalogAssumption` is of the same kind, for the local models and all twelve
scenarios: `Replayed` turns a scenario's text into a log, event by event, by the rules of
the audit, with no history and no store, and what the scenario declares has to be what
that log shows. It includes that `Replayed` passes its own audit (`FollowsText`), which is
so by construction, but by an induction the prover cannot do.

* **PolicyLabProofs.** `TypeCorrect`. `SingleUse` and `BothCapsHold` go through `HistoriesBounded`, a predicate on each single
  history: only `Perform` changes one, it appends one event, and an authorized
  write found its approval unconsumed and both counts below their limits
  (`AllowedWrite`). None of these is inductive for histories of a wrong type,
  and cardinalities need the finiteness of the index sets (`WritesFinite`).
  `Permanent` is read off the store's two ways to change (`InvokeStore`).
  `Consistent` needs the strengthening `StoreConsistent`: the operations are
  finite and of one per change, only then does one more success raise the count
  by one. `Backed`: an authorized write has its lookup and approval in the same
  history (`AllowedIsBacked`), and histories only grow (`BackingKept`). `Reaches`
  maps each effect under an approval to a session that backs it: the session holds
  the approval's recording (`BackingSession`), the map is injective by single use and
  one operation per change (`OneBackedPerSession`), and the sessions in use are
  finitely many (`UsedFinite`), so the pigeonhole principle bounds the effects.
* **PolicyLabProofs, the runner.** `TemporalRunsRefine`: every step of a temporal run is a
  PolicyLab step or a stutter, from `RunShape` (the log counts the presented
  steps). `TemporalRunsAreSafe` carries single use over to every
  scenario of any length. `RunTypeCorrect` and `SummariesMatch` hold under every
  monitor: `SummaryInv` says that the counters, the denied steps, the stop and the
  previous change are functions of the log after every step, and that a class is
  given only to a run that is over; the class is then `Classify` of the log alone.
  `EvidenceIsEnough`, by `AuditInv`: the allowed entries of one caller and session are, in
  the same order, its history (`Followed`), so the rules read off the log are the
  policy's (`RulesFollow`, `ChoiceAudited`); an operation is stored under a key exactly when
  an entry reached it, and has succeeded exactly when such an entry says so
  (`StoreFollows`, `AnswerAudited`); the clock counts the allowed entries. A verdict on
  an earlier entry is not changed by what the log gains later (`EventKept`).
  `CatalogHolds`: an audited event is determined by what it follows and what it asks
  (`EventDetermined`), so the log of a run is a beginning of any audited log of its
  scenario's text (`NextOfText`), all of it once the run is over (`WholeText`), and has
  its class (`ClassOfText`).
* **OpenEnvProofs.** `IInv` is the type invariant with `Coherent` (which fields a
  phase guarantees) and `Accounted` (`paid` is the size of a finite executor
  table). `PaidOnce`, `Persistent`, `ReportedPast`, both as `Accounting`, and
  `GateImplemented` follow;
  steps are first reduced to what they do to phases, effects and approvals
  (`ReviewMoves`, `ExecutionMoves`, `ResetMoves`), and the refinement is argued on
  those moves only. `HistoriesAudit` from `Audited`: entries, steps and
  rewards are summed up as sequences grow (`CountAppended`, `EarnedAppended`); a
  history that has an execution is of an episode in phase `completed`, so nothing
  but executions and rejections can follow the approval (`SinceApproval`); and a
  completed proposal's effect is in the table, so a later execution replays it.
* **BaselineProofs.** `TypeCorrect`, `EffectsAccounted`, `VerifiedIsTrue` and
  `ForeignOnlyAfterFailure`. A call is reduced to the events it appends
  (`StartMoves`, `RefusalMoves`, `ApprovalMoves`). `IInv` then says of every
  timeline that the proposal at hand is the one last shown (`ShownInv`), that a
  completion follows its approval and is of the proposal last shown before it
  (`CompletionInv`), and that what came since the last start is about the incident
  at hand (`CurrentInv`), which is what makes a passing timeline true; and of all
  of them together that completions which are no replays are as many as the
  effects in the table (`TableInv`).
* **DaprRecoveryProofs.** `ProbeTypeCorrect`, `EffectsKept`, `TwiceMeansOverlap`
  and `RecordsAreTrue` from one `IInv`. `FailureInv` counts: an instance has at
  most one failure per process that ran, one less while the current one is not
  warm, so the third failure needs the third process. `ClaimsInv`: the effect is absent when an
  activity that will claim it reads, so any two that claim it were in flight
  together. `DecisionInv`: the first event raised is the decision taken.
  `RecordsInv`: a record is written only of an instance that has ended, and an
  ended instance stays as it is.
* **ManagedGatewayProofs.** `GatewayTypeCorrect`. `WritesAreBacked` from
  `BackedInv`: no event is from the future (`Timely`), freshness at a fixed time
  survives more events (`FreshGrows`), and a forwarded write was fresh when sent.
  `UsesAreBounded` from `OutstandingInv`: once an approval has been used since
  its latest recording nothing more is forwarded under it, so uses and unanswered
  calls together were outstanding at once. `CapsAreBounded` counts per window: what
  is counted now and what is outstanding stay below limit plus connections
  (`CountInv`), since the last call of them was forwarded below the limit, or
  outstanding with all the others. Both are shown for any bound `most` on the calls
  outstanding (`AtOnce`). `LayersInAgreement` compares the three policies on
  any events with `Ordered`: only writes are answered by success or failure, and
  an earlier event approved each.
* **ManagedRunnerProofs.** `BatchesAreClients`: every step of a batch is a step of
  the gateway or leaves it alone. `BatchShape` is what that needs: the runner is
  at a step of its trajectory and a repetition of its loop, so what it sends
  is one of the gateway's requests in one of its sessions
  (`ManagedRunnerAssumption`). `BatchesAreBacked` carries the gateway's theorems
  over. `BatchTypeCorrect` from `BatchInv`, which counts the summaries by
  the repetition.
* **ManagedAccountProofs.** One inductive invariant, `ProofInv`, relates the runner, the
  gateway and the table: an *account*, a map from the events of a run to the entries of
  its log they answer (`AnswersTo`), increasing in every session, so that a completed
  call has its event, no two entries share one, and a missing event has a transport
  error in its place. It needs that the call outstanding is that of the step the run is
  at (`OneCall`) and that all events since the run began are in sessions of its own
  (`OwnEvents`), which is where disjoint sessions come in. In a burst the account is the
  set of threads whose call was recorded (`BurstEvents`). `CompletedAreRecorded` reads
  this off. `OneCall` also gives `AtOnce(1)`, hence exact single use and caps
  (`InTurnInv`). For the rest of `DecisionsAreTheLogs` nothing is lost, so the account is onto the known
  calls, and each clause of the policy's text, a set of events, carries over to a set of
  entries of equal size; it was sent when the log was shorter, so the claim is of
  prefixes, and denials stay because what the policy reads only grows. For
  `CleanRunsEndAsDeclared` a clean log *is* the log the fixture and its denials
  determine (`LogOf`), and `FixturesDeclareTheText` speaks of that one.
  Three statements had to be corrected before they could be proved. An earlier claim,
  no false allow without a loss, was true only while a run is shorter than the failure
  window, which the run's bound hid; an aborted batch had to be left out; and of the
  fixtures it is not true that justified writes alone explain the declared end: it takes
  that a denial stays.
* **LiveRunsProofs, the batches.** `EvidenceIsOwned` from `BatchInv`: a writer's private directory
  exists (`DirsInv`), which the second check of a later runner sees, so two are past it
  only if they met there (`MetInv`); runners that did not meet have different
  paths (`SharedPath`, `OwnPaths`), so an unmet writer's files stay its own
  (`FilesInv`). `SummariesAreComplete` adds that files exist only below
  writers' paths (`PathsInv`), appear in order (`OrderInv`), and none after the
  comparison unless the payload is clean (`CleanInv`).
* **LiveRunsProofs, the scripts.** `ReportsAreExplained`: ids are of deployments made, what a
  verifying script captured and has checked is gone, and whatever is left of earlier
  stacks was missed or abandoned.
* **LiveRunsProofs, the agents.** `EffectsAreExplained`: an executing instance has an approval
  of its current call, and a call that took effect in a process and is not yet behind
  its instance is in a process that ended. `SessionsAreOneConversation`: answers are
  numbered, and while a run has a tool call the session's two fields are that run's own
  (`OwnFields`), so what an earlier run left behind is never posted.
* **LiveRunsProofs, publication.** `PublicCopiesFaithful`. The texts never change, so
  wherever scripts ended the candidate
  is what redaction makes of *some* files, and a copy is of one such set, whose
  categories do not overlap (`PublicationInv`). In that set an identifier becomes its alias
  and nothing else (`IdentifierAliased`: what replaces is public, what is replaced is
  not), aliases are numbered injectively (`NumberingInjective`), and a moment becomes
  its distance to one earliest moment (`MomentShifted`). For the other texts the three
  passes of replacement come down to three cases (`PlainCases`): the value is a source,
  no longer source is in it and each atom is replaced by itself, or one pair is, since
  overlapping ones do not occur (`PairsApart`). In each of them an
  atom that is still there was in nothing that was replaced (`Uncovered`, `AtomLeft`,
  `CopyConceals`), words stay where they were (`FaithfulShown`), and a mention ends as
  the alias of what it mentions or of the pair or value around it
  (`IdentifierMentioned`). `CopyDiscloses` follows messages and raw bodies through the
  sanitizing. Times are arithmetic: truncation cuts two moments of one precision by the
  same amount, because what a stamp has is a multiple of its unit (`TruncatedAlike`),
  and others by less than a unit each (`TruncatedNear`). Three claims had to be
  corrected on the way. That a mention always shows its own alias is false of a gateway
  mentioned inside its URL. That nothing identifying is left is false of a control-plane
  file without the configuration, so nothing is assumed any more of which file has what
  under which key, and the theorem says instead what is left. And distances are kept
  exactly only within a precision.

**Only model-checked.** Liveness, `ProbesFinish` and `BatchEnds`: the prover has
neither fairness nor `ENABLED`. Every invariant and action property that a passing run
checks is stated by a theorem. There are no recursive operators, and no proof is by
induction over data: that `Replayed` passes its own audit for *every* scenario, and not
only for those of the catalog, is not shown.

## 6. Plan

Done, in this order: the policy lab (store, policy, monitor, runner), OpenEnv
with its gate, the baseline, the Dapr probe, the gateway, the managed runner; then
the managed evidence, its publication, the cloud scripts, the model session
and the Dapr agent, with proofs of all of them. Next:

1. Composition: ManagedRunner's batch that ends early as the runner of EvidenceBatch;
   the candidate of EvidencePublication filled from its batches.
2. `capture_dogwood_evidence.py`, if its directories are found to be shared.

Abstract specifications worth adding: one reference monitor that PolicyLab and,
with one connection and unlimited windows, ManagedGateway both implement; an
at-most-once effect that DaprRecovery implements when activities do not overlap.

## 7. Not modelled, and why

* Formatting, reports, CSV and JSON output, latencies, logging, command lines:
  no property is about them. Catalog parsing: rejects malformed fixtures only.
* Roles, credentials and signatures: the gateway is a service. Its rate limit is
  a choice: any call may be throttled.
* The managed runner's control-plane checks and observability queries: read-only
  calls of an external command line before and after a batch.
* `plan.ps1`, `verify.ps1`, the capture scripts and the one-shot scenario scripts: they
  read, or drive an external tool once and in order.
* Of publication: the wording of error messages, the headers that are the same in every
  event, the repair of statements an older redaction broke, a candidate file
  read while half written, and publishing a copy that is already public.
* Of the cloud scripts: updates of an existing stack and stacks whose creation is under
  way or failed, two operators running them at once, and the wording by which
  a failed call is told from an absent resource (a call that fails otherwise ends
  the script).
* The Vercel example: two steps and a sleep on an external engine.
* Hash functions: collision-free, a digest stands for what it digests.
* Recorded evidence under `results/` and `evidence/`: data.
