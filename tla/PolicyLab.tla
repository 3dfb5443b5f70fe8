------------------------------- MODULE PolicyLab -------------------------------
(***************************************************************************)
(* The temporal control model of the policy lab as a reference monitor:    *)
(* callers send tool requests in policy sessions, in any order.  A request *)
(* is authorized against the history of its own caller and session; an     *)
(* allowed one is invoked, observed and advances the logical clock, as the *)
(* loop body of DeterministicRunner.run does; any other changes nothing.   *)
(* PolicyRunner adds the trajectory, the early stop and the bookkeeping.   *)
(***************************************************************************)
EXTENDS TemporalPolicy

CONSTANTS
  Requests,   \* the requests the callers may send
  MaxClock    \* bound on the logical clock, that is on invoked requests

ASSUME RequestsAssumption == Requests \subseteq Request

ASSUME MaxClockAssumption == MaxClock \in Nat

VARIABLES
  clock,      \* milliseconds since the start of the logical clock
  history     \* _history: the events observed for each caller and session

vars == <<version, approvals, operations, clock, history>>

TypeOK ==
  /\ StoreTypeOK
  /\ clock \in 0..MaxClock
  /\ history \in [Pairs -> Seq(Event)]

Init ==
  /\ StoreInit
  /\ clock = 0
  /\ history = [p \in Pairs |-> <<>>]

\* mutant: histories are kept per session, whoever the caller is
SharedDecision(c, s, q) ==
  IF \E d \in Callers : Authorize(history[<<d, s>>], c, s, q, clock) = "allow"
    THEN "allow" ELSE "deny"

Decision(c, s, q) == Authorize(history[<<c, s>>], c, s, q, clock)

Observe(c, s, q, outcome) ==
  history' = IF s \in ValidSessions
    THEN [history EXCEPT
            ![<<c, s>>] = Append(@, [request |-> q, outcome |-> outcome])]
    ELSE history

\* An allowed request: invoke the tool, observe its outcome, advance the clock.
Perform(c, s, q) ==
  /\ clock < MaxClock
  /\ Decision(c, s, q) = "allow"
  /\ \E outcome \in Outcomes :
       Invoke(q, outcome) /\ Observe(c, s, q, outcome)
  /\ clock' = clock + 1

\* A denied or failed authorization never reaches the tool.
Refuse(c, s, q) ==
  /\ Decision(c, s, q) # "allow"
  /\ UNCHANGED vars

Next ==
  \E c \in Callers, s \in Sessions, q \in Requests :
    Perform(c, s, q) \/ Refuse(c, s, q)

Spec == Init /\ [][Next]_vars

-----------------------------------------------------------------------------

(***************************************************************************)
(* An approval is consumed by a successful write: in the history of one    *)
(* caller and session no two successful writes present the same approval,  *)
(* whatever was recorded, retried or replayed between them                 *)
(* (policies.py, the consumed check).                                      *)
(***************************************************************************)
ApprovalSingleUse ==
  \A p \in Pairs : \A i, j \in SuccessfulWrites(history[p]) :
    history[p][i].request.approval = history[p][j].request.approval => i = j

(***************************************************************************)
(* A session never has more successful writes than its limit, replayed     *)
(* ones included (policies.py, successful_writes >= 3).                    *)
(***************************************************************************)
SessionWriteCap ==
  \A p \in Pairs : Cardinality(SuccessfulWrites(history[p])) <= WriteLimit

(***************************************************************************)
(* The tool is never reached by more than RetryLimit failed attempts under *)
(* one approval of a session: the initial attempt and its retries          *)
(* (policies.py, failed_attempts >= 3).                                    *)
(***************************************************************************)
RetryCap ==
  \A p \in Pairs, a \in Ids :
    Cardinality(FailedWrites(history[p], a)) <= RetryLimit

(***************************************************************************)
(* Neither limit is passed by any mixture of successes, replays, declared  *)
(* failures and retries under old or new change identifiers.               *)
(***************************************************************************)
CapsHold == SessionWriteCap /\ RetryCap

(***************************************************************************)
(* Event k of h is a successful write that followed a lookup of its record *)
(* and a human approval of that record under the approval it presented.    *)
(***************************************************************************)
BackedWrite(h, k) ==
  LET q == h[k].request
  IN /\ IsWrite(h[k], "success")
     /\ \E i \in 1..(k - 1) : IsLookup(h[i], q.record)
     /\ \E i \in 1..(k - 1) : IsApproval(h[i], q.record, q.approval)

Applied(e, o) ==
  /\ Strip[e.request.record] = o.record
  /\ Strip[e.request.change] = o.change
  /\ e.request.approval = o.approval

(***************************************************************************)
(* Every change applied to the store is accounted for by the history of    *)
(* one caller and session: a write that presented the operation's          *)
(* approval, after the lookup and the approval in that same session.       *)
(* Neither another caller's session nor a retry reaches the store without  *)
(* them.                                                                   *)
(***************************************************************************)
EffectsBacked ==
  \A o \in Succeeded : \E p \in Pairs : \E k \in DOMAIN history[p] :
    BackedWrite(history[p], k) /\ Applied(history[p][k], o)

(***************************************************************************)
(* A change has one operation, however often and from however many         *)
(* sessions it is sent, and a record's version counts exactly the changes  *)
(* that succeeded (store.py, _operations_by_change).                       *)
(***************************************************************************)
OneOperationPerChange ==
  \A o1, o2 \in operations :
    o1.record = o2.record /\ o1.change = o2.change => o1 = o2

VersionCountsEffects ==
  \A r \in Records :
    version[r] = 1 + Cardinality({o \in Succeeded : o.record = r})

(***************************************************************************)
(* The store is idempotent: neither a repeated change nor a retry of a     *)
(* failed one is a second operation or a second increment.                 *)
(***************************************************************************)
StoreIsIdempotent == OneOperationPerChange /\ VersionCountsEffects

(***************************************************************************)
(* The reach of an approval identifier over the whole system: it backs at  *)
(* most one effect for each caller and session that had it recorded, since *)
(* single use is a promise to each session and not to the store.           *)
(***************************************************************************)
ApprovalReach ==
  \A a \in Ids :
    Cardinality({o \in Succeeded : o.approval = a}) <=
      Cardinality({p \in Pairs : \E i \in DOMAIN history[p], r \in Records :
                     IsApproval(history[p][i], r, a)})

(***************************************************************************)
(* What a call reported stays true: an operation recorded as SUCCEEDED or  *)
(* FAILED is never withdrawn or changed by a later request.                *)
(***************************************************************************)
OperationsPermanent == [][operations \subseteq operations']_vars
=============================================================================
