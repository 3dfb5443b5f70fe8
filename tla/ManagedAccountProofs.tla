-------------------------- MODULE ManagedAccountProofs --------------------------
(***************************************************************************)
(* More proofs about ManagedRunner: what the batch's log, the events of    *)
(* the gateway and the function's table have to do with each other.  The   *)
(* invariant behind them all is an account: an order-preserving map        *)
(* from the events of a run to the entries of its log that they answer.    *)
(***************************************************************************)
EXTENDS ManagedRunnerProofs

-----------------------------------------------------------------------------
(***************************************************************************)
(* Events as cells: a pair of caller and session, and a place in its       *)
(* events.  The cells of all pairs are Recorded, those of a run EventsOf.  *)
(***************************************************************************)
CellsOf(P, ev) == UNION {{p} \X DOMAIN ev[p] : p \in P}

RunPairs(n) == Callers \X RunSessions(n)

CellAfter(p, ev) == <<p, Len(ev[p]) + 1>>

LEMMA CellIsEvent ==
  ASSUME NEW P, NEW ev
  PROVE  /\ \A p \in P : \A i \in DOMAIN ev[p] : <<p, i>> \in CellsOf(P, ev)
         /\ \A x \in CellsOf(P, ev) :
              x[1] \in P /\ x[2] \in DOMAIN ev[x[1]] /\ x = <<x[1], x[2]>>
BY DEF CellsOf

\* An event recorded for a pair of P is one cell more.
LEMMA OneCellMore ==
  ASSUME NEW ev \in [Pairs -> Seq(Response)], NEW P \in SUBSET Pairs,
         NEW p \in P, NEW e \in Response, NEW ev2, ev2 = [ev EXCEPT ![p] = Append(@, e)]
  PROVE  /\ CellsOf(P, ev2) = CellsOf(P, ev) \cup {CellAfter(p, ev)}
         /\ CellAfter(p, ev) \notin CellsOf(P, ev)
<1> DEFINE new == <<p, Len(ev[p]) + 1>>
<1>1. /\ ev[p] \in Seq(Response) /\ ev2[p] = Append(ev[p], e)
      /\ \A r \in P : r # p => ev2[r] = ev[r]
  OBVIOUS
<1>2. /\ DOMAIN ev[p] = 1..Len(ev[p]) /\ Len(ev[p]) \in Nat
      /\ DOMAIN ev2[p] = 1..(Len(ev[p]) + 1)
  BY <1>1, AppendLookup
<1>3. Len(ev[p]) + 1 \notin DOMAIN ev[p] /\ DOMAIN ev2[p] = DOMAIN ev[p] \cup {Len(ev[p]) + 1}
  BY <1>2
<1>4. new \notin CellsOf(P, ev)
  BY <1>3 DEF CellsOf
<1>5. ASSUME NEW x
      PROVE  x \in CellsOf(P, ev2) <=> x \in CellsOf(P, ev) \cup {new}
  <2>1. x \in CellsOf(P, ev2) <=> \E r \in P : \E i \in DOMAIN ev2[r] : x = <<r, i>>
    BY DEF CellsOf
  <2>2. x \in CellsOf(P, ev) <=> \E r \in P : \E i \in DOMAIN ev[r] : x = <<r, i>>
    BY DEF CellsOf
  <2> QED
    BY <1>1, <1>3, <2>1, <2>2
<1> HIDE DEF new
<1>6. CellsOf(P, ev2) = CellsOf(P, ev) \cup {new}
  BY <1>5
<1> QED
  BY <1>4, <1>6 DEF new, CellAfter

-----------------------------------------------------------------------------
(***************************************************************************)
(* An account of the events of a run: for every event the entry of the log *)
(* that it answers, in the order of each session; no entry completed in a  *)
(* session is without its event.                                           *)
(***************************************************************************)

\* The function's result is one for the call that the step asks for.
Fits(q, result) ==
  /\ q.tool = "execute_write" <=> result \in {"SUCCEEDED", "FAILED"}
  /\ q.tool = "execute_write" => (result = "FAILED" <=> q.mode = "force_error")
  /\ q.tool = "record_human_approval" => (result = "valid" <=> q.expiry # 0)

\* Event e of the pair p answers the call of a log's entry in run n.
AnswersTo(n, began, p, e, entry) ==
  /\ Usable(entry)
  /\ p = PairOf(n, entry.step)
  /\ e.request = NamespacedArguments(n, entry.step.request, e.sent)
  /\ began <= e.at
  /\ entry.answer \in {Classify(e.result), "transport_error"}
  /\ Fits(entry.step.request, e.result)

Account(F, n, began, log, ev) ==
  /\ F \in [CellsOf(RunPairs(n), ev) -> DOMAIN log]
  /\ \A p \in RunPairs(n) : \A i \in DOMAIN ev[p] :
       AnswersTo(n, began, p, ev[p][i], log[F[<<p, i>>]])
  /\ \A p \in RunPairs(n) : \A i, j \in DOMAIN ev[p] :
       i < j => F[<<p, i>>] < F[<<p, j>>]
  /\ \A i \in DOMAIN log : Usable(log[i]) /\ log[i].answer = "success" =>
       \E x \in CellsOf(RunPairs(n), ev) : F[x] = i

\* A run that starts has no events to account for.
LEMMA AccountStarts ==
  ASSUME NEW n, NEW began, NEW ev, \A p \in RunPairs(n) : ev[p] = <<>>
  PROVE  \E F : Account(F, n, began, <<>>, ev)
<1>1. CellsOf(RunPairs(n), ev) = {}
  BY DEF CellsOf
<1>2. Account([x \in {} |-> 0], n, began, <<>>, ev)
  BY <1>1 DEF Account
<1> QED
  BY <1>2

\* An entry without an event leaves the account as it is.
LEMMA AccountEntry ==
  ASSUME NEW n, NEW began, NEW ev, NEW log \in Seq(Logged), NEW F,
         Account(F, n, began, log, ev), NEW entry \in Logged,
         entry.answer = "success" => ~Usable(entry)
  PROVE  Account(F, n, began, Append(log, entry), ev)
<1> DEFINE log2 == Append(log, entry)
<1>1. /\ DOMAIN log = 1..Len(log) /\ Len(log) \in Nat
      /\ DOMAIN log2 = 1..(Len(log) + 1)
      /\ \A i \in 1..Len(log) : log2[i] = log[i]
      /\ log2[Len(log) + 1] = entry
  BY AppendLookup
<1> HIDE DEF log2
<1>2. DOMAIN log \subseteq DOMAIN log2
  BY <1>1
<1>3. F \in [CellsOf(RunPairs(n), ev) -> DOMAIN log2]
  BY <1>2 DEF Account
<1>4. ASSUME NEW p \in RunPairs(n), NEW i \in DOMAIN ev[p]
      PROVE  AnswersTo(n, began, p, ev[p][i], log2[F[<<p, i>>]])
  <2>1. F[<<p, i>>] \in DOMAIN log
    BY CellIsEvent DEF Account
  <2> QED
    BY <1>1, <2>1 DEF Account
<1>5. ASSUME NEW i \in DOMAIN log2, Usable(log2[i]), log2[i].answer = "success"
      PROVE  \E x \in CellsOf(RunPairs(n), ev) : F[x] = i
  <2>1. i \in DOMAIN log /\ log2[i] = log[i]
    BY <1>1, <1>5
  <2> QED
    BY <1>5, <2>1 DEF Account
<1> QED
  BY <1>3, <1>4, <1>5 DEF Account, log2

\* An entry with its event is the last of both.
LEMMA AccountEvent ==
  ASSUME NEW n, NEW began, NEW log \in Seq(Logged), NEW F,
         NEW ev \in [Pairs -> Seq(Response)], RunPairs(n) \subseteq Pairs,
         Account(F, n, began, log, ev),
         NEW entry \in Logged, NEW p \in RunPairs(n), NEW e \in Response,
         AnswersTo(n, began, p, e, entry)
  PROVE  \E G : Account(G, n, began, Append(log, entry),
                        [ev EXCEPT ![p] = Append(@, e)])
<1> DEFINE log2 == Append(log, entry)
           ev2 == [ev EXCEPT ![p] = Append(@, e)]
           cells == CellsOf(RunPairs(n), ev)
           new == <<p, Len(ev[p]) + 1>>
           G == [x \in cells \cup {new} |-> IF x = new THEN Len(log) + 1 ELSE F[x]]
<1>1. /\ DOMAIN log = 1..Len(log) /\ Len(log) \in Nat
      /\ DOMAIN log2 = 1..(Len(log) + 1)
      /\ \A i \in 1..Len(log) : log2[i] = log[i]
      /\ log2[Len(log) + 1] = entry
  BY AppendLookup
<1>2. CellsOf(RunPairs(n), ev2) = cells \cup {new} /\ new \notin cells
  <2>1. new = CellAfter(p, ev)
    BY DEF CellAfter
  <2> HIDE DEF new, cells
  <2>2. ev2 = [ev EXCEPT ![p] = Append(@, e)]
    OBVIOUS
  <2> HIDE DEF ev2
  <2> QED
    BY <2>1, <2>2, OneCellMore DEF cells
<1>3. /\ ev[p] \in Seq(Response) /\ ev2[p] = Append(ev[p], e)
      /\ \A r \in RunPairs(n) : r # p => ev2[r] = ev[r]
  OBVIOUS
<1>4. /\ DOMAIN ev[p] = 1..Len(ev[p]) /\ Len(ev[p]) \in Nat
      /\ DOMAIN ev2[p] = 1..(Len(ev[p]) + 1)
      /\ \A i \in 1..Len(ev[p]) : ev2[p][i] = ev[p][i]
      /\ ev2[p][Len(ev[p]) + 1] = e
  BY <1>3, AppendLookup
<1> HIDE DEF log2, ev2
<1>5. \A x \in cells : F[x] \in 1..Len(log) /\ G[x] = F[x]
  BY <1>1, <1>2 DEF Account
<1>6. G[new] = Len(log) + 1
  OBVIOUS
<1>7. G \in [cells \cup {new} -> DOMAIN log2]
  BY <1>1, <1>5, <1>6
<1>8. ASSUME NEW r \in RunPairs(n), NEW i \in DOMAIN ev2[r]
      PROVE  \/ /\ r = p /\ i = Len(ev[p]) + 1 /\ G[<<r, i>>] = Len(log) + 1
                /\ ev2[r][i] = e
             \/ /\ i \in DOMAIN ev[r] /\ ev2[r][i] = ev[r][i]
                /\ <<r, i>> \in cells /\ G[<<r, i>>] = F[<<r, i>>]
                /\ F[<<r, i>>] \in 1..Len(log)
  <2>1. CASE r = p /\ i = Len(ev[p]) + 1
    BY <1>4, <1>6, <2>1
  <2>2. CASE ~(r = p /\ i = Len(ev[p]) + 1)
    <3>1. i \in DOMAIN ev[r] /\ ev2[r][i] = ev[r][i]
      <4>1. CASE r = p
        <5>1. i \in 1..(Len(ev[p]) + 1) /\ i # Len(ev[p]) + 1
          BY <1>4, <2>2, <4>1
        <5>2. i \in 1..Len(ev[p])
          BY <1>4, <5>1
        <5> QED
          BY <1>4, <4>1, <5>2
      <4>2. CASE r # p
        BY <1>3, <4>2
      <4> QED
        BY <4>1, <4>2
    <3>2. <<r, i>> \in cells
      BY <3>1, CellIsEvent
    <3> QED
      BY <1>5, <3>1, <3>2
  <2> QED
    BY <2>1, <2>2
<1>9. ASSUME NEW r \in RunPairs(n), NEW i \in DOMAIN ev2[r]
      PROVE  AnswersTo(n, began, r, ev2[r][i], log2[G[<<r, i>>]])
  <2> HIDE DEF G
  <2> QED
    BY <1>1, <1>8 DEF Account
<1>10. ASSUME NEW r \in RunPairs(n), NEW i \in DOMAIN ev2[r], NEW j \in DOMAIN ev2[r],
              i < j
       PROVE  G[<<r, i>>] < G[<<r, j>>]
  <2> HIDE DEF G, cells
  <2>1. CASE r = p
    <3>1. i \in 1..Len(ev[p]) /\ i \in DOMAIN ev[p]
      BY <1>4, <1>10, <2>1
    <3>2. G[<<r, i>>] = F[<<r, i>>] /\ F[<<r, i>>] \in 1..Len(log)
      BY <1>4, <1>8, <2>1, <3>1
    <3>3. CASE j = Len(ev[p]) + 1
      <4>1. G[<<r, j>>] = Len(log) + 1
        BY <1>6, <2>1, <3>3 DEF G
      <4> QED
        BY <1>1, <3>2, <4>1
    <3>4. CASE j # Len(ev[p]) + 1
      <4>1. j \in DOMAIN ev[p] /\ G[<<r, j>>] = F[<<r, j>>]
        BY <1>8, <2>1, <3>4
      <4> QED
        BY <1>10, <2>1, <3>1, <3>2, <4>1 DEF Account
    <3> QED
      BY <3>3, <3>4
  <2>2. CASE r # p
    <3>1. /\ i \in DOMAIN ev[r] /\ j \in DOMAIN ev[r]
          /\ G[<<r, i>>] = F[<<r, i>>] /\ G[<<r, j>>] = F[<<r, j>>]
      BY <1>8, <2>2
    <3> QED
      BY <1>10, <3>1 DEF Account
  <2> QED
    BY <2>1, <2>2
<1>11. ASSUME NEW i \in DOMAIN log2, Usable(log2[i]), log2[i].answer = "success"
       PROVE  \E x \in cells \cup {new} : G[x] = i
  <2>1. CASE i = Len(log) + 1
    BY <1>6, <2>1
  <2>2. CASE i # Len(log) + 1
    <3>1. i \in DOMAIN log /\ log2[i] = log[i]
      BY <1>1, <2>2
    <3>2. PICK x \in cells : F[x] = i
      BY <1>11, <3>1 DEF Account
    <3> QED
      BY <1>5, <3>2
  <2> QED
    BY <2>1, <2>2
<1> HIDE DEF G
<1>12. Account(G, n, began, log2, ev2)
  BY <1>2, <1>7, <1>9, <1>10, <1>11 DEF Account
<1> QED
  BY <1>12 DEF log2, ev2

-----------------------------------------------------------------------------

\* No two events answer one entry.
LEMMA AccountInjective ==
  ASSUME NEW n, NEW began, NEW log \in Seq(Logged), NEW F,
         NEW ev \in [Pairs -> Seq(Response)], RunPairs(n) \subseteq Pairs,
         Account(F, n, began, log, ev)
  PROVE  F \in Injection(CellsOf(RunPairs(n), ev), DOMAIN log)
<1> DEFINE cells == CellsOf(RunPairs(n), ev)
<1>1. SUFFICES ASSUME NEW x \in cells, NEW y \in cells, F[x] = F[y]
               PROVE  x = y
  BY DEF Account, Injection, IsInjective
<1>2. /\ x[1] \in RunPairs(n) /\ x[2] \in DOMAIN ev[x[1]] /\ x = <<x[1], x[2]>>
      /\ y[1] \in RunPairs(n) /\ y[2] \in DOMAIN ev[y[1]] /\ y = <<y[1], y[2]>>
  BY CellIsEvent
<1>3. x[1] = PairOf(n, log[F[x]].step) /\ y[1] = PairOf(n, log[F[y]].step)
  BY <1>2 DEF Account, AnswersTo
<1>4. x[1] = y[1]
  BY <1>1, <1>3
<1>5. ev[x[1]] \in Seq(Response)
  BY <1>2
<1>6. x[2] \in Nat /\ y[2] \in Nat
  BY <1>2, <1>4, <1>5
<1>7. \A z \in cells : F[z] \in Nat
  BY DEF Account
<1>8. ~(x[2] < y[2]) /\ ~(y[2] < x[2])
  <2>1. /\ F[<<x[1], x[2]>>] = F[x] /\ F[<<x[1], y[2]>>] = F[y]
        /\ F[x] \in Nat /\ F[y] \in Nat
    BY <1>2, <1>4, <1>7
  <2>2. /\ x[2] < y[2] => F[<<x[1], x[2]>>] < F[<<x[1], y[2]>>]
        /\ y[2] < x[2] => F[<<x[1], y[2]>>] < F[<<x[1], x[2]>>]
    BY <1>2, <1>4 DEF Account
  <2> QED
    BY <1>1, <2>1, <2>2
<1> QED
  BY <1>2, <1>4, <1>6, <1>8

LEMMA LogFinite ==
  ASSUME NEW log \in Seq(Logged)
  PROVE  IsFiniteSet(DOMAIN log)
<1>1. DOMAIN log = 1..Len(log) /\ Len(log) \in Nat
  OBVIOUS
<1>2. 1 \in Int /\ Len(log) \in Int
  BY <1>1
<1> QED
  BY <1>1, <1>2, FS_Interval

AnsweredBy(F, cells) == {F[x] : x \in cells}

\* The entries that the events of a set of cells answer are as many as these.
LEMMA AsManyEntries ==
  ASSUME NEW cells, NEW entries, IsFiniteSet(entries),
         NEW F \in Injection(cells, entries), NEW some \in SUBSET cells
  PROVE  LET image == AnsweredBy(F, some)
         IN /\ IsFiniteSet(some) /\ IsFiniteSet(image)
            /\ Cardinality(some) = Cardinality(image)
            /\ Cardinality(some) \in Nat
<1> DEFINE image == AnsweredBy(F, some)
           G == [x \in some |-> F[x]]
<1>1. IsFiniteSet(some)
  BY FS_Injection, FS_Subset
<1>2. G \in Surjection(some, image)
  BY DEF Surjection, AnsweredBy
<1>3. G \in Injection(some, image)
  BY DEF Injection, IsInjective, AnsweredBy
<1> HIDE DEF G, image
<1>4. IsFiniteSet(image) /\ Cardinality(image) = Cardinality(some)
  BY <1>1, <1>2, <1>3, FS_Surjection
<1>5. Cardinality(some) \in Nat
  BY <1>1, FS_CardinalityType
<1> QED
  BY <1>1, <1>4, <1>5 DEF image

UnfailedCells(P, ev) == {x \in CellsOf(P, ev) : ev[x[1]][x[2]].result # "FAILED"}

Completed(log) == {i \in Answered(log, "success") : Usable(log[i])}

\* The events that do not say FAILED are at least the entries completed in a
\* session, and the rest of them stand where the log has a transport error.
LEMMA AccountCounts ==
  ASSUME NEW n, NEW began, NEW log \in Seq(Logged), NEW F,
         NEW ev \in [Pairs -> Seq(Response)], RunPairs(n) \subseteq Pairs,
         Account(F, n, began, log, ev)
  PROVE  LET unfailed == UnfailedCells(RunPairs(n), ev)
             done == Completed(log)
             lost == Answered(log, "transport_error")
         IN /\ Cardinality(done) <= Cardinality(unfailed)
            /\ Cardinality(unfailed) <= Cardinality(done) + Cardinality(lost)
            /\ lost = {} => Cardinality(unfailed) = Cardinality(done)
<1> DEFINE cells == CellsOf(RunPairs(n), ev)
           unfailed == UnfailedCells(RunPairs(n), ev)
           done == Completed(log)
           lost == Answered(log, "transport_error")
           image == AnsweredBy(F, unfailed)
<1>1. F \in Injection(cells, DOMAIN log) /\ IsFiniteSet(DOMAIN log)
  BY AccountInjective, LogFinite
<1>2. /\ IsFiniteSet(image) /\ Cardinality(unfailed) = Cardinality(image)
      /\ Cardinality(unfailed) \in Nat
  <2>1. unfailed \in SUBSET cells
    BY DEF UnfailedCells
  <2> HIDE DEF unfailed, cells
  <2> QED
    BY <1>1, <2>1, AsManyEntries
<1>3. \A x \in cells : /\ F[x] \in DOMAIN log
                       /\ Usable(log[F[x]])
                       /\ log[F[x]].answer \in {Classify(ev[x[1]][x[2]].result),
                                                "transport_error"}
  BY CellIsEvent DEF Account, AnswersTo
<1>4. image \subseteq done \cup lost
  <2> SUFFICES ASSUME NEW x \in unfailed PROVE F[x] \in done \cup lost
    BY DEF AnsweredBy
  <2> QED
    BY <1>3 DEF Answered, Classify, UnfailedCells, Completed
<1>5. done \subseteq image
  <2> SUFFICES ASSUME NEW i \in done PROVE i \in image
    OBVIOUS
  <2>1. i \in DOMAIN log /\ Usable(log[i]) /\ log[i].answer = "success"
    BY DEF Answered, Completed
  <2>2. PICK x \in cells : F[x] = i
    BY <2>1 DEF Account
  <2>3. ev[x[1]][x[2]].result # "FAILED"
    BY <1>3, <2>1, <2>2 DEF Classify
  <2> QED
    BY <2>2, <2>3 DEF AnsweredBy, UnfailedCells
<1>6. done \subseteq DOMAIN log /\ lost \subseteq DOMAIN log
  BY DEF Answered, Completed
<1> HIDE DEF image, done, lost, unfailed
<1>7. IsFiniteSet(done) /\ IsFiniteSet(lost)
  BY <1>1, <1>6, FS_Subset
<1>8. Cardinality(done) <= Cardinality(image)
  BY <1>2, <1>5, FS_Subset
<1>9. /\ IsFiniteSet(done \cup lost)
      /\ Cardinality(done \cup lost) <= Cardinality(done) + Cardinality(lost)
  <2>1. /\ Cardinality(done \cup lost)
             = Cardinality(done) + Cardinality(lost) - Cardinality(done \cap lost)
        /\ IsFiniteSet(done \cup lost)
    BY <1>7, FS_Union
  <2>2. /\ Cardinality(done \cap lost) \in Nat
        /\ Cardinality(done) \in Nat /\ Cardinality(lost) \in Nat
    BY <1>7, FS_Intersection, FS_CardinalityType
  <2> QED
    BY <2>1, <2>2
<1>10. Cardinality(image) <= Cardinality(done \cup lost)
  BY <1>4, <1>9, FS_Subset
<1>11. lost = {} => image = done
  BY <1>4, <1>5
<1>12. /\ Cardinality(done) \in Nat /\ Cardinality(lost) \in Nat
       /\ Cardinality(done \cup lost) \in Nat
  BY <1>7, <1>9, FS_CardinalityType
<1>13. Cardinality(unfailed) <= Cardinality(done) + Cardinality(lost)
  BY <1>2, <1>9, <1>10, <1>12
<1> QED
  BY <1>2, <1>8, <1>11, <1>13 DEF done, lost, unfailed

AskedOf(log) == {i \in DOMAIN log : Usable(log[i]) /\ log[i].answer # "deny"}

\* With as many events as calls that were not denied, each of these has one.
LEMMA AccountWhole ==
  ASSUME NEW n, NEW began, NEW log \in Seq(Logged), NEW F,
         NEW ev \in [Pairs -> Seq(Response)], RunPairs(n) \subseteq Pairs,
         Account(F, n, began, log, ev)
  PROVE  LET cells == CellsOf(RunPairs(n), ev)
             asked == AskedOf(log)
         IN /\ IsFiniteSet(cells) /\ Cardinality(cells) \in Nat
            /\ IsFiniteSet(asked) /\ Cardinality(asked) \in Nat
            /\ Cardinality(cells) <= Cardinality(asked)
            /\ Cardinality(cells) = Cardinality(asked) =>
                 \A i \in asked : \E x \in cells : F[x] = i
<1> DEFINE cells == CellsOf(RunPairs(n), ev)
           asked == AskedOf(log)
           image == AnsweredBy(F, cells)
<1>1. F \in Injection(cells, DOMAIN log) /\ IsFiniteSet(DOMAIN log)
  BY AccountInjective, LogFinite
<1>2. /\ IsFiniteSet(cells) /\ IsFiniteSet(image)
      /\ Cardinality(cells) = Cardinality(image) /\ Cardinality(cells) \in Nat
  BY <1>1, AsManyEntries
<1>3. image \subseteq asked
  <2> SUFFICES ASSUME NEW x \in cells PROVE F[x] \in asked
    BY DEF AnsweredBy
  <2>1. /\ F[x] \in DOMAIN log /\ Usable(log[F[x]])
        /\ log[F[x]].answer \in {Classify(ev[x[1]][x[2]].result), "transport_error"}
    BY CellIsEvent DEF Account, AnswersTo
  <2> QED
    BY <2>1 DEF Classify, AskedOf
<1>4. asked \subseteq DOMAIN log
  BY DEF AskedOf
<1>5. IsFiniteSet(asked) /\ Cardinality(asked) \in Nat
  BY <1>1, <1>4, FS_Subset, FS_CardinalityType
<1>6. \A i \in image : \E x \in cells : F[x] = i
  BY DEF AnsweredBy
<1> HIDE DEF asked, image
<1>7. /\ Cardinality(image) <= Cardinality(asked)
      /\ Cardinality(asked) = Cardinality(image) => asked = image
  BY <1>3, <1>5, FS_Subset
<1> QED
  BY <1>2, <1>5, <1>6, <1>7 DEF asked

-----------------------------------------------------------------------------
(***************************************************************************)
(* What the function did is in its table.                                  *)
(***************************************************************************)
Stored ==
  /\ \A p \in Pairs : \A i \in DOMAIN events[p] :
       LET q == events[p][i].request
       IN q.tool = "execute_write" => OperationOf(q) \in table
  /\ \A k \in DOMAIN flight :
       LET c == flight[k]
       IN c.request.tool = "execute_write" /\ c.result \in Results =>
            OperationOf(c.request) \in table

LEMMA StoredStep ==
  ASSUME GatewayTypeOK, Stored, [Next]_vars
  PROVE  Stored'
<1>0. PICK busy \in SUBSET Connections : flight \in [busy -> Carried]
  BY DEF GatewayTypeOK
<1>1. ASSUME NEW k \in Connections, NEW p \in Pairs, NEW q \in Requests,
             Forward(k, p, q)
      PROVE  Stored'
  <2>1. "pending" \notin Results
    BY DEF Results
  <2>2. /\ DOMAIN flight' = DOMAIN flight \cup {k}
        /\ flight'[k].result = "pending"
        /\ \A j \in DOMAIN flight \ {k} : flight'[j] = flight[j]
    BY <1>1 DEF Forward
  <2>3. UNCHANGED <<events, table>>
    BY <1>1 DEF Forward
  <2> QED
    BY <2>1, <2>2, <2>3 DEF Stored, OperationOf
<1>2. ASSUME NEW k \in Connections, Invoke(k)
      PROVE  Stored'
  <2>1. /\ DOMAIN flight' = DOMAIN flight /\ k \in DOMAIN flight
        /\ flight'[k].request = flight[k].request
        /\ \A j \in DOMAIN flight \ {k} : flight'[j] = flight[j]
    BY <1>0, <1>2 DEF Invoke, Carried
  <2>2. /\ table \subseteq table' /\ UNCHANGED events
        /\ flight[k].request.tool = "execute_write" =>
             OperationOf(flight[k].request) \in table'
    BY <1>2 DEF Invoke
  <2> QED
    BY <2>1, <2>2 DEF Stored, OperationOf
<1>3. ASSUME NEW k \in Connections, Respond(k)
      PROVE  Stored'
  <2> DEFINE c == flight[k]
             e == [request |-> c.request, result |-> c.result, sent |-> c.sent,
                   at |-> now]
  <2>1. c \in Carried /\ c.result \in Results /\ k \in DOMAIN flight
    BY <1>0, <1>3 DEF Respond
  <2>2. e \in Response /\ c.pair \in Pairs
    BY <2>1, GatewayAssumption, SMT DEF Carried, Response, GatewayTypeOK
  <2>3. /\ events' = [events EXCEPT ![c.pair] = Append(@, e)]
        /\ events \in [Pairs -> Seq(Response)]
    BY <1>3 DEF Respond, GatewayTypeOK
  <2>4. table' = table /\ flight' = Freed(k)
    BY <1>3 DEF Respond
  <2> HIDE DEF e, c
  <2>5. ASSUME NEW p \in Pairs, NEW i \in DOMAIN events'[p],
               events'[p][i].request.tool = "execute_write"
        PROVE  OperationOf(events'[p][i].request) \in table
    <3>1. CASE p = c.pair
      <4>1. events[p] \in Seq(Response) /\ events'[p] = Append(events[p], e)
        BY <2>2, <2>3, <3>1
      <4>2. (i \in DOMAIN events[p] /\ events'[p][i] = events[p][i]) \/ events'[p][i] = e
        BY <2>2, <2>5, <4>1, AppendLookup
      <4>3. e.request = c.request
        BY DEF e
      <4> QED
        BY <2>1, <2>5, <4>2, <4>3 DEF Stored, c
    <3>2. CASE p # c.pair
      BY <2>2, <2>3, <2>5, <3>2 DEF Stored
    <3> QED
      BY <3>1, <3>2
  <2> QED
    BY <2>4, <2>5 DEF Stored, Freed, OperationOf
<1>4. ASSUME NEW k \in Connections, LoseResponse(k)
      PROVE  Stored'
  BY <1>4 DEF LoseResponse, Freed, Stored, OperationOf
<1>5. CASE Tick \/ UNCHANGED vars
  BY <1>5 DEF Tick, vars, Stored, OperationOf
<1> QED
  BY <1>1, <1>2, <1>3, <1>4, <1>5 DEF Next, Deny

LEMMA StoredAlways == Spec => []Stored
<1>1. Init => Stored
  BY DEF Init, Stored
<1> QED
  BY <1>1, StoredStep, GatewayTypeCorrect, PTL DEF Spec

-----------------------------------------------------------------------------
(***************************************************************************)
(* What the sessions of one run have to do with those of another.          *)
(***************************************************************************)
LEMMA RunPairsArePairs ==
  ASSUME NEW n \in Runs
  PROVE  RunPairs(n) \subseteq Pairs
BY ManagedRunnerAssumption DEF RunPairs, RunSessions, Pairs

LEMMA StepInRunPairs ==
  ASSUME NEW n \in Runs, NEW x \in Step, x.label \notin Unusable
  PROVE  PairOf(n, x) \in RunPairs(n)
<1>1. x.caller \in Callers /\ x.label \in DOMAIN SessionFor[0]
  BY DEF Step
<1>2. x.label \in DOMAIN SessionFor[n]
  BY <1>1, ManagedRunnerAssumption
<1> QED
  BY <1>1, <1>2 DEF PairOf, RunPairs, RunSessions

LEMMA RunPairsDisjoint ==
  ASSUME NEW m \in Runs, NEW n \in Runs, m # n, NEW p \in RunPairs(m)
  PROVE  p \notin RunPairs(n)
<1>1. DOMAIN SessionFor[m] = DOMAIN SessionFor[0] /\ DOMAIN SessionFor[n] = DOMAIN SessionFor[0]
  BY ManagedRunnerAssumption
<1> QED
  BY <1>1, ManagedRunnerAssumption DEF RunPairs, RunSessions

\* In one run, steps of one pair are of one caller and one session label.
LEMMA SamePair ==
  ASSUME NEW n \in Runs, NEW x \in Step, NEW y \in Step,
         x.label \notin Unusable, y.label \notin Unusable
  PROVE  PairOf(n, x) = PairOf(n, y) <=> x.caller = y.caller /\ x.label = y.label
<1>1. x.label \in DOMAIN SessionFor[0] /\ y.label \in DOMAIN SessionFor[0]
  BY DEF Step
<1> QED
  BY <1>1, ManagedRunnerAssumption DEF PairOf

LEMMA EventsAreCells ==
  Recorded = CellsOf(Pairs, events) /\ \A n : EventsOf(n) = CellsOf(RunPairs(n), events)
BY DEF Recorded, EventsOf, CellsOf, RunPairs

\* What the function returns fits what the step asked for: a call lasts less
\* than an approval, and one recorded expired stays so.
LEMMA ResultFits ==
  ASSUME NEW n, NEW q \in Call, NEW sent \in Nat, now \in Nat,
         sent <= now, now <= sent + 1,
         ResultOf(NamespacedArguments(n, q, sent)) \in Results
  PROVE  Fits(q, ResultOf(NamespacedArguments(n, q, sent)))
<1> DEFINE r == NamespacedArguments(n, q, sent)
<1>1. q.expiry \in Nat
  BY DEF Call
<1>2. /\ r.tool = q.tool /\ r.mode = q.mode
      /\ q.tool = "record_human_approval" =>
           r.expiry = IF q.expiry = 0 THEN (IF sent = 0 THEN 0 ELSE sent - 1)
                                     ELSE sent + 15
  BY DEF NamespacedArguments, Call
<1> HIDE DEF r
<1>3. CASE q.tool = "record_human_approval"
  <2>1. r.expiry > now <=> q.expiry # 0
    BY <1>1, <1>2, <1>3
  <2>2. ResultOf(r) = IF r.expiry > now THEN "valid" ELSE "expired"
    BY <1>2, <1>3 DEF ResultOf
  <2> QED
    BY <1>3, <2>1, <2>2 DEF Fits, r
<1>4. CASE q.tool = "execute_write"
  BY <1>2, <1>4 DEF ResultOf, Fits, r
<1>5. CASE q.tool \in {"lookup_record", "get_operation_status"}
  <2>1. ResultOf(r) \in {"found", "status", "raised"}
    BY <1>2, <1>5 DEF ResultOf
  <2> QED
    BY <1>5, <2>1 DEF Fits, r
<1> QED
  BY <1>3, <1>4, <1>5 DEF Call

-----------------------------------------------------------------------------
(***************************************************************************)
(* The inductive invariant of a proof.                                     *)
(***************************************************************************)

\* The call outstanding is that of the step the run is at.
OneCall ==
  /\ DOMAIN flight \subseteq {Main}
  /\ Main \in DOMAIN flight =>
       LET c == flight[Main]
       IN /\ Presenting /\ Supplied
          /\ c.pair = PairOf(run.repetition, CurrentStep)
          /\ c.request = NamespacedArguments(run.repetition, CurrentStep.request, c.sent)
          /\ run.began <= c.sent /\ c.sent <= now /\ now <= c.sent + 1
          /\ c.result \in Results => Fits(CurrentStep.request, c.result)

\* The run's own events are all that was recorded since it began.
OwnEvents ==
  /\ run.began \in Nat /\ run.began <= now
  /\ run.before \in Nat
  /\ \A n \in Runs : n > run.repetition => \A p \in RunPairs(n) : events[p] = <<>>
  /\ IsFiniteSet(CellsOf(Pairs, events))
  /\ Cardinality(CellsOf(Pairs, events))
       = run.before + Cardinality(CellsOf(RunPairs(run.repetition), events))

\* Without a session only a lookup is completed; a run stops over an answer
\* that is no success; its summary is that of its log.
LogSettled ==
  /\ \A i \in DOMAIN run.log : run.log[i].answer = "success" =>
       Usable(run.log[i]) \/ run.log[i].step.request.tool = "lookup_record"
  /\ run.stopped # 0 => /\ run.stopped \in DOMAIN run.log
                        /\ run.log[run.stopped].answer # "success"
  /\ stage = "finished" =>
       /\ run.stopped # 0 \/ Position > Len(trajectory.steps)
       /\ Len(summaries) \in DOMAIN summaries
       /\ summaries[Len(summaries)].actual = Actual(run.log, run.continued)

Accounted ==
  stage # "aborted" =>
    \E F : Account(F, run.repetition, run.began, run.log, events)

ProofInv ==
  mode = "proof" => OneCall /\ OwnEvents /\ LogSettled /\ Accounted

-----------------------------------------------------------------------------
\* What a step of a proof does, as far as the run is concerned.

Concluded(answer) ==
  /\ Presenting /\ ProofSame /\ Conclude(answer) /\ answer \in Answers

\* The step ended without its call being forwarded.
Refused(answer) ==
  /\ Concluded(answer) /\ flight = <<>> /\ UNCHANGED vars
  /\ answer # "tool_error"
  /\ answer = "success" => /\ ~Supplied /\ ~MustRefuse(CurrentStep)
                           /\ CurrentStep.request.tool = "lookup_record"
  /\ answer = "validation_error" => ~Supplied
  /\ answer = "deny" => Supplied /\ ~Permitted(PairOf(run.repetition, CurrentStep), SentRequest)

LEMMA ProofSteps ==
  ASSUME mode = "proof", [BatchNext]_batchVars
  PROVE  \/ \E answer : Refused(answer)
         \/ SendForwarded
         \/ /\ Respond(Main) /\ Main \in DOMAIN flight
            /\ \E answer \in {Classify(flight[Main].result), "transport_error"} :
                 Concluded(answer)
         \/ /\ LoseResponse(Main) /\ Main \in DOMAIN flight
            /\ Concluded("tool_error") \/ Concluded("transport_error")
         \/ TransportRaises
         \/ FinishRun
         \/ \E k \in Connections : FunctionRuns(k)
         \/ MinutePasses
         \/ UNCHANGED batchVars
<1>1. CASE SendUnsessioned \/ SendDenied \/ SendFails
  <2>1. \E answer \in Answers : Refused(answer)
    BY <1>1 DEF SendUnsessioned, SendDenied, SendFails, Deny, Refused, Concluded,
                Answers, Supplied, MustRefuse, Unusable
  <2> QED
    BY <2>1
<1>2. CASE ReceiveAnswer
  <2>1. Classify(flight[Main].result) \in Answers /\ "transport_error" \in Answers
    BY DEF Classify, Answers
  <2> QED
    BY <1>2, <2>1 DEF ReceiveAnswer, Concluded
<1>3. CASE ReceiveError
  BY <1>3 DEF ReceiveError, Concluded, Answers
<1>4. ASSUME NEW k \in Connections
      PROVE  ~Arrive(k) /\ ~BurstCall(k) /\ ~BurstAnswer(k)
  BY DEF Arrive, BurstCall, BurstAnswer, Bursting
<1>5. ~Collect
  BY DEF Collect, Bursting
<1> QED
  BY <1>1, <1>2, <1>3, <1>4, <1>5 DEF BatchNext, Progress

\* What concluding a step leaves of the run.
LEMMA ConcludedRun ==
  ASSUME BatchInv, NEW answer, Concluded(answer)
  PROVE  /\ run'.repetition = run.repetition /\ run'.began = run.began
         /\ run'.before = run.before
         /\ run'.log = Append(run.log, [step |-> CurrentStep, answer |-> answer])
         /\ run'.stopped \in {0, Len(run.log) + 1}
         /\ answer = "success" => run'.stopped = 0
         /\ CurrentStep \in Step /\ [step |-> CurrentStep, answer |-> answer] \in Logged
         /\ DOMAIN run'.log = 1..(Len(run.log) + 1)
         /\ DOMAIN run.log = 1..Len(run.log) /\ Len(run.log) \in Nat
         /\ \A i \in 1..Len(run.log) : run'.log[i] = run.log[i]
         /\ run'.log[Len(run.log) + 1] = [step |-> CurrentStep, answer |-> answer]
         /\ UNCHANGED <<mode, stage, trajectory, summaries>>
<1>1. CurrentStep \in Step /\ [step |-> CurrentStep, answer |-> answer] \in Logged
  BY PresentedStep DEF Concluded, BatchInv, Logged
<1>2. /\ run'.repetition = run.repetition /\ run'.began = run.began
      /\ run'.before = run.before
      /\ run'.log = Append(run.log, [step |-> CurrentStep, answer |-> answer])
      /\ run'.stopped \in {0, Position}
      /\ answer = "success" => run'.stopped = 0
  BY DEF Concluded, Conclude, GoesOn, BatchInv, BatchShape
<1>3. run.log \in Seq(Logged)
  BY DEF BatchInv, BatchShape
<1> QED
  BY <1>1, <1>2, <1>3, AppendLookup DEF Position, Concluded, ProofSame

-----------------------------------------------------------------------------

LEMMA FlightTyped ==
  ASSUME BatchInv, Main \in DOMAIN flight
  PROVE  /\ flight[Main] \in Carried /\ flight[Main].pair \in Pairs
         /\ flight[Main].request \in Call /\ flight[Main].sent \in Nat
         /\ now \in Nat
BY GatewayAssumption DEF BatchInv, BatchShape, GatewayTypeOK, Carried

LEMMA OneCallStep ==
  ASSUME BatchInv, mode = "proof", ProofInv, [BatchNext]_batchVars
  PROVE  OneCall'
<1>0. OneCall /\ now \in Nat /\ run.began \in Nat /\ run.began <= now
  BY GatewayAssumption DEF ProofInv, OwnEvents, BatchInv, BatchShape, GatewayTypeOK
<1>1. CASE flight' = <<>> \/ flight' = Freed(Main)
  <2>1. DOMAIN flight' = {}
    <3>1. CASE flight' = <<>>
      BY <3>1
    <3>2. CASE flight' = Freed(Main)
      <4>1. DOMAIN flight' = DOMAIN flight \ {Main}
        BY <3>2 DEF Freed
      <4> QED
        BY <1>0, <4>1 DEF OneCall
    <3> QED
      BY <1>1, <3>1, <3>2
  <2> QED
    BY <2>1 DEF OneCall
<1>2. CASE SendForwarded
  <2>1. /\ flight' = [j \in {Main} |-> [pair |-> PairOf(run.repetition, CurrentStep),
                        request |-> SentRequest, sent |-> now, result |-> "pending"]]
        /\ UNCHANGED <<run, trajectory, stage, mode, now>> /\ Presenting /\ Supplied
    BY <1>2 DEF SendForwarded, Forward, ProofSame
  <2>2. "pending" \notin Results
    BY DEF Results
  <2> QED
    BY <1>0, <2>1, <2>2 DEF OneCall, Presenting, Position, Supplied, CurrentStep,
                       SentRequest
<1>3. ASSUME NEW k \in Connections, FunctionRuns(k)
      PROVE  OneCall'
  <2>1. /\ k = Main /\ Main \in DOMAIN flight /\ DOMAIN flight' = DOMAIN flight
        /\ flight' = [flight EXCEPT ![k].result = ResultOf(flight[k].request)]
        /\ UNCHANGED <<run, trajectory, stage, mode, now>>
    BY <1>0, <1>3 DEF FunctionRuns, Invoke, OneCall, runnerVars
  <2>2. flight[Main] \in Carried /\ flight[Main].sent \in Nat
    BY <2>1, FlightTyped
  <2>3. /\ flight'[Main].pair = flight[Main].pair
        /\ flight'[Main].request = flight[Main].request
        /\ flight'[Main].sent = flight[Main].sent
        /\ flight'[Main].result = ResultOf(flight[Main].request)
    BY <2>1, <2>2 DEF Carried
  <2>4. CurrentStep.request \in Call
    BY <1>0, <2>1, PresentedStep DEF OneCall, BatchInv, Step
  <2>5. flight'[Main].result \in Results => Fits(CurrentStep.request, flight'[Main].result)
    BY <1>0, <2>1, <2>2, <2>3, <2>4, ResultFits DEF OneCall
  <2> QED
    BY <1>0, <2>1, <2>3, <2>5 DEF OneCall, Presenting, Position, Supplied, CurrentStep
<1>4. CASE MinutePasses
  <2>1. /\ now' = now + 1 /\ \A k \in DOMAIN flight : flight[k].sent = now
        /\ UNCHANGED <<flight, run, trajectory, stage, mode>>
    BY <1>4 DEF MinutePasses, Tick, runnerVars
  <2> QED
    BY <1>0, <2>1 DEF OneCall, Presenting, Position, Supplied, CurrentStep
<1>5. CASE FinishRun
  <2>1. ~Presenting /\ flight' = flight
    <3>1. Len(trajectory.steps) \in Nat /\ Len(run.log) \in Nat
      BY ManagedRunnerAssumption DEF BatchInv, BatchShape
    <3> QED
      BY <1>5, <3>1 DEF FinishRun, Presenting, Position, vars
  <2> QED
    BY <1>0, <2>1 DEF OneCall
<1>6. CASE UNCHANGED batchVars
  BY <1>0, <1>6 DEF batchVars, vars, runnerVars, OneCall, Presenting, Position,
                    Supplied, CurrentStep
<1>7. ASSUME NEW answer, Refused(answer)
      PROVE  flight' = <<>>
  BY <1>7 DEF Refused, vars
<1>8. CASE Respond(Main) \/ LoseResponse(Main)
  BY <1>1, <1>8 DEF Respond, LoseResponse
<1>9. CASE TransportRaises
  BY <1>1, <1>8, <1>9 DEF TransportRaises, vars
<1> QED
  BY <1>1, <1>2, <1>3, <1>4, <1>5, <1>6, <1>7, <1>8, <1>9, ProofSteps

\* A recorded answer is one to the step the run is at.
LEMMA AnswerRecorded ==
  ASSUME BatchInv, OneCall, run.began \in Nat, Main \in DOMAIN flight, Respond(Main)
  PROVE  LET c == flight[Main]
             e == [request |-> c.request, result |-> c.result, sent |-> c.sent, at |-> now]
         IN /\ events \in [Pairs -> Seq(Response)]
            /\ events' = [events EXCEPT ![c.pair] = Append(@, e)]
            /\ e \in Response /\ c.pair \in RunPairs(run.repetition)
            /\ run.repetition \in Runs
            /\ now' = now
            /\ \A answer \in {Classify(c.result), "transport_error"} :
                 AnswersTo(run.repetition, run.began, c.pair, e,
                           [step |-> CurrentStep, answer |-> answer])
<1> DEFINE c == flight[Main]
           e == [request |-> c.request, result |-> c.result, sent |-> c.sent, at |-> now]
<1>1. /\ c \in Carried /\ c.pair \in Pairs /\ c.request \in Call /\ c.sent \in Nat
      /\ now \in Nat
  BY FlightTyped
<1>2. /\ c.result \in Results /\ now' = now
      /\ events' = [events EXCEPT ![c.pair] = Append(@, e)]
  BY DEF Respond
<1>3. e \in Response
  BY <1>1, <1>2 DEF Response
<1>4. CurrentStep \in Step /\ run.repetition \in Runs
  BY PresentedStep DEF OneCall, BatchInv, BatchShape
<1>5. c.pair \in RunPairs(run.repetition)
  BY <1>4, StepInRunPairs DEF OneCall, Supplied
<1>6. run.began <= now
  <2>1. run.began <= c.sent /\ c.sent <= now /\ run.began \in Int
    BY DEF OneCall
  <2> QED
    BY <1>1, <2>1
<1>7. ASSUME NEW answer \in {Classify(c.result), "transport_error"}
      PROVE  AnswersTo(run.repetition, run.began, c.pair, e,
                       [step |-> CurrentStep, answer |-> answer])
  BY <1>2, <1>6, <1>7 DEF AnswersTo, Usable, OneCall, Supplied
<1>8. events \in [Pairs -> Seq(Response)]
  BY DEF BatchInv, BatchShape, GatewayTypeOK
<1> QED
  BY <1>2, <1>3, <1>4, <1>5, <1>7, <1>8

LEMMA OwnEventsStep ==
  ASSUME BatchInv, mode = "proof", ProofInv, [BatchNext]_batchVars
  PROVE  OwnEvents'
<1>0. /\ OwnEvents /\ OneCall /\ now \in Nat /\ now' \in Nat /\ run.repetition \in Runs
      /\ events \in [Pairs -> Seq(Response)]
  <2>1. BatchShape'
    BY ShapeStep DEF BatchInv
  <2> QED
    BY <2>1, GatewayAssumption DEF ProofInv, BatchInv, BatchShape, GatewayTypeOK
<1> DEFINE SameRun == /\ run'.repetition = run.repetition /\ run'.began = run.began
                      /\ run'.before = run.before
<1>1. CASE SameRun /\ events' = events /\ now' \in {now, now + 1}
  <2>1. \A P : CellsOf(P, events)' = CellsOf(P, events)
    BY <1>1
  <2>2. run.began <= now'
    BY <1>0, <1>1 DEF OwnEvents
  <2> QED
    BY <1>0, <1>1, <2>2 DEF OwnEvents
<1>2. CASE SameRun /\ Respond(Main) /\ Main \in DOMAIN flight
  <2> DEFINE c == flight[Main]
             e == [request |-> c.request, result |-> c.result, sent |-> c.sent, at |-> now]
             new == CellAfter(c.pair, events)
             own == RunPairs(run.repetition)
  <2>1. /\ events' = [events EXCEPT ![c.pair] = Append(@, e)]
        /\ e \in Response /\ c.pair \in own /\ now' = now
    BY <1>0, <1>2, AnswerRecorded DEF OwnEvents
  <2> HIDE DEF e, c
  <2>2. own \subseteq Pairs
    BY <1>0, RunPairsArePairs
  <2>3. /\ CellsOf(own, events') = CellsOf(own, events) \cup {new}
        /\ new \notin CellsOf(own, events)
    <3>1. own \in SUBSET Pairs /\ events \in [Pairs -> Seq(Response)]
      BY <1>0, <2>2
    <3> HIDE DEF own
    <3> QED
      BY <2>1, <3>1, OneCellMore
  <2>4. /\ CellsOf(Pairs, events') = CellsOf(Pairs, events) \cup {new}
        /\ new \notin CellsOf(Pairs, events)
    <3>1. /\ Pairs \in SUBSET Pairs /\ events \in [Pairs -> Seq(Response)]
          /\ c.pair \in Pairs
      BY <1>0, <2>1, <2>2
    <3> QED
      BY <2>1, <3>1, OneCellMore
  <2>5. CellsOf(own, events) \subseteq CellsOf(Pairs, events)
    BY <2>2 DEF CellsOf
  <2>6. IsFiniteSet(CellsOf(Pairs, events)) /\ IsFiniteSet(CellsOf(own, events))
    BY <1>0, <2>5, FS_Subset DEF OwnEvents
  <2> HIDE DEF new, own
  <2>7. /\ IsFiniteSet(CellsOf(Pairs, events'))
        /\ Cardinality(CellsOf(Pairs, events')) = Cardinality(CellsOf(Pairs, events)) + 1
    BY <2>4, <2>6, FS_AddElement
  <2>8. Cardinality(CellsOf(own, events')) = Cardinality(CellsOf(own, events)) + 1
    BY <2>3, <2>6, FS_AddElement
  <2>9. Cardinality(CellsOf(own, events)) \in Nat
    BY <2>6, FS_CardinalityType
  <2>10. Cardinality(CellsOf(Pairs, events'))
           = run.before + Cardinality(CellsOf(own, events'))
    <3>1. /\ run.before \in Nat
          /\ Cardinality(CellsOf(Pairs, events))
               = run.before + Cardinality(CellsOf(own, events))
      BY <1>0 DEF OwnEvents, own
    <3> QED
      BY <2>7, <2>8, <2>9, <3>1
  <2>11. ASSUME NEW n \in Runs, n > run.repetition, NEW p \in RunPairs(n)
         PROVE  events'[p] = <<>>
    <3>1. n # run.repetition
      BY <2>11, <1>0, ManagedRunnerAssumption DEF Runs
    <3>2. p \notin own /\ p \in Pairs
      BY <1>0, <2>11, <3>1, RunPairsDisjoint, RunPairsArePairs DEF own
    <3>3. p # c.pair
      BY <2>1, <3>2
    <3> QED
      BY <1>0, <2>1, <2>11, <3>2, <3>3 DEF OwnEvents
  <2> QED
    BY <1>0, <1>2, <2>1, <2>7, <2>10, <2>11 DEF OwnEvents, own
<1>3. CASE FinishRun /\ run' = NewRun(run.repetition + 1) /\ run.repetition # Repetitions
  <2> DEFINE n == run.repetition + 1
  <2>1. /\ run'.repetition = n /\ run'.began = now
        /\ run'.before = Cardinality(CellsOf(Pairs, events))
        /\ events' = events /\ now' = now
    BY <1>3, EventsAreCells DEF NewRun, FinishRun, vars
  <2>2. n \in Runs /\ n > run.repetition /\ run.repetition \in Nat
    BY <1>0, <1>3, ManagedRunnerAssumption DEF Runs
  <2>3. CellsOf(RunPairs(n), events) = {}
    BY <1>0, <2>2 DEF OwnEvents, CellsOf
  <2>4. Cardinality(CellsOf(RunPairs(n), events)) = 0
    BY <2>3, FS_EmptySet
  <2>5. Cardinality(CellsOf(Pairs, events)) \in Nat
    BY <1>0, FS_CardinalityType DEF OwnEvents
  <2>6. \A m \in Runs : m > n => m > run.repetition
    BY <2>2, ManagedRunnerAssumption DEF Runs
  <2> HIDE DEF n
  <2> QED
    BY <1>0, <2>1, <2>4, <2>5, <2>6 DEF OwnEvents
<1>4. CASE FinishRun /\ UNCHANGED run
  BY <1>1, <1>4 DEF FinishRun, vars
<1>5. CASE FinishRun
  <2>1. \/ run.repetition = Repetitions /\ UNCHANGED run
        \/ run.repetition # Repetitions /\ run' = NewRun(run.repetition + 1)
    BY <1>5 DEF FinishRun
  <2> QED
    BY <1>3, <1>4, <1>5, <2>1
<1>6. ASSUME NEW answer, Concluded(answer)
      PROVE  SameRun
  BY <1>6, ConcludedRun
<1>7. CASE \E answer : Refused(answer)
  BY <1>1, <1>6, <1>7 DEF Refused, vars
<1>8. CASE /\ Respond(Main) /\ Main \in DOMAIN flight
           /\ \E answer \in {Classify(flight[Main].result), "transport_error"} :
                 Concluded(answer)
  BY <1>2, <1>6, <1>8
<1>9. CASE LoseResponse(Main) /\ \E answer : Concluded(answer)
  BY <1>1, <1>6, <1>9 DEF LoseResponse
<1>10. CASE TransportRaises
  <2>1. UNCHANGED run
    BY <1>10 DEF TransportRaises
  <2>2. \/ UNCHANGED <<events, now>>
        \/ Respond(Main) /\ Main \in DOMAIN flight
    BY <1>10 DEF TransportRaises, Respond, LoseResponse, vars
  <2> QED
    BY <1>1, <1>2, <2>1, <2>2
<1>11. CASE SendForwarded \/ \E k \in Connections : FunctionRuns(k)
  BY <1>1, <1>11 DEF SendForwarded, Forward, FunctionRuns, Invoke, runnerVars
<1>12. CASE MinutePasses \/ UNCHANGED batchVars
  BY <1>1, <1>12 DEF MinutePasses, Tick, batchVars, vars, runnerVars
<1> QED
  BY <1>5, <1>7, <1>8, <1>9, <1>10, <1>11, <1>12, ProofSteps

\* What the log gains by concluding a step.
LEMMA LogSettledConcluded ==
  ASSUME BatchInv, LogSettled, NEW answer, Concluded(answer),
         answer = "success" =>
           Supplied \/ CurrentStep.request.tool = "lookup_record"
  PROVE  LogSettled'
<1>1. /\ run'.stopped \in {0, Len(run.log) + 1}
      /\ answer = "success" => run'.stopped = 0
      /\ DOMAIN run'.log = 1..(Len(run.log) + 1)
      /\ DOMAIN run.log = 1..Len(run.log) /\ Len(run.log) \in Nat
      /\ \A i \in 1..Len(run.log) : run'.log[i] = run.log[i]
      /\ run'.log[Len(run.log) + 1] = [step |-> CurrentStep, answer |-> answer]
      /\ stage' = stage
  BY ConcludedRun
<1>2. ASSUME NEW i \in DOMAIN run'.log, run'.log[i].answer = "success"
      PROVE  Usable(run'.log[i]) \/ run'.log[i].step.request.tool = "lookup_record"
  <2>1. CASE i = Len(run.log) + 1
    BY <1>1, <1>2, <2>1 DEF Usable, Supplied
  <2>2. CASE i # Len(run.log) + 1
    <3>1. i \in DOMAIN run.log /\ run'.log[i] = run.log[i]
      BY <1>1, <2>2
    <3> QED
      BY <1>2, <3>1 DEF LogSettled
  <2> QED
    BY <2>1, <2>2
<1>3. run'.stopped # 0 =>
        run'.stopped \in DOMAIN run'.log /\ run'.log[run'.stopped].answer # "success"
  BY <1>1
<1>4. stage' # "finished"
  BY <1>1 DEF Concluded, Presenting
<1> QED
  BY <1>2, <1>3, <1>4 DEF LogSettled

LEMMA LogSettledFinish ==
  ASSUME BatchInv, LogSettled, FinishRun
  PROVE  LogSettled'
<1>1. summaries \in Seq(Summary) /\ trajectory' = trajectory
  BY DEF BatchInv, SummariesKept, FinishRun
<1>2. CASE run.repetition = Repetitions
  <2> DEFINE last == [actual |-> Actual(run.log, run.continued),
                      false_allow |-> FalseAllow(run.log),
                      false_denial |-> FalseDenial(run.log),
                      completed |-> Cardinality(Answered(run.log, "success"))]
  <2>1. /\ run' = run
        /\ run.stopped # 0 \/ Position > Len(trajectory.steps)
    BY <1>2 DEF FinishRun
  <2>2. summaries' = Append(summaries, last)
    BY <1>2, ManagedRunnerAssumption DEF FinishRun
  <2>3. last \in Summary
    BY RunSummary DEF BatchInv
  <2>4. last.actual = Actual(run.log, run.continued)
    OBVIOUS
  <2> HIDE DEF last
  <2>5. /\ Len(summaries') \in DOMAIN summaries'
        /\ summaries'[Len(summaries')] = last
    BY <1>1, <2>2, <2>3, AppendLookup
  <2> QED
    BY <1>1, <2>1, <2>4, <2>5 DEF LogSettled, Position, Usable, Actual, Answered
<1>3. CASE run.repetition # Repetitions
  <2>1. /\ run'.log = <<>> /\ run'.stopped = 0 /\ stage' # "finished"
    BY <1>3 DEF FinishRun, NewRun
  <2> QED
    BY <2>1 DEF LogSettled
<1> QED
  BY <1>2, <1>3

LEMMA LogSettledStep ==
  ASSUME BatchInv, mode = "proof", ProofInv, [BatchNext]_batchVars
  PROVE  LogSettled'
<1>0. LogSettled /\ OneCall
  BY DEF ProofInv
<1>1. CASE UNCHANGED <<run, summaries, trajectory, stage>>
  BY <1>0, <1>1 DEF LogSettled, Position, Usable, Actual, Answered
<1>2. CASE \E answer : Refused(answer)
  BY <1>0, <1>2, LogSettledConcluded DEF Refused
<1>3. CASE /\ Main \in DOMAIN flight
           /\ \E answer : Concluded(answer)
  BY <1>0, <1>3, LogSettledConcluded DEF OneCall
<1>4. CASE FinishRun
  BY <1>0, <1>4, LogSettledFinish
<1>5. CASE TransportRaises
  BY <1>0, <1>5 DEF TransportRaises, LogSettled, Position, Usable
<1>6. CASE \/ SendForwarded \/ MinutePasses \/ UNCHANGED batchVars
           \/ \E k \in Connections : FunctionRuns(k)
  BY <1>1, <1>6 DEF SendForwarded, MinutePasses, FunctionRuns, ProofSame, batchVars,
                    runnerVars
<1> QED
  BY <1>2, <1>3, <1>4, <1>5, <1>6, ProofSteps

LEMMA AccountedStep ==
  ASSUME BatchInv, mode = "proof", ProofInv, [BatchNext]_batchVars
  PROVE  Accounted'
<1>0. /\ Accounted /\ OneCall /\ OwnEvents /\ run.repetition \in Runs
      /\ run.log \in Seq(Logged)
      /\ events \in [Pairs -> Seq(Response)]
      /\ RunPairs(run.repetition) \subseteq Pairs
  BY RunPairsArePairs DEF ProofInv, BatchInv, BatchShape, GatewayTypeOK
<1>1. CASE /\ stage' = stage
           /\ UNCHANGED <<events, run>>
  BY <1>0, <1>1 DEF Accounted
<1>2. ASSUME NEW answer, Concluded(answer), UNCHANGED events,
             answer = "success" => ~Supplied
      PROVE  Accounted'
  <2>1. /\ run'.repetition = run.repetition /\ run'.began = run.began
        /\ run'.log = Append(run.log, [step |-> CurrentStep, answer |-> answer])
        /\ [step |-> CurrentStep, answer |-> answer] \in Logged
    BY <1>2, ConcludedRun
  <2>2. PICK F : Account(F, run.repetition, run.began, run.log, events)
    BY <1>0, <1>2 DEF Accounted, Concluded, Presenting
  <2>3. ~(answer = "success" /\ Usable([step |-> CurrentStep, answer |-> answer]))
    BY <1>2 DEF Usable, Supplied
  <2>4. Account(F, run.repetition, run.began,
                Append(run.log, [step |-> CurrentStep, answer |-> answer]), events)
    BY <1>0, <2>1, <2>2, <2>3, AccountEntry
  <2> QED
    BY <1>2, <2>1, <2>4 DEF Accounted
<1>3. ASSUME NEW answer \in {Classify(flight[Main].result), "transport_error"},
             Concluded(answer), Respond(Main), Main \in DOMAIN flight
      PROVE  Accounted'
  <2> DEFINE c == flight[Main]
             e == [request |-> c.request, result |-> c.result, sent |-> c.sent, at |-> now]
             entry == [step |-> CurrentStep, answer |-> answer]
  <2>1. /\ run'.repetition = run.repetition /\ run'.began = run.began
        /\ run'.log = Append(run.log, entry) /\ entry \in Logged
    BY <1>3, ConcludedRun
  <2>2. PICK F : Account(F, run.repetition, run.began, run.log, events)
    BY <1>0, <1>3 DEF Accounted, Concluded, Presenting
  <2>3. /\ events' = [events EXCEPT ![c.pair] = Append(@, e)]
        /\ e \in Response /\ c.pair \in RunPairs(run.repetition)
        /\ AnswersTo(run.repetition, run.began, c.pair, e, entry)
    BY <1>0, <1>3, AnswerRecorded DEF OwnEvents
  <2> HIDE DEF entry, e, c
  <2>4. \E G : Account(G, run.repetition, run.began, Append(run.log, entry), events')
    BY <1>0, <2>1, <2>2, <2>3, AccountEvent
  <2> QED
    BY <2>1, <2>4 DEF Accounted
<1>4. CASE FinishRun
  <2>1. CASE run.repetition = Repetitions
    BY <1>0, <1>4, <2>1 DEF FinishRun, Accounted, vars
  <2>2. CASE run.repetition # Repetitions
    <3> DEFINE n == run.repetition + 1
    <3>1. run'.repetition = n /\ run'.log = <<>> /\ events' = events
      BY <1>4, <2>2 DEF FinishRun, NewRun, vars
    <3>2. n \in Runs /\ n > run.repetition
      BY <1>0, <2>2, ManagedRunnerAssumption DEF Runs
    <3>3. \A p \in RunPairs(n) : events[p] = <<>>
      BY <1>0, <3>2 DEF OwnEvents
    <3> HIDE DEF n
    <3> QED
      BY <3>1, <3>3, AccountStarts DEF Accounted
  <2> QED
    BY <2>1, <2>2
<1>5. CASE TransportRaises
  BY <1>5 DEF TransportRaises, Accounted
<1>6. CASE \/ SendForwarded \/ MinutePasses \/ UNCHANGED batchVars
           \/ \E k \in Connections : FunctionRuns(k)
  BY <1>1, <1>6 DEF SendForwarded, MinutePasses, FunctionRuns, ProofSame, batchVars, vars,
                    runnerVars, Forward, Invoke, Tick
<1>7. CASE \E answer : Refused(answer)
  BY <1>2, <1>7 DEF Refused, vars
<1>8. CASE LoseResponse(Main) /\ (Concluded("tool_error") \/ Concluded("transport_error"))
  BY <1>2, <1>8 DEF LoseResponse
<1> QED
  BY <1>3, <1>4, <1>5, <1>6, <1>7, <1>8, ProofSteps

LEMMA ProofStarts == BatchInit => ProofInv
<1> SUFFICES ASSUME BatchInit PROVE ProofInv
  OBVIOUS
<1>1. /\ run.repetition = 0 /\ run.log = <<>> /\ run.stopped = 0 /\ run.began = now
      /\ run.before = Cardinality(CellsOf(Pairs, events))
      /\ stage = "running" /\ now = 0
  BY EventsAreCells DEF BatchInit, NewRun, Init
<1>2. 0 \in Runs /\ \A p \in Pairs : events[p] = <<>>
  BY ManagedRunnerAssumption DEF Runs, BatchInit, Init
<1>3. \A n \in Runs : \A p \in RunPairs(n) : events[p] = <<>>
  BY <1>2, RunPairsArePairs
<1>4. CellsOf(Pairs, events) = {} /\ CellsOf(RunPairs(0), events) = {}
  BY <1>2, <1>3 DEF CellsOf
<1>5. OwnEvents
  BY <1>1, <1>3, <1>4, FS_EmptySet DEF OwnEvents
<1>6. Accounted
  BY <1>1, <1>2, <1>3, AccountStarts DEF Accounted
<1>7. OneCall
  BY DEF OneCall, BatchInit, Init
<1>8. LogSettled
  BY <1>1 DEF LogSettled
<1> QED
  BY <1>5, <1>6, <1>7, <1>8 DEF ProofInv

LEMMA ProofStep ==
  ASSUME BatchInv, ProofInv, [BatchNext]_batchVars
  PROVE  ProofInv'
<1>1. mode' = mode
  BY DEF BatchNext, Progress, SendUnsessioned, SendForwarded, SendDenied,
         SendFails, ReceiveAnswer, ReceiveError, TransportRaises, FinishRun,
         FunctionRuns, Arrive, BurstCall, BurstAnswer, Collect, MinutePasses,
         ProofSame, BurstSame, runnerVars, batchVars
<1> QED
  BY <1>1, OneCallStep, OwnEventsStep, LogSettledStep, AccountedStep DEF ProofInv

-----------------------------------------------------------------------------
(***************************************************************************)
(* The inductive invariant of a burst: the events are those of the threads *)
(* of some set, which holds every completed call and none that is still    *)
(* waiting, throttled or denied.                                           *)
(***************************************************************************)
Ended == {"success", "tool_error", "transport_error", "raised"}

BurstCalls ==
  \A k \in DOMAIN flight : threads[k] = "calling" /\ flight[k].pair = BurstPair

BurstEvents ==
  \E S \in SUBSET Connections :
    /\ \A k \in S : threads[k] \in Ended
    /\ \A k \in Connections : threads[k] = "success" => k \in S
    /\ Cardinality(S) = Len(events[BurstPair])

BurstSettled ==
  stage = "finished" =>
    /\ \A k \in Connections : threads[k] \in Answers
    /\ summaries[1].actual = BurstVerdict

BurstInv ==
  mode = "rate_limit" => BurstCalls /\ BurstEvents /\ BurstSettled

LEMMA BurstPairIsPair == BurstPair \in Pairs
BY PairOfStep, ManagedRunnerAssumption DEF BurstPair, Runs

LEMMA BurstStarts == BatchInit => BurstInv
<1> SUFFICES ASSUME BatchInit PROVE BurstInv
  OBVIOUS
<1>1. flight = <<>> /\ stage = "running" /\ events[BurstPair] = <<>>
      /\ \A k \in Connections : threads[k] = "queued"
  BY BurstPairIsPair DEF BatchInit, Init
<1>2. Cardinality({}) = Len(events[BurstPair])
  BY <1>1, FS_EmptySet
<1>3. BurstEvents
  BY <1>1, <1>2 DEF BurstEvents
<1> QED
  BY <1>1, <1>3 DEF BurstInv, BurstCalls, BurstSettled

LEMMA BurstSteps ==
  ASSUME mode = "rate_limit", [BatchNext]_batchVars
  PROVE  \/ \E k \in Connections :
              FunctionRuns(k) \/ Arrive(k) \/ BurstCall(k) \/ BurstAnswer(k)
         \/ Collect
         \/ MinutePasses
         \/ UNCHANGED batchVars
BY DEF BatchNext, Progress, SendUnsessioned, SendForwarded, SendDenied, SendFails,
       ReceiveAnswer, ReceiveError, TransportRaises, FinishRun, Presenting

\* A thread that has not ended moves, without leaving an event.
LEMMA BurstMoves ==
  ASSUME BatchInv, BurstEvents, NEW k \in Connections, NEW to,
         threads[k] \notin Ended, to # "success", Moved(k, to), UNCHANGED events
  PROVE  BurstEvents'
<1>1. PICK S \in SUBSET Connections :
        /\ \A j \in S : threads[j] \in Ended
        /\ \A j \in Connections : threads[j] = "success" => j \in S
        /\ Cardinality(S) = Len(events[BurstPair])
  BY DEF BurstEvents
<1>2. threads' = [threads EXCEPT ![k] = to] /\ DOMAIN threads = Connections
  BY DEF Moved, BatchInv
<1>3. \A j \in S : threads'[j] \in Ended
  BY <1>1, <1>2
<1>4. \A j \in Connections : threads'[j] = "success" => j \in S
  BY <1>1, <1>2
<1> QED
  BY <1>1, <1>3, <1>4 DEF BurstEvents, BurstPair

\* A thread gets its answer and the gateway records it.
LEMMA BurstRecords ==
  ASSUME BatchInv, BurstCalls, BurstEvents, NEW k \in Connections, NEW to \in Ended,
         threads[k] \notin Ended, Moved(k, to), Respond(k)
  PROVE  BurstEvents'
<1>1. PICK S \in SUBSET Connections :
        /\ \A j \in S : threads[j] \in Ended
        /\ \A j \in Connections : threads[j] = "success" => j \in S
        /\ Cardinality(S) = Len(events[BurstPair])
  BY DEF BurstEvents
<1>2. threads' = [threads EXCEPT ![k] = to] /\ DOMAIN threads = Connections
  BY DEF Moved, BatchInv
<1>3. k \notin S /\ IsFiniteSet(S) /\ S \cup {k} \in SUBSET Connections
  BY <1>1, GatewayAssumption, FS_Subset
<1>4. Cardinality(S \cup {k}) = Cardinality(S) + 1
  BY <1>3, FS_AddElement
<1>5. Len(events'[BurstPair]) = Len(events[BurstPair]) + 1
  <2> DEFINE c == flight[k]
             e == [request |-> c.request, result |-> c.result, sent |-> c.sent, at |-> now]
  <2>1. /\ c \in Carried /\ c.result \in Results /\ c.pair = BurstPair
        /\ events' = [events EXCEPT ![c.pair] = Append(@, e)]
    BY DEF Respond, BurstCalls, BatchInv, BatchShape, GatewayTypeOK
  <2>2. e \in Response
    BY <2>1, GatewayAssumption, SMT
       DEF Carried, Response, BatchInv, BatchShape, GatewayTypeOK
  <2>3. events[BurstPair] \in Seq(Response) /\ BurstPair \in DOMAIN events
    BY BurstPairIsPair DEF BatchInv, BatchShape, GatewayTypeOK
  <2> HIDE DEF e
  <2>4. events'[BurstPair] = Append(events[BurstPair], e)
    BY <2>1, <2>3
  <2> QED
    BY <2>2, <2>3, <2>4, AppendLookup
<1>6. \A j \in S \cup {k} : threads'[j] \in Ended
  BY <1>1, <1>2
<1>7. \A j \in Connections : threads'[j] = "success" => j \in S \cup {k}
  BY <1>1, <1>2
<1>8. BurstPair' = BurstPair
  BY DEF BurstPair, PairOf
<1> QED
  BY <1>1, <1>3, <1>4, <1>5, <1>6, <1>7, <1>8 DEF BurstEvents

LEMMA BurstStep ==
  ASSUME BatchInv, BurstInv, [BatchNext]_batchVars
  PROVE  BurstInv'
<1>0. mode' = mode
  BY DEF BatchNext, Progress, SendUnsessioned, SendForwarded, SendDenied,
         SendFails, ReceiveAnswer, ReceiveError, TransportRaises, FinishRun,
         FunctionRuns, Arrive, BurstCall, BurstAnswer, Collect, MinutePasses,
         ProofSame, BurstSame, runnerVars, batchVars
<1> SUFFICES ASSUME mode = "rate_limit"
             PROVE  BurstCalls' /\ BurstEvents' /\ BurstSettled'
  BY <1>0 DEF BurstInv
<1>1. /\ BurstCalls /\ BurstEvents /\ BurstSettled
      /\ threads \in [Connections -> ThreadStates]
      /\ DOMAIN flight \subseteq Connections
  BY DEF BurstInv, BatchInv, BatchShape, GatewayTypeOK
<1>2. BurstPair' = BurstPair
  BY DEF BurstPair, PairOf
<1>3. ASSUME NEW k \in Connections, FunctionRuns(k)
      PROVE  BurstCalls' /\ BurstEvents' /\ BurstSettled'
  <2>1. /\ DOMAIN flight' = DOMAIN flight
        /\ \A j \in DOMAIN flight : flight'[j].pair = flight[j].pair
        /\ UNCHANGED <<threads, events, stage, summaries>>
    BY <1>3 DEF FunctionRuns, Invoke, runnerVars, BatchInv, BatchShape, GatewayTypeOK,
                Carried
  <2> QED
    BY <1>1, <1>2, <2>1 DEF BurstCalls, BurstEvents, BurstSettled, BurstVerdict, Among
<1>4. ASSUME NEW k \in Connections, Arrive(k) \/ BurstCall(k) \/ BurstAnswer(k)
      PROVE  BurstSettled'
  BY <1>4 DEF Arrive, BurstCall, BurstAnswer, Bursting, BurstSame, BurstSettled
<1>5. ASSUME NEW k \in Connections, Arrive(k)
      PROVE  BurstCalls' /\ BurstEvents'
  <2>1. /\ threads[k] = "queued" /\ Moved(k, "arrived") /\ UNCHANGED <<flight, events>>
    BY <1>5 DEF Arrive, vars
  <2>2. BurstEvents'
    BY <1>1, <2>1, BurstMoves DEF Ended
  <2> QED
    BY <1>1, <1>2, <2>1, <2>2 DEF BurstCalls, Moved
<1>6. ASSUME NEW k \in Connections, BurstCall(k)
      PROVE  BurstCalls' /\ BurstEvents'
  <2>1. threads[k] = "arrived" /\ UNCHANGED events
    BY <1>6 DEF BurstCall, Forward, vars
  <2>2. PICK to \in {"calling", "rate_limited", "deny", "transport_error", "raised"} :
          /\ Moved(k, to)
          /\ \/ to = "calling" /\ Forward(k, BurstPair, Burst.request)
             \/ flight' = flight
    BY <1>6 DEF BurstCall, vars
  <2>3. BurstEvents'
    BY <1>1, <2>1, <2>2, BurstMoves DEF Ended
  <2>4. k \notin DOMAIN flight
    BY <1>1, <2>1 DEF BurstCalls
  <2>5. CASE flight' = flight
    BY <1>1, <1>2, <2>2, <2>3, <2>4, <2>5 DEF BurstCalls, Moved
  <2>6. CASE to = "calling" /\ Forward(k, BurstPair, Burst.request)
    <3>1. /\ DOMAIN flight' = DOMAIN flight \cup {k}
          /\ flight'[k].pair = BurstPair
          /\ \A j \in DOMAIN flight : flight'[j] = flight[j]
      BY <2>4, <2>6 DEF Forward
    <3>2. threads'[k] = "calling" /\ \A j \in Connections : j # k => threads'[j] = threads[j]
      BY <1>1, <2>2, <2>6 DEF Moved
    <3> QED
      BY <1>1, <1>2, <2>3, <3>1, <3>2 DEF BurstCalls
  <2> QED
    BY <2>2, <2>3, <2>5, <2>6
<1>7. ASSUME NEW k \in Connections, BurstAnswer(k)
      PROVE  BurstCalls' /\ BurstEvents'
  <2>1. threads[k] = "calling" /\ threads[k] \notin Ended
    BY <1>7 DEF BurstAnswer, Ended
  <2>2. PICK to \in Ended :
          /\ Moved(k, to)
          /\ Respond(k) \/ (LoseResponse(k) /\ to # "success")
    <3>1. \A result : Classify(result) \in Ended
      BY DEF Classify, Ended
    <3> QED
      BY <1>7, <3>1 DEF BurstAnswer, Ended
  <2>3. BurstEvents'
    BY <1>1, <2>1, <2>2, BurstMoves, BurstRecords DEF LoseResponse
  <2>4. /\ DOMAIN flight' = DOMAIN flight \ {k}
        /\ \A j \in DOMAIN flight' : flight'[j] = flight[j]
    BY <2>2 DEF Respond, LoseResponse, Freed
  <2>5. \A j \in Connections : j # k => threads'[j] = threads[j]
    BY <1>1, <2>2 DEF Moved
  <2> QED
    BY <1>1, <1>2, <2>3, <2>4, <2>5 DEF BurstCalls
<1>8. CASE Collect
  <2>1. UNCHANGED <<flight, events, threads>>
    BY <1>8 DEF Collect, vars
  <2>2. BurstCalls' /\ BurstEvents'
    BY <1>1, <1>2, <2>1 DEF BurstCalls, BurstEvents
  <2>3. BurstSettled'
    <3>1. CASE Among({"raised"}) # {}
      BY <1>8, <3>1 DEF Collect, BurstSettled
    <3>2. CASE Among({"raised"}) = {}
      <4>1. \A k \in Connections : threads[k] \in Answers
        BY <1>8, <3>2 DEF Collect, Among
      <4>2. summaries'[1].actual = BurstVerdict
        BY <1>8, <3>2 DEF Collect
      <4> QED
        BY <2>1, <4>1, <4>2 DEF BurstSettled, BurstVerdict, Among
    <3> QED
      BY <3>1, <3>2
  <2> QED
    BY <2>2, <2>3
<1>9. CASE MinutePasses \/ UNCHANGED batchVars
  <2>1. UNCHANGED <<flight, events, threads, stage, summaries>>
    BY <1>9 DEF MinutePasses, Tick, runnerVars, batchVars, vars
  <2> QED
    BY <1>1, <1>2, <2>1 DEF BurstCalls, BurstEvents, BurstSettled, BurstVerdict, Among
<1> QED
  BY <1>3, <1>4, <1>5, <1>6, <1>7, <1>8, <1>9, BurstSteps

-----------------------------------------------------------------------------

\* A run classified "allow" had every call answered with success.
LEMMA AllowedRun ==
  ASSUME BatchInv, LogSettled, stage = "finished",
         summaries[Len(summaries)].actual = "allow"
  PROVE  /\ \A i \in DOMAIN run.log : run.log[i].answer = "success"
         /\ Len(run.log) = Len(trajectory.steps)
<1>1. Actual(run.log, run.continued) = "allow"
  BY DEF LogSettled
<1>2. \A answer \in Answers \ {"success"} : Answered(run.log, answer) = {}
  BY <1>1 DEF Actual, Answers
<1>3. \A i \in DOMAIN run.log : run.log[i].answer \in Answers
  <2>1. \A i \in DOMAIN run.log : run.log[i] \in Logged
    BY DEF BatchInv, BatchShape
  <2> QED
    BY <2>1 DEF Logged
<1>4. \A i \in DOMAIN run.log : run.log[i].answer = "success"
  BY <1>2, <1>3 DEF Answered
<1>5. run.stopped = 0 /\ Position > Len(trajectory.steps)
  BY <1>4 DEF LogSettled
<1>6. Len(run.log) \in Nat /\ Len(trajectory.steps) \in Nat
  BY ManagedRunnerAssumption DEF BatchInv, BatchShape
<1> QED
  BY <1>4, <1>5, <1>6 DEF BatchInv, LogFollows, Position

LEMMA ProofsRecord ==
  ASSUME BatchInv, ProofInv, Stored, mode = "proof", stage # "aborted"
  PROVE  LET done == {i \in Answered(run.log, "success") : InSession(i)}
             lost == Answered(run.log, "transport_error")
             recorded == Cardinality(Unfailed(run.repetition))
         IN /\ Cardinality(done) <= recorded
            /\ recorded <= Cardinality(done) + Cardinality(lost)
            /\ stage = "finished" /\ summaries[Len(summaries)].actual = "allow"
                 => /\ recorded = Cardinality({i \in DOMAIN run.log : InSession(i)})
                    /\ Len(run.log) = Len(trajectory.steps)
                    /\ \A i \in DOMAIN trajectory.steps :
                         LET q == NamespacedArguments(run.repetition,
                                                      trajectory.steps[i].request, now)
                         IN q.tool = "execute_write" => OperationOf(q) \in table
<1> DEFINE done == {i \in Answered(run.log, "success") : InSession(i)}
           lost == Answered(run.log, "transport_error")
           n == run.repetition
           cells == CellsOf(RunPairs(n), events)
<1>1. /\ run.log \in Seq(Logged) /\ n \in Runs /\ trajectory.steps \in Seq(Step)
      /\ events \in [Pairs -> Seq(Response)] /\ RunPairs(n) \subseteq Pairs
      /\ LogSettled
  BY RunPairsArePairs, ManagedRunnerAssumption
     DEF BatchInv, BatchShape, GatewayTypeOK, ProofInv
<1>2. PICK F : Account(F, n, run.began, run.log, events)
  BY DEF ProofInv, Accounted
<1>3. done = Completed(run.log)
  BY DEF InSession, Usable, Completed
<1>4. Unfailed(n) = UnfailedCells(RunPairs(n), events)
  BY EventsAreCells DEF Unfailed, UnfailedCells
<1>5. /\ Cardinality(done) <= Cardinality(Unfailed(n))
      /\ Cardinality(Unfailed(n)) <= Cardinality(done) + Cardinality(lost)
      /\ lost = {} => Cardinality(Unfailed(n)) = Cardinality(done)
  <2> HIDE DEF n, done, lost
  <2> QED
    BY <1>1, <1>2, <1>3, <1>4, AccountCounts DEF lost
<1>6. ASSUME stage = "finished", summaries[Len(summaries)].actual = "allow"
      PROVE  /\ Cardinality(Unfailed(n)) = Cardinality({i \in DOMAIN run.log : InSession(i)})
             /\ Len(run.log) = Len(trajectory.steps)
             /\ \A i \in DOMAIN trajectory.steps :
                  LET q == NamespacedArguments(n, trajectory.steps[i].request, now)
                  IN q.tool = "execute_write" => OperationOf(q) \in table
  <2>1. /\ \A i \in DOMAIN run.log : run.log[i].answer = "success"
        /\ Len(run.log) = Len(trajectory.steps)
    BY <1>1, <1>6, AllowedRun
  <2>2. lost = {} /\ done = {i \in DOMAIN run.log : InSession(i)}
    BY <2>1 DEF Answered
  <2>3. ASSUME NEW i \in DOMAIN trajectory.steps,
               trajectory.steps[i].request.tool = "execute_write"
        PROVE  OperationOf(NamespacedArguments(n, trajectory.steps[i].request, now)) \in table
    <3>1. i \in DOMAIN run.log /\ run.log[i].step = trajectory.steps[i]
      BY <1>1, <2>1 DEF BatchInv, LogFollows
    <3>2. Usable(run.log[i]) /\ run.log[i].answer = "success"
      BY <1>1, <2>1, <2>3, <3>1 DEF LogSettled
    <3>3. PICK x \in cells : F[x] = i
      BY <1>2, <3>1, <3>2 DEF Account
    <3>4. x[1] \in RunPairs(n) /\ x[2] \in DOMAIN events[x[1]] /\ x = <<x[1], x[2]>>
      BY CellIsEvent
    <3> DEFINE e == events[x[1]][x[2]]
               a == trajectory.steps[i].request
    <3>5. e.request = NamespacedArguments(n, a, e.sent)
      BY <1>2, <3>1, <3>3, <3>4 DEF Account, AnswersTo
    <3>6. a \in Call
      <4>1. trajectory.steps[i] \in Step
        BY <1>1
      <4> QED
        BY <4>1 DEF Step
    <3>7. e.request.tool = "execute_write"
      BY <2>3, <3>5, <3>6 DEF NamespacedArguments, Call
    <3>8. OperationOf(e.request) \in table
      BY <1>1, <3>4, <3>7 DEF Stored
    <3>9. OperationOf(e.request) = OperationOf(NamespacedArguments(n, a, now))
      <4> HIDE DEF e, a, n
      <4> QED
        BY <3>5, <3>6 DEF OperationOf, NamespacedArguments, Call
    <3> QED
      BY <3>8, <3>9
  <2>4. ASSUME NEW i \in DOMAIN trajectory.steps
        PROVE  NamespacedArguments(n, trajectory.steps[i].request, now).tool
                 = trajectory.steps[i].request.tool
    <3>1. trajectory.steps[i] \in Step
      BY <1>1
    <3>2. trajectory.steps[i].request \in Call
      BY <3>1 DEF Step
    <3> QED
      BY <3>2 DEF NamespacedArguments, Call
  <2> QED
    BY <1>5, <2>1, <2>2, <2>3, <2>4
<1> QED
  BY <1>5, <1>6

LEMMA BurstsRecord ==
  ASSUME BatchInv, BurstInv, mode = "rate_limit", stage = "finished",
         summaries[1].actual # "inconclusive"
  PROVE  Cardinality(Among({"rate_limited"})) + Len(events[BurstPair])
           = Cardinality(Connections)
<1>1. PICK S \in SUBSET Connections :
        /\ \A j \in S : threads[j] \in Ended
        /\ \A j \in Connections : threads[j] = "success" => j \in S
        /\ Cardinality(S) = Len(events[BurstPair])
  BY DEF BurstInv, BurstEvents
<1>2. Among(Answers \ {"success", "rate_limited"}) = {}
  BY DEF BurstInv, BurstSettled, BurstVerdict
<1>3. \A k \in Connections : threads[k] \in {"success", "rate_limited"}
  BY <1>2 DEF BurstInv, BurstSettled, Among
<1>4. Among({"rate_limited"}) = Connections \ S
  BY <1>1, <1>3 DEF Among, Ended
<1>5. Connections \cap S = S /\ IsFiniteSet(Connections)
  BY GatewayAssumption
<1>6. Cardinality(Connections \ S) = Cardinality(Connections) - Cardinality(Connections \cap S)
  BY <1>5, FS_Difference
<1>7. /\ Cardinality(Among({"rate_limited"})) = Cardinality(Connections \ S)
      /\ Cardinality(Connections \cap S) = Cardinality(S)
  BY <1>4, <1>5
<1>8. Cardinality(Connections) \in Nat /\ Cardinality(S) \in Nat
  BY <1>5, FS_Subset, FS_CardinalityType
<1> QED
  BY <1>1, <1>6, <1>7, <1>8

(***************************************************************************)
(* What a batch counts as completed is what the gateway recorded and the   *)
(* function stored, for every trajectory, number of repetitions and size   *)
(* of burst: a completed call has its event, one that was not counted has  *)
(* a transport error in its place, and nothing is counted twice            *)
(* (classify_response, _execute_scenario, run_rate_limit).                 *)
(***************************************************************************)
THEOREM CompletedAreRecorded == BatchSpec => []CompletedIsRecorded
<1>1. BatchInv /\ ProofInv /\ BurstInv /\ Stored => CompletedIsRecorded
  BY ProofsRecord, BurstsRecord DEF CompletedIsRecorded
<1>2. BatchInit => BatchInv /\ ProofInv /\ BurstInv
  BY BatchInitial, ProofStarts, BurstStarts
<1>3. BatchInv /\ ProofInv /\ BurstInv /\ [BatchNext]_batchVars
        => (BatchInv /\ ProofInv /\ BurstInv)'
  BY BatchStep, ProofStep, BurstStep
<1>4. BatchSpec => []Stored
  BY BatchesAreClients, StoredAlways, PTL
<1> QED
  BY <1>1, <1>2, <1>3, <1>4, PTL DEF BatchSpec

-----------------------------------------------------------------------------
(***************************************************************************)
(* The policy's history and the run's log, when no event is missing.       *)
(***************************************************************************)

\* What the policy reads in an event, for a write q, and what the log says of
\* the step it answers, for the step x that q is sent for.
EventReads(e, a, q, x) ==
  /\ IsLookup(e, q) <=> a.tool = "lookup_record" /\ a.record = x.record
  /\ IsApproval(e, q) <=> /\ a.tool = "record_human_approval" /\ a.record = x.record
                          /\ a.approval = x.approval /\ a.expiry # 0
  /\ Consumes(e, q) <=> /\ a.tool = "execute_write" /\ a.mode = "valid"
                        /\ a.approval = x.approval
  /\ e.result = "SUCCEEDED" <=> a.tool = "execute_write" /\ a.mode = "valid"
  /\ e.result = "FAILED" /\ e.request.approval = q.approval <=>
       a.tool = "execute_write" /\ a.mode = "force_error" /\ a.approval = x.approval

LEMMA SentArguments ==
  ASSUME NEW n, NEW a \in Call, NEW at
  PROVE  LET r == NamespacedArguments(n, a, at)
         IN /\ r.tool = a.tool /\ r.record = a.record /\ r.mode = a.mode
            /\ a.tool \in {"record_human_approval", "execute_write"} =>
                 r.approval = Renamed[n][a.approval]
BY DEF NamespacedArguments, Call

LEMMA ReadsTheStep ==
  ASSUME NEW n, NEW x \in Call, NEW entry, entry.step.request \in Call,
         x.tool = "execute_write", NEW at, NEW began, NEW p, NEW e,
         e.result \in Results,
         AnswersTo(n, began, p, e, entry),
         Renamed[n][entry.step.request.approval] = Renamed[n][x.approval]
           <=> entry.step.request.approval = x.approval
  PROVE  EventReads(e, entry.step.request, NamespacedArguments(n, x, at), x)
<1> DEFINE a == entry.step.request
           q == NamespacedArguments(n, x, at)
<1>1. e.request = NamespacedArguments(n, a, e.sent) /\ Fits(a, e.result)
  BY DEF AnswersTo
<1>2. q.record = x.record /\ q.approval = Renamed[n][x.approval]
  BY SentArguments
<1>3. /\ e.request.tool = a.tool /\ e.request.record = a.record
      /\ a.tool \in {"record_human_approval", "execute_write"} =>
           e.request.approval = Renamed[n][a.approval]
  BY <1>1, SentArguments
<1>4. a.mode \in {"valid", "force_error"}
  BY DEF Call
<1> HIDE DEF q, a
<1>5. /\ e.result = "SUCCEEDED" <=> a.tool = "execute_write" /\ a.mode = "valid"
      /\ e.result = "FAILED" <=> a.tool = "execute_write" /\ a.mode = "force_error"
  BY <1>1, <1>4 DEF Fits
<1>6. a.tool = "record_human_approval" => (e.result = "valid" <=> a.expiry # 0)
  BY <1>1 DEF Fits
<1>7. a.tool \in {"record_human_approval", "execute_write"} =>
        (e.request.approval = q.approval <=> a.approval = x.approval)
  BY <1>2, <1>3 DEF a
<1> QED
  BY <1>2, <1>3, <1>5, <1>6, <1>7 DEF EventReads, IsLookup, IsApproval, Consumes, q, a

\* f maps the history h, in order, to the calls K of a log, and the policy reads
\* in its events what the log says.
Matches(f, h, K, log, q, x) ==
  /\ f \in [DOMAIN h -> K]
  /\ \A j \in K : \E i \in DOMAIN h : f[i] = j
  /\ \A i, j \in DOMAIN h : i < j => f[i] < f[j]
  /\ \A i \in DOMAIN h : EventReads(h[i], log[f[i]].step.request, q, x)

LEMMA MatchInjective ==
  ASSUME NEW log \in Seq(Logged), NEW K \in SUBSET DOMAIN log, NEW x, NEW q,
         NEW h \in Seq(Response), NEW f, Matches(f, h, K, log, q, x)
  PROVE  f \in Injection(DOMAIN h, DOMAIN log)
<1>1. /\ DOMAIN h = 1..Len(h) /\ Len(h) \in Nat
      /\ DOMAIN log = 1..Len(log) /\ Len(log) \in Nat
  OBVIOUS
<1>2. f \in [DOMAIN h -> DOMAIN log] /\ \A i, j \in DOMAIN h : i < j => f[i] < f[j]
  BY DEF Matches
<1>3. ASSUME NEW i \in DOMAIN h, NEW j \in DOMAIN h, f[i] = f[j]
      PROVE  i = j
  <2>1. i \in Nat /\ j \in Nat /\ f[i] \in Nat
    BY <1>1, <1>2
  <2> QED
    BY <1>2, <1>3, <2>1
<1> QED
  BY <1>2, <1>3 DEF Injection, IsInjective

\* As many events as calls.
LEMMA MatchLength ==
  ASSUME NEW log \in Seq(Logged), NEW K \in SUBSET DOMAIN log, NEW x, NEW q,
         NEW h \in Seq(Response), NEW f, Matches(f, h, K, log, q, x)
  PROVE  Len(h) = Cardinality(K)
<1>1. AnsweredBy(f, DOMAIN h) = K
  BY DEF AnsweredBy, Matches
<1>2. Cardinality(DOMAIN h) = Cardinality(AnsweredBy(f, DOMAIN h))
  BY MatchInjective, LogFinite, AsManyEntries
<1>3. Len(h) \in Nat /\ DOMAIN h = 1..Len(h)
  OBVIOUS
<1>4. \A n \in Nat : Cardinality(1..n) = n
  BY FS_Interval
<1> QED
  BY <1>1, <1>2, <1>3, <1>4

\* A policy that reads in its events what the log says decides what the log
\* justifies.
LEMMA SameDecision ==
  ASSUME NEW log \in Seq(Logged), NEW K \in SUBSET DOMAIN log, NEW x, NEW q,
         NEW h \in Seq(Response), NEW f, Matches(f, h, K, log, q, x),
         NEW t \in Nat,
         \A i \in DOMAIN h : /\ Recent(h[i], FailureWindow, t)
                             /\ Recent(h[i], SessionWindow, t)
  PROVE  /\ WritePermitted(h, q, t) => JustifiedFor(K, log, x)
         /\ /\ JustifiedFor(K, log, x)
            /\ \A i \in DOMAIN h : /\ Recent(h[i], LookupWindow, t)
                                   /\ Recent(h[i], ApprovalWindow, t)
            => WritePermitted(h, q, t)
<1> DEFINE Req(j) == log[j].step.request
<1>1. /\ DOMAIN h = 1..Len(h) /\ Len(h) \in Nat
      /\ DOMAIN log = 1..Len(log) /\ Len(log) \in Nat
  OBVIOUS
<1>2. /\ f \in [DOMAIN h -> K]
      /\ \A j \in K : \E i \in DOMAIN h : f[i] = j
      /\ \A i, j \in DOMAIN h : i < j => f[i] < f[j]
      /\ \A i \in DOMAIN h : EventReads(h[i], Req(f[i]), q, x)
  BY DEF Matches
<1>3. \A i, j \in DOMAIN h : f[i] < f[j] => i < j
  <2> SUFFICES ASSUME NEW i \in DOMAIN h, NEW j \in DOMAIN h, f[i] < f[j], ~(i < j)
               PROVE  FALSE
    OBVIOUS
  <2>1. i \in Nat /\ j \in Nat /\ f[i] \in Nat /\ f[j] \in Nat
    BY <1>2, <1>1
  <2>2. i = j \/ j < i
    BY <2>1
  <2> QED
    BY <1>2, <2>1, <2>2
<1>4. f \in Injection(DOMAIN h, DOMAIN log)
  BY MatchInjective
<1>5. LookedUp(h, q, t) => \E j \in K : Req(j).tool = "lookup_record" /\ Req(j).record = x.record
  BY <1>2 DEF LookedUp, EventReads
<1>6. (\E j \in K : Req(j).tool = "lookup_record" /\ Req(j).record = x.record)
        => \E i \in DOMAIN h : IsLookup(h[i], q)
  BY <1>2 DEF EventReads
<1>7. ASSUME NEW i \in DOMAIN h
      PROVE  (\A j \in (i + 1)..Len(h) : ~Consumes(h[j], q))
               <=> \A k \in WritesUnder(K, log, "valid", x.approval) : k < f[i]
               \/ k = f[i]
  <2>1. ASSUME \A j \in (i + 1)..Len(h) : ~Consumes(h[j], q),
               NEW k \in WritesUnder(K, log, "valid", x.approval)
        PROVE  k < f[i] \/ k = f[i]
    <3>1. k \in K
      BY DEF WritesUnder, WritesOf
    <3>2. PICK j \in DOMAIN h : f[j] = k
      BY <1>2, <3>1
    <3>3. Consumes(h[j], q)
      BY <1>2, <3>2 DEF WritesUnder, WritesOf, EventReads
    <3>4. ~(i < j) /\ i \in Nat /\ j \in Nat /\ f[i] \in Nat /\ k \in Nat
      BY <1>2, <1>1, <2>1, <3>1, <3>3
    <3>5. ~(f[i] < f[j])
      BY <1>3, <3>4
    <3> QED
      BY <3>2, <3>4, <3>5
  <2>2. ASSUME \A k \in WritesUnder(K, log, "valid", x.approval) : k < f[i] \/ k = f[i],
               NEW j \in (i + 1)..Len(h), Consumes(h[j], q)
        PROVE  FALSE
    <3>1. j \in DOMAIN h /\ i < j
      BY <1>1
    <3>2. f[j] \in WritesUnder(K, log, "valid", x.approval)
      BY <1>2, <2>2, <3>1 DEF WritesUnder, WritesOf, EventReads
    <3>3. f[i] < f[j] /\ f[i] \in Nat /\ f[j] \in Nat
      BY <1>2, <1>1, <3>1
    <3>4. f[j] < f[i] \/ f[j] = f[i]
      BY <2>2, <3>2
    <3> QED
      BY <3>3, <3>4
  <2> QED
    BY <2>1, <2>2
<1>8. ASSUME NEW i \in DOMAIN h, IsApproval(h[i], q)
      PROVE  f[i] \notin WritesUnder(K, log, "valid", x.approval)
  BY <1>2, <1>8 DEF WritesUnder, WritesOf, EventReads
<1>9. ASSUME UnconsumedApproval(h, q, t)
      PROVE  \E j \in K : /\ Req(j).tool = "record_human_approval"
                          /\ Req(j).record = x.record /\ Req(j).approval = x.approval
                          /\ Req(j).expiry # 0
                          /\ \A k \in WritesUnder(K, log, "valid", x.approval) : k < j
  <2>1. PICK i \in DOMAIN h : /\ IsApproval(h[i], q)
                              /\ \A j \in (i + 1)..Len(h) : ~Consumes(h[j], q)
    BY <1>9 DEF UnconsumedApproval
  <2>2. \A k \in WritesUnder(K, log, "valid", x.approval) : k < f[i]
    BY <1>7, <1>8, <2>1
  <2> QED
    BY <1>2, <2>1, <2>2 DEF EventReads
<1>10. ASSUME \A i \in DOMAIN h : Recent(h[i], ApprovalWindow, t),
             NEW j \in K, Req(j).tool = "record_human_approval",
             Req(j).record = x.record, Req(j).approval = x.approval,
             Req(j).expiry # 0,
             \A k \in WritesUnder(K, log, "valid", x.approval) : k < j
      PROVE  UnconsumedApproval(h, q, t)
  <2>1. PICK i \in DOMAIN h : f[i] = j
    BY <1>2
  <2>2. IsApproval(h[i], q)
    BY <1>2, <1>10, <2>1 DEF EventReads
  <2>3. \A k \in (i + 1)..Len(h) : ~Consumes(h[k], q)
    BY <1>7, <1>10, <2>1
  <2> QED
    BY <1>10, <2>2, <2>3 DEF UnconsumedApproval
<1>11. Cardinality(RecentSuccesses(h, t)) = Cardinality(WritesOf(K, log, "valid"))
  <2>1. RecentSuccesses(h, t) \in SUBSET DOMAIN h
    BY DEF RecentSuccesses
  <2>2. AnsweredBy(f, RecentSuccesses(h, t)) = WritesOf(K, log, "valid")
    BY <1>2 DEF AnsweredBy, RecentSuccesses, WritesOf, EventReads
  <2> QED
    BY <1>4, <2>1, <2>2, LogFinite, AsManyEntries
<1>12. Cardinality(RecentFailures(h, q, t))
         = Cardinality(WritesUnder(K, log, "force_error", x.approval))
  <2>1. RecentFailures(h, q, t) \in SUBSET DOMAIN h
    BY DEF RecentFailures
  <2>2. \A i \in DOMAIN h : i \in RecentFailures(h, q, t)
                               <=> f[i] \in WritesUnder(K, log, "force_error", x.approval)
    BY <1>2 DEF RecentFailures, WritesUnder, WritesOf, EventReads
  <2>3. WritesUnder(K, log, "force_error", x.approval) \subseteq K
    BY DEF WritesUnder, WritesOf
  <2>4. AnsweredBy(f, RecentFailures(h, q, t)) = WritesUnder(K, log, "force_error", x.approval)
    BY <1>2, <2>1, <2>2, <2>3 DEF AnsweredBy
  <2> QED
    BY <1>4, <2>1, <2>4, LogFinite, AsManyEntries
<1> QED
  BY <1>5, <1>6, <1>9, <1>10, <1>11, <1>12 DEF WritePermitted, LookedUp, JustifiedFor

\* What the log says of a step depends only on the steps before it and on
\* which of them were denied in a session.
AgreeBefore(log, log2, i) ==
  \A j \in 1..(i - 1) :
    /\ log2[j].step = log[j].step
    /\ Usable(log[j]) => (log2[j].answer = "deny" <=> log[j].answer = "deny")

LEMMA KnownKept ==
  ASSUME NEW log, NEW log2, NEW i, NEW x, AgreeBefore(log, log2, i)
  PROVE  Known(log, i, x) = Known(log2, i, x)
BY DEF AgreeBefore, Known, Usable

LEMMA JustifiedKept ==
  ASSUME NEW log, NEW log2, NEW i, NEW x, AgreeBefore(log, log2, i)
  PROVE  /\ Justified(log, i, x) <=> Justified(log2, i, x)
         /\ Reopened(log, i, x) <=> Reopened(log2, i, x)
<1>1. Known(log, i, x) = Known(log2, i, x)
  BY KnownKept
<1>2. \A j \in Known(log, i, x) : log2[j].step = log[j].step
  BY DEF Known, AgreeBefore
<1> DEFINE K == Known(log, i, x)
<1> HIDE DEF K
<1>3. \A effect : WritesOf(K, log, effect) = WritesOf(K, log2, effect)
  BY <1>2 DEF WritesOf, K
<1>4. \A effect, a : WritesUnder(K, log, effect, a) = WritesUnder(K, log2, effect, a)
  BY <1>2 DEF WritesUnder, WritesOf, K
<1>5. Justified(log, i, x) <=> Justified(log2, i, x)
  BY <1>1, <1>2, <1>3, <1>4 DEF Justified, JustifiedFor, K
<1>6. Reopened(log, i, x) <=> Reopened(log2, i, x)
  BY <1>1, <1>2 DEF Reopened, AgreeBefore, IsWrite, Usable, K
<1> QED
  BY <1>5, <1>6

\* Nothing was lost when the run has as many events as calls not denied.
LEMMA LostNothing ==
  ASSUME BatchInv, OwnEvents
  PROVE  NothingLost <=> Cardinality(CellsOf(RunPairs(run.repetition), events))
                           = Cardinality(AskedOf(run.log))
<1> DEFINE own == CellsOf(RunPairs(run.repetition), events)
           asked == {i \in DOMAIN run.log : InSession(i) /\ run.log[i].answer # "deny"}
<1>1. asked = AskedOf(run.log)
  BY DEF InSession, Usable, AskedOf
<1>2. /\ run.before \in Nat
      /\ Cardinality(Recorded) = run.before + Cardinality(own)
  BY EventsAreCells DEF OwnEvents
<1>3. own \subseteq CellsOf(Pairs, events)
  BY RunPairsArePairs DEF CellsOf, BatchInv, BatchShape
<1>4. Cardinality(own) \in Nat
  BY <1>3, FS_Subset, FS_CardinalityType DEF OwnEvents
<1>5. NothingLost <=> Cardinality(Recorded) - run.before = Cardinality(asked)
  BY DEF NothingLost
<1> HIDE DEF asked, own
<1>6. Cardinality(asked) = Cardinality(AskedOf(run.log))
  BY <1>1
<1> QED
  BY <1>2, <1>4, <1>5, <1>6 DEF own

-----------------------------------------------------------------------------

\* The history of the write the run is at is that of the calls the log knows.
LEMMA HistoryMatches ==
  ASSUME BatchInv, OwnEvents, NEW F,
         Account(F, run.repetition, run.began, run.log, events),
         NothingLost, Presenting, Supplied,
         CurrentStep.request.tool = "execute_write"
  PROVE  LET h == events[PairOf(run.repetition, CurrentStep)]
             K == Known(run.log, Position, CurrentStep)
         IN /\ h \in Seq(Response) /\ K \in SUBSET DOMAIN run.log
            /\ \E f : Matches(f, h, K, run.log, SentRequest, CurrentStep.request)
            /\ \A i \in DOMAIN h : run.began <= h[i].at /\ h[i].at \in Nat
<1> DEFINE n == run.repetition
           log == run.log
           x == CurrentStep
           p == PairOf(n, x)
           h == events[p]
           K == Known(log, Position, x)
           f == [i \in DOMAIN h |-> F[<<p, i>>]]
           cells == CellsOf(RunPairs(n), events)
<1>1. /\ log \in Seq(Logged) /\ n \in Runs /\ trajectory.steps \in Seq(Step)
      /\ events \in [Pairs -> Seq(Response)] /\ RunPairs(n) \subseteq Pairs
      /\ now \in Nat /\ run.began \in Nat
  BY RunPairsArePairs, ManagedRunnerAssumption, GatewayAssumption
     DEF BatchInv, BatchShape, GatewayTypeOK, OwnEvents
<1>2. /\ Position \in DOMAIN trajectory.steps /\ x \in Step /\ x.request \in Call
      /\ x = trajectory.steps[Position]
  BY PresentedStep DEF BatchInv, Step, CurrentStep
<1>3. p \in RunPairs(n) /\ h \in Seq(Response)
  BY <1>1, <1>2, StepInRunPairs DEF Supplied
<1>4. /\ DOMAIN log = 1..Len(log) /\ Len(log) \in Nat /\ Position = Len(log) + 1
      /\ 1..(Position - 1) = DOMAIN log
  BY <1>1 DEF Position
<1>5. \A i \in DOMAIN log : /\ log[i].step = trajectory.steps[i]
                            /\ log[i].step \in Step
                            /\ log[i].step.request \in Call
                            /\ i \in DOMAIN trajectory.steps
  <2>1. \A i \in DOMAIN log : log[i] \in Logged
    BY <1>1
  <2>2. \A i \in DOMAIN log : log[i].step \in Step
    BY <2>1 DEF Logged
  <2>3. \A i \in DOMAIN log : i \in DOMAIN trajectory.steps
    BY <1>1, <1>4 DEF BatchInv, LogFollows
  <2> QED
    BY <2>2, <2>3 DEF BatchInv, LogFollows, Step
<1>6. \A i, j \in DOMAIN trajectory.steps :
         Renamed[n][trajectory.steps[i].request.approval]
             = Renamed[n][trajectory.steps[j].request.approval]
           => trajectory.steps[i].request.approval = trajectory.steps[j].request.approval
  BY <1>1, ManagedRunnerAssumption DEF BatchInv, BatchShape
<1>7. \A i \in DOMAIN h : h[i] \in Response /\ h[i].result \in Results /\ h[i].at \in Nat
  <2> HIDE DEF h
  <2>1. \A i \in DOMAIN h : h[i] \in Response
    BY <1>3
  <2> QED
    BY <2>1 DEF Response
<1> HIDE DEF n, log, x, K
<1>8. ASSUME NEW i \in DOMAIN h
      PROVE  /\ <<p, i>> \in cells
             /\ F[<<p, i>>] \in DOMAIN log
             /\ AnswersTo(n, run.began, p, h[i], log[F[<<p, i>>]])
             /\ F[<<p, i>>] \in K
  <2>1. <<p, i>> \in cells
    BY <1>3, CellIsEvent
  <2>2. F[<<p, i>>] \in DOMAIN log /\ AnswersTo(n, run.began, p, h[i], log[F[<<p, i>>]])
    BY <1>3, <2>1 DEF Account, n, log
  <2> DEFINE j == F[<<p, i>>]
  <2>3. Usable(log[j]) /\ PairOf(n, x) = PairOf(n, log[j].step) /\ log[j].answer # "deny"
    BY <2>2 DEF AnswersTo, Classify
  <2>4. log[j].step.caller = x.caller /\ log[j].step.label = x.label
    BY <1>1, <1>2, <1>5, <2>2, <2>3, SamePair DEF Usable, Supplied, x
  <2> QED
    BY <1>4, <2>1, <2>2, <2>3, <2>4 DEF K, Known
<1>9. f \in [DOMAIN h -> K] /\ K \in SUBSET DOMAIN log
  BY <1>4, <1>8 DEF K, Known
<1>10. ASSUME NEW j \in K
      PROVE  \E i \in DOMAIN h : f[i] = j
  <2>1. Cardinality(cells) = Cardinality(AskedOf(log))
    BY LostNothing DEF n, log
  <2>2. j \in AskedOf(log)
    BY <1>4 DEF K, Known, AskedOf
  <2>3. \A i \in AskedOf(log) : \E y \in cells : F[y] = i
    BY <1>1, <2>1, AccountWhole DEF n, log
  <2>4. PICK y \in cells : F[y] = j
    BY <2>2, <2>3
  <2>5. y[1] \in RunPairs(n) /\ y[2] \in DOMAIN events[y[1]] /\ y = <<y[1], y[2]>>
    BY CellIsEvent
  <2>6. y[1] = PairOf(n, log[j].step)
    BY <2>4, <2>5 DEF Account, AnswersTo, n, log
  <2>7. PairOf(n, log[j].step) = p
    <3>1. /\ log[j].step.caller = x.caller /\ log[j].step.label = x.label
          /\ Usable(log[j]) /\ j \in DOMAIN log
      BY <1>4 DEF K, Known
    <3> QED
      BY <1>1, <1>2, <1>5, <3>1, SamePair DEF Usable, Supplied, x
  <2> QED
    BY <2>4, <2>5, <2>6, <2>7
<1>11. \A i, j \in DOMAIN h : i < j => f[i] < f[j]
  BY <1>3 DEF Account, n
<1>12. ASSUME NEW i \in DOMAIN h
       PROVE  EventReads(h[i], log[f[i]].step.request, SentRequest, x.request)
  <2> DEFINE j == F[<<p, i>>]
  <2>1. /\ j \in DOMAIN log /\ AnswersTo(n, run.began, p, h[i], log[j])
        /\ log[j].step.request \in Call
    BY <1>5, <1>8
  <2>2. Renamed[n][log[j].step.request.approval] = Renamed[n][x.request.approval]
          => log[j].step.request.approval = x.request.approval
    BY <1>2, <1>5, <1>6, <2>1
  <2>3. h[i] \in Response /\ h[i].result \in Results
    BY <1>7
  <2>4. EventReads(h[i], log[j].step.request, NamespacedArguments(n, x.request, now), x.request)
    <3> HIDE DEF h, j, p
    <3> QED
      BY <1>2, <2>1, <2>2, <2>3, ReadsTheStep DEF x
  <2> QED
    BY <2>4 DEF SentRequest, n, x
<1>13. \A i \in DOMAIN h : run.began <= h[i].at /\ h[i].at \in Nat
  BY <1>7, <1>8 DEF AnswersTo
<1>14. Matches(f, h, K, log, SentRequest, x.request)
  <2> HIDE DEF f, h, p
  <2> QED
    BY <1>9, <1>10, <1>11, <1>12 DEF Matches
<1> QED
  BY <1>3, <1>9, <1>13, <1>14 DEF K, log, x, h, p, n

\* Events that a run has recorded are recent as long as the run is.
LEMMA RecentSince ==
  ASSUME NEW began \in Nat, NEW t \in Nat, NEW window \in Nat, t - began <= window,
         NEW h, \A i \in DOMAIN h : began <= h[i].at /\ h[i].at \in Nat
  PROVE  \A i \in DOMAIN h : Recent(h[i], window, t)
BY DEF Recent

\* What the policy decides on the write the run is at is what the log says.
LEMMA DecisionMatches ==
  ASSUME BatchInv, OwnEvents, NEW F,
         Account(F, run.repetition, run.began, run.log, events),
         NothingLost, Counting, Presenting, Supplied,
         CurrentStep.request.tool = "execute_write"
  PROVE  LET h == events[PairOf(run.repetition, CurrentStep)]
         IN /\ WritePermitted(h, SentRequest, now) =>
                 Justified(run.log, Position, CurrentStep)
            /\ Fresh /\ Justified(run.log, Position, CurrentStep) =>
                 WritePermitted(h, SentRequest, now)
<1> DEFINE h == events[PairOf(run.repetition, CurrentStep)]
           K == Known(run.log, Position, CurrentStep)
           x == CurrentStep.request
<1>1. /\ run.log \in Seq(Logged) /\ now \in Nat /\ run.began \in Nat
  BY GatewayAssumption DEF BatchInv, BatchShape, GatewayTypeOK, OwnEvents
<1>2. /\ h \in Seq(Response) /\ K \in SUBSET DOMAIN run.log
      /\ \E f : Matches(f, h, K, run.log, SentRequest, x)
      /\ \A i \in DOMAIN h : run.began <= h[i].at /\ h[i].at \in Nat
  BY HistoryMatches
<1> HIDE DEF h, K, x
<1>3. PICK f : Matches(f, h, K, run.log, SentRequest, x)
  BY <1>2
<1>4. \A i \in DOMAIN h : /\ Recent(h[i], FailureWindow, now)
                          /\ Recent(h[i], SessionWindow, now)
  <2>1. now - run.began <= FailureWindow /\ now - run.began <= SessionWindow
    BY <1>1, WindowAssumption DEF Counting
  <2> QED
    BY <1>1, <1>2, <2>1, RecentSince, WindowAssumption
<1>5. Fresh => \A i \in DOMAIN h : /\ Recent(h[i], LookupWindow, now)
                                   /\ Recent(h[i], ApprovalWindow, now)
  BY <1>1, <1>2, RecentSince, WindowAssumption DEF Fresh
<1>6. /\ WritePermitted(h, SentRequest, now) => JustifiedFor(K, run.log, x)
      /\ /\ JustifiedFor(K, run.log, x)
         /\ \A i \in DOMAIN h : /\ Recent(h[i], LookupWindow, now)
                                /\ Recent(h[i], ApprovalWindow, now)
         => WritePermitted(h, SentRequest, now)
  BY <1>1, <1>2, <1>3, <1>4, SameDecision
<1> QED
  BY <1>5, <1>6 DEF Justified, K, x, h

-----------------------------------------------------------------------------
(***************************************************************************)
(* A denial stays: while everything counts, the policy would not permit    *)
(* the write on what was recorded before it, and permits it on more only   *)
(* if the record was looked up or approved since.                          *)
(***************************************************************************)
Prefix(h, m) == [k \in 1..m |-> h[k]]

LEMMA PrefixOf ==
  ASSUME NEW h \in Seq(Response), NEW m \in 0..Len(h)
  PROVE  /\ Prefix(h, m) \in Seq(Response) /\ Len(Prefix(h, m)) = m
         /\ DOMAIN Prefix(h, m) = 1..m
         /\ \A k \in 1..m : k \in DOMAIN h /\ Prefix(h, m)[k] = h[k]
BY DEF Prefix

LEMMA PrefixWhole ==
  ASSUME NEW h \in Seq(Response)
  PROVE  Prefix(h, Len(h)) = h
BY DEF Prefix

LEMMA PrefixKept ==
  ASSUME NEW h \in Seq(Response), NEW m \in 0..Len(h), NEW e \in Response
  PROVE  /\ m \in 0..Len(Append(h, e))
         /\ Prefix(Append(h, e), m) = Prefix(h, m)
BY DEF Prefix

\* A write's record and approval are all that the policy reads of it.
WriteOf(n, x) == [record |-> x.record, approval |-> Renamed[n][x.approval]]

LEMMA SentWrite ==
  ASSUME NEW n, NEW x \in Call, x.tool = "execute_write", NEW at, NEW h, NEW t
  PROVE  WritePermitted(h, NamespacedArguments(n, x, at), t)
           <=> WritePermitted(h, WriteOf(n, x), t)
<1> DEFINE q == NamespacedArguments(n, x, at)
           r == WriteOf(n, x)
<1>1. q.record = r.record /\ q.approval = r.approval
  BY SentArguments DEF WriteOf
<1> HIDE DEF q, r
<1>2. \A e : IsLookup(e, q) = IsLookup(e, r) /\ IsApproval(e, q) = IsApproval(e, r)
             /\ Consumes(e, q) = Consumes(e, r)
  BY <1>1 DEF IsLookup, IsApproval, Consumes
<1>3. RecentFailures(h, q, t) = RecentFailures(h, r, t)
  BY <1>1 DEF RecentFailures
<1>4. LookedUp(h, q, t) <=> LookedUp(h, r, t)
  BY <1>2 DEF LookedUp
<1>5. UnconsumedApproval(h, q, t) <=> UnconsumedApproval(h, r, t)
  BY <1>2 DEF UnconsumedApproval
<1>6. WritePermitted(h, q, t) <=> WritePermitted(h, r, t)
  BY <1>3, <1>4, <1>5 DEF WritePermitted
<1> QED
  BY <1>6 DEF q, r

\* As long as everything counts, what the policy does not permit it does not
\* permit later either.
LEMMA StaysUnpermitted ==
  ASSUME NEW h \in Seq(Response), NEW q, NEW t \in Nat, NEW u \in Nat, t <= u,
         NEW began \in Nat, u - began <= FailureWindow, u - began <= SessionWindow,
         \A i \in DOMAIN h : began <= h[i].at /\ h[i].at \in Nat,
         WritePermitted(h, q, u)
  PROVE  WritePermitted(h, q, t)
<1>1. \A i \in DOMAIN h : \A window \in Nat : Recent(h[i], window, u) => Recent(h[i], window, t)
  BY DEF Recent
<1>2. \A i \in DOMAIN h : Recent(h[i], FailureWindow, u) /\ Recent(h[i], SessionWindow, u)
  BY WindowAssumption, RecentSince
<1>3. RecentSuccesses(h, t) = RecentSuccesses(h, u)
  BY <1>1, <1>2, WindowAssumption DEF RecentSuccesses
<1>4. RecentFailures(h, q, t) = RecentFailures(h, q, u)
  BY <1>1, <1>2, WindowAssumption DEF RecentFailures
<1>5. LookedUp(h, q, t)
  BY <1>1, WindowAssumption DEF WritePermitted, LookedUp
<1>6. UnconsumedApproval(h, q, t)
  BY <1>1, WindowAssumption DEF WritePermitted, UnconsumedApproval
<1> QED
  BY <1>3, <1>4, <1>5, <1>6 DEF WritePermitted

\* And what it permits on a history it permits on the part of it before step i,
\* unless the record was looked up or approved since.
LEMMA PrefixPermitted ==
  ASSUME NEW log \in Seq(Logged), NEW K \in SUBSET DOMAIN log, NEW x, NEW q,
         NEW h \in Seq(Response), NEW f, Matches(f, h, K, log, q, x),
         NEW i \in Nat, NEW K0 \in SUBSET DOMAIN log, \A j \in K : j < i => j \in K0,
         NEW m \in 0..Len(h), m = Cardinality(K0),
         \A k \in K : /\ log[k].step.request.record = x.record
                      /\ log[k].step.request.tool \in {"lookup_record", "record_human_approval"}
                      => k < i,
         NEW t \in Nat, WritePermitted(h, q, t)
  PROVE  WritePermitted(Prefix(h, m), q, t)
<1> DEFINE g == Prefix(h, m)
<1>1. /\ f \in [DOMAIN h -> K] /\ \A k, l \in DOMAIN h : k < l => f[k] < f[l]
      /\ \A k \in DOMAIN h : EventReads(h[k], log[f[k]].step.request, q, x)
      /\ DOMAIN h = 1..Len(h) /\ Len(h) \in Nat /\ DOMAIN log = 1..Len(log)
  BY DEF Matches
<1>2. f \in Injection(DOMAIN h, DOMAIN log)
  BY MatchInjective
<1>3. ASSUME NEW k \in DOMAIN h, f[k] < i
      PROVE  k \in 1..m
  <2>1. ASSUME NEW l \in 1..k
        PROVE  f[l] \in K0
    <3>1. l \in DOMAIN h /\ (l = k \/ l < k)
      BY <1>1
    <3>2. f[l] = f[k] \/ f[l] < f[k]
      BY <1>1, <3>1
    <3>3. f[l] \in Nat /\ f[k] \in Nat /\ f[l] \in K
      BY <1>1, <3>1
    <3> QED
      BY <1>3, <3>2, <3>3
  <2>2. AnsweredBy(f, 1..k) \subseteq K0
    BY <2>1 DEF AnsweredBy
  <2>3. Cardinality(1..k) = k
    BY <1>1, FS_Interval
  <2>4. Cardinality(1..k) = Cardinality(AnsweredBy(f, 1..k))
    <3>1. 1..k \in SUBSET DOMAIN h
      BY <1>1
    <3> QED
      BY <1>1, <1>2, <3>1, LogFinite, AsManyEntries
  <2>5. IsFiniteSet(K0)
    <3>1. K0 \subseteq DOMAIN log
      OBVIOUS
    <3> QED
      BY <3>1, LogFinite, FS_Subset
  <2>6. Cardinality(AnsweredBy(f, 1..k)) <= Cardinality(K0)
    BY <2>2, <2>5, FS_Subset
  <2> QED
    BY <1>1, <2>3, <2>4, <2>6
<1>4. /\ g \in Seq(Response) /\ Len(g) = m /\ DOMAIN g = 1..m
      /\ \A k \in 1..m : k \in DOMAIN h /\ g[k] = h[k]
  BY PrefixOf
<1> HIDE DEF g
<1>5. LookedUp(g, q, t)
  <2>1. PICK k \in DOMAIN h : IsLookup(h[k], q) /\ Recent(h[k], LookupWindow, t)
    BY DEF WritePermitted, LookedUp
  <2>2. f[k] < i
    BY <1>1, <2>1 DEF EventReads
  <2> QED
    BY <1>3, <1>4, <2>1, <2>2 DEF LookedUp
<1>6. UnconsumedApproval(g, q, t)
  <2>1. PICK k \in DOMAIN h : /\ IsApproval(h[k], q) /\ Recent(h[k], ApprovalWindow, t)
                              /\ \A j \in (k + 1)..Len(h) : ~Consumes(h[j], q)
    BY DEF WritePermitted, UnconsumedApproval
  <2>2. f[k] < i
    BY <1>1, <2>1 DEF EventReads
  <2>3. k \in DOMAIN g /\ g[k] = h[k]
    BY <1>3, <1>4, <2>2
  <2>4. \A j \in (k + 1)..Len(g) : ~Consumes(g[j], q)
    BY <1>1, <1>4, <2>1, <2>3
  <2> QED
    BY <2>1, <2>3, <2>4 DEF UnconsumedApproval
<1>7. IsFiniteSet(DOMAIN h)
  BY <1>1, FS_Interval
<1>8. Cardinality(RecentSuccesses(g, t)) < WriteLimit
  <2>1. RecentSuccesses(g, t) \subseteq RecentSuccesses(h, t)
    BY <1>4 DEF RecentSuccesses
  <2>2. RecentSuccesses(h, t) \subseteq DOMAIN h
    BY DEF RecentSuccesses
  <2>3. IsFiniteSet(RecentSuccesses(h, t))
    BY <1>7, <2>2, FS_Subset
  <2>4. /\ IsFiniteSet(RecentSuccesses(g, t))
        /\ Cardinality(RecentSuccesses(g, t)) <= Cardinality(RecentSuccesses(h, t))
    BY <2>1, <2>3, FS_Subset
  <2>5. Cardinality(RecentSuccesses(h, t)) < WriteLimit
    BY DEF WritePermitted
  <2> QED
    BY <2>3, <2>4, <2>5, FS_CardinalityType, CapAssumption
<1>9. Cardinality(RecentFailures(g, q, t)) < RetryLimit
  <2>1. RecentFailures(g, q, t) \subseteq RecentFailures(h, q, t)
    BY <1>4 DEF RecentFailures
  <2>2. RecentFailures(h, q, t) \subseteq DOMAIN h
    BY DEF RecentFailures
  <2>3. IsFiniteSet(RecentFailures(h, q, t))
    BY <1>7, <2>2, FS_Subset
  <2>4. /\ IsFiniteSet(RecentFailures(g, q, t))
        /\ Cardinality(RecentFailures(g, q, t)) <= Cardinality(RecentFailures(h, q, t))
    BY <2>1, <2>3, FS_Subset
  <2>5. Cardinality(RecentFailures(h, q, t)) < RetryLimit
    BY DEF WritePermitted
  <2> QED
    BY <2>3, <2>4, <2>5, FS_CardinalityType, CapAssumption
<1> QED
  BY <1>5, <1>6, <1>8, <1>9 DEF WritePermitted, g

\* The policy did not permit the write denied as step i on what was recorded
\* before it, and would not now.
DeniedThen(i) ==
  LET x == run.log[i].step
      h == events[PairOf(run.repetition, x)]
      m == Cardinality(Known(run.log, i, x))
  IN /\ m \in 0..Len(h)
     /\ ~WritePermitted(Prefix(h, m), WriteOf(run.repetition, x.request), now)

Denials ==
  \A i \in DOMAIN run.log :
    IsWrite(run.log[i]) /\ run.log[i].answer = "deny" => DeniedThen(i)

\* The events of a step of the log are of its run.
LEMMA LoggedStep ==
  ASSUME BatchInv, NEW i \in DOMAIN run.log, Usable(run.log[i])
  PROVE  /\ run.log[i].step \in Step /\ run.log[i].step.request \in Call
         /\ PairOf(run.repetition, run.log[i].step) \in RunPairs(run.repetition)
         /\ events[PairOf(run.repetition, run.log[i].step)] \in Seq(Response)
<1>1. run.log \in Seq(Logged) /\ run.repetition \in Runs
  BY DEF BatchInv, BatchShape
<1>2. run.log[i] \in Logged
  BY <1>1
<1>3. run.log[i].step \in Step
  BY <1>2 DEF Logged
<1>4. PairOf(run.repetition, run.log[i].step) \in RunPairs(run.repetition)
  BY <1>1, <1>3, StepInRunPairs DEF Usable
<1> QED
  BY <1>1, <1>3, <1>4, RunPairsArePairs DEF BatchInv, BatchShape, GatewayTypeOK, Step

\* Time passes: what was denied would still be.
LEMMA DenialsSame ==
  ASSUME BatchInv, OwnEvents, Denials, UNCHANGED <<events, run>>,
         now' \in {now, now + 1}, Counting', now' \in Nat,
         NEW F, Account(F, run.repetition, run.began, run.log, events)
  PROVE  Denials'
<1> SUFFICES ASSUME NEW i \in DOMAIN run.log, IsWrite(run.log[i]),
                    run.log[i].answer = "deny"
             PROVE  DeniedThen(i)'
  BY DEF Denials
<1> DEFINE x == run.log[i].step
           h == events[PairOf(run.repetition, x)]
           m == Cardinality(Known(run.log, i, x))
           q == WriteOf(run.repetition, x.request)
<1>1. /\ h \in Seq(Response) /\ PairOf(run.repetition, x) \in RunPairs(run.repetition)
  BY LoggedStep DEF IsWrite
<1>2. m \in 0..Len(h) /\ ~WritePermitted(Prefix(h, m), q, now)
  BY DEF Denials, DeniedThen
<1>3. \A k \in DOMAIN h : run.began <= h[k].at
  BY <1>1 DEF Account, AnswersTo
<1> HIDE DEF h, m, q
<1>4. \A k \in DOMAIN h : h[k].at \in Nat
  <2>1. \A k \in DOMAIN h : h[k] \in Response
    BY <1>1
  <2> QED
    BY <2>1 DEF Response
<1>5. /\ Prefix(h, m) \in Seq(Response) /\ DOMAIN Prefix(h, m) = 1..m
      /\ \A k \in 1..m : k \in DOMAIN h /\ Prefix(h, m)[k] = h[k]
  BY <1>1, <1>2, PrefixOf
<1>6. /\ now \in Nat /\ run.began \in Nat /\ now <= now'
      /\ now' - run.began <= FailureWindow /\ now' - run.began <= SessionWindow
  BY GatewayAssumption, WindowAssumption
     DEF BatchInv, BatchShape, GatewayTypeOK, OwnEvents, Counting
<1>7. ~WritePermitted(Prefix(h, m), q, now')
  <2> DEFINE g == Prefix(h, m)
  <2>1. \A k \in DOMAIN g : run.began <= g[k].at /\ g[k].at \in Nat
    BY <1>3, <1>4, <1>5
  <2> HIDE DEF g
  <2> QED
    BY <1>2, <1>5, <1>6, <2>1, StaysUnpermitted DEF g
<1> QED
  BY <1>2, <1>7 DEF DeniedThen, h, m, q, PairOf, WriteOf

\* A step is concluded: its denial is one of the history at hand.
LEMMA DenialsConcluded ==
  ASSUME BatchInv, OwnEvents, OneCall, Denials, NothingLost, UNCHANGED now,
         NEW F, Account(F, run.repetition, run.began, run.log, events),
         NEW answer, Concluded(answer),
         \/ UNCHANGED events
         \/ Respond(Main) /\ Main \in DOMAIN flight /\ answer # "deny",
         answer = "deny" => ~Permitted(PairOf(run.repetition, CurrentStep), SentRequest)
  PROVE  Denials'
<1> DEFINE n == run.repetition
<1>1. /\ run'.repetition = n
      /\ DOMAIN run'.log = 1..(Len(run.log) + 1)
      /\ DOMAIN run.log = 1..Len(run.log) /\ Len(run.log) \in Nat
      /\ \A i \in 1..Len(run.log) : run'.log[i] = run.log[i]
      /\ run'.log[Len(run.log) + 1] = [step |-> CurrentStep, answer |-> answer]
      /\ run.log \in Seq(Logged)
  BY ConcludedRun DEF BatchInv, BatchShape
<1>2. ASSUME NEW i \in DOMAIN run'.log, NEW x
      PROVE  Known(run.log, i, x) = Known(run'.log, i, x)
  <2>1. AgreeBefore(run.log, run'.log, i)
    BY <1>1 DEF AgreeBefore
  <2> QED
    BY <2>1, KnownKept
<1>3. ASSUME NEW p \in RunPairs(n)
      PROVE  \/ events'[p] = events[p]
             \/ \E e \in Response : events'[p] = Append(events[p], e)
  <2>1. CASE UNCHANGED events
    BY <2>1
  <2>2. CASE Respond(Main) /\ Main \in DOMAIN flight
    <3> DEFINE c == flight[Main]
               e == [request |-> c.request, result |-> c.result, sent |-> c.sent, at |-> now]
    <3>1. /\ events' = [events EXCEPT ![c.pair] = Append(@, e)] /\ e \in Response
      BY <2>2, AnswerRecorded DEF OwnEvents
    <3>2. p \in DOMAIN events
      BY RunPairsArePairs DEF BatchInv, BatchShape, GatewayTypeOK
    <3> HIDE DEF e, c
    <3> QED
      BY <3>1, <3>2
  <2> QED
    BY <2>1, <2>2
<1> HIDE DEF n
<1>4. ASSUME NEW i \in DOMAIN run.log, IsWrite(run.log[i]), run.log[i].answer = "deny"
      PROVE  DeniedThen(i)'
  <2> DEFINE x == run.log[i].step
             h == events[PairOf(n, x)]
             h2 == events'[PairOf(n, x)]
             m == Cardinality(Known(run.log, i, x))
             q == WriteOf(n, x.request)
  <2>1. /\ h \in Seq(Response) /\ PairOf(n, x) \in RunPairs(n)
    BY <1>4, LoggedStep DEF IsWrite, n
  <2>2. m \in 0..Len(h) /\ ~WritePermitted(Prefix(h, m), q, now)
    BY <1>4 DEF Denials, DeniedThen, n
  <2>3. m \in 0..Len(h2) /\ Prefix(h2, m) = Prefix(h, m)
    <3>1. h2 = h \/ \E e \in Response : h2 = Append(h, e)
      BY <1>3, <2>1
    <3> HIDE DEF h, h2, m
    <3> QED
      BY <2>1, <2>2, <3>1, PrefixKept
  <2>4. run'.log[i] = run.log[i] /\ i \in DOMAIN run'.log
    BY <1>1
  <2>5. Cardinality(Known(run'.log, i, x)) = m
    BY <1>2, <2>4
  <2> HIDE DEF m
  <2>6. PairOf(n, x)' = PairOf(n, x) /\ n' = n
    BY <1>1, <2>4 DEF n, PairOf
  <2> QED
    BY <1>1, <2>2, <2>3, <2>4, <2>5, <2>6 DEF DeniedThen, n, PairOf, WriteOf
<1>5. ASSUME NEW last, last = Len(run.log) + 1,
             answer = "deny", Supplied, CurrentStep.request.tool = "execute_write"
      PROVE  DeniedThen(last)'
  <2> DEFINE x == CurrentStep
             h == events[PairOf(n, x)]
             K == Known(run.log, Position, x)
             m == Cardinality(K)
             q == WriteOf(n, x.request)
  <2>1. Presenting
    BY DEF Concluded
  <2>2. h \in Seq(Response) /\ K \in SUBSET DOMAIN run.log
        /\ \E f : Matches(f, h, K, run.log, SentRequest, x.request)
    BY <1>5, <2>1, HistoryMatches DEF n
  <2>3. m = Len(h)
    <3> HIDE DEF h, K
    <3> QED
      BY <1>1, <2>2, MatchLength
  <2>4. SentRequest = NamespacedArguments(n, x.request, now) /\ x.request \in Call
    BY <2>1, PresentedStep DEF SentRequest, n, BatchInv, Step
  <2>5. ~WritePermitted(h, SentRequest, now)
    BY <1>5 DEF Permitted, n
  <2>6. ~WritePermitted(h, q, now)
    <3> HIDE DEF h, q
    <3> QED
      BY <1>5, <2>4, <2>5, SentWrite DEF q
  <2>7. m \in 0..Len(h) /\ Prefix(h, m) = h
    <3> HIDE DEF h, m
    <3> QED
      BY <2>2, <2>3, PrefixWhole
  <2>8. /\ run'.log[last].step = x /\ last \in DOMAIN run'.log
        /\ Position = last /\ events' = events
    BY <1>1, <1>5 DEF Position
  <2>9. Cardinality(Known(run'.log, last, x)) = m
    BY <1>2, <2>8
  <2> HIDE DEF m, x
  <2> QED
    BY <1>1, <2>6, <2>7, <2>8, <2>9 DEF DeniedThen, n, PairOf, WriteOf
<1>6. ASSUME NEW i \in DOMAIN run'.log, IsWrite(run'.log[i]), run'.log[i].answer = "deny"
      PROVE  DeniedThen(i)'
  <2>1. CASE i = Len(run.log) + 1
    BY <1>1, <1>5, <1>6, <2>1 DEF IsWrite, Usable, Supplied
  <2>2. CASE i # Len(run.log) + 1
    <3>1. i \in DOMAIN run.log /\ run'.log[i] = run.log[i]
      BY <1>1, <2>2
    <3> QED
      BY <1>4, <1>6, <3>1
  <2> QED
    BY <2>1, <2>2
<1> QED
  BY <1>6 DEF Denials, IsWrite, Usable

\* A write that the policy permits was denied before only if its record was
\* looked up or approved in between.
LEMMA PermittedReopens ==
  ASSUME BatchInv, OwnEvents, Denials, NothingLost,
         NEW F, Account(F, run.repetition, run.began, run.log, events),
         Presenting, Supplied, CurrentStep.request.tool = "execute_write",
         Permitted(PairOf(run.repetition, CurrentStep), SentRequest)
  PROVE  Reopened(run.log, Position, CurrentStep)
<1> DEFINE n == run.repetition
           x == CurrentStep
           h == events[PairOf(n, x)]
           K == Known(run.log, Position, x)
           q == WriteOf(n, x.request)
<1>1. /\ run.log \in Seq(Logged) /\ now \in Nat
      /\ DOMAIN run.log = 1..Len(run.log) /\ Len(run.log) \in Nat
      /\ 1..(Position - 1) = DOMAIN run.log
  BY GatewayAssumption DEF BatchInv, BatchShape, GatewayTypeOK, Position
<1>2. /\ h \in Seq(Response) /\ K \in SUBSET DOMAIN run.log
      /\ \E f : Matches(f, h, K, run.log, SentRequest, x.request)
  BY HistoryMatches
<1>3. /\ SentRequest = NamespacedArguments(n, x.request, now) /\ x.request \in Call
      /\ x.request.tool = "execute_write"
  BY PresentedStep DEF SentRequest, BatchInv, Step
<1>4. SentRequest.tool = "execute_write"
  BY <1>3 DEF NamespacedArguments, Call
<1>5. WritePermitted(h, SentRequest, now)
  BY <1>4 DEF Permitted
<1> SUFFICES ASSUME NEW i \in DOMAIN run.log, IsWrite(run.log[i]),
                    run.log[i].answer = "deny", SameWrite(run.log[i].step, x),
                    \A k \in K :
                      /\ run.log[k].step.request.record = x.request.record
                      /\ run.log[k].step.request.tool
                           \in {"lookup_record", "record_human_approval"}
                      => ~(i < k)
             PROVE  FALSE
  BY <1>1 DEF Reopened
<1> DEFINE y == run.log[i].step
           K0 == Known(run.log, i, y)
           m == Cardinality(K0)
<1>6. K0 \in SUBSET DOMAIN run.log /\ \A j \in K : j < i => j \in K0
  BY <1>1 DEF Known, SameWrite
<1>7. \A k \in K : /\ run.log[k].step.request.record = x.request.record
                   /\ run.log[k].step.request.tool
                        \in {"lookup_record", "record_human_approval"}
                   => k < i
  <2>1. \A k \in K : k # i
    BY DEF Known
  <2> QED
    BY <1>1, <1>2, <2>1
<1>8. /\ PairOf(n, y) = PairOf(n, x) /\ WriteOf(n, y.request) = q
  BY DEF SameWrite, PairOf, WriteOf
<1>9. m \in 0..Len(h) /\ ~WritePermitted(Prefix(h, m), q, now)
  BY <1>8 DEF Denials, DeniedThen
<1>10. m = Cardinality(K0) /\ i \in Nat
  BY <1>1
<1> HIDE DEF h, K, K0, q, x, n, m
<1>11. PICK f : Matches(f, h, K, run.log, SentRequest, x.request)
  BY <1>2
<1>12. WritePermitted(Prefix(h, m), SentRequest, now)
  BY <1>1, <1>2, <1>5, <1>6, <1>7, <1>9, <1>11, <1>10, PrefixPermitted
<1> QED
  BY <1>3, <1>9, <1>12, SentWrite DEF q

-----------------------------------------------------------------------------
(***************************************************************************)
(* The inductive invariant of the decisions: those in the log, and the one *)
(* to forward the write that is outstanding.                               *)
(***************************************************************************)
Allowed(log, i, x) == Justified(log, i, x) /\ Reopened(log, i, x)

Follows(log, fresh) ==
  \A i \in DOMAIN log : IsWrite(log[i]) =>
      /\ log[i].answer # "deny" => Allowed(log, i, log[i].step)
      /\ log[i].answer = "deny" /\ fresh => ~Justified(log, i, log[i].step)

Deciding == mode = "proof" /\ stage # "aborted" /\ NothingLost /\ Counting

DecisionInv ==
  Deciding =>
    /\ Follows(run.log, Fresh) /\ Denials
    /\ Main \in DOMAIN flight /\ CurrentStep.request.tool = "execute_write" =>
         Allowed(run.log, Position, CurrentStep)

\* One more entry, decided as the log before it says.
LEMMA FollowsOneMore ==
  ASSUME NEW log \in Seq(Logged), NEW entry \in Logged, NEW fresh \in BOOLEAN,
         Follows(log, fresh),
         IsWrite(entry) =>
           /\ entry.answer # "deny" => Allowed(log, Len(log) + 1, entry.step)
           /\ entry.answer = "deny" /\ fresh => ~Justified(log, Len(log) + 1, entry.step)
  PROVE  Follows(Append(log, entry), fresh)
<1> DEFINE log2 == Append(log, entry)
<1>1. /\ DOMAIN log = 1..Len(log) /\ Len(log) \in Nat
      /\ DOMAIN log2 = 1..(Len(log) + 1)
      /\ \A i \in 1..Len(log) : log2[i] = log[i]
      /\ log2[Len(log) + 1] = entry
  BY AppendLookup
<1> HIDE DEF log2
<1>2. ASSUME NEW i \in DOMAIN log2, NEW x
      PROVE  /\ Justified(log2, i, x) <=> Justified(log, i, x)
             /\ Allowed(log2, i, x) <=> Allowed(log, i, x)
  <2>1. AgreeBefore(log, log2, i)
    BY <1>1 DEF AgreeBefore
  <2> QED
    BY <2>1, JustifiedKept DEF Allowed
<1>3. ASSUME NEW i \in DOMAIN log2
      PROVE  \/ i = Len(log) + 1 /\ log2[i] = entry
             \/ i \in DOMAIN log /\ log2[i] = log[i]
  BY <1>1
<1>4. Follows(log2, fresh)
  BY <1>2, <1>3 DEF Follows
<1> QED
  BY <1>4 DEF log2

\* One more entry asks for no fewer calls, and one of a usable session that is
\* not denied for one more.
LEMMA AskedOneMore ==
  ASSUME NEW log \in Seq(Logged), NEW entry \in Logged
  PROVE  /\ Cardinality(AskedOf(log)) \in Nat
         /\ Cardinality(AskedOf(Append(log, entry))) =
              IF Usable(entry) /\ entry.answer # "deny"
                THEN Cardinality(AskedOf(log)) + 1 ELSE Cardinality(AskedOf(log))
<1> DEFINE log2 == Append(log, entry)
           asked == AskedOf(log)
<1>1. /\ DOMAIN log = 1..Len(log) /\ Len(log) \in Nat
      /\ DOMAIN log2 = 1..(Len(log) + 1)
      /\ \A i \in 1..Len(log) : log2[i] = log[i]
      /\ log2[Len(log) + 1] = entry
  BY AppendLookup
<1> HIDE DEF log2
<1>2. IsFiniteSet(asked) /\ Len(log) + 1 \notin asked
  BY <1>1, LogFinite, FS_Subset DEF AskedOf
<1>3. CASE Usable(entry) /\ entry.answer # "deny"
  <2>1. AskedOf(log2) = asked \cup {Len(log) + 1}
    BY <1>1, <1>3 DEF AskedOf
  <2> HIDE DEF asked
  <2>2. Cardinality(AskedOf(log2)) = Cardinality(asked) + 1
    BY <1>2, <2>1, FS_AddElement
  <2> QED
    BY <1>2, <1>3, <2>2, FS_CardinalityType DEF log2, asked
<1>4. CASE ~(Usable(entry) /\ entry.answer # "deny")
  <2>1. AskedOf(log2) = asked
    BY <1>1, <1>4 DEF AskedOf
  <2> HIDE DEF asked
  <2>2. Cardinality(AskedOf(log2)) = Cardinality(asked)
    BY <2>1
  <2> QED
    BY <1>2, <1>4, <2>2, FS_CardinalityType DEF log2, asked
<1> QED
  BY <1>3, <1>4

\* The same for the run: concluding a step loses nothing that was not lost,
\* and a call that was not denied is lost unless its event is there.
LEMMA ConcludedLoses ==
  ASSUME BatchInv, ProofInv, mode = "proof", [BatchNext]_batchVars,
         NEW answer, Concluded(answer), NothingLost',
         \/ UNCHANGED events
         \/ Respond(Main) /\ Main \in DOMAIN flight /\ answer # "deny"
  PROVE  /\ NothingLost
         /\ UNCHANGED events => ~Supplied \/ answer = "deny"
<1> DEFINE entry == [step |-> CurrentStep, answer |-> answer]
           n == run.repetition
           cells == CellsOf(RunPairs(n), events)
           asked == AskedOf(run.log)
<1>1. /\ run.log \in Seq(Logged) /\ events \in [Pairs -> Seq(Response)]
      /\ n \in Runs /\ RunPairs(n) \subseteq Pairs
      /\ OwnEvents /\ OneCall /\ run.began \in Nat
  BY RunPairsArePairs DEF BatchInv, BatchShape, GatewayTypeOK, ProofInv, OwnEvents
<1>2. run'.repetition = n /\ run'.log = Append(run.log, entry) /\ entry \in Logged
  BY ConcludedRun
<1>3. PICK F : Account(F, n, run.began, run.log, events)
  BY DEF ProofInv, Accounted, Concluded, Presenting
<1>4. /\ Cardinality(cells) \in Nat /\ Cardinality(asked) \in Nat
      /\ Cardinality(cells) <= Cardinality(asked)
  BY <1>1, <1>3, AccountWhole
<1>5. OwnEvents' /\ BatchInv'
  BY OwnEventsStep, BatchStep
<1>6. Cardinality(CellsOf(RunPairs(n), events')) = Cardinality(AskedOf(run'.log))
  <2>1. (NothingLost <=> Cardinality(CellsOf(RunPairs(run.repetition), events))
                           = Cardinality(AskedOf(run.log)))'
    BY <1>5, LostNothing, PTL
  <2> QED
    BY <1>2, <2>1
<1>7. Cardinality(AskedOf(run'.log)) =
        IF Usable(entry) /\ answer # "deny"
          THEN Cardinality(asked) + 1 ELSE Cardinality(asked)
  BY <1>1, <1>2, AskedOneMore
<1>8. NothingLost <=> Cardinality(cells) = Cardinality(asked)
  BY <1>1, LostNothing
<1>9. Usable(entry) <=> Supplied
  BY DEF Usable, Supplied
<1> HIDE DEF asked
<1>10. CASE UNCHANGED events
  <2>1. Cardinality(CellsOf(RunPairs(n), events')) = Cardinality(cells)
    BY <1>10
  <2> HIDE DEF cells
  <2> QED
    BY <1>4, <1>6, <1>7, <1>8, <1>9, <1>10, <2>1
<1>11. CASE Respond(Main) /\ Main \in DOMAIN flight /\ answer # "deny"
  <2> DEFINE c == flight[Main]
             e == [request |-> c.request, result |-> c.result, sent |-> c.sent, at |-> now]
  <2>1. /\ events' = [events EXCEPT ![c.pair] = Append(@, e)]
        /\ e \in Response /\ c.pair \in RunPairs(n)
    BY <1>1, <1>11, AnswerRecorded
  <2> HIDE DEF e, c
  <2>2. /\ CellsOf(RunPairs(n), events') = cells \cup {CellAfter(c.pair, events)}
        /\ CellAfter(c.pair, events) \notin cells
    BY <1>1, <2>1, OneCellMore
  <2>3. IsFiniteSet(cells)
    BY <1>1, <1>3, AccountWhole
  <2>4. Cardinality(CellsOf(RunPairs(n), events')) = Cardinality(cells) + 1
    <3> HIDE DEF cells
    <3> QED
      BY <2>2, <2>3, FS_AddElement
  <2>5. events' # events
    <3>1. CellsOf(RunPairs(n), events') # cells
      BY <2>2
    <3> QED
      BY <3>1
  <2>6. Supplied
    BY <1>1, <1>11 DEF OneCall
  <2> HIDE DEF cells
  <2> QED
    BY <1>4, <1>6, <1>7, <1>8, <1>9, <1>11, <2>4, <2>5, <2>6
<1> QED
  BY <1>10, <1>11

LEMMA DecisionStep ==
  ASSUME BatchInv, ProofInv, DecisionInv, [BatchNext]_batchVars
  PROVE  DecisionInv'
<1> SUFFICES ASSUME Deciding'
             PROVE  /\ Follows(run'.log, Fresh') /\ Denials'
                    /\ Main \in DOMAIN flight' /\ CurrentStep'.request.tool = "execute_write" =>
                         Allowed(run'.log, Position', CurrentStep')
  BY DEF DecisionInv
<1>1. /\ mode = "proof" /\ stage' # "aborted" /\ NothingLost' /\ Counting'
      /\ OwnEvents /\ OneCall /\ OneCall'
      /\ run.began \in Nat /\ now \in Nat /\ now' \in Nat
  <2>1. mode' = mode
    BY DEF BatchNext, Progress, SendUnsessioned, SendForwarded, SendDenied,
           SendFails, ReceiveAnswer, ReceiveError, TransportRaises, FinishRun,
           FunctionRuns, Arrive, BurstCall, BurstAnswer, Collect, MinutePasses,
           ProofSame, BurstSame, runnerVars, batchVars
  <2>2. BatchShape'
    BY ShapeStep DEF BatchInv
  <2>3. mode = "proof"
    BY <2>1 DEF Deciding
  <2> QED
    BY <2>2, <2>3, OneCallStep, GatewayAssumption
       DEF Deciding, ProofInv, OwnEvents, BatchInv, BatchShape, GatewayTypeOK
\* The run goes on with the same log.
<1>2. ASSUME UNCHANGED <<events, run, trajectory, stage>>, now' \in {now, now + 1}
      PROVE  /\ Deciding /\ (Fresh' => Fresh) /\ run'.log = run.log
             /\ Position' = Position /\ CurrentStep' = CurrentStep
             /\ Denials'
  <2>1. NothingLost
    BY <1>1, <1>2 DEF NothingLost, Recorded, InSession
  <2>2. Counting /\ (Fresh' => Fresh)
    BY <1>1, <1>2, WindowAssumption DEF Counting, Fresh
  <2>3. stage # "aborted"
    BY <1>1, <1>2
  <2>4. Deciding
    BY <1>1, <2>1, <2>2, <2>3 DEF Deciding
  <2>5. PICK F : Account(F, run.repetition, run.began, run.log, events)
    BY <1>1, <2>3 DEF ProofInv, Accounted
  <2>6. Denials'
    BY <1>1, <1>2, <2>4, <2>5, DenialsSame DEF DecisionInv
  <2> QED
    BY <1>2, <2>2, <2>4, <2>6 DEF Position, CurrentStep
<1>3. \A log : Follows(log, Fresh) /\ (Fresh' => Fresh) => Follows(log, Fresh')
  BY DEF Follows
<1>4. CASE \/ UNCHANGED batchVars \/ MinutePasses
           \/ \E k \in Connections : FunctionRuns(k)
  <2>1. /\ UNCHANGED <<events, run, trajectory, stage>> /\ now' \in {now, now + 1}
        /\ DOMAIN flight' = DOMAIN flight
    BY <1>4 DEF batchVars, vars, runnerVars, MinutePasses, Tick, FunctionRuns, Invoke
  <2> QED
    BY <1>2, <1>3, <2>1 DEF DecisionInv
<1>5. CASE SendForwarded
  <2>1. /\ UNCHANGED <<events, run, trajectory, stage>> /\ now' = now
        /\ Presenting /\ Supplied
        /\ Permitted(PairOf(run.repetition, CurrentStep), SentRequest)
    BY <1>5 DEF SendForwarded, Forward, ProofSame
  <2>2. Deciding /\ (Fresh' => Fresh) /\ run'.log = run.log
        /\ Position' = Position /\ CurrentStep' = CurrentStep /\ Denials'
    BY <1>2, <2>1
  <2>3. ASSUME CurrentStep.request.tool = "execute_write"
        PROVE  Allowed(run.log, Position, CurrentStep)
    <3>1. PICK F : Account(F, run.repetition, run.began, run.log, events)
      BY <1>1, <2>1 DEF ProofInv, Accounted, Presenting
    <3>2. SentRequest.tool = "execute_write"
      <4>1. CurrentStep.request \in Call
        BY <2>1, PresentedStep DEF BatchInv, Step
      <4> QED
        BY <2>3, <4>1 DEF SentRequest, NamespacedArguments, Call
    <3>3. Justified(run.log, Position, CurrentStep)
      BY <1>1, <2>1, <2>2, <2>3, <3>1, <3>2, DecisionMatches DEF Permitted, Deciding
    <3>4. Reopened(run.log, Position, CurrentStep)
      BY <1>1, <2>1, <2>2, <2>3, <3>1, PermittedReopens DEF Deciding, DecisionInv
    <3> QED
      BY <3>3, <3>4 DEF Allowed
  <2> QED
    BY <1>3, <2>2, <2>3 DEF DecisionInv
<1>6. ASSUME NEW answer, Concluded(answer), UNCHANGED now,
             \/ UNCHANGED events
             \/ Respond(Main) /\ Main \in DOMAIN flight /\ answer # "deny",
             flight' = <<>> \/ flight' = Freed(Main),
             answer = "deny" => ~Permitted(PairOf(run.repetition, CurrentStep), SentRequest)
      PROVE  /\ Follows(run'.log, Fresh') /\ Denials'
             /\ Main \notin DOMAIN flight'
  <2> DEFINE x == CurrentStep
             entry == [step |-> x, answer |-> answer]
  <2>1. /\ NothingLost
        /\ UNCHANGED events => ~Supplied \/ answer = "deny"
    BY <1>1, <1>6, ConcludedLoses
  <2>2. /\ run'.log = Append(run.log, entry) /\ entry \in Logged
        /\ run'.began = run.began /\ UNCHANGED stage
        /\ run.log \in Seq(Logged)
    BY <1>6, ConcludedRun DEF BatchInv, BatchShape
  <2>3. Deciding /\ Fresh' = Fresh
    BY <1>1, <1>6, <2>1, <2>2 DEF Deciding, Counting, Fresh
  <2>4. Presenting /\ x.request \in Call
    BY <1>6, PresentedStep DEF Concluded, BatchInv, Step
  <2>5. ASSUME Supplied, x.request.tool = "execute_write", answer = "deny", Fresh
        PROVE  ~Justified(run.log, Position, x)
    <3>1. PICK F : Account(F, run.repetition, run.began, run.log, events)
      BY <1>1, <2>4 DEF ProofInv, Accounted, Presenting
    <3>2. ~WritePermitted(events[PairOf(run.repetition, x)], SentRequest, now)
      BY <1>6, <2>5 DEF Permitted
    <3> QED
      BY <1>1, <2>3, <2>4, <2>5, <3>1, <3>2, DecisionMatches DEF Deciding
  <2>6. ASSUME Supplied, x.request.tool = "execute_write", answer # "deny"
        PROVE  Allowed(run.log, Position, x)
    <3>1. Main \in DOMAIN flight
      BY <1>6, <2>1, <2>6
    <3> QED
      BY <2>3, <2>6, <3>1 DEF DecisionInv
  <2>7. Follows(run.log, Fresh) /\ Fresh \in BOOLEAN
    BY <2>3 DEF DecisionInv, Fresh
  <2>8. Follows(Append(run.log, entry), Fresh)
    <3>1. IsWrite(entry) <=> Supplied /\ x.request.tool = "execute_write"
      BY DEF IsWrite, Usable, Supplied
    <3>2. Position = Len(run.log) + 1 /\ entry.step = x /\ entry.answer = answer
      BY DEF Position
    <3> HIDE DEF entry, x
    <3> QED
      BY <2>2, <2>5, <2>6, <2>7, <3>1, <3>2, FollowsOneMore
  <2>9. Main \notin DOMAIN flight'
    BY <1>6 DEF Freed
  <2>10. Denials'
    <3>1. PICK F : Account(F, run.repetition, run.began, run.log, events)
      BY <1>1, <2>4 DEF ProofInv, Accounted, Presenting
    <3> QED
      BY <1>1, <1>6, <2>1, <2>3, <3>1, DenialsConcluded DEF DecisionInv
  <2> QED
    BY <2>2, <2>3, <2>8, <2>9, <2>10
<1>7. CASE \E answer : Refused(answer)
  <2>1. PICK answer : Refused(answer)
    BY <1>7
  <2>2. /\ Concluded(answer) /\ UNCHANGED now /\ UNCHANGED events /\ flight' = <<>>
        /\ answer = "deny" => ~Permitted(PairOf(run.repetition, CurrentStep), SentRequest)
    BY <2>1 DEF Refused, vars
  <2> QED
    BY <1>6, <2>2
<1>8. CASE /\ Respond(Main) /\ Main \in DOMAIN flight
           /\ \E answer \in {Classify(flight[Main].result), "transport_error"} :
                 Concluded(answer)
  BY <1>6, <1>8 DEF Respond, Classify
<1>9. CASE /\ LoseResponse(Main)
           /\ Concluded("tool_error") \/ Concluded("transport_error")
  BY <1>6, <1>9 DEF LoseResponse
<1>10. CASE TransportRaises
  BY <1>1, <1>10 DEF TransportRaises
<1>11. CASE FinishRun
  <2>1. ~Presenting /\ flight' = flight
    <3>1. Len(trajectory.steps) \in Nat /\ Len(run.log) \in Nat
      BY ManagedRunnerAssumption DEF BatchInv, BatchShape
    <3> QED
      BY <1>11, <3>1 DEF FinishRun, Presenting, Position, vars
  <2>2. Main \notin DOMAIN flight'
    BY <1>1, <2>1 DEF OneCall
  <2>3. CASE run.repetition # Repetitions
    <3>1. run'.log = <<>>
      BY <1>11, <2>3 DEF FinishRun, NewRun
    <3> QED
      BY <2>2, <3>1 DEF Follows, Denials
  <2>4. CASE run.repetition = Repetitions
    <3>1. /\ UNCHANGED <<events, run>> /\ now' = now /\ stage = "running"
      BY <1>11, <2>4 DEF FinishRun, vars
    <3>2. NothingLost
      BY <1>1, <3>1 DEF NothingLost, Recorded, InSession
    <3>3. Deciding /\ Fresh' = Fresh
      BY <1>1, <3>1, <3>2 DEF Deciding, Counting, Fresh
    <3>4. Denials' <=> Denials
      BY <3>1 DEF Denials, DeniedThen, PairOf, WriteOf
    <3> QED
      BY <2>2, <3>1, <3>3, <3>4 DEF DecisionInv
  <2> QED
    BY <2>3, <2>4
<1> QED
  BY <1>1, <1>4, <1>5, <1>7, <1>8, <1>9, <1>10, <1>11, ProofSteps

LEMMA DecisionStarts == BatchInit => DecisionInv
<1> SUFFICES ASSUME BatchInit PROVE DecisionInv
  OBVIOUS
<1>1. run.log = <<>> /\ flight = <<>>
  BY DEF BatchInit, Init, NewRun
<1> QED
  BY <1>1 DEF DecisionInv, Follows, Denials

LEMMA DecisionHolds == BatchSpec => [](BatchInv /\ ProofInv /\ DecisionInv)
<1>1. BatchInit => BatchInv /\ ProofInv /\ DecisionInv
  BY BatchInitial, ProofStarts, DecisionStarts
<1>2. BatchInv /\ ProofInv /\ DecisionInv /\ [BatchNext]_batchVars
        => (BatchInv /\ ProofInv /\ DecisionInv)'
  BY BatchStep, ProofStep, DecisionStep
<1> QED
  BY <1>1, <1>2, PTL DEF BatchSpec

\* With one call at a time, single use and the caps are exact.
InTurnInv == mode = "proof" => UsesInv(1) /\ CapsInv(1)

LEMMA OneAtOnce ==
  ASSUME ProofInv, mode = "proof"
  PROVE  AtOnce(1)
<1>1. DOMAIN flight \subseteq {Main}
  BY DEF ProofInv, OneCall
<1>2. IsFiniteSet({Main}) /\ Cardinality({Main}) = 1
  BY FS_Singleton
<1> QED
  BY <1>1, <1>2, FS_Subset, FS_CardinalityType DEF AtOnce

LEMMA InTurnStep ==
  ASSUME BatchInv, ProofInv, ProofInv', InTurnInv, [BatchNext]_batchVars
  PROVE  InTurnInv'
<1>1. mode' = mode
  BY DEF BatchNext, Progress, SendUnsessioned, SendForwarded, SendDenied,
         SendFails, ReceiveAnswer, ReceiveError, TransportRaises, FinishRun,
         FunctionRuns, Arrive, BurstCall, BurstAnswer, Collect, MinutePasses,
         ProofSame, BurstSame, runnerVars, batchVars
<1> SUFFICES ASSUME mode = "proof" PROVE UsesInv(1)' /\ CapsInv(1)'
  BY <1>1 DEF InTurnInv
<1>2. [Next]_vars
  BY BatchStepIsGatewayStep DEF BatchInv
<1>3. AtOnce(1)
  BY OneAtOnce
<1>4. (mode = "proof")'
  BY <1>1
<1>5. AtOnce(1)'
  BY ProofInv', <1>4, OneAtOnce, PTL
<1> QED
  BY <1>2, <1>3, <1>5, UsesStep, CapsStep DEF InTurnInv

LEMMA InTurnHolds == BatchSpec => []InTurnInv
<1>1. BatchInit => BatchInv /\ ProofInv /\ InTurnInv
  BY BatchInitial, ProofStarts, UsesStart, CapsStart DEF InTurnInv, BatchInit
<1>2. BatchInv /\ ProofInv /\ InTurnInv /\ [BatchNext]_batchVars
        => (BatchInv /\ ProofInv /\ InTurnInv)'
  BY BatchStep, ProofStep, InTurnStep
<1> QED
  BY <1>1, <1>2, PTL DEF BatchSpec

LEMMA DecisionsFollow == DecisionInv /\ InTurnInv => DecisionsFollowTheLog
<1> SUFFICES ASSUME DecisionInv, InTurnInv, mode = "proof" PROVE DecisionsFollowTheLog
  BY DEF DecisionsFollowTheLog
<1>1. UsesWithin(1) /\ CapsWithin(1)
  BY UsesFollow, CapsFollow DEF InTurnInv
<1> QED
  BY <1>1 DEF DecisionInv, Deciding, Follows, Allowed, DecisionsFollowTheLog, DenialsStay

(***************************************************************************)
(* In a proof single use and the caps are exact, whatever is lost.  And if *)
(* every call that was not denied left its event, each decision in the     *)
(* run's log is the one that the log itself justifies and a denial stays   *)
(* until the record is looked up or approved again, for every trajectory,  *)
(* number of runs, window and limit (_session_map, _namespaced_arguments,  *)
(* the temporal statements).                                               *)
(***************************************************************************)
THEOREM DecisionsAreTheLogs == BatchSpec => []DecisionsFollowTheLog
BY DecisionHolds, InTurnHolds, DecisionsFollow, PTL

-----------------------------------------------------------------------------
(***************************************************************************)
(* How a run ends.  Its log holds the steps of the trajectory with the     *)
(* answers it went on over; with the decisions those of the log, what the  *)
(* fixtures declare of the text holds of the log.                          *)
(***************************************************************************)
\* What an answer says of the step it is given to.
EntryFits(entry) ==
  /\ entry.answer = "success" => ~MustRefuse(entry.step)
  /\ entry.answer = "deny" => IsWrite(entry)
  /\ entry.answer = "tool_error" => Usable(entry)
  /\ entry.answer = "validation_error" => ~Usable(entry)

EntryGoesOn(entry) == GoesOn(entry.step, entry.answer)

\* The run went on over every answer but the one it stopped at.
RunInv ==
  mode = "proof" =>
    /\ \A i \in DOMAIN run.log : EntryFits(run.log[i])
    /\ \A i \in DOMAIN run.log :
         i < Len(run.log) \/ run.stopped = 0 => EntryGoesOn(run.log[i])
    /\ run.stopped # 0 => /\ run.stopped = Len(run.log) /\ Len(run.log) \in DOMAIN run.log
                          /\ ~EntryGoesOn(run.log[Len(run.log)])
    /\ run.continued <=> ContinuedOver(run.log)

LEMMA RunConcluded ==
  ASSUME BatchInv, RunInv, mode = "proof", NEW answer, Concluded(answer),
         EntryFits([step |-> CurrentStep, answer |-> answer])
  PROVE  RunInv'
<1> DEFINE entry == [step |-> CurrentStep, answer |-> answer]
<1>1. /\ DOMAIN run'.log = 1..(Len(run.log) + 1)
      /\ DOMAIN run.log = 1..Len(run.log) /\ Len(run.log) \in Nat
      /\ \A i \in 1..Len(run.log) : run'.log[i] = run.log[i]
      /\ run'.log[Len(run.log) + 1] = entry
      /\ Len(run'.log) = Len(run.log) + 1
  <2>1. run.log \in Seq(Logged) /\ entry \in Logged /\ run'.log = Append(run.log, entry)
    BY ConcludedRun DEF BatchInv, BatchShape
  <2> HIDE DEF entry
  <2> QED
    BY <2>1, AppendLookup
<1>2. /\ run'.stopped = IF EntryGoesOn(entry) THEN 0 ELSE Len(run.log) + 1
      /\ run'.continued <=> run.continued \/ (answer \in Refusals /\ EntryGoesOn(entry))
      /\ run.stopped = 0
  BY DEF Concluded, Conclude, Presenting, Position, EntryGoesOn, BatchInv, BatchShape
<1>3. entry.answer = answer
  OBVIOUS
<1> HIDE DEF entry
<1>4. ASSUME NEW i \in DOMAIN run'.log
      PROVE  \/ i = Len(run.log) + 1 /\ run'.log[i] = entry
             \/ i \in DOMAIN run.log /\ run'.log[i] = run.log[i] /\ i < Len(run.log) + 1
  BY <1>1
<1>5. \A i \in DOMAIN run'.log : EntryFits(run'.log[i])
  BY <1>4 DEF RunInv, entry
<1>6. \A i \in DOMAIN run'.log :
        i < Len(run'.log) \/ run'.stopped = 0 => EntryGoesOn(run'.log[i])
  BY <1>1, <1>2, <1>4 DEF RunInv
<1>7. run'.stopped # 0 => /\ run'.stopped = Len(run'.log)
                          /\ Len(run'.log) \in DOMAIN run'.log
                          /\ ~EntryGoesOn(run'.log[Len(run'.log)])
  BY <1>1, <1>2
<1>8. ContinuedOver(run'.log) <=>
        ContinuedOver(run.log) \/ (answer \in Refusals /\ EntryGoesOn(entry))
  <2>1. \A i \in DOMAIN run.log : i \in DOMAIN run'.log /\ run'.log[i] = run.log[i]
    BY <1>1
  <2>2. Len(run.log) + 1 \in DOMAIN run'.log
    BY <1>1
  <2> QED
    BY <1>1, <1>3, <1>4, <2>1, <2>2 DEF ContinuedOver, EntryGoesOn
<1>9. run'.continued <=> ContinuedOver(run'.log)
  BY <1>2, <1>8 DEF RunInv
<1>10. mode' = mode
  BY DEF Concluded, ProofSame
<1> QED
  BY <1>5, <1>6, <1>7, <1>9, <1>10 DEF RunInv, EntryGoesOn, EntryFits, Usable, IsWrite,
                                       MustRefuse, ContinuedOver

LEMMA RunStarts == BatchInit => RunInv
<1> SUFFICES ASSUME BatchInit PROVE RunInv
  OBVIOUS
<1>1. run.log = <<>> /\ run.stopped = 0 /\ run.continued = FALSE
  BY DEF BatchInit, NewRun
<1> QED
  BY <1>1 DEF RunInv, ContinuedOver

LEMMA RunStep ==
  ASSUME BatchInv, ProofInv, RunInv, [BatchNext]_batchVars
  PROVE  RunInv'
<1>1. mode' = mode
  BY DEF BatchNext, Progress, SendUnsessioned, SendForwarded, SendDenied,
         SendFails, ReceiveAnswer, ReceiveError, TransportRaises, FinishRun,
         FunctionRuns, Arrive, BurstCall, BurstAnswer, Collect, MinutePasses,
         ProofSame, BurstSame, runnerVars, batchVars
<1> SUFFICES ASSUME mode = "proof" PROVE RunInv'
  BY <1>1 DEF RunInv
<1>2. CASE UNCHANGED run
  BY <1>1, <1>2 DEF RunInv, EntryGoesOn, EntryFits, Usable, IsWrite, MustRefuse,
                    ContinuedOver
<1>3. CASE \E answer : Refused(answer)
  <2>1. PICK answer : Refused(answer)
    BY <1>3
  <2> DEFINE entry == [step |-> CurrentStep, answer |-> answer]
  <2>2. answer = "deny" => IsWrite(entry)
    <3>1. CurrentStep.request \in Call
      BY <2>1, PresentedStep DEF Refused, Concluded, BatchInv, Step
    <3>2. answer = "deny" => SentRequest.tool = "execute_write"
      BY <2>1 DEF Refused, Permitted
    <3>3. SentRequest.tool = CurrentStep.request.tool
      BY <3>1 DEF SentRequest, NamespacedArguments, Call
    <3>4. answer = "deny" => CurrentStep.label \notin Unusable
      BY <2>1 DEF Refused, Supplied
    <3> QED
      BY <3>2, <3>3, <3>4 DEF IsWrite, Usable
  <2>3. EntryFits(entry)
    BY <2>1, <2>2 DEF Refused, EntryFits, Usable, Supplied
  <2> QED
    BY <2>1, <2>3, RunConcluded DEF Refused
<1>4. ASSUME Main \in DOMAIN flight, NEW answer \in {"success", "tool_error", "transport_error"},
             Concluded(answer)
      PROVE  RunInv'
  <2>1. Supplied
    BY <1>4 DEF ProofInv, OneCall
  <2>2. EntryFits([step |-> CurrentStep, answer |-> answer])
    BY <1>4, <2>1 DEF EntryFits, Usable, Supplied, MustRefuse
  <2> QED
    BY <1>4, <2>2, RunConcluded
<1>5. CASE FinishRun
  <2>1. CASE run.repetition = Repetitions
    BY <1>2, <1>5, <2>1 DEF FinishRun
  <2>2. CASE run.repetition # Repetitions
    <3>1. run'.log = <<>> /\ run'.stopped = 0 /\ run'.continued = FALSE
      BY <1>5, <2>2 DEF FinishRun, NewRun
    <3> QED
      BY <3>1 DEF RunInv, ContinuedOver
  <2> QED
    BY <2>1, <2>2
<1>6. CASE \/ SendForwarded \/ TransportRaises \/ MinutePasses \/ UNCHANGED batchVars
           \/ \E k \in Connections : FunctionRuns(k)
  <2>1. UNCHANGED run
    BY <1>6 DEF SendForwarded, TransportRaises, MinutePasses, FunctionRuns, batchVars,
                runnerVars
  <2> QED
    BY <1>2, <2>1
<1> QED
  BY <1>3, <1>4, <1>5, <1>6, ProofSteps DEF Classify

\* The log of steps answered as if D were refused.
LEMMA LogOfEntries ==
  ASSUME NEW steps, NEW D, NEW n \in Nat
  PROVE  /\ DOMAIN LogOf(steps, D, n) = 1..n /\ Len(LogOf(steps, D, n)) = n
         /\ \A i \in 1..n : /\ LogOf(steps, D, n)[i].step = steps[i]
                            /\ LogOf(steps, D, n)[i].answer = AnswerOf(steps[i], i \in D)
<1> DEFINE log == LogOf(steps, D, n)
<1>1. DOMAIN log = 1..n
  BY DEF LogOf
<1>2. \A i \in 1..n : log[i] = [step |-> steps[i], answer |-> AnswerOf(steps[i], i \in D)]
  BY DEF LogOf
<1>3. Len(log) = n
  BY DEF LogOf
<1> QED
  BY <1>1, <1>2, <1>3

\* The log is of the trajectory.
LEMMA LoggedSteps ==
  ASSUME BatchInv
  PROVE  /\ run.log \in Seq(Logged) /\ trajectory \in Trajectories
         /\ DOMAIN run.log = 1..Len(run.log) /\ Len(run.log) \in Nat
         /\ DOMAIN trajectory.steps = 1..Len(trajectory.steps)
         /\ Len(trajectory.steps) \in Nat \ {0}
         /\ Len(run.log) <= Len(trajectory.steps)
         /\ \A i \in DOMAIN run.log :
              /\ run.log[i].step = trajectory.steps[i] /\ run.log[i].answer \in Answers
              /\ run.log[i] = [step |-> run.log[i].step, answer |-> run.log[i].answer]
<1>1. /\ run.log \in Seq(Logged) /\ trajectory \in Trajectories
      /\ trajectory.steps \in Seq(Step) /\ Len(trajectory.steps) > 0
  BY ManagedRunnerAssumption DEF BatchInv, BatchShape
<1>2. \A i \in DOMAIN run.log : run.log[i] \in Logged
  BY <1>1
<1> QED
  BY <1>1, <1>2 DEF BatchInv, LogFollows, Logged

\* A step declared unsafe is not let through.
LEMMA UnsafeRefused ==
  ASSUME BatchInv, RunInv, DecisionInv, Deciding
  PROVE  ~FalseAllow(run.log)
<1> DEFINE n == Len(run.log)
           t == trajectory
           D == {i \in 1..n : /\ MayRefuse(t.steps[i])
                              /\ \/ run.log[i].answer = "deny"
                                 \/ /\ ~Usable(run.log[i])
                                    /\ run.log[i].answer # "success"}
           log == LogOf(t.steps, D, n)
           unjustified == {i \in 1..n : IsWrite(log[i]) /\ ~Justified(log, i, log[i].step)}
           denied == Answered(log, "deny")
<1>1. /\ t \in Trajectories /\ n \in Nat /\ DOMAIN run.log = 1..n
      /\ DOMAIN t.steps = 1..Len(t.steps) /\ n <= Len(t.steps)
      /\ \A i \in 1..n : run.log[i].step = t.steps[i]
      /\ Len(t.steps) \in Nat
  BY LoggedSteps
<1>2. \A i \in 1..n : EntryFits(run.log[i])
  BY <1>1 DEF RunInv, Deciding
<1>3. /\ DOMAIN log = 1..n
      /\ \A i \in 1..n : /\ log[i].step = run.log[i].step
                         /\ log[i].answer = AnswerOf(run.log[i].step, i \in D)
  BY <1>1, LogOfEntries
<1>4. ASSUME NEW i \in 1..n, Usable(run.log[i])
      PROVE  /\ run.log[i].answer = "deny" <=> i \in D
             /\ log[i].answer = "deny" <=> i \in D
  <2>1. run.log[i].answer = "deny" => MayRefuse(t.steps[i])
    BY <1>1, <1>2 DEF EntryFits, IsWrite, MayRefuse
  <2>2. run.log[i].answer = "deny" <=> i \in D
    BY <1>4, <2>1
  <2>3. log[i].answer = AnswerOf(run.log[i].step, i \in D)
    BY <1>3
  <2> HIDE DEF D, log
  <2> QED
    BY <1>4, <2>2, <2>3 DEF AnswerOf, Usable
<1>5. \A i \in 1..n : ~Usable(run.log[i]) => log[i].answer # "deny"
  <2> HIDE DEF D, log
  <2> QED
    BY <1>3 DEF AnswerOf, Usable
<1> HIDE DEF log
<1>6. \A i \in 1..n : AgreeBefore(run.log, log, i)
  <2> HIDE DEF D
  <2> QED
    BY <1>1, <1>3, <1>4 DEF AgreeBefore
<1>7. \A i \in 1..n : /\ Justified(run.log, i, run.log[i].step) <=>
                            Justified(log, i, log[i].step)
                      /\ Reopened(run.log, i, run.log[i].step) <=>
                            Reopened(log, i, log[i].step)
  BY <1>3, <1>6, JustifiedKept
<1>8. \A i \in 1..n : IsWrite(log[i]) <=> IsWrite(run.log[i])
  BY <1>3 DEF IsWrite, Usable
<1>9. \A i \in 1..n : IsWrite(run.log[i]) /\ i \notin D => Allowed(run.log, i, run.log[i].step)
  <2> HIDE DEF D
  <2> QED
    BY <1>1, <1>4 DEF DecisionInv, Follows, IsWrite
<1>10. unjustified \subseteq D
  BY <1>7, <1>8, <1>9 DEF Allowed
<1>11. DenialsStay(log)
  <2> HIDE DEF D
  <2> QED
    BY <1>3, <1>4, <1>7, <1>8, <1>9 DEF DenialsStay, Allowed, IsWrite
<1>12. \A i \in denied : i < n => GoesOn(log[i].step, "deny")
  <2> SUFFICES ASSUME NEW i \in 1..n, log[i].answer = "deny", i < n
               PROVE  GoesOn(log[i].step, "deny")
    BY <1>3 DEF Answered
  <2>1. run.log[i].answer = "deny"
    <3> HIDE DEF D
    <3> QED
      BY <1>4, <1>5
  <2> QED
    BY <1>1, <1>3, <2>1 DEF RunInv, EntryGoesOn, Deciding
<1>13. D \in SUBSET {i \in 1..n : MayRefuse(t.steps[i])}
  OBVIOUS
<1> HIDE DEF D
<1>14. t.unsafe \cap 1..n \subseteq D
  <2>1. CASE n = 0
    BY <2>1
  <2>2. CASE n # 0
    <3>1. n \in DOMAIN t.steps
      BY <1>1, <2>2
    <3> HIDE DEF n, t
    <3> QED
      BY <1>1, <1>10, <1>11, <1>12, <1>13, <3>1, FixturesDeclareTheText DEF log
  <2> QED
    BY <2>1, <2>2
<1>15. \A i \in D : run.log[i].answer \notin {"success", "tool_error"}
  BY <1>1, <1>2 DEF D, EntryFits
<1> QED
  BY <1>1, <1>14, <1>15 DEF FalseAllow, Answered

\* In a clean run the answers of the log are those of the text.
LEMMA CleanAnswers ==
  ASSUME BatchInv, ProofInv, RunInv, DecisionInv, Deciding, Clean,
         NEW i \in DOMAIN run.log
  PROVE  run.log[i].answer
           = AnswerOf(run.log[i].step, run.log[i].answer \in {"deny", "validation_error"})
<1> DEFINE entry == run.log[i]
           n == run.repetition
           cells == CellsOf(RunPairs(n), events)
<1>1. /\ run.log \in Seq(Logged) /\ entry.answer \in Answers
      /\ n \in Runs /\ RunPairs(n) \subseteq Pairs
      /\ events \in [Pairs -> Seq(Response)]
  BY LoggedSteps, RunPairsArePairs DEF BatchInv, BatchShape, GatewayTypeOK
<1>2. entry.answer \notin {"transport_error", "rate_limited"}
  BY DEF Clean, Answered
<1>3. EntryFits(entry)
  BY DEF RunInv, Deciding
<1>4. entry.answer \in {"success", "tool_error", "deny", "validation_error"}
  BY <1>1, <1>2 DEF Answers
<1>5. ASSUME Usable(entry), entry.answer # "deny"
      PROVE  entry.answer = "tool_error" <=> /\ entry.step.request.tool = "execute_write"
                                             /\ entry.step.request.mode = "force_error"
  <2>1. OwnEvents /\ Accounted /\ NothingLost
    BY DEF ProofInv, Deciding
  <2>2. PICK F : Account(F, n, run.began, run.log, events)
    BY <2>1 DEF Accounted, Deciding
  <2>3. Cardinality(cells) = Cardinality(AskedOf(run.log))
    BY <2>1, LostNothing
  <2>4. i \in AskedOf(run.log)
    BY <1>5 DEF AskedOf
  <2>5. PICK y \in cells : F[y] = i
    BY <1>1, <2>2, <2>3, <2>4, AccountWhole
  <2>6. y[1] \in RunPairs(n) /\ y[2] \in DOMAIN events[y[1]] /\ y = <<y[1], y[2]>>
    BY CellIsEvent
  <2> DEFINE e == events[y[1]][y[2]]
  <2>7. AnswersTo(n, run.began, y[1], e, entry)
    BY <2>2, <2>5, <2>6 DEF Account
  <2> HIDE DEF e, entry
  <2> QED
    BY <1>2, <2>7 DEF AnswersTo, Fits, Classify
<1> HIDE DEF entry
<1>6. entry.answer = AnswerOf(entry.step, entry.answer \in {"deny", "validation_error"})
  BY <1>3, <1>4, <1>5 DEF AnswerOf, EntryFits, Usable, IsWrite
<1> QED
  BY <1>6 DEF entry

\* A clean run that ended is one that the fixture declares.
LEMMA CleanRunDeclared ==
  ASSUME BatchInv, ProofInv, RunInv, DecisionInv, Deciding, Clean,
         run.stopped # 0 \/ Position > Len(trajectory.steps)
  PROVE  /\ Actual(run.log, run.continued) = trajectory.expected
         /\ ~FalseDenial(run.log)
<1> DEFINE n == Len(run.log)
           t == trajectory
           D == {i \in 1..n : run.log[i].answer \in {"deny", "validation_error"}}
           unjustified == {i \in 1..n : /\ IsWrite(run.log[i])
                                        /\ ~Justified(run.log, i, run.log[i].step)}
           denied == Answered(run.log, "deny")
<1>1. /\ t \in Trajectories /\ n \in Nat /\ DOMAIN run.log = 1..n
      /\ DOMAIN t.steps = 1..Len(t.steps) /\ n <= Len(t.steps)
      /\ \A i \in 1..n : run.log[i].step = t.steps[i]
      /\ \A i \in 1..n : run.log[i] = [step |-> run.log[i].step, answer |-> run.log[i].answer]
      /\ Len(t.steps) \in Nat \ {0} /\ run.log \in Seq(Logged)
  BY LoggedSteps
<1>2. \A i \in 1..n : EntryFits(run.log[i])
  BY <1>1 DEF RunInv, Deciding
<1>3. n \in DOMAIN t.steps
  <2>1. n # 0
    BY <1>1 DEF RunInv, Deciding, Position
  <2> QED
    BY <1>1, <2>1
<1>4. run.log = LogOf(t.steps, D, n)
  <2>1. \A i \in 1..n : run.log[i] = [step |-> t.steps[i],
                                      answer |-> AnswerOf(t.steps[i], i \in D)]
    <3>1. \A i \in 1..n : run.log[i].answer
             = AnswerOf(run.log[i].step, run.log[i].answer \in {"deny", "validation_error"})
      BY <1>1, CleanAnswers
    <3>2. \A i \in 1..n : (i \in D) = (run.log[i].answer \in {"deny", "validation_error"})
      OBVIOUS
    <3> HIDE DEF D, n, t
    <3> QED
      BY <1>1, <3>1, <3>2
  <2>2. run.log = [i \in 1..n |-> run.log[i]]
    BY <1>1
  <2> HIDE DEF D, n, t
  <2> QED
    BY <2>1, <2>2 DEF LogOf
<1>5. D \in SUBSET {i \in 1..n : MayRefuse(t.steps[i])}
  BY <1>1, <1>2 DEF EntryFits, MayRefuse, IsWrite, Usable
<1>6. denied = unjustified
  <2>1. Fresh
    BY DEF Clean
  <2>2. \A i \in 1..n : IsWrite(run.log[i]) =>
          (run.log[i].answer = "deny" <=> ~Justified(run.log, i, run.log[i].step))
    BY <1>1, <2>1 DEF DecisionInv, Follows, Allowed
  <2>3. \A i \in 1..n : run.log[i].answer = "deny" => IsWrite(run.log[i])
    BY <1>2 DEF EntryFits
  <2> QED
    BY <1>1, <2>2, <2>3 DEF Answered
<1>7. {i \in 1..n : MustRefuse(t.steps[i])} \subseteq D
  <2> SUFFICES ASSUME NEW i \in 1..n, MustRefuse(run.log[i].step)
               PROVE  run.log[i].answer \in {"deny", "validation_error"}
    BY <1>1
  <2>1. ~Usable(run.log[i])
    BY DEF MustRefuse, Usable
  <2>2. run.log[i].answer \in Answers
    BY <1>1, LoggedSteps
  <2>3. run.log[i].answer \notin {"transport_error", "rate_limited"}
    BY <1>1 DEF Clean, Answered
  <2> QED
    BY <1>2, <2>1, <2>2, <2>3 DEF EntryFits, Answers
<1>8. EndsLike(t.steps, run.log)
  <2>1. \A i \in DOMAIN run.log : i < n => GoesOn(run.log[i].step, run.log[i].answer)
    BY DEF RunInv, EntryGoesOn, Deciding
  <2>2. n = Len(t.steps) \/ ~GoesOn(run.log[n].step, run.log[n].answer)
    BY <1>1 DEF RunInv, EntryGoesOn, Deciding, Position
  <2> QED
    BY <2>1, <2>2 DEF EndsLike
<1>9. run.continued <=> ContinuedOver(run.log)
  BY DEF RunInv, Deciding
<1> HIDE DEF n, t, D
<1>10. LET log == LogOf(t.steps, D, n)
           without == {i \in 1..n : IsWrite(log[i]) /\ ~Justified(log, i, log[i].step)}
       IN /\ Answered(log, "deny") = without
          /\ {i \in 1..n : MustRefuse(t.steps[i])} \subseteq D
          /\ EndsLike(t.steps, log)
          => /\ Actual(log, ContinuedOver(log)) = t.expected
             /\ Answered(log, "deny") \subseteq t.denies
  BY <1>1, <1>3, <1>5, FixturesDeclareTheText
<1>11. /\ Actual(run.log, ContinuedOver(run.log)) = t.expected
       /\ denied \subseteq t.denies
  BY <1>4, <1>6, <1>7, <1>8, <1>10
<1> QED
  BY <1>9, <1>11 DEF Actual, FalseDenial, t

(***************************************************************************)
(* For every catalog whose fixtures declare what the policy's text says of *)
(* them: a step declared unsafe is let through only when some call of the  *)
(* run was throttled or left no response event, and a run whose calls were *)
(* all answered while everything is fresh ends as its fixture declares,    *)
(* whatever the runs before it left in the gateway (_execute_scenario,     *)
(* _session_map, _namespaced_arguments).                                   *)
(***************************************************************************)
THEOREM CleanRunsEndAsDeclared == BatchSpec => []CleanRunsAsDeclared
<1>1. BatchInv /\ ProofInv /\ DecisionInv /\ RunInv => CleanRunsAsDeclared
  <2> SUFFICES ASSUME BatchInv, ProofInv, DecisionInv, RunInv,
                      mode = "proof", stage # "aborted"
               PROVE  /\ NothingLost /\ Counting => ~FalseAllow(run.log)
                      /\ Clean /\ (run.stopped # 0 \/ Position > Len(trajectory.steps)) =>
                           /\ Actual(run.log, run.continued) = trajectory.expected
                           /\ ~FalseDenial(run.log)
    BY DEF CleanRunsAsDeclared
  <2>1. NothingLost /\ Counting => Deciding
    BY DEF Deciding
  <2>2. Clean => NothingLost /\ Counting
    <3>1. run.began \in Nat /\ now \in Nat
      BY GatewayAssumption DEF ProofInv, OwnEvents, BatchInv, BatchShape, GatewayTypeOK
    <3> QED
      BY <3>1, WindowAssumption DEF Clean, Fresh, Counting
  <2> QED
    BY <2>1, <2>2, UnsafeRefused, CleanRunDeclared
<1>2. BatchInit => RunInv
  BY RunStarts
<1>3. BatchInv /\ ProofInv /\ RunInv /\ [BatchNext]_batchVars => RunInv'
  BY RunStep
<1> QED
  BY <1>1, <1>2, <1>3, DecisionHolds, PTL DEF BatchSpec
=============================================================================
