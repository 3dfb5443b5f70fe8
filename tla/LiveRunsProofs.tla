------------------------------ MODULE LiveRunsProofs ------------------------------
(***************************************************************************)
(* Proofs about the parts only a live run has, as MCLiveRuns puts them     *)
(* together: the evidence batches, the Dapr agent, the cloud scripts, the  *)
(* model session and publication, each for every value of its constants.   *)
(***************************************************************************)
EXTENDS ModelSession, EvidenceBatch, IncidentAgent, Teardown, EvidencePublication,
        FiniteSetTheorems, FunctionTheorems, WellFoundedInduction, TLAPS

(***************************************************************************)
(* BatchesAreOwned for every number of runners and batches.  The argument: *)
(* a runner that writes has its private directory on disk (DirsInv), which *)
(* the second check of any later runner sees, so two runners are past that *)
(* check only if they met there (MetInv); and runners that never met write *)
(* to different paths, so the files of an unmet writer stay its own        *)
(* (FilesInv).                                                             *)
(***************************************************************************)
TaskType == task \in [Runners -> Task]

AtType == at \in [Runners -> Stages]

WrittenType == written \in [Runners -> 0..9]

DirsInv == \A r \in Runners : at[r] \in Writing => <<"private", task[r].batch>> \in dirs

\* Past the second check and not stopped before the directory was made.
Entered(r) == at[r] \in Writing \/ (Live(r) /\ at[r] = "granted")

MetInv ==
  \A r \in Runners : \A s \in Rivals(r) : Entered(r) /\ Entered(s) => {r, s} \in met

Unmet(r) == \A s \in Rivals(r) : {r, s} \notin met

\* What an unmet writer wrote is whole, and the file it has open is empty.
OwnFiles(r) ==
  /\ \A i \in 1..written[r] : Intact(r, i)
  /\ Live(r) /\ at[r] = "inside" =>
       /\ Path(r, written[r] + 1) \in DOMAIN files
       /\ files[Path(r, written[r] + 1)].by = {}

FilesInv ==
  \A r \in Runners :
    /\ at[r] \notin Writing => written[r] = 0
    /\ at[r] = "inside" => written[r] < 9
    /\ at[r] \in Writing /\ Unmet(r) => OwnFiles(r)

BatchTypeInv == TaskType /\ AtType /\ WrittenType

BatchInv == BatchTypeInv /\ DirsInv /\ MetInv /\ FilesInv

USE TasksAssumption

LEMMA NineOutputs == Len(Outputs) = 9
  BY DEF Outputs

\* No two outputs of a runner share a path.
LEMMA OwnPaths ==
  ASSUME NEW r \in Runners, NEW i \in 1..9, NEW j \in 1..9, Path(r, i) = Path(r, j)
  PROVE  i = j
<1>1. Outputs[i].root = Outputs[j].root /\ Outputs[i].name = Outputs[j].name
  BY DEF Path
<1>2. i \in {1, 2, 3, 4, 5, 6, 7, 8, 9} /\ j \in {1, 2, 3, 4, 5, 6, 7, 8, 9}
  OBVIOUS
<1>3. /\ Outputs[1].name = "events.jsonl" /\ Outputs[2].name = "control-plane.json"
      /\ Outputs[3].name = "configuration.json" /\ Outputs[4].name = "observability.json"
      /\ Outputs[5].name = "runs.csv" /\ Outputs[6].name = "comparison.csv"
      /\ Outputs[7].name = "summary.json" /\ Outputs[8].name = "managed-environment.json"
      /\ Outputs[9].name = "managed-environment-summary.json"
  BY DEF Outputs, Out
<1> QED BY <1>1, <1>2, <1>3

\* Paths of different runners are of one batch.
LEMMA SharedPath ==
  ASSUME NEW r \in Runners, NEW s \in Runners, s # r, NEW i, NEW j, Path(r, i) = Path(s, j)
  PROVE  s \in Rivals(r)
BY DEF Path, Rivals

LEMMA BatchInvInitial == Init => BatchInv
<1> SUFFICES ASSUME Init PROVE BatchInv
  OBVIOUS
<1>1. BatchTypeInv
  BY DEF Init, BatchTypeInv, TaskType, AtType, WrittenType, Stages
<1>2. DirsInv /\ MetInv /\ FilesInv
  BY DEF Init, DirsInv, MetInv, FilesInv, Entered, Writing
<1> QED BY <1>1, <1>2 DEF BatchInv

\* A step of s leaves the files of an unmet writer r alone, if it does not
\* forget whom r met and writes only where s may.
LEMMA Elsewhere ==
  ASSUME BatchInv, NEW r \in Runners, NEW s \in Runners, r # s,
         UNCHANGED task, met \subseteq met', at'[r] = at[r], written'[r] = written[r],
         stopped \subseteq stopped',
         at[r] \in Writing, Unmet(r)',
         \/ UNCHANGED files
         \/ at[s] \in Writing /\ \E j, f : files' = With(Path(s, j), f)
  PROVE  OwnFiles(r)'
<1>1. Unmet(r) /\ OwnFiles(r)
  BY DEF BatchInv, FilesInv, Unmet, Rivals
<1>2. \A i \in 1..9 : Path(r, i) \in DOMAIN files =>
        Path(r, i) \in DOMAIN files' /\ files'[Path(r, i)] = files[Path(r, i)]
  <2>1. CASE UNCHANGED files
    BY <2>1
  <2>2. CASE at[s] \in Writing /\ \E j, f : files' = With(Path(s, j), f)
    <3> PICK j, f : files' = With(Path(s, j), f)
      BY <2>2
    <3>1. s \notin Rivals(r)
      BY <1>1, <2>2 DEF BatchInv, MetInv, Entered, Unmet
    <3>2. \A i : Path(r, i) # Path(s, j)
      BY <3>1, SharedPath
    <3> QED BY <3>2 DEF With
  <2> QED BY <2>1, <2>2
<1>3. \A i : Path(r, i)' = Path(r, i)
  BY DEF Path
<1>4. written[r] \in 0..9 /\ (at[r] = "inside" => written[r] < 9)
  BY DEF BatchInv, BatchTypeInv, WrittenType, FilesInv
<1>5. \A i \in 1..written[r] : Intact(r, i)'
  <2> SUFFICES ASSUME NEW i \in 1..written[r] PROVE Intact(r, i)'
    OBVIOUS
  <2>1. Intact(r, i) /\ i \in 1..9
    BY <1>1, <1>4 DEF OwnFiles
  <2> QED BY <1>2, <1>3, <2>1 DEF Intact, File
<1>6. Live(r)' => Live(r)
  BY DEF Live
<1>7. at[r] = "inside" => written[r] + 1 \in 1..9
  BY <1>4
<1> QED BY <1>1, <1>2, <1>3, <1>5, <1>6, <1>7 DEF OwnFiles

LEMMA BatchTypeStep == BatchInv /\ [Next]_vars => BatchTypeInv'
<1> SUFFICES ASSUME BatchInv, [Next]_vars PROVE BatchTypeInv'
  OBVIOUS
<1> USE DEF BatchInv, BatchTypeInv, TaskType, AtType, WrittenType
<1>1. CASE UNCHANGED vars
  BY <1>1 DEF vars
<1>2. CASE Next
  <2> PICK r \in Runners : Step(r)
    BY <1>2 DEF Next
  <2>1. CASE \E from, to \in Stages : Moves(r, from, to) /\ UNCHANGED <<task, written>>
    BY <2>1 DEF Moves
  <2>2. CASE UNCHANGED <<task, at, written>>
    BY <2>2
  <2>3. CASE Close(r)
    BY <2>3 DEF Close, Moves, FilesInv, Stages
  <2>4. Begin(r) \/ Recheck(r) \/ MakePrivate(r) \/ MakeRedacted(r) \/ Open(r)
          => \E from, to \in Stages : Moves(r, from, to) /\ UNCHANGED <<task, written>>
    BY DEF Begin, Recheck, MakePrivate, MakeRedacted, Open, Stages
  <2>5. Refuse(r) \/ RefusePayload(r) \/ Stop(r) => UNCHANGED <<task, at, written>>
    BY DEF Refuse, RefusePayload, Stop
  <2> QED BY <2>1, <2>2, <2>3, <2>4, <2>5 DEF Step
<1> QED BY <1>1, <1>2

\* What any step of s does to another runner r.
LEMMA StepOthers ==
  ASSUME BatchInv, NEW s \in Runners, Step(s)
  PROVE  /\ UNCHANGED task /\ met \subseteq met' /\ stopped \subseteq stopped'
         /\ dirs \subseteq dirs'
         /\ \A r \in Runners \ {s} : at'[r] = at[r] /\ written'[r] = written[r]
         /\ \A r \in Runners \ {s} : Live(r)' <=> Live(r)
         /\ \/ UNCHANGED files
            \/ at[s] \in Writing /\ \E j, f : files' = With(Path(s, j), f)
<1> USE DEF BatchInv, BatchTypeInv, AtType, WrittenType, Live
<1>1. CASE Begin(s) \/ Recheck(s) \/ Refuse(s) \/ MakePrivate(s) \/ MakeRedacted(s)
  BY <1>1 DEF Begin, Recheck, Refuse, MakePrivate, MakeRedacted, Moves
<1>2. CASE Open(s)
  BY <1>2 DEF Open, Moves, Writing
<1>3. CASE Close(s)
  BY <1>3 DEF Close, Moves, Writing
<1>4. CASE RefusePayload(s)
  BY <1>4 DEF RefusePayload
<1>5. CASE Stop(s)
  BY <1>5 DEF Stop, Writing
<1> QED BY <1>1, <1>2, <1>3, <1>4, <1>5 DEF Step

LEMMA StepDirs ==
  ASSUME BatchInv, NEW s \in Runners, Step(s)
  PROVE  DirsInv'
<1>1. \A r \in Runners \ {s} : at'[r] = at[r]
  BY StepOthers
<1>2. at'[s] \in Writing => at[s] \in Writing \/ MakePrivate(s)
  BY DEF BatchInv, BatchTypeInv, AtType, Step, Begin, Recheck, Refuse, MakePrivate, MakeRedacted,
         Open, Close, RefusePayload, Stop, Moves, Writing
<1>3. MakePrivate(s) => <<"private", task[s].batch>> \in dirs'
  BY DEF MakePrivate
<1> QED BY <1>1, <1>2, <1>3, StepOthers DEF BatchInv, DirsInv

LEMMA StepMet ==
  ASSUME BatchInv, NEW s \in Runners, Step(s)
  PROVE  MetInv'
<1> USE DEF BatchInv, BatchTypeInv, AtType
<1>1. \A r \in Runners \ {s} : Entered(r)' => Entered(r)
  BY StepOthers DEF Entered
<1>2. Entered(s)' => Entered(s) \/ Recheck(s)
  BY DEF Entered, Step, Begin, Recheck, Refuse, MakePrivate, MakeRedacted, Open, Close,
         RefusePayload, Stop, Moves, Writing, Live
<1>3. \A r \in Runners : Rivals(r)' = Rivals(r)
  BY StepOthers DEF Rivals
<1>4. ASSUME Recheck(s), NEW r \in Rivals(s), Entered(r) PROVE {s, r} \in met'
  <2>1. at[r] \notin Writing
    <3> SUFFICES ASSUME at[r] \in Writing PROVE FALSE
      OBVIOUS
    <3>1. <<"private", task[r].batch>> \in dirs /\ task[r].batch = task[s].batch
      BY <1>4 DEF DirsInv, Rivals
    <3> QED BY <1>4, <3>1 DEF Recheck, Exists
  <2>2. r \in Granted(s)
    BY <1>4, <2>1 DEF Granted, Entered, Rivals
  <2> QED BY <1>4, <2>2 DEF Recheck
<1>5. \A r \in Runners : \A q \in Rivals(r) : q \in Runners /\ q # r /\ r \in Rivals(q)
  BY DEF Rivals
<1>6. SUFFICES ASSUME NEW r \in Runners, NEW q \in Rivals(r), Entered(r)', Entered(q)'
               PROVE  {r, q} \in met'
  BY <1>3 DEF MetInv
<1>7. CASE Entered(r) /\ Entered(q)
  BY <1>7, StepOthers DEF MetInv
<1>8. CASE r = s /\ ~Entered(s)
  BY <1>1, <1>2, <1>4, <1>5, <1>6, <1>8
<1>9. CASE q = s /\ ~Entered(s)
  <2>1. r \in Rivals(s) /\ Entered(r) /\ Recheck(s)
    BY <1>1, <1>2, <1>5, <1>6, <1>9
  <2> QED BY <1>4, <1>9, <2>1
<1> QED BY <1>1, <1>5, <1>6, <1>7, <1>8, <1>9

\* The moving runner's own files.
LEMMA StepOwn ==
  ASSUME BatchInv, NEW s \in Runners, Step(s), at'[s] \in Writing, Unmet(s)'
  PROVE  OwnFiles(s)'
<1> USE DEF BatchInv, BatchTypeInv, AtType, WrittenType
<1>1. Unmet(s)
  BY StepOthers DEF Unmet, Rivals
<1>2. \A i : Path(s, i)' = Path(s, i)
  BY StepOthers DEF Path
<1>3. task' = task
  BY StepOthers
<1>4. CASE MakePrivate(s)
  BY <1>4 DEF MakePrivate, Moves, OwnFiles, FilesInv, Writing
<1>5. CASE MakeRedacted(s)
  <2>1. OwnFiles(s)
    BY <1>1, <1>5 DEF MakeRedacted, Moves, FilesInv, Writing
  <2> QED BY <1>2, <1>5, <2>1 DEF MakeRedacted, Moves, OwnFiles, Intact
<1>6. CASE Open(s)
  <2>1. OwnFiles(s) /\ written[s] + 1 \in 1..9
    BY <1>1, <1>6, NineOutputs DEF Open, Moves, FilesInv, Writing
  <2>2. files' = With(Path(s, written[s] + 1), File({}, FALSE, TRUE)) /\ written' = written
    BY <1>6 DEF Open
  <2>3. \A i \in 1..written[s] : Path(s, i) # Path(s, written[s] + 1)
    BY <2>1, OwnPaths
  <2>4. \A i \in 1..written[s] : Intact(s, i)'
    <3> SUFFICES ASSUME NEW i \in 1..written[s] PROVE Intact(s, i)'
      OBVIOUS
    <3>1. Intact(s, i)
      BY <2>1 DEF OwnFiles
    <3>2. /\ Path(s, i) \in DOMAIN files'
          /\ files'[Path(s, i)] = files[Path(s, i)]
      BY <2>2, <2>3, <3>1 DEF With, Intact
    <3> QED BY <1>2, <1>3, <3>1, <3>2 DEF Intact, File
  <2>5. /\ Path(s, written[s] + 1) \in DOMAIN files'
        /\ files'[Path(s, written[s] + 1)].by = {}
    BY <2>2 DEF With, File
  <2> QED BY <1>2, <2>2, <2>4, <2>5 DEF OwnFiles
<1>7. CASE Close(s)
  <2> DEFINE path == Path(s, written[s] + 1)
  <2>1. OwnFiles(s) /\ written[s] + 1 \in 1..9 /\ Live(s) /\ at[s] = "inside"
    BY <1>1, <1>7 DEF Close, Moves, FilesInv, Writing
  <2>2. files' = With(path, File(files[path].by \cup {s}, TRUE, task[s].clean))
        /\ written'[s] = written[s] + 1 /\ at'[s] = "between"
    BY <1>7 DEF Close, Moves
  <2>3. files[path].by = {}
    BY <2>1 DEF OwnFiles
  <2>4. files' = With(path, File({s}, TRUE, task[s].clean))
    BY <2>2, <2>3
  <2>5. \A i \in 1..written[s] : Path(s, i) # path
    BY <2>1, OwnPaths
  <2>6. \A i \in 1..written[s] : Intact(s, i)'
    <3> SUFFICES ASSUME NEW i \in 1..written[s] PROVE Intact(s, i)'
      OBVIOUS
    <3>1. Intact(s, i)
      BY <2>1 DEF OwnFiles
    <3>2. /\ Path(s, i) \in DOMAIN files'
          /\ files'[Path(s, i)] = files[Path(s, i)]
      BY <2>4, <2>5, <3>1 DEF With, Intact
    <3> QED BY <1>2, <1>3, <3>1, <3>2 DEF Intact, File
  <2>7. ASSUME NEW i, i = written[s] + 1 PROVE Intact(s, i)'
    BY <2>7, <1>2, <1>3, <2>4 DEF Intact, With, File
  <2>8. \A i \in 1..written'[s] : i \in 1..written[s] \/ i = written[s] + 1
    BY <2>1, <2>2
  <2> QED BY <2>2, <2>6, <2>7, <2>8 DEF OwnFiles
<1>8. CASE Stop(s) \/ Refuse(s) \/ RefusePayload(s)
  <2>1. OwnFiles(s) /\ ~Live(s)' /\ written' = written /\ at' = at
    BY <1>1, <1>8 DEF Stop, Refuse, RefusePayload, FilesInv, Live
  <2>2. written[s] \in 0..9
    OBVIOUS
  <2>3. ASSUME NEW i \in 1..written[s] PROVE Intact(s, i)'
    <3>1. UNCHANGED files \/ (/\ at[s] = "inside"
                              /\ \E f : files' = With(Path(s, written[s] + 1), f))
      BY <1>8 DEF Stop, Refuse, RefusePayload
    <3>2. at[s] = "inside" => written[s] + 1 \in 1..9
      BY <2>2 DEF FilesInv
    <3>3. at[s] = "inside" => Path(s, i) # Path(s, written[s] + 1)
      BY <3>2, <2>2, OwnPaths
    <3> QED BY <1>2, <1>3, <2>1, <3>1, <3>3 DEF OwnFiles, Intact, With
  <2> QED BY <2>1, <2>3 DEF OwnFiles
<1>9. CASE Begin(s) \/ Recheck(s)
  BY <1>9 DEF Begin, Recheck, Moves, Writing
<1> QED BY <1>4, <1>5, <1>6, <1>7, <1>8, <1>9 DEF Step

LEMMA StepFiles ==
  ASSUME BatchInv, NEW s \in Runners, Step(s)
  PROVE  FilesInv'
<1>1. ASSUME NEW r \in Runners, at'[r] \notin Writing PROVE written'[r] = 0
  BY <1>1 DEF BatchInv, BatchTypeInv, AtType, WrittenType, FilesInv, Step, Begin, Recheck, Refuse,
              MakePrivate, MakeRedacted, Open, Close, RefusePayload, Stop, Moves, Writing
<1>2. ASSUME NEW r \in Runners, at'[r] = "inside" PROVE written'[r] < 9
  BY <1>2, NineOutputs
     DEF BatchInv, BatchTypeInv, AtType, WrittenType, FilesInv, Step, Begin, Recheck, Refuse,
         MakePrivate, MakeRedacted, Open, Close, RefusePayload, Stop, Moves
<1>3. ASSUME NEW r \in Runners, at'[r] \in Writing, Unmet(r)' PROVE OwnFiles(r)'
  <2>1. CASE r = s
    BY <1>3, <2>1, StepOwn
  <2>2. CASE r # s
    BY <1>3, <2>2, StepOthers, Elsewhere
  <2> QED BY <2>1, <2>2
<1> QED BY <1>1, <1>2, <1>3 DEF FilesInv

LEMMA BatchInvStep == BatchInv /\ [Next]_vars => BatchInv'
<1> SUFFICES ASSUME BatchInv, [Next]_vars PROVE BatchInv'
  OBVIOUS
<1>1. CASE Next
  BY <1>1, BatchTypeStep, StepDirs, StepMet, StepFiles DEF Next, BatchInv
<1>2. CASE UNCHANGED vars
  <2>1. DirsInv' /\ MetInv'
    BY <1>2 DEF vars, BatchInv, DirsInv, MetInv, Entered, Live, Rivals
  <2>2. FilesInv'
    BY <1>2 DEF vars, BatchInv, FilesInv, Unmet, Rivals, OwnFiles, Intact, Path, Live
  <2> QED BY <2>1, <2>2, BatchTypeStep DEF BatchInv
<1> QED BY <1>1, <1>2

(***************************************************************************)
(* Runners that did not meet at the second check never share a file, for   *)
(* every number of runners (managed.py, _ensure_new_batch and              *)
(* _write_outputs).                                                        *)
(***************************************************************************)
THEOREM EvidenceIsOwned == Spec => []BatchesAreOwned
<1>1. BatchInv => BatchesAreOwned
  BY DEF BatchInv, MetInv, FilesInv, BatchesAreOwned, Entered, Unmet, OwnFiles
<1> QED
  BY <1>1, BatchInvInitial, BatchInvStep, PTL DEF Spec

-----------------------------------------------------------------------------
\* Files appear only below a writer's paths, in order and after admission.

PathsInv == \A path \in DOMAIN files :
  \E t \in Runners, j \in 1..9 : at[t] \in Writing /\ path = Path(t, j)

Reach(r) == IF at[r] = "inside" THEN written[r] + 1 ELSE written[r]

OrderInv ==
  \A r \in Runners : at[r] \in Writing /\ Unmet(r) =>
    \A i \in 1..9 : Path(r, i) \in DOMAIN files => i <= Reach(r)

CleanInv == \A r \in Runners : Reach(r) > Comparison => task[r].clean

SInv == BatchInv /\ PathsInv /\ OrderInv /\ CleanInv

LEMMA InitSInv == Init => SInv
<1> SUFFICES ASSUME Init PROVE SInv
  OBVIOUS
<1>1. PathsInv /\ OrderInv /\ CleanInv
  BY DEF Init, PathsInv, OrderInv, CleanInv, Reach, Writing, Comparison
<1> QED BY <1>1, BatchInvInitial DEF SInv

\* How far a step of s moves s, and which file it may add.
LEMMA StepReach ==
  ASSUME BatchInv, NEW s \in Runners, Step(s)
  PROVE  /\ Reach(s) \in Nat
         /\ Reach(s)' = Reach(s) \/ (Open(s) /\ Reach(s)' = Reach(s) + 1)
         /\ at[s] \in Writing => at'[s] \in Writing
         /\ \A path \in DOMAIN files' : path \in DOMAIN files \/
               (/\ at[s] \in Writing /\ written[s] + 1 \in 1..9
                /\ written[s] + 1 <= Reach(s)' /\ path = Path(s, written[s] + 1))
<1> USE DEF BatchInv, BatchTypeInv, AtType, WrittenType, FilesInv
<1>1. CASE Begin(s) \/ Recheck(s) \/ Refuse(s) \/ MakePrivate(s) \/ MakeRedacted(s) \/ RefusePayload(s)
  BY <1>1 DEF Begin, Recheck, Refuse, MakePrivate, MakeRedacted, RefusePayload, Moves, Reach, Writing
<1>2. CASE Open(s)
  BY <1>2, NineOutputs DEF Open, Moves, Writing, Reach, With
<1>3. CASE Close(s)
  <2>1. at[s] = "inside" /\ at'[s] = "between" /\ written[s] + 1 \in 1..9
    BY <1>3 DEF Close, Moves
  <2>2. Reach(s) = written[s] + 1 /\ Reach(s)' = written[s] + 1
    BY <1>3, <2>1 DEF Close, Reach
  <2>3. \A path \in DOMAIN files' : path \in DOMAIN files \/ path = Path(s, written[s] + 1)
    BY <1>3 DEF Close, With
  <2> QED BY <2>1, <2>2, <2>3 DEF Writing
<1>4. CASE Stop(s)
  <2>1. UNCHANGED <<at, written>> /\ Reach(s) \in Nat /\ Reach(s)' = Reach(s)
    BY <1>4 DEF Stop, Reach
  <2>2. \A path \in DOMAIN files' : path \in DOMAIN files \/
          (at[s] = "inside" /\ path = Path(s, written[s] + 1))
    BY <1>4 DEF Stop, With
  <2>3. at[s] = "inside" => written[s] + 1 \in 1..9 /\ written[s] + 1 <= Reach(s)'
    BY <2>1 DEF Reach
  <2> QED BY <2>1, <2>2, <2>3 DEF Writing
<1> QED BY <1>1, <1>2, <1>3, <1>4 DEF Step

\* Where two unmet runners would share a path, one of them is not writing.
LEMMA NoSharedPath ==
  ASSUME BatchInv, NEW r \in Runners, NEW t \in Runners, t # r, NEW i, NEW j,
         Unmet(r), Entered(r), at[t] \in Writing
  PROVE  Path(r, i) # Path(t, j)
BY SharedPath DEF BatchInv, MetInv, Entered, Unmet

LEMMA StepPaths ==
  ASSUME SInv, NEW s \in Runners, Step(s)
  PROVE  PathsInv'
<1> SUFFICES ASSUME NEW path \in DOMAIN files'
             PROVE  \E t \in Runners, j \in 1..9 : at'[t] \in Writing /\ path = Path(t, j)'
  BY DEF PathsInv
<1>1. \A t \in Runners, j \in 1..9 : Path(t, j)' = Path(t, j)
  BY StepOthers DEF SInv, Path
<1>2. \A t \in Runners : at[t] \in Writing => at'[t] \in Writing
  BY StepOthers, StepReach DEF SInv
<1>3. CASE path \in DOMAIN files
  BY <1>1, <1>2, <1>3 DEF SInv, PathsInv
<1>4. CASE path \notin DOMAIN files
  BY <1>1, <1>2, <1>4, StepReach DEF SInv
<1> QED BY <1>3, <1>4

LEMMA StepOrder ==
  ASSUME SInv, NEW s \in Runners, Step(s)
  PROVE  OrderInv'
<1> SUFFICES ASSUME NEW r \in Runners, at'[r] \in Writing, Unmet(r)',
                    NEW i \in 1..9, Path(r, i)' \in DOMAIN files'
             PROVE  i <= Reach(r)'
  BY DEF OrderInv
<1>1. Path(r, i)' = Path(r, i) /\ Unmet(r)
  BY StepOthers DEF SInv, Path, Unmet, Rivals
<1>2. r # s => Reach(r)' = Reach(r) /\ at[r] \in Writing
  BY StepOthers DEF SInv, Reach
<1>3. Reach(r) \in Nat /\ Reach(r) <= Reach(r)'
  BY <1>2, StepReach DEF SInv, BatchInv, BatchTypeInv, WrittenType, Reach
<1>4. Entered(r) \/ at[r] \notin Writing
  BY DEF Entered
<1>5. CASE Path(r, i) \in DOMAIN files /\ at[r] \in Writing
  <2>1. i <= Reach(r)
    BY <1>1, <1>5 DEF SInv, OrderInv
  <2>2. Reach(r)' \in Nat
    BY <1>2, <1>3, StepReach DEF SInv
  <2> QED BY <1>3, <2>1, <2>2
<1>6. CASE Path(r, i) \in DOMAIN files /\ at[r] \notin Writing
  <2>1. r = s /\ MakePrivate(r)
    BY <1>2, <1>6 DEF SInv, BatchInv, BatchTypeInv, AtType, Step, Begin, Recheck, Refuse, MakePrivate,
                      MakeRedacted, Open, Close, RefusePayload, Stop, Moves, Writing
  <2>2. Entered(r)
    BY <2>1 DEF MakePrivate, Moves, Entered
  <2>3. PICK t \in Runners, j \in 1..9 : at[t] \in Writing /\ Path(r, i) = Path(t, j)
    BY <1>6 DEF SInv, PathsInv
  <2> QED BY <1>1, <1>6, <2>2, <2>3, NoSharedPath DEF SInv
<1>7. CASE Path(r, i) \notin DOMAIN files
  <2>1. /\ at[s] \in Writing /\ written[s] + 1 \in 1..9
        /\ written[s] + 1 <= Reach(s)' /\ Path(r, i) = Path(s, written[s] + 1)
    BY <1>1, <1>7, StepReach DEF SInv
  <2>2. r = s
    BY <1>1, <1>2, <1>4, <2>1, NoSharedPath DEF SInv
  <2> QED BY <2>1, <2>2, OwnPaths
<1> QED BY <1>5, <1>6, <1>7

LEMMA StepClean ==
  ASSUME SInv, NEW s \in Runners, Step(s)
  PROVE  CleanInv'
<1> SUFFICES ASSUME NEW r \in Runners, Reach(r)' > Comparison PROVE task'[r].clean
  BY DEF CleanInv
<1>1. task' = task
  BY StepOthers DEF SInv
<1>2. CASE r # s
  BY <1>1, <1>2, StepOthers DEF SInv, CleanInv, Reach
<1>3. CASE r = s /\ Reach(s)' = Reach(s)
  BY <1>1, <1>3 DEF SInv, CleanInv
<1>4. CASE r = s /\ Open(s) /\ Reach(s)' = Reach(s) + 1
  <2>1. Reach(s) = written[s]
    BY <1>4 DEF Open, Moves, Reach
  <2>2. Reach(s) \in Nat /\ Reach(s) >= Comparison
    BY <1>4, StepReach DEF SInv, Comparison
  <2>3. Reach(s) = Comparison => task[s].clean
    BY <1>4, <2>1 DEF Open, Admitted
  <2>4. Reach(s) > Comparison => task[s].clean
    BY DEF SInv, CleanInv
  <2> QED BY <1>1, <1>4, <2>2, <2>3, <2>4 DEF Comparison
<1> QED BY <1>2, <1>3, <1>4, StepReach DEF SInv

LEMMA StepSInv == SInv /\ [Next]_vars => SInv'
<1> SUFFICES ASSUME SInv, [Next]_vars PROVE SInv'
  OBVIOUS
<1>1. BatchInv'
  BY BatchInvStep DEF SInv
<1>2. CASE Next
  BY <1>1, <1>2, StepPaths, StepOrder, StepClean DEF Next, SInv
<1>3. CASE UNCHANGED vars
  <2>1. \A r \in Runners : /\ Reach(r)' = Reach(r) /\ (Unmet(r)' <=> Unmet(r))
                            /\ \A i : Path(r, i)' = Path(r, i)
    BY <1>3 DEF vars, Reach, Path, Unmet, Rivals
  <2>2. UNCHANGED <<at, files, task>>
    BY <1>3 DEF vars
  <2>3. PathsInv'
    BY <2>1, <2>2 DEF SInv, PathsInv
  <2>4. OrderInv' /\ CleanInv'
    BY <2>1, <2>2 DEF SInv, OrderInv, CleanInv
  <2> QED BY <1>1, <2>3, <2>4 DEF SInv
<1> QED BY <1>2, <1>3

LEMMA SummaryFollows == SInv => SummaryMeansComplete
<1> SUFFICES ASSUME SInv, NEW r \in Runners, at[r] \in Writing, Unmet(r)
             PROVE  /\ Path(r, Summary) \in DOMAIN files =>
                         task[r].clean /\ \A i \in 1..Comparison : Intact(r, i)
                    /\ \A i \in (Summary + 1)..9 :
                         Path(r, i) \in DOMAIN files => Intact(r, Summary)
  BY NineOutputs DEF SummaryMeansComplete, Unmet
<1>1. /\ \A i \in 1..9 : Path(r, i) \in DOMAIN files => i <= Reach(r)
      /\ \A i \in 1..written[r] : Intact(r, i)
      /\ Reach(r) > Comparison => task[r].clean
      /\ written[r] \in 0..9
  BY DEF SInv, BatchInv, BatchTypeInv, WrittenType, FilesInv, OwnFiles, OrderInv, CleanInv
<1>2. Reach(r) <= written[r] + 1
  BY <1>1 DEF Reach
<1>3. Reach(r) \in Nat
  BY <1>1 DEF Reach
<1>5. ASSUME NEW i \in (Summary + 1)..9, Path(r, i) \in DOMAIN files
      PROVE  Intact(r, Summary)
  <2>1. i \in 1..9 /\ i >= 8
    BY DEF Summary
  <2>2. i <= Reach(r)
    BY <1>1, <1>5, <2>1
  <2>3. written[r] >= 7
    BY <1>1, <1>2, <1>3, <2>1, <2>2
  <2> QED BY <1>1, <2>3 DEF Summary
<1>4. Path(r, Summary) \in DOMAIN files =>
        task[r].clean /\ \A i \in 1..Comparison : Intact(r, i)
  <2> SUFFICES ASSUME Path(r, Summary) \in DOMAIN files
               PROVE  task[r].clean /\ \A i \in 1..Comparison : Intact(r, i)
    OBVIOUS
  <2>1. Reach(r) >= 7
    BY <1>1, <1>3 DEF Summary
  <2>2. written[r] >= 6
    BY <1>1, <1>2, <1>3, <2>1
  <2> QED BY <1>1, <2>1, <2>2, <1>3 DEF Comparison
<1> QED BY <1>4, <1>5

(***************************************************************************)
(* A summary stands for complete and clean evidence, for every number of   *)
(* runners (managed.py, _write_outputs: the payload is checked before the  *)
(* summary, after everything else).                                        *)
(***************************************************************************)
THEOREM SummariesAreComplete == Spec => []SummaryMeansComplete
  BY InitSInv, StepSInv, SummaryFollows, PTL DEF Spec

-----------------------------------------------------------------------------

(***************************************************************************)
(* EffectsExplained for every number of processes and of tool calls.  The  *)
(* argument: an instance executes only a call some process approved, and   *)
(* a call that took effect in a process that goes on is behind its         *)
(* instance for good (Behind), so only the end of a process lets another   *)
(* take effect for the same call.                                          *)
(***************************************************************************)
AgentCalls == [instance : Processes, number : Nat, exact : BOOLEAN]

AgentStages == {"none", "asking", "pending", "executing", "done"}

ProcessType ==
  process \in [Processes -> [at : {"new", "polling", "waiting", "ended", "reported"},
                             decision : Choices \cup {"none"}]]

InstanceType == instance \in [Processes -> [at : AgentStages, calls : Nat, exact : BOOLEAN]]

AnswersType == answers \subseteq [call : AgentCalls, by : Processes, approved : BOOLEAN]

EffectsType == effects \in [Processes -> SUBSET AgentCalls]

AgentTypeInv == ProcessType /\ InstanceType /\ AnswersType /\ EffectsType

HasApproval(c) == \E a \in answers : a.call = c /\ a.approved

AnswersInv ==
  /\ \A a \in answers : /\ process[a.by].at # "new"
                        /\ a.approved => process[a.by].decision = "approve"
  /\ \A i \in Processes : instance[i].at = "executing" => HasApproval(CallOf(i))

\* The instance of c will not execute c again.
Behind(c) ==
  \/ c.number < instance[c.instance].calls
  \/ c.number = instance[c.instance].calls /\ instance[c.instance].at \in {"asking", "done"}

EffectsInv ==
  /\ \A p \in Processes : \A c \in effects[p] :
       /\ c.exact /\ HasApproval(c)
       /\ process[p].at # "new"
       /\ process[p].at # "ended" => Behind(c)
  /\ \A p, q \in Processes :
       p # q /\ effects[p] \cap effects[q] # {}
         => "ended" \in {process[p].at, process[q].at}

AgentInv == AgentTypeInv /\ AnswersInv /\ EffectsInv

LEMMA AgentInvInitial == AgentInit => AgentInv
  BY DEF AgentInit, AgentInv, AgentTypeInv, ProcessType, InstanceType, AnswersType, EffectsType, AgentStages, AnswersInv, EffectsInv

\* A step that changes no effect and no answer, ends nothing it has ended
\* and moves one instance forward keeps the invariant.
LEMMA Forward ==
  ASSUME AgentInv, AgentTypeInv', UNCHANGED <<answers, effects>>,
         NEW i \in Processes,
         \A j \in Processes \ {i} : instance'[j] = instance[j],
         instance'[i].at = "executing" => HasApproval(CallOf(i))',
         instance'[i].calls >= instance[i].calls,
         instance'[i].calls = instance[i].calls =>
            \/ instance'[i] = instance[i]
            \/ instance'[i].at \in {"asking", "done"}
            \/ instance[i].at \notin {"asking", "done"},
         \A p \in Processes :
            /\ process[p].at # "new" => process'[p].at # "new"
            /\ process[p].at # "new" => process'[p].decision = process[p].decision
            /\ process[p].at = "ended" => process'[p].at = "ended"
  PROVE  AgentInv'
<1> USE DEF AgentInv, AgentTypeInv, ProcessType, InstanceType, AnswersType, EffectsType, AgentCalls, AgentStages
<1>1. AnswersInv'
  <2>1. \A a \in answers' : /\ process'[a.by].at # "new"
                            /\ a.approved => process'[a.by].decision = "approve"
    BY DEF AnswersInv
  <2>2. ASSUME NEW j \in Processes, instance'[j].at = "executing"
        PROVE  HasApproval(CallOf(j))'
    <3>1. CASE j = i
      BY <2>2, <3>1
    <3>2. CASE j # i
      <4>1. CallOf(j)' = CallOf(j) /\ instance[j].at = "executing"
        BY <2>2, <3>2 DEF CallOf
      <4>2. HasApproval(CallOf(j))
        BY <4>1 DEF AnswersInv
      <4> QED BY <4>1, <4>2 DEF HasApproval
    <3> QED BY <3>1, <3>2
  <2> QED BY <2>1, <2>2 DEF AnswersInv
<1>2. ASSUME NEW p \in Processes, NEW c \in effects'[p]
      PROVE  /\ c.exact /\ HasApproval(c)'
             /\ process'[p].at # "new"
             /\ process'[p].at # "ended" => Behind(c)'
  <2>1. c \in effects[p] /\ c \in AgentCalls
    BY <1>2
  <2>2. c.exact /\ HasApproval(c)' /\ process'[p].at # "new"
    BY <2>1 DEF EffectsInv, HasApproval
  <2>3. ASSUME process'[p].at # "ended" PROVE Behind(c)'
    <3>1. Behind(c)
      BY <2>1, <2>3 DEF EffectsInv
    <3>2. CASE c.instance = i
      <4>1. c.number \in Nat /\ instance[i].calls \in Nat /\ instance'[i].calls \in Nat
        BY <2>1
      <4> QED BY <3>1, <3>2, <4>1 DEF Behind
    <3>3. CASE c.instance # i
      BY <2>1, <3>1, <3>3 DEF Behind
    <3> QED BY <3>2, <3>3
  <2> QED BY <2>2, <2>3
<1>3. ASSUME NEW p \in Processes, NEW q \in Processes, p # q,
             effects'[p] \cap effects'[q] # {}
      PROVE  "ended" \in {process'[p].at, process'[q].at}
  BY <1>3 DEF EffectsInv
<1> QED BY <1>1, <1>2, <1>3 DEF EffectsInv

\* The executing instance's call takes effect in p, if at all, and p ends or
\* the instance is asked for its next step.
LEMMA Effect ==
  ASSUME AgentInv, AgentTypeInv', NEW p \in Processes, NEW i \in Processes,
         Up(p), instance[i].at = "executing", TakesEffect(p, i), UNCHANGED answers,
         \/ Carries(p, i, "executing", "asking") /\ UNCHANGED process
         \/ Ends(p) /\ UNCHANGED instance
  PROVE  AgentInv'
<1> USE DEF AgentInv, AgentTypeInv, ProcessType, InstanceType, AnswersType, EffectsType, AgentCalls, AgentStages
<1>1. \A q \in Processes : /\ q # p => process'[q] = process[q]
                           /\ process'[q].decision = process[q].decision
                           /\ process[q].at = "ended" => process'[q].at = "ended"
                           /\ process[q].at # "new" => process'[q].at # "new"
  BY DEF Ends
<1>2. \A j \in Processes : /\ CallOf(j)' = CallOf(j)
                           /\ instance'[j].at = "executing" => instance[j].at = "executing"
                           /\ instance[j].at \in {"asking", "done"} => instance'[j] = instance[j]
                           /\ instance'[j].calls = instance[j].calls
  BY DEF Carries, CallOf
<1>3. AnswersInv'
  BY <1>1, <1>2 DEF AnswersInv, HasApproval
<1>4. \A q \in Processes : q # p => effects'[q] = effects[q]
  BY DEF TakesEffect
<1>5. effects'[p] = effects[p] \/ (effects'[p] = {CallOf(i)} /\ CallOf(i).exact)
  BY DEF TakesEffect, Permitted, CallOf
<1>6. HasApproval(CallOf(i)) /\ ~Behind(CallOf(i))
  BY DEF AnswersInv, Behind, CallOf
<1>7. process'[p].at # "ended" => Behind(CallOf(i))'
  BY <1>2 DEF Behind, CallOf, Carries, Ends, Up
<1>8. \A q \in Processes : CallOf(i) \in effects[q] => process[q].at = "ended"
  BY <1>6 DEF EffectsInv
<1>9. ASSUME NEW q \in Processes, NEW c \in effects'[q]
      PROVE  /\ c.exact /\ HasApproval(c)'
             /\ process'[q].at # "new"
             /\ process'[q].at # "ended" => Behind(c)'
  <2>1. CASE c \in effects[q]
    <3>1. c.exact /\ HasApproval(c)' /\ process'[q].at # "new"
      BY <1>1, <2>1 DEF EffectsInv, HasApproval
    <3>2. process[q].at # "ended" => Behind(c)
      BY <2>1 DEF EffectsInv
    <3>3. Behind(c) => Behind(c)'
      <4>1. c.instance \in Processes
        BY <2>1
      <4> QED BY <1>2, <4>1 DEF Behind
    <3> QED BY <1>1, <3>1, <3>2, <3>3
  <2>2. CASE c \notin effects[q]
    <3>1. q = p /\ c = CallOf(i) /\ c.exact
      BY <1>4, <1>5, <1>9, <2>2
    <3>2. HasApproval(c)'
      BY <1>6, <3>1 DEF HasApproval
    <3>3. process'[q].at # "new"
      BY <1>1, <3>1 DEF Up
    <3> QED BY <1>7, <3>1, <3>2, <3>3, <1>2
  <2> QED BY <2>1, <2>2
<1>10. ASSUME NEW q \in Processes, NEW r \in Processes, q # r,
              effects'[q] \cap effects'[r] # {}
       PROVE  "ended" \in {process'[q].at, process'[r].at}
  <2> PICK c : c \in effects'[q] /\ c \in effects'[r]
    BY <1>10
  <2>1. CASE c \in effects[q] /\ c \in effects[r]
    BY <1>1, <1>10, <2>1 DEF EffectsInv
  <2>2. CASE c \notin effects[q] \/ c \notin effects[r]
    <3>1. c = CallOf(i) /\ p \in {q, r}
      BY <1>4, <1>5, <2>2
    <3>2. \A s \in {q, r} \ {p} : c \in effects[s]
      BY <1>4
    <3> QED BY <1>1, <1>8, <1>10, <3>1, <3>2
  <2> QED BY <2>1, <2>2
<1> QED BY <1>3, <1>9, <1>10 DEF EffectsInv

LEMMA AgentTypeStep == AgentTypeInv /\ [AgentNext]_agentVars => AgentTypeInv'
<1> SUFFICES ASSUME AgentTypeInv, [AgentNext]_agentVars PROVE AgentTypeInv'
  OBVIOUS
<1> USE DEF AgentTypeInv, ProcessType, InstanceType, AgentStages
<1>0. ASSUME InstanceType, NEW i \in Processes PROVE CallOf(i) \in AgentCalls
  BY <1>0 DEF CallOf, AgentCalls
<1>1. CASE UNCHANGED agentVars
  BY <1>1 DEF agentVars, AnswersType, EffectsType
<1>2. CASE AgentNext
  <2> PICK p \in Processes :
        \/ \E decision \in Choices : Start(p, decision)
        \/ Report(p) \/ GiveUp(p)
        \/ \E i \in Processes :
             \/ CallsInspect(p, i) \/ \E exact \in BOOLEAN : CallsExecute(p, i, exact)
             \/ Finishes(p, i) \/ Answer(p, i) \/ Approved(p, i) \/ NotApproved(p, i)
             \/ Execute(p, i) \/ ExecuteAndStop(p, i)
    BY <1>2 DEF AgentNext
  <2>1. ASSUME NEW decision \in Choices, Start(p, decision) PROVE AgentTypeInv'
    BY <2>1 DEF Start, AnswersType, EffectsType
  <2>2. CASE Report(p) \/ GiveUp(p)
    BY <2>2 DEF Report, GiveUp, Ends, AnswersType, EffectsType
  <2>3. ASSUME NEW i \in Processes,
               CallsInspect(p, i) \/ \E exact \in BOOLEAN : CallsExecute(p, i, exact)
        PROVE  AgentTypeInv'
    <3>1. PICK to \in {"asking", "pending"}, exact \in BOOLEAN : Chooses(p, i, to, exact)
      BY <2>3 DEF CallsInspect, CallsExecute, HookDecision
    <3>2. UNCHANGED <<process, answers, effects>>
      BY <3>1 DEF Chooses
    <3>3. InstanceType'
      BY <3>1 DEF Chooses
    <3> QED BY <3>2, <3>3 DEF AnswersType, EffectsType
  <2>4. ASSUME NEW i \in Processes, Finishes(p, i) \/ Approved(p, i) \/ NotApproved(p, i)
        PROVE  AgentTypeInv'
    <3>1. PICK to \in AgentStages : instance' = [instance EXCEPT ![i].at = to]
      BY <2>4 DEF Finishes, Approved, NotApproved, Carries
    <3>2. UNCHANGED <<process, answers, effects>>
      BY <2>4 DEF Finishes, Approved, NotApproved
    <3>3. InstanceType'
      BY <3>1
    <3> QED BY <3>2, <3>3 DEF AnswersType, EffectsType
  <2>5. ASSUME NEW i \in Processes, Answer(p, i) PROVE AgentTypeInv'
    <3>1. ProcessType' /\ InstanceType' /\ EffectsType'
      BY <2>5 DEF Answer, EffectsType
    <3>2. AnswersType'
      <4>1. PICK approved \in BOOLEAN :
              answers' = answers \cup {[call |-> CallOf(i), by |-> p, approved |-> approved]}
        BY <2>5, Zenon DEF Answer
      <4> QED BY <1>0, <4>1 DEF AnswersType
    <3> QED BY <3>1, <3>2
  <2>6. ASSUME NEW i \in Processes, Execute(p, i) \/ ExecuteAndStop(p, i) PROVE AgentTypeInv'
    <3>1. ProcessType' /\ InstanceType' /\ AnswersType'
      <4>1. CASE Execute(p, i)
        BY <4>1 DEF Execute, Carries, AnswersType
      <4>2. CASE ExecuteAndStop(p, i)
        BY <4>2 DEF ExecuteAndStop, Ends, AnswersType
      <4> QED
        BY <2>6, <4>1, <4>2
    <3>2. TakesEffect(p, i)
      BY <2>6 DEF Execute, ExecuteAndStop
    <3>3. EffectsType'
      BY <1>0, <3>2 DEF TakesEffect, EffectsType
    <3> QED BY <3>1, <3>3
  <2> QED BY <2>1, <2>2, <2>3, <2>4, <2>5, <2>6
<1> QED BY <1>1, <1>2

LEMMA AgentInvStep == AgentInv /\ [AgentNext]_agentVars => AgentInv'
<1> SUFFICES ASSUME AgentInv, [AgentNext]_agentVars PROVE AgentInv'
  OBVIOUS
<1>1. AgentTypeInv'
  BY AgentTypeStep DEF AgentInv
<1> USE DEF AgentTypeInv, ProcessType, InstanceType, AgentStages
<1>2. CASE UNCHANGED agentVars
  <2>1. UNCHANGED <<process, instance, answers, effects>>
    BY <1>2 DEF agentVars
  <2>2. AnswersInv'
    BY <2>1 DEF AgentInv, AnswersInv, HasApproval, CallOf
  <2>3. EffectsInv'
    BY <2>1 DEF AgentInv, EffectsInv, HasApproval, Behind
  <2> QED BY <1>1, <2>2, <2>3 DEF AgentInv
<1>3. CASE AgentNext
  <2> PICK p \in Processes :
        \/ \E decision \in Choices : Start(p, decision)
        \/ Report(p) \/ GiveUp(p)
        \/ \E i \in Processes :
             \/ CallsInspect(p, i) \/ \E exact \in BOOLEAN : CallsExecute(p, i, exact)
             \/ Finishes(p, i) \/ Answer(p, i) \/ Approved(p, i) \/ NotApproved(p, i)
             \/ Execute(p, i) \/ ExecuteAndStop(p, i)
    BY <1>3 DEF AgentNext
  <2>1. ASSUME NEW decision \in Choices, Start(p, decision) PROVE AgentInv'
    <3>1. instance' = [instance EXCEPT ![p].at = "asking"]
      BY <2>1 DEF Start
    <3>2. /\ \A j \in Processes \ {p} : instance'[j] = instance[j]
          /\ instance'[p].at = "asking" /\ instance'[p].calls = instance[p].calls
          /\ instance[p].calls \in Nat
      BY <3>1 DEF AgentInv
    <3>3. \A q \in Processes :
            /\ process[q].at # "new" => process'[q] = process[q]
            /\ process[q].at = "ended" => process'[q].at = "ended"
      BY <2>1 DEF Start, AgentInv
    <3> QED BY <1>1, <2>1, <3>2, <3>3, Forward DEF Start
  <2>2. CASE Report(p) \/ GiveUp(p)
    <3>1. UNCHANGED <<instance, answers, effects>>
      BY <2>2 DEF Report, GiveUp
    <3>2. \A q \in Processes :
            /\ process[q].at # "new" => process'[q].at # "new"
            /\ process'[q].decision = process[q].decision
            /\ process[q].at = "ended" => process'[q].at = "ended"
      <4>1. PICK to \in {"reported", "ended"} :
              process' = [process EXCEPT ![p].at = to] /\ process[p].at # "ended"
        BY <2>2 DEF Report, GiveUp, Ends, Up
      <4> QED BY <4>1 DEF AgentInv
    <3>3. /\ instance[p].calls \in Nat
          /\ instance'[p].at = "executing" => HasApproval(CallOf(p))'
      BY <3>1 DEF AgentInv, AnswersInv, HasApproval, CallOf
    <3> QED BY <1>1, <3>1, <3>2, <3>3, Forward
  <2>3. ASSUME NEW i \in Processes,
               CallsInspect(p, i) \/ \E exact \in BOOLEAN : CallsExecute(p, i, exact)
        PROVE  AgentInv'
    <3>1. /\ \A j \in Processes \ {i} : instance'[j] = instance[j]
          /\ instance'[i].at \in {"asking", "pending"}
          /\ instance'[i].calls = instance[i].calls + 1 /\ instance[i].calls \in Nat
          /\ UNCHANGED <<process, answers, effects>>
      BY <2>3 DEF CallsInspect, CallsExecute, Chooses, HookDecision, AgentInv
    <3> QED BY <1>1, <3>1, Forward
  <2>4. ASSUME NEW i \in Processes, Finishes(p, i) \/ NotApproved(p, i)
        PROVE  AgentInv'
    <3>1. /\ \A j \in Processes \ {i} : instance'[j] = instance[j]
          /\ instance'[i].at \in {"asking", "done"}
          /\ instance'[i].calls = instance[i].calls /\ instance[i].calls \in Nat
          /\ UNCHANGED <<process, answers, effects>>
      BY <2>4 DEF Finishes, NotApproved, Carries, AgentInv
    <3> QED BY <1>1, <3>1, Forward
  <2>5. ASSUME NEW i \in Processes, Approved(p, i) PROVE AgentInv'
    <3>1. /\ \A j \in Processes \ {i} : instance'[j] = instance[j]
          /\ instance[i].at = "pending" /\ CallOf(i)' = CallOf(i)
          /\ instance'[i].calls = instance[i].calls /\ instance[i].calls \in Nat
          /\ UNCHANGED <<process, answers, effects>>
      BY <2>5 DEF Approved, Carries, AgentInv, CallOf
    <3>2. HasApproval(CallOf(i))'
      BY <2>5, <3>1 DEF Approved, HasApproval
    <3> QED BY <1>1, <3>1, <3>2, Forward
  <2>6. ASSUME NEW i \in Processes, Answer(p, i) PROVE AgentInv'
    <3>1. /\ UNCHANGED <<instance, effects>> /\ answers \subseteq answers'
          /\ \A a \in answers' \ answers :
               a.by = p /\ (a.approved => process[p].decision = "approve")
      <4> DEFINE yes == process[p].decision = "approve"
      <4> DEFINE answer == [call |-> CallOf(i), by |-> p, approved |-> yes]
      <4>1. answers' = answers \cup {answer}
        BY <2>6 DEF Answer
      <4>3. answer.by = p /\ (answer.approved => yes)
        <5> HIDE DEF yes
        <5> QED OBVIOUS
      <4> HIDE DEF answer
      <4>2. UNCHANGED <<instance, effects>>
        BY <2>6 DEF Answer
      <4> QED BY <4>1, <4>2, <4>3
    <3>2. \A q \in Processes :
            /\ process[q].at # "new" => process'[q].at # "new"
            /\ process'[q].decision = process[q].decision
            /\ process'[q].at = "ended" <=> process[q].at = "ended"
      BY <2>6 DEF Answer, AgentInv
    <3>3. process'[p].at # "new"
      BY <2>6 DEF Answer, AgentInv
    <3>4. AnswersInv'
      <4>1. \A a \in answers' : /\ process'[a.by].at # "new"
                                /\ a.approved => process'[a.by].decision = "approve"
        <5> SUFFICES ASSUME NEW a \in answers'
                     PROVE  /\ process'[a.by].at # "new"
                            /\ a.approved => process'[a.by].decision = "approve"
          OBVIOUS
        <5>1. CASE a \in answers
          <6>1. a.by \in Processes
            BY <5>1 DEF AgentInv, AnswersType
          <6> QED BY <3>2, <5>1, <6>1 DEF AgentInv, AnswersInv
        <5>2. CASE a \notin answers
          BY <3>1, <3>2, <3>3, <5>2
        <5> QED BY <5>1, <5>2
      <4>2. \A j \in Processes : instance'[j].at = "executing" => HasApproval(CallOf(j))'
        BY <3>1 DEF AgentInv, AnswersInv, HasApproval, CallOf
      <4> QED BY <4>1, <4>2 DEF AnswersInv
    <3>5. EffectsInv'
      BY <3>1, <3>2 DEF AgentInv, EffectsInv, HasApproval, Behind
    <3> QED BY <1>1, <3>4, <3>5 DEF AgentInv
  <2>7. ASSUME NEW i \in Processes, Execute(p, i) \/ ExecuteAndStop(p, i) PROVE AgentInv'
    BY <1>1, <2>7, Effect DEF Execute, ExecuteAndStop, Carries
  <2> QED BY <2>1, <2>2, <2>3, <2>4, <2>5, <2>6, <2>7
<1> QED BY <1>2, <1>3

(***************************************************************************)
(* Every effect of a live agent is of the exact remediation and approved,  *)
(* and is reported at most once (incident_runtime.py, live_smoke.py).      *)
(***************************************************************************)
THEOREM EffectsAreExplained == AgentSpec => []EffectsExplained
<1>1. AgentInv => EffectsExplained
  <2> SUFFICES ASSUME AgentInv PROVE EffectsExplained
    OBVIOUS
  <2>1. ASSUME NEW p \in Processes, NEW c \in effects[p]
        PROVE  /\ c.exact
               /\ \E a \in answers : /\ a.call = c /\ a.approved
                                     /\ process[p].decision = "deny" => a.by # p
    <3> PICK a \in answers : a.call = c /\ a.approved
      BY <2>1 DEF AgentInv, EffectsInv, HasApproval
    <3>1. process[a.by].decision = "approve"
      BY DEF AgentInv, AnswersInv
    <3> QED BY <2>1, <3>1 DEF AgentInv, EffectsInv
  <2> QED BY <2>1 DEF EffectsExplained, AgentInv, EffectsInv
<1> QED
  BY <1>1, AgentInvInitial, AgentInvStep, PTL DEF AgentSpec

-----------------------------------------------------------------------------

(***************************************************************************)
(* AbsenceProven for every set of resources and every number of            *)
(* deployments.  The argument: an id that outlives its stack was captured  *)
(* or missed by the teardown that asked for the deletion (Accounted), and  *)
(* a teardown gives its captured ids up only by verifying all of them or   *)
(* by ending without a report.                                             *)
(***************************************************************************)
Steps == {"idle", "rate", "rate_wait", "main", "main_wait", "verify"}

CloudTypeInv ==
  /\ stacks \in [Names -> {"absent", "complete", "failed", "deleting"}]
  /\ owned \subseteq Ids(Kinds)
  /\ script.at \in Steps

\* What a teardown in progress knows.
ScriptInv ==
  /\ script.at = "idle" => script = Idle
  /\ reported => script = Idle
  /\ script.at \in {"main", "main_wait", "verify"} => stacks["rate"] = "absent"
  /\ script.at = "verify" => stacks["main"] = "absent"
  /\ script.mainExists => Capturable \subseteq missed \cup script.captured
  /\ script.verified \cap existing = {}
  /\ reported => \A n \in Names : stacks[n] = "absent"

Accounted(id) == id \in missed \cup abandoned \cup script.captured

\* Ids outside the last stack, and all ids once its deletion is asked for.
ExistingInv ==
  \A id \in existing : id[1] \in Verifiable =>
    \/ Accounted(id)
    \/ id \in owned /\ stacks["main"] \in {"complete", "failed"}

CloudInv == CloudTypeInv /\ ScriptInv /\ ExistingInv

LEMMA CloudInvInitial == CloudInit => CloudInv
  BY DEF CloudInit, CloudInv, CloudTypeInv, ScriptInv, ExistingInv, Idle, Steps, Names, Ids, Id, Capturable

\* Only the deployments and the deletions touch a stack or its resources.
LEMMA CloudInvStep == CloudInv /\ [CloudNext]_cloudVars => CloudInv'
<1> SUFFICES ASSUME CloudInv, [CloudNext]_cloudVars PROVE CloudInv'
  OBVIOUS
<1> USE DEF CloudInv, CloudTypeInv, ScriptInv, ExistingInv, Accounted
<1>1. CASE \E created \in SUBSET Kinds : DeployMain(created)
  <2> PICK created \in SUBSET Kinds : DeployMain(created)
    BY <1>1
  <2>1. CloudTypeInv'
    BY DEF DeployMain, Ids, Id, Names, Steps
  <2>2. ScriptInv'
    BY DEF DeployMain, Idle, Names
  <2>3. ExistingInv'
    <3> SUFFICES ASSUME NEW id \in existing', id[1] \in Verifiable
                 PROVE Accounted(id)' \/ (id \in owned' /\ stacks'["main"] \in {"complete", "failed"})
      OBVIOUS
    <3>1. stacks'["main"] \in {"complete", "failed"}
      BY DEF DeployMain, Names
    <3>2. CASE id \in existing
      BY <3>2 DEF DeployMain
    <3>3. CASE id \in owned'
      BY <3>1, <3>3
    <3> QED BY <3>2, <3>3 DEF DeployMain
  <2> QED BY <2>1, <2>2, <2>3
<1>2. CASE DeployRate
  BY <1>2 DEF DeployRate, Names, Steps, Ids, Id, Idle, Capturable
<1>3. CASE \E n \in Names, left \in SUBSET (owned \cap existing), status \in {"absent", "failed"} :
             DeletionEnds(n, left, status)
  <2> PICK n \in Names, left \in SUBSET (owned \cap existing), status \in {"absent", "failed"} :
             DeletionEnds(n, left, status)
    BY <1>3
  <2>1. existing' \subseteq existing
    BY DEF DeletionEnds
  <2>2. CloudTypeInv'
    BY DEF DeletionEnds, Ids, Id, Names
  <2>3. ScriptInv'
    BY <2>1 DEF DeletionEnds, Capturable, Ids, Id, Names
  <2>4. ExistingInv'
    <3>1. CASE n = "main"
      BY <2>1, <3>1 DEF DeletionEnds, Names
    <3>2. CASE n = "rate"
      BY <2>1, <3>2 DEF DeletionEnds, Names
    <3> QED BY <3>1, <3>2 DEF Names
  <2> QED BY <2>2, <2>3, <2>4
<1>4. CASE \E listed \in BOOLEAN : ReadMain(listed)
  <2> PICK listed \in BOOLEAN : ReadMain(listed)
    BY <1>4
  <2>1. CloudTypeInv'
    BY DEF ReadMain, Cloud, Ids, Id, Steps
  <2>2. ScriptInv'
    BY DEF ReadMain, Cloud, Capturable, Ids, Id, Idle
  <2>3. ExistingInv'
    BY DEF ReadMain, Cloud, Idle
  <2> QED BY <2>1, <2>2, <2>3
<1>5. CASE DeleteRate
  BY <1>5 DEF DeleteRate, DeleteStack, Names, Steps, Ids, Id, Idle, Capturable
<1>6. CASE RateAbsent
  <2>1. /\ stacks["rate"] = "absent" /\ script.at # "idle"
        /\ script' = [script EXCEPT !.at = "main"]
        /\ UNCHANGED <<stacks, deployment, owned, existing, reported, missed, abandoned>>
    BY <1>6 DEF RateAbsent, Proceed, Cloud
  <2>2. /\ script'.at = "main" /\ script'.mainExists = script.mainExists
        /\ script'.captured = script.captured /\ script'.verified = script.verified
    BY <2>1
  <2>3. CloudTypeInv' /\ ExistingInv'
    BY <2>1, <2>2 DEF Ids, Id, Steps
  <2>4. ScriptInv'
    BY <2>1, <2>2 DEF Ids, Id, Capturable, Idle
  <2> QED BY <2>3, <2>4
<1>7. CASE DeleteMain
  <2>1. CloudTypeInv' /\ ScriptInv'
    BY <1>7 DEF DeleteMain, DeleteStack, Names, Steps, Ids, Id, Idle, Capturable
  <2>2. ExistingInv'
    <3> SUFFICES ASSUME NEW id \in existing, id[1] \in Verifiable
                 PROVE Accounted(id)'
      BY <1>7 DEF DeleteMain, DeleteStack
    <3>1. id \in owned => id \in Capturable
      BY DEF Capturable, Ids, Id
    <3> QED BY <1>7, <3>1 DEF DeleteMain, DeleteStack
  <2> QED BY <2>1, <2>2
<1>8. CASE MainAbsent
  <2>1. /\ stacks["main"] = "absent" /\ script.at # "idle"
        /\ stacks["rate"] = "absent"
        /\ script' = [script EXCEPT !.at = "verify"]
        /\ UNCHANGED <<stacks, deployment, owned, existing, reported, missed, abandoned>>
    BY <1>8 DEF MainAbsent, Proceed, Cloud
  <2>2. /\ script'.at = "verify" /\ script'.mainExists = script.mainExists
        /\ script'.captured = script.captured /\ script'.verified = script.verified
    BY <2>1
  <2>3. CloudTypeInv' /\ ExistingInv'
    BY <2>1, <2>2 DEF Ids, Id, Steps
  <2>4. ScriptInv'
    BY <2>1, <2>2 DEF Ids, Id, Capturable, Idle
  <2> QED BY <2>3, <2>4
<1>9. CASE \E id \in script.captured : Verify(id)
  BY <1>9 DEF Verify, Cloud, Steps, Ids, Id, Idle, Capturable
<1>10. CASE ReportSuccess
  BY <1>10 DEF ReportSuccess, Verified, Cloud, Steps, Ids, Id, Idle, Capturable, Names
<1>11. CASE End
  BY <1>11 DEF End, Cloud, Steps, Ids, Id, Idle, Capturable
<1>12. CASE UNCHANGED cloudVars
  BY <1>12 DEF cloudVars, Ids, Id, Capturable
<1> QED
  BY <1>1, <1>2, <1>3, <1>4, <1>5, <1>6, <1>7, <1>8, <1>9, <1>10, <1>11, <1>12 DEF CloudNext

(***************************************************************************)
(* A reported teardown proves absence exactly as far as AbsenceProven      *)
(* says, for every history (teardown.ps1).                                 *)
(***************************************************************************)
THEOREM ReportsAreExplained == CloudSpec => []AbsenceProven
<1>1. CloudInv => AbsenceProven
  BY DEF CloudInv, CloudTypeInv, ScriptInv, ExistingInv, Accounted, AbsenceProven, Idle, Names
<1> QED
  BY <1>1, CloudInvInitial, CloudInvStep, PTL DEF CloudSpec

-----------------------------------------------------------------------------

(***************************************************************************)
(* OneConversation for every number of runs of one session.  The two       *)
(* fields of the session are those of an earlier run while none is under   *)
(* way; once a tool call is accepted they are of its run, and its turn is  *)
(* later than any response id of a result.                                 *)
(***************************************************************************)
OwnFields ==
  run # NoRun =>
    /\ run.incident \in Incidents
    /\ run.call.turn \in Nat /\ run.call.turn <= turns
    /\ input = run.incident
    /\ first.incident = run.incident /\ first.turn = run.call.turn
    /\ \A r \in produced : r.responses[2] < run.call.turn

Numbered ==
  /\ turns \in Nat
  /\ \A r \in produced : /\ r.responses[1] \in Nat /\ r.responses[2] \in Nat
                         /\ r.responses[2] <= turns

SessionInv == Numbered /\ OwnFields /\ OneConversation

\* What is posted is of one conversation.
LEMMA PostKeeps ==
  ASSUME SessionInv, run # NoRun, Readable(run.incident, run.call), Post
  PROVE  \A p \in posted' : /\ p.first.incident = p.input
                            /\ p.first.turn = p.call.turn
                            /\ p.call.service = p.input.service
BY DEF SessionInv, OwnFields, OneConversation, Readable, ContextReadable, Post

\* A returned result is about its own run, and its ids are new.
LEMMA ReturnKeeps ==
  ASSUME SessionInv, NEW draft \in Drafts, ProposalReturned(draft)
  PROVE  Numbered' /\ OneConversation'
<1> DEFINE new == [proposal |-> FromDraft(run.incident, draft), incident |-> run.incident,
                   responses |-> <<run.call.turn, turns + 1>>]
<1>1. /\ run # NoRun /\ Readable(run.incident, run.call) /\ Post
      /\ produced' = produced \cup {new} /\ turns' = turns + 1
  BY DEF ProposalReturned, Answered
<1>2. /\ new.incident = run.incident /\ new.responses[1] = run.call.turn
      /\ new.responses[2] = turns + 1
      /\ new.proposal.incident_id = run.incident.incident_id
      /\ new.proposal.remedy = draft.remedy
  BY DEF FromDraft, Proposal
<1>3. draft.remedy = Runbooks[run.incident.service]
  <2>1. "service" \in DOMAIN run.incident /\ run.call.service = run.incident.service
    BY <1>1, SessionIncidents DEF SessionInv, OwnFields, Readable, ContextReadable
  <2>2. [run.incident EXCEPT !.service = run.call.service].service = run.call.service
    BY <2>1
  <2> QED
    BY <2>1, <2>2 DEF ProposalReturned, DraftPermitted
<1>4. /\ turns \in Nat /\ run.call.turn \in Nat /\ run.call.turn <= turns
      /\ \A r \in produced : /\ r.responses[1] \in Nat /\ r.responses[2] \in Nat
                             /\ r.responses[1] < r.responses[2]
                             /\ r.responses[2] < run.call.turn
  BY <1>1 DEF SessionInv, Numbered, OwnFields, OneConversation
<1> HIDE DEF new
<1>5. Numbered'
  BY <1>1, <1>2, <1>4 DEF Numbered
<1>6. \A r \in produced' : \A q \in produced' \ {r} :
        {r.responses[1], r.responses[2]} \cap {q.responses[1], q.responses[2]} = {}
  <2> SUFFICES ASSUME NEW r \in produced', NEW q \in produced', r # q
               PROVE  {r.responses[1], r.responses[2]}
                        \cap {q.responses[1], q.responses[2]} = {}
    OBVIOUS
  <2>1. CASE r \in produced /\ q \in produced
    BY <2>1 DEF SessionInv, OneConversation
  <2>2. CASE r \in produced /\ q = new
    BY <1>2, <1>4, <2>2
  <2>3. CASE r = new /\ q \in produced
    BY <1>2, <1>4, <2>3
  <2> QED
    BY <1>1, <2>1, <2>2, <2>3
<1>7. \A r \in produced' : /\ r.proposal.remedy = Runbooks[r.incident.service]
                           /\ r.proposal.incident_id = r.incident.incident_id
                           /\ r.responses[1] < r.responses[2]
  BY <1>1, <1>2, <1>3, <1>4 DEF SessionInv, OneConversation
<1> QED
  BY <1>1, <1>5, <1>6, <1>7, PostKeeps DEF OneConversation

LEMMA SessionInvStep ==
  ASSUME SessionInv, [SessionNext]_sessionVars
  PROVE  SessionInv'
<1>1. ASSUME NEW i \in Incidents, NEW kept \in BOOLEAN, ToolRefused(i, kept)
      PROVE  SessionInv'
  BY <1>1 DEF ToolRefused, Answered, SessionInv, Numbered, OwnFields, OneConversation
<1>2. ASSUME NEW i \in Incidents, NEW call \in ToolCall,
             ToolCalled(i, call.known, call.service)
      PROVE  SessionInv'
  <2>1. /\ turns \in Nat /\ turns' = turns + 1 /\ input' = i
        /\ first'.turn = turns + 1 /\ first'.incident = i
        /\ run'.incident = i /\ run'.call.turn = turns + 1
        /\ UNCHANGED <<posted, produced>>
    BY <1>2 DEF ToolCalled, Answered, FirstOutput, SessionInv, Numbered
  <2> QED
    BY <2>1 DEF SessionInv, Numbered, OwnFields, OneConversation
<1>3. CASE CallRefused
  BY <1>3 DEF CallRefused, SessionInv, Numbered, OwnFields, OneConversation
<1>4. CASE ProposalRefused
  <2>1. Numbered' /\ OwnFields'
    BY <1>4 DEF ProposalRefused, Answered, SessionInv, Numbered, OwnFields
  <2> QED
    BY <1>4, <2>1, PostKeeps DEF ProposalRefused, SessionInv, OneConversation
<1>5. ASSUME NEW draft \in Drafts, ProposalReturned(draft)
      PROVE  SessionInv'
  <2>1. run' = NoRun
    BY <1>5 DEF ProposalReturned
  <2> QED
    BY <1>5, <2>1, ReturnKeeps DEF SessionInv, OwnFields
<1>6. CASE UNCHANGED sessionVars
  BY <1>6 DEF sessionVars, SessionInv, Numbered, OwnFields, OneConversation
<1> QED
  BY <1>1, <1>2, <1>3, <1>4, <1>5, <1>6 DEF SessionNext

(***************************************************************************)
(* However many runs a model session is used for and wherever they raise,  *)
(* a proposal request carries one conversation and a result is the         *)
(* permitted remediation of its own incident (openai_responses.py under    *)
(* BoundedIncidentAgent.run).                                              *)
(***************************************************************************)
THEOREM SessionsAreOneConversation == SessionSpec => []OneConversation
<1>1. SessionInit => SessionInv
  BY DEF SessionInit, SessionInv, Numbered, OwnFields, OneConversation
<1>2. SessionInv => OneConversation
  BY DEF SessionInv
<1> QED
  BY <1>1, <1>2, SessionInvStep, PTL DEF SessionSpec

-----------------------------------------------------------------------------

(***************************************************************************)
(* A certified copy is faithful to its evidence, for all texts, files and  *)
(* directories that EvidenceAssumption allows.  The argument: the private  *)
(* texts never change, so whatever scripts ended early, the candidate is   *)
(* what redaction makes of some files G, a script has read all of such a   *)
(* G, and every copy is of one G whose categories do not overlap           *)
(* (PublicationInv).  In such a copy an identifier becomes its alias and   *)
(* nothing else, because aliases are public and sources are not; aliases   *)
(* are numbered injectively; an atom that stays is in no source; a moment  *)
(* becomes its distance to the one earliest moment of G, less what its     *)
(* precision does not show; and sanitizing changes of what was replaced    *)
(* only the fields it drops or writes anew.                                *)
(***************************************************************************)
\* What the candidate holds of the files G.
Reading(G) == [f \in G |-> Redacted(text[f])]

PublicValue(C, v) == ReplaceMany(Shifted(v, Times(C)), Replacements(C))

PublicObject(C, o) == [k \in DOMAIN o |-> PublicValue(C, o[k])]

PublicObjects(C, f, s) ==
  [i \in DOMAIN s |-> IF f \in EventFiles THEN Sanitized(PublicObject(C, s[i]))
                                          ELSE PublicObject(C, s[i])]

\* The copy d is of the files G, so far.
CopyOf(d, G) ==
  /\ DOMAIN copies[d] \ Added \subseteq G
  /\ \A f \in DOMAIN copies[d] \ Added :
       copies[d][f] = PublicObjects(Reading(G), f, Redacted(text[f]))
  /\ Certified(d) => /\ DOMAIN copies[d] \ Added = G
                     /\ copies[d]["manifest"][1].value = Cardinality(G)

Settled(d) ==
  \/ copies[d] = <<>>
  \/ \E G \in SUBSET Files : ~Overlapping(Reading(G)) /\ CopyOf(d, G)

\* A script writes to d what it has read of the files G.
Publicizing(d, G) ==
  /\ G \in SUBSET Files
  /\ publishing.name = "publicize" /\ publishing.copy = {d}
  /\ publishing.contents = Reading(G) /\ ~Overlapping(Reading(G))
  /\ CopyOf(d, G)
  /\ publishing.todo = G \ (DOMAIN copies[d] \ Added)

AtRest ==
  \/ publishing = NoScript
  \/ publishing.name = "redact" /\ publishing.todo \subseteq private

PublicationInv ==
  /\ text \in Evidence /\ private \subseteq Files
  /\ DOMAIN copies = Copies
  /\ \E G \in SUBSET private : candidate = Reading(G)
  /\ AtRest \/ (\E d \in Copies : \E G : Publicizing(d, G))
  /\ \A d \in Copies : Settled(d)

LEMMA PublicationStarts == PublicationInit => PublicationInv
<1> SUFFICES ASSUME PublicationInit PROVE PublicationInv
  OBVIOUS
<1>1. candidate = Reading({})
  BY DEF PublicationInit, Reading
<1> QED
  BY <1>1 DEF PublicationInit, PublicationInv, AtRest, Settled

LEMMA ReadingSame ==
  ASSUME text' = text
  PROVE  \A G : Reading(G)' = Reading(G)
BY DEF Reading

LEMMA CopySame ==
  ASSUME text' = text, NEW d, copies'[d] = copies[d]
  PROVE  /\ \A G : CopyOf(d, G)' <=> CopyOf(d, G)
         /\ Settled(d)' <=> Settled(d)
<1>1. \A G : CopyOf(d, G)' <=> CopyOf(d, G)
  BY ReadingSame DEF CopyOf, Certified
<1> QED
  BY <1>1, ReadingSame DEF Settled

LEMMA PublicizingSame ==
  ASSUME text' = text, copies' = copies, publishing' = publishing,
         NEW d, NEW G, Publicizing(d, G)
  PROVE  Publicizing(d, G)'
BY ReadingSame, CopySame DEF Publicizing

\* Another file of the candidate.
LEMMA PutReading ==
  ASSUME NEW G, NEW f
  PROVE  Put(Reading(G), f, Redacted(text[f])) = Reading(G \cup {f})
BY DEF Put, Reading

LEMMA PublicTextIs ==
  ASSUME NEW G, NEW f \in G, publishing.contents = Reading(G)
  PROVE  PublicText(f) = PublicObjects(Reading(G), f, Redacted(text[f]))
<1> DEFINE C == publishing.contents
           s == Redacted(text[f])
<1>1. C = Reading(G) /\ C[f] = s
  BY DEF Reading
<1>2. PublicText(f) = PublicObjects(C, f, C[f])
  BY DEF PublicText, Read, PublicObjects, PublicObject, PublicValue
<1> QED
  BY <1>1, <1>2

\* What another file adds to a copy.
LEMMA AddedFile ==
  ASSUME NEW d, NEW f, NEW t, DOMAIN copies = Copies, d \in Copies,
         copies' = [copies EXCEPT ![d] = Put(@, f, t)]
  PROVE  /\ DOMAIN copies' = Copies
         /\ \A e \in Copies \ {d} : copies'[e] = copies[e]
         /\ DOMAIN copies'[d] = DOMAIN copies[d] \cup {f}
         /\ copies'[d][f] = t
         /\ \A g \in DOMAIN copies[d] \ {f} : copies'[d][g] = copies[d][g]
BY DEF Put

LEMMA PublicationStep ==
  ASSUME PublicationInv, [PublicationNext]_publicationVars
  PROVE  PublicationInv'
<1>0. /\ text \in Evidence /\ private \subseteq Files
      /\ DOMAIN copies = Copies
      /\ AtRest \/ (\E d \in Copies : \E G : Publicizing(d, G))
      /\ \A d \in Copies : Settled(d)
  BY DEF PublicationInv
<1>00. PICK held \in SUBSET private : candidate = Reading(held)
  BY DEF PublicationInv
<1>1. ASSUME text' = text, copies' = copies, private \subseteq private', private' \subseteq Files,
             AtRest' \/ (\E d \in Copies : \E G : Publicizing(d, G))',
             NEW G \in SUBSET private', candidate' = Reading(G)
      PROVE  PublicationInv'
  BY <1>0, <1>1, ReadingSame, CopySame DEF PublicationInv
<1>2. CASE UNCHANGED publicationVars
  <2>1. AtRest' \/ (\E d \in Copies : \E G : Publicizing(d, G))'
    BY <1>0, <1>2, PublicizingSame DEF publicationVars, AtRest
  <2> QED
    BY <1>0, <1>00, <1>1, <1>2, <2>1 DEF publicationVars
<1>3. ASSUME NEW f \in Files, Record(f)
      PROVE  PublicationInv'
  <2>1. AtRest'
    BY <1>3 DEF Record, AtRest
  <2> QED
    BY <1>0, <1>00, <1>1, <1>3, <2>1 DEF Record
<1>4. CASE StartRedaction
  <2>1. AtRest'
    BY <1>4 DEF StartRedaction, AtRest, NoScript
  <2> QED
    BY <1>0, <1>00, <1>1, <1>4, <2>1 DEF StartRedaction
<1>5. ASSUME NEW f \in Files, RedactFile(f)
      PROVE  PublicationInv'
  <2>1. publishing.name = "redact" /\ publishing.todo \subseteq private
    BY <1>0, <1>5 DEF RedactFile, Publicizing, AtRest, NoScript
  <2>2. AtRest'
    BY <1>5, <2>1 DEF RedactFile, AtRest
  <2>3. candidate' = Reading(held \cup {f}) /\ held \cup {f} \in SUBSET private
    BY <1>00, <1>5, <2>1, PutReading DEF RedactFile
  <2> QED
    BY <1>0, <1>1, <1>5, <2>2, <2>3 DEF RedactFile
<1>6. ASSUME NEW d \in Copies, StartPublication(d)
      PROVE  PublicationInv'
  <2>1. DOMAIN candidate = held /\ DOMAIN copies[d] = {}
    BY <1>6, <1>00 DEF StartPublication, Reading
  <2>2. publishing' = [name |-> "publicize", todo |-> held, copy |-> {d}, contents |-> Reading(held)]
        /\ ~Overlapping(Reading(held)) /\ text' = text /\ copies' = copies
    BY <1>6, <1>00, <2>1 DEF StartPublication
  <2>3. CopyOf(d, held)
    BY <2>1 DEF CopyOf, Certified
  <2>4. Publicizing(d, held)'
    BY <1>0, <2>1, <2>2, <2>3, ReadingSame, CopySame DEF Publicizing
  <2> QED
    BY <1>0, <1>00, <1>1, <1>6, <2>4 DEF StartPublication
<1>7. CASE ScriptEnds
  <2>1. AtRest'
    BY <1>7 DEF ScriptEnds, AtRest
  <2> QED
    BY <1>0, <1>00, <1>1, <1>7, <2>1 DEF ScriptEnds
<1>8. ASSUME NEW d \in Copies, NEW f, NEW t, Adding(d, f, t)
      PROVE  \E G : /\ Publicizing(d, G) /\ text' = text
                    /\ (AtRest' \/ Publicizing(d, G)') /\ CopyOf(d, G)' => PublicationInv'
  <2>1. PICK G : Publicizing(d, G)
    BY <1>0, <1>8 DEF Adding, Publicizing, AtRest, NoScript
  <2>2. /\ DOMAIN copies' = Copies
        /\ \A e \in Copies \ {d} : copies'[e] = copies[e]
    BY <1>0, <1>8, AddedFile DEF Adding
  <2>3. ASSUME CopyOf(d, G)' PROVE \A e \in Copies : Settled(e)'
    BY <1>0, <1>8, <2>1, <2>2, <2>3, ReadingSame, CopySame DEF Adding, Settled, Publicizing
  <2> QED
    BY <1>0, <1>00, <1>8, <2>1, <2>2, <2>3, ReadingSame DEF Adding, PublicationInv
<1>9. ASSUME NEW d \in Copies, NEW f \in Files, PublicizeFile(d, f)
      PROVE  PublicationInv'
  <2>1. PICK G : /\ Publicizing(d, G) /\ text' = text
                 /\ (AtRest' \/ Publicizing(d, G)') /\ CopyOf(d, G)' => PublicationInv'
    BY <1>8, <1>9 DEF PublicizeFile
  <2>2. /\ f \in G \ (DOMAIN copies[d] \ Added) /\ f \notin Added
        /\ publishing' = [publishing EXCEPT !.todo = @ \ {f}]
    BY <1>9, <2>1, EvidenceAssumption DEF PublicizeFile, Publicizing
  <2>3. /\ DOMAIN copies'[d] = DOMAIN copies[d] \cup {f}
        /\ copies'[d][f] = PublicObjects(Reading(G), f, Redacted(text[f]))
        /\ \A g \in DOMAIN copies[d] \ {f} : copies'[d][g] = copies[d][g]
    <3>1. copies' = [copies EXCEPT ![d] = Put(@, f, PublicText(f))]
      BY <1>9 DEF PublicizeFile, Adding
    <3>2. PublicText(f) = PublicObjects(Reading(G), f, Redacted(text[f]))
      BY <2>1, <2>2, PublicTextIs DEF Publicizing
    <3> QED
      BY <1>0, <3>1, <3>2 DEF Put
  <2>4. ~Certified(d)
    BY <2>1, <2>2 DEF Publicizing, CopyOf
  <2>5. CopyOf(d, G)'
    BY <2>1, <2>2, <2>3, <2>4, ReadingSame DEF Publicizing, CopyOf, Certified, Added
  <2>6. Publicizing(d, G)'
    BY <2>1, <2>2, <2>3, <2>5, ReadingSame DEF Publicizing
  <2> QED
    BY <2>1, <2>5, <2>6
<1>10. ASSUME NEW d \in Copies, WriteManifest(d)
       PROVE  PublicationInv'
  <2>1. PICK G : /\ Publicizing(d, G) /\ text' = text
                 /\ (AtRest' \/ Publicizing(d, G)') /\ CopyOf(d, G)' => PublicationInv'
    BY <1>8, <1>10 DEF WriteManifest
  <2>2. DOMAIN copies[d] \ Added = G /\ Manifest[1].value = Cardinality(G)
    BY <1>10, <2>1 DEF WriteManifest, Publicizing, CopyOf, Manifest, Field, Reading
  <2>3. /\ DOMAIN copies'[d] = DOMAIN copies[d] \cup {"manifest"}
        /\ copies'[d]["manifest"] = Manifest
        /\ \A g \in DOMAIN copies[d] \ {"manifest"} : copies'[d][g] = copies[d][g]
    BY <1>0, <1>10 DEF WriteManifest, Adding, Put
  <2>4. CopyOf(d, G)'
    BY <2>1, <2>2, <2>3, ReadingSame DEF Publicizing, CopyOf, Certified, Added
  <2>5. Publicizing(d, G)'
    BY <1>10, <2>1, <2>2, <2>3, <2>4, ReadingSame DEF Publicizing, WriteManifest, Added
  <2> QED
    BY <2>1, <2>4, <2>5
<1>11. ASSUME NEW d \in Copies, CopyReadme(d)
       PROVE  PublicationInv'
  <2>1. PICK G : /\ Publicizing(d, G) /\ text' = text
                 /\ (AtRest' \/ Publicizing(d, G)') /\ CopyOf(d, G)' => PublicationInv'
    BY <1>8, <1>11 DEF CopyReadme
  <2>2. /\ DOMAIN copies'[d] = DOMAIN copies[d] \cup {"README"}
        /\ \A g \in DOMAIN copies[d] \ {"README"} : copies'[d][g] = copies[d][g]
    BY <1>0, <1>11, AddedFile DEF CopyReadme, Adding
  <2>3. CopyOf(d, G)'
    BY <1>11, <2>1, <2>2, ReadingSame DEF Publicizing, CopyOf, Certified, Added, CopyReadme
  <2>4. AtRest'
    BY <1>11 DEF CopyReadme, AtRest
  <2> QED
    BY <2>1, <2>3, <2>4
<1> QED
  BY <1>2, <1>3, <1>4, <1>5, <1>6, <1>7, <1>9, <1>10, <1>11 DEF PublicationNext

\* Names for the parts of ReplaceLength.
Found(v, r, n) == {i \in DOMAIN v : /\ i + n <= Len(v) + 1
                                    /\ SubSeq(v, i, i + n - 1) \in DOMAIN r}

Kept(v, r, n) == {i \in DOMAIN v : \A j \in Found(v, r, n) : i <= j \/ i >= j + n}

LEMMA ReplaceLengthIs ==
  ASSUME NEW v, NEW r, NEW n
  PROVE  ReplaceLength(v, r, n) =
           [k \in 1..Cardinality(Kept(v, r, n)) |->
              IF Nth(Kept(v, r, n), k) \in Found(v, r, n)
                THEN r[SubSeq(v, Nth(Kept(v, r, n), k), Nth(Kept(v, r, n), k) + n - 1)]
                ELSE v[Nth(Kept(v, r, n), k)]]
BY DEF ReplaceLength, Found, Kept

LEMMA NothingFound ==
  ASSUME NEW T, NEW v \in Seq(T), NEW r, NEW n \in Nat \ {0},
         \A i \in DOMAIN v : i + n <= Len(v) + 1 => SubSeq(v, i, i + n - 1) \notin DOMAIN r
  PROVE  ReplaceLength(v, r, n) = v
<1> DEFINE found == Found(v, r, n)
           kept == Kept(v, r, n)
<1>1. \A i : i \notin found
  BY DEF Found
<1>2. kept = 1..Len(v) /\ Len(v) \in Nat
  BY <1>1 DEF Kept
<1>3. \A m \in Nat : IsFiniteSet(1..m) /\ Cardinality(1..m) = m
  BY FS_Interval
<1>5. ReplaceLength(v, r, n) =
        [k \in 1..Cardinality(kept) |->
              IF Nth(kept, k) \in found
                THEN r[SubSeq(v, Nth(kept, k), Nth(kept, k) + n - 1)]
                ELSE v[Nth(kept, k)]]
  BY ReplaceLengthIs
<1> HIDE DEF kept, found
<1>4. ASSUME NEW k \in 1..Len(v) PROVE Nth(kept, k) = k
  <2>1. ASSUME NEW i \in kept PROVE Cardinality({j \in kept : j <= i}) = i
    <3>1. {j \in kept : j <= i} = 1..i /\ i \in Nat
      BY <1>2
    <3> QED
      BY <3>1, <1>3
  <2> QED
    BY <1>2, <2>1 DEF Nth
<1>6. Cardinality(kept) = Len(v)
  BY <1>2, <1>3
<1>7. ReplaceLength(v, r, n) = [k \in 1..Len(v) |-> v[k]]
  BY <1>1, <1>4, <1>5, <1>6
<1> QED
  BY <1>7

LEMMA OneNth == Cardinality({1}) = 1 /\ Nth({1}, 1) = 1
<1>1. Cardinality({1}) = 1
  BY FS_Singleton
<1>2. {j \in {1} : j <= 1} = {1}
  OBVIOUS
<1>3. Cardinality({j \in {1} : j <= 1}) = 1
  BY <1>1, <1>2
<1>4. Nth({1}, 1) = CHOOSE i \in {1} : Cardinality({j \in {1} : j <= i}) = 1
  BY DEF Nth
<1>5. \E i \in {1} : Cardinality({j \in {1} : j <= i}) = 1
  BY <1>3
<1>6. Nth({1}, 1) \in {1}
  BY <1>4, <1>5
<1> QED
  BY <1>1, <1>6

LEMMA WholeFound ==
  ASSUME NEW T, NEW v \in Seq(T), NEW r, v \in DOMAIN r, Len(v) # 0
  PROVE  ReplaceLength(v, r, Len(v)) = <<r[v]>>
<1> DEFINE n == Len(v)
           found == Found(v, r, n)
           kept == Kept(v, r, n)
<1>0. n \in Nat /\ n > 0 /\ DOMAIN v = 1..n
  OBVIOUS
<1>1. SubSeq(v, 1, n) = v
  OBVIOUS
<1>2. 1 \in found
  <2>1. SubSeq(v, 1, 1 + n - 1) = v
    BY <1>0, <1>1
  <2>2. 1 \in DOMAIN v /\ 1 + n <= Len(v) + 1
    BY <1>0
  <2> HIDE DEF n
  <2>3. SubSeq(v, 1, 1 + n - 1) \in DOMAIN r
    BY <2>1
  <2> QED
    BY <2>2, <2>3 DEF Found
<1>3. \A i \in found : i = 1
  BY <1>0 DEF Found
<1>4. \A i : i \in kept <=> i = 1
  BY <1>0, <1>2, <1>3 DEF Kept
<1>5. kept = {1}
  <2> HIDE DEF kept
  <2> QED
    BY <1>4
<1>6. ReplaceLength(v, r, n) =
        [k \in 1..Cardinality(kept) |->
              IF Nth(kept, k) \in found
                THEN r[SubSeq(v, Nth(kept, k), Nth(kept, k) + n - 1)]
                ELSE v[Nth(kept, k)]]
  BY ReplaceLengthIs
<1>7. SubSeq(v, 1, 1 + n - 1) = v
  BY <1>0, <1>1
<1> HIDE DEF kept, found, n
<1>8. ReplaceLength(v, r, n) =
        [k \in 1..1 |->
              IF Nth({1}, k) \in found
                THEN r[SubSeq(v, Nth({1}, k), Nth({1}, k) + n - 1)]
                ELSE v[Nth({1}, k)]]
  BY <1>5, <1>6, OneNth
<1>10. ASSUME NEW k \in 1..1
       PROVE  (IF Nth({1}, k) \in found
                 THEN r[SubSeq(v, Nth({1}, k), Nth({1}, k) + n - 1)]
                 ELSE v[Nth({1}, k)]) = r[v]
  <2>1. k = 1
    OBVIOUS
  <2>2. Nth({1}, k) = 1
    BY <2>1, OneNth
  <2> QED
    BY <1>2, <1>7, <2>2
<1>9. ReplaceLength(v, r, n) = [k \in 1..1 |-> r[v]]
  BY <1>8, <1>10
<1> QED
  BY <1>9 DEF n

\* A value that is no source nor contains one stays.
LEMMA SingleKept ==
  ASSUME NEW T, NEW w \in Seq(T), Len(w) = 1, NEW r, w \notin DOMAIN r,
         NEW n \in 1..3
  PROVE  ReplaceLength(w, r, n) = w
<1>1. ASSUME NEW i \in DOMAIN w, i + n <= Len(w) + 1
      PROVE  SubSeq(w, i, i + n - 1) \notin DOMAIN r
  <2>1. i = 1 /\ n = 1
    BY <1>1
  <2>2. SubSeq(w, 1, 1) = w
    OBVIOUS
  <2>3. i + n - 1 = 1
    BY <2>1
  <2> QED
    BY <2>1, <2>2, <2>3
<1>2. n \in Nat \ {0}
  OBVIOUS
<1> QED
  BY <1>1, <1>2, NothingFound

LEMMA SingleIs ==
  ASSUME NEW a
  PROVE  <<a>> \in Seq({a}) /\ Len(<<a>>) = 1 /\ <<a>>[1] = a
OBVIOUS

\* A value of one atom that is no source stays.
LEMMA NoSourceKept ==
  ASSUME NEW T, NEW w \in Seq(T), Len(w) = 1, NEW r, w \notin DOMAIN r
  PROVE  ReplaceMany(w, r) = w
BY SingleKept DEF ReplaceMany

\* A value that is a source becomes its replacement and nothing else.
LEMMA SourceReplaced ==
  ASSUME NEW T, NEW v \in Seq(T), NEW r, v \in DOMAIN r, Len(v) \in 1..3,
         <<r[v]>> \notin DOMAIN r
  PROVE  ReplaceMany(v, r) = <<r[v]>>
<1> DEFINE w == <<r[v]>>
<1>0. w \in Seq({r[v]}) /\ Len(w) = 1
  BY SingleIs
<1>1. ASSUME NEW n \in 1..3, n > Len(v) PROVE ReplaceLength(v, r, n) = v
  <2>1. n \in Nat \ {0} /\ \A i \in DOMAIN v : ~(i + n <= Len(v) + 1)
    BY <1>1
  <2> QED
    BY <2>1, NothingFound
<1>3. ReplaceLength(v, r, Len(v)) = w
  BY WholeFound
<1> HIDE DEF w
<1>2. \A n \in 1..3 : ReplaceLength(w, r, n) = w
  BY <1>0, SingleKept DEF w
<1>4. CASE Len(v) = 1
  BY <1>1, <1>3, <1>4 DEF ReplaceMany, w
<1>5. CASE Len(v) = 2
  BY <1>1, <1>2, <1>3, <1>5 DEF ReplaceMany, w
<1>6. CASE Len(v) = 3
  BY <1>2, <1>3, <1>6 DEF ReplaceMany, w
<1> QED
  BY <1>4, <1>5, <1>6

LEMMA LeastNumber ==
  ASSUME NEW S \in SUBSET Nat, NEW n \in S
  PROVE  /\ (CHOOSE t \in S : \A u \in S : t <= u) \in S
         /\ (CHOOSE t \in S : \A u \in S : t <= u) <= n
<1> DEFINE R == {ss \in Nat \X Nat : ss[1] < ss[2]}
<1>1. IsWellFoundedOn(R, Nat)
  BY NatLessThanWellFounded DEF OpToRel
<1>2. \A x, y \in Nat : x < y => <<x, y>> \in R
  OBVIOUS
<1> HIDE DEF R
<1>3. PICK x \in S : \A y \in S : ~ (<<y, x>> \in R)
  BY <1>1, WFMin
<1>4. ASSUME NEW y \in S PROVE x <= y
  <2>1. ~(y < x)
    BY <1>2, <1>3
  <2> QED
    BY <2>1
<1> QED
  BY <1>4

LEMMA NumberingInjective ==
  ASSUME NEW V, IsFiniteSet(V)
  PROVE  \A x, y \in V : Numbering(V)[x] = Numbering(V)[y] => x = y
<1> DEFINE N == 1..Cardinality(V)
<1>1. PICK g : g \in Bijection(N, V)
  BY FS_CardinalityType DEF ExistsBijection
<1>2. g \in Surjection(N, V)
  BY <1>1, Fun_BijectionProperties
<1>3. Inverse(g, N, V) \in Injection(V, N)
  BY <1>2, Fun_SurjInverse
<1>4. Numbering(V) \in Injection(V, N)
  BY <1>3 DEF Numbering
<1> QED
  BY <1>4 DEF Injection, IsInjective

LEMMA ImageFinite ==
  ASSUME NEW S, IsFiniteSet(S), NEW f, DOMAIN f = S
  PROVE  IsFiniteSet({f[x] : x \in S})
<1> DEFINE g == [x \in S |-> f[x]]
           T == {f[x] : x \in S}
<1>1. g \in Surjection(S, T)
  BY DEF Surjection
<1> QED
  BY <1>1, FS_Surjection

\* The fields of a text.
LEMMA FieldOfText ==
  ASSUME NEW s, NEW x \in FieldsOf(s)
  PROVE  \E i \in DOMAIN s : \E k \in DOMAIN s[i] : x = Field(k, s[i][k])
BY DEF FieldsOf

LEMMA TextOfField ==
  ASSUME NEW s, NEW i \in DOMAIN s, NEW k \in DOMAIN s[i]
  PROVE  Field(k, s[i][k]) \in FieldsOf(s)
BY DEF FieldsOf

LEMMA EvidenceIs ==
  ASSUME NEW t \in Evidence
  PROVE  DOMAIN t = Files /\ Distinct(t) /\ \A f \in Files : t[f] \in Seq(Objects)
BY EvidenceAssumption

LEMMA ObjectRead ==
  ASSUME NEW t \in Evidence, NEW f \in Files, NEW i \in DOMAIN t[f]
  PROVE  ObjectWellFormed(t[f][i])
<1> DEFINE s == t[f]
<1>1. s \in Seq(Objects) /\ i \in DOMAIN s
  BY EvidenceIs
<1> HIDE DEF s
<1>2. s[i] \in Objects
  BY <1>1
<1> QED
  BY <1>2, EvidenceAssumption DEF s

LEMMA EvidenceTyped ==
  ASSUME NEW t \in Evidence, NEW f \in Files, NEW x \in FieldsOf(t[f])
  PROVE  /\ x \in Fields(t)
         /\ x.value \in Seq(PrivateAtom)
         /\ Len(x.value) \in 1..3
         /\ WellFormed(x)
         /\ x.value[1].kind \in Stamps => Len(x.value) = 1
         /\ \A c \in Categories : x.key \in KeysOf[c] =>
              \A j \in DOMAIN x.value : x.value[j].kind \notin Stamps
<1>1. x \in Fields(t)
  BY EvidenceIs DEF Fields
<1>2. x.value \in Seq(PrivateAtom) /\ WellFormed(x)
  <2>1. PICK i \in DOMAIN t[f] : \E k \in DOMAIN t[f][i] : x = Field(k, t[f][i][k])
    BY FieldOfText
  <2>2. PICK k \in DOMAIN t[f][i] : x = Field(k, t[f][i][k])
    BY <2>1
  <2>3. t[f][i][k] \in Seq(PrivateAtom) /\ WellFormed(Field(k, t[f][i][k]))
    BY ObjectRead DEF ObjectWellFormed
  <2>4. x.value = t[f][i][k]
    BY <2>2 DEF Field
  <2> QED
    BY <2>2, <2>3, <2>4
<1>3. Len(x.value) \in 1..3 /\ 1 \in DOMAIN x.value
  BY <1>2 DEF WellFormed
<1>4. x.value[1].kind \in Stamps => Len(x.value) = 1
  BY <1>2, <1>3 DEF WellFormed
<1>5. \A c \in Categories : x.key \in KeysOf[c] =>
        \A j \in DOMAIN x.value : x.value[j].kind \notin Stamps
  BY <1>2 DEF WellFormed, CollectedKeys
<1> QED
  BY <1>1, <1>2, <1>3, <1>4, <1>5

LEMMA FieldTyped ==
  ASSUME NEW t \in Evidence, NEW x \in Fields(t)
  PROVE  /\ x.value \in Seq(PrivateAtom) /\ Len(x.value) \in 1..3
         /\ WellFormed(x)
<1>1. PICK f \in Files : x \in FieldsOf(t[f])
  BY EvidenceIs DEF Fields
<1> QED
  BY <1>1, EvidenceTyped

LEMMA BareTyped ==
  ASSUME NEW v \in Seq(PrivateAtom)
  PROVE  /\ Bare(v) \in Seq(PrivateAtom) /\ Len(Bare(v)) = Len(v)
         /\ DOMAIN Bare(v) = DOMAIN v
         /\ \A i \in DOMAIN v :
              Bare(v)[i] = IF v[i].kind = "digits" THEN Mark ELSE v[i]
<1>1. Mark \in PrivateAtom
  <2>1. Mark = [kind |-> "mark", n |-> 0, public |-> FALSE]
    BY DEF Mark, Atom
  <2>2. "mark" \in AtomKinds
    BY DEF AtomKinds
  <2> QED
    BY <2>1, <2>2 DEF PrivateAtom
<1> HIDE DEF Mark
<1> QED
  BY <1>1 DEF Bare

LEMMA SubSeqWhole ==
  ASSUME NEW T, NEW v \in Seq(T)
  PROVE  SubSeq(v, 1, Len(v)) = v
OBVIOUS

\* Identifiers that redaction leaves alike were one.
LEMMA BareDistinct ==
  ASSUME NEW t \in Evidence, NEW x \in Fields(t), NEW y \in Fields(t),
         IsIdentifier(x), Bare(x.value) = Bare(y.value)
  PROVE  x.value = y.value
<1> DEFINE v == x.value
           w == y.value
<1>1. /\ v \in Seq(PrivateAtom) /\ w \in Seq(PrivateAtom)
      /\ Len(v) \in 1..3 /\ Len(w) = Len(v)
  BY FieldTyped, BareTyped
<1>2. OccursAt(Bare(v), Bare(w), 1)
  <2>1. SubSeq(Bare(w), 1, Len(Bare(w))) = Bare(w) /\ Len(Bare(w)) = Len(v)
    BY <1>1, BareTyped, SubSeqWhole
  <2>2. 1 + Len(v) - 1 = Len(v) /\ 1 + Len(v) <= Len(v) + 1
    BY <1>1
  <2> QED
    BY <2>1, <2>2 DEF OccursAt
<1>3. OccursAt(v, w, 1)
  <2>1. Distinct(t) /\ 1 \in DOMAIN y.value
    BY <1>1, EvidenceIs
  <2> QED
    BY <1>2, <2>1 DEF Distinct
<1>4. SubSeq(w, 1, Len(w)) = v
  <2>1. 1 + Len(v) - 1 = Len(w)
    BY <1>1
  <2> QED
    BY <1>3, <2>1 DEF OccursAt
<1> QED
  BY <1>1, <1>4, SubSeqWhole

LEMMA RedactedTyped ==
  ASSUME NEW v \in Seq(PrivateAtom), Len(v) \in 1..3, NEW key
  PROVE  /\ RedactValue(key, v) \in Seq(PrivateAtom)
         /\ Len(RedactValue(key, v)) \in 1..3
<1>1. <<Mark>> \in Seq(PrivateAtom) /\ Len(<<Mark>>) = 1
  <2>1. Mark = [kind |-> "mark", n |-> 0, public |-> FALSE]
    BY DEF Mark, Atom
  <2>2. "mark" \in AtomKinds
    BY DEF AtomKinds
  <2>3. Mark \in PrivateAtom
    BY <2>1, <2>2 DEF PrivateAtom
  <2> QED
    BY <2>3
<1>2. Bare(v) \in Seq(PrivateAtom) /\ Len(Bare(v)) = Len(v)
  BY BareTyped
<1> HIDE DEF Mark
<1>4. RedactValue(key, v) = <<Mark>> \/ RedactValue(key, v) = Bare(v)
  BY DEF RedactValue
<1>5. CASE RedactValue(key, v) = <<Mark>>
  <2> DEFINE w == <<Mark>>
  <2>1. w \in Seq(PrivateAtom) /\ Len(w) = 1 /\ RedactValue(key, v) = w
    BY <1>1, <1>5
  <2> HIDE DEF w
  <2> QED
    BY <2>1
<1>6. CASE RedactValue(key, v) = Bare(v)
  BY <1>2, <1>6
<1> QED
  BY <1>4, <1>5, <1>6

\* A redacted field.
Blurred(z) == Field(z.key, RedactValue(z.key, z.value))

\* The fields of the candidate.
LEMMA ReadingField ==
  ASSUME NEW G, NEW y \in Fields(Reading(G))
  PROVE  \E f \in G : \E z \in FieldsOf(text[f]) : y = Blurred(z)
<1>1. PICK f \in G : y \in FieldsOf(Redacted(text[f]))
  BY DEF Fields, Reading
<1> DEFINE s == text[f]
<1>2. PICK i \in DOMAIN Redacted(s) : \E k \in DOMAIN Redacted(s)[i] : y = Field(k, Redacted(s)[i][k])
  BY <1>1, FieldOfText
<1>3. PICK k \in DOMAIN Redacted(s)[i] : y = Field(k, Redacted(s)[i][k])
  BY <1>2
<1>4. i \in DOMAIN s /\ k \in DOMAIN s[i] /\ Redacted(s)[i][k] = RedactValue(k, s[i][k])
  BY DEF Redacted
<1>5. y = Blurred(Field(k, s[i][k]))
  BY <1>3, <1>4 DEF Field, Blurred
<1>6. Field(k, s[i][k]) \in FieldsOf(s)
  BY <1>4, TextOfField
<1> QED
  BY <1>5, <1>6

LEMMA FieldRead ==
  ASSUME NEW G, NEW f \in G, NEW z \in FieldsOf(text[f])
  PROVE  Blurred(z) \in Fields(Reading(G))
<1> DEFINE s == text[f]
<1>1. PICK i \in DOMAIN s : \E k \in DOMAIN s[i] : z = Field(k, s[i][k])
  BY FieldOfText
<1>2. PICK k \in DOMAIN s[i] : z = Field(k, s[i][k])
  BY <1>1
<1>3. i \in DOMAIN Redacted(s) /\ k \in DOMAIN Redacted(s)[i]
      /\ Redacted(s)[i][k] = RedactValue(k, s[i][k])
  BY DEF Redacted
<1>4. Blurred(z) = Field(k, Redacted(s)[i][k])
  BY <1>2, <1>3 DEF Field, Blurred
<1>5. Field(k, Redacted(s)[i][k]) \in FieldsOf(Redacted(s))
  BY <1>3, TextOfField
<1>6. Blurred(z) \in FieldsOf(Redacted(s))
  BY <1>4, <1>5
<1> QED
  BY <1>6 DEF Fields, Reading

LEMMA TextFinite ==
  ASSUME NEW t \in Evidence, NEW f \in Files
  PROVE  IsFiniteSet(FieldsOf(t[f]))
<1> DEFINE s == t[f]
           of == [i \in DOMAIN s |-> {Field(k, s[i][k]) : k \in DOMAIN s[i]}]
<1>1. IsFiniteSet(DOMAIN s)
  <2>1. s \in Seq(Objects)
    BY EvidenceIs
  <2>2. DOMAIN s = 1..Len(s) /\ Len(s) \in Nat
    BY <2>1
  <2>3. \A n \in Nat : IsFiniteSet(1..n)
    BY FS_Interval
  <2> QED
    BY <2>2, <2>3
<1>2. ASSUME NEW i \in DOMAIN s PROVE IsFiniteSet(of[i])
  <2> DEFINE o == s[i]
             field == [k \in DOMAIN o |-> Field(k, o[k])]
  <2>1. IsFiniteSet(DOMAIN o)
    BY <1>2, ObjectRead DEF ObjectWellFormed
  <2>2. DOMAIN field = DOMAIN o /\ \A k \in DOMAIN o : field[k] = Field(k, o[k])
    OBVIOUS
  <2>3. of[i] = {Field(k, o[k]) : k \in DOMAIN o}
    OBVIOUS
  <2> HIDE DEF field, o, of
  <2>4. IsFiniteSet({field[k] : k \in DOMAIN o})
    BY <2>1, <2>2, ImageFinite
  <2>5. {field[k] : k \in DOMAIN o} = of[i]
    BY <2>2, <2>3
  <2> QED
    BY <2>4, <2>5
<1>3. DOMAIN of = DOMAIN s
  OBVIOUS
<1>4. FieldsOf(s) = UNION {of[i] : i \in DOMAIN s}
  <2>1. FieldsOf(s) = UNION {{Field(k, s[i][k]) : k \in DOMAIN s[i]} : i \in DOMAIN s}
    BY DEF FieldsOf
  <2>2. \A i \in DOMAIN s : of[i] = {Field(k, s[i][k]) : k \in DOMAIN s[i]}
    OBVIOUS
  <2> HIDE DEF of
  <2> QED
    BY <2>1, <2>2
<1> HIDE DEF of, s
<1>5. IsFiniteSet({of[i] : i \in DOMAIN s})
  BY <1>1, <1>3, ImageFinite
<1>6. \A T \in {of[i] : i \in DOMAIN s} : IsFiniteSet(T)
  BY <1>2
<1>7. IsFiniteSet(UNION {of[i] : i \in DOMAIN s})
  BY <1>5, <1>6, FS_UNION
<1> QED
  BY <1>4, <1>7 DEF s

LEMMA ValuesFinite ==
  ASSUME text \in Evidence, NEW G \in SUBSET Files, NEW c
  PROVE  IsFiniteSet(Values(Reading(G), c))
<1> DEFINE C == Reading(G)
           Z == UNION {FieldsOf(text[f]) : f \in G}
           fields == [f \in G |-> FieldsOf(text[f])]
           value == [z \in Z |-> RedactValue(z.key, z.value)]
<1>1. IsFiniteSet(G)
  BY EvidenceAssumption, FS_Subset
<1>2. IsFiniteSet(Z)
  <2>1. \A T \in {fields[f] : f \in G} : IsFiniteSet(T)
    BY TextFinite
  <2>2. Z = UNION {fields[f] : f \in G}
    OBVIOUS
  <2>3. DOMAIN fields = G
    OBVIOUS
  <2> HIDE DEF fields, Z
  <2>4. IsFiniteSet({fields[f] : f \in G})
    BY <1>1, <2>3, ImageFinite
  <2> QED
    BY <2>1, <2>2, <2>4, FS_UNION
<1>3. IsFiniteSet({value[z] : z \in Z})
  <2>1. DOMAIN value = Z
    OBVIOUS
  <2> HIDE DEF value, Z
  <2> QED
    BY <1>2, <2>1, ImageFinite
<1>4. ASSUME NEW v \in Values(C, c) PROVE v \in {value[z] : z \in Z}
  <2>1. PICK y \in Fields(C) : v = y.value
    BY <1>4 DEF Values
  <2>2. PICK f \in G : \E z \in FieldsOf(text[f]) : y = Blurred(z)
    BY <2>1, ReadingField
  <2>3. PICK z \in FieldsOf(text[f]) : y = Blurred(z)
    BY <2>2
  <2>4. z \in Z /\ v = value[z]
    BY <2>1, <2>3 DEF Blurred, Field
  <2> HIDE DEF value, Z
  <2> QED
    BY <2>4
<1> HIDE DEF value, Z, C
<1>5. Values(C, c) \subseteq {value[z] : z \in Z}
  BY <1>4
<1>6. IsFiniteSet(Values(C, c))
  BY <1>3, <1>5, FS_Subset
<1> QED
  BY <1>6 DEF C

\* What is collected is private.
LEMMA ValuesPrivate ==
  ASSUME text \in Evidence, NEW G \in SUBSET Files, NEW c, NEW v \in Values(Reading(G), c)
  PROVE  v \in Seq(PrivateAtom) /\ Len(v) \in 1..3
<1>1. PICK y \in Fields(Reading(G)) : v = y.value
  BY DEF Values
<1>2. PICK f \in G : \E z \in FieldsOf(text[f]) : y = Blurred(z)
  BY ReadingField
<1>3. PICK z \in FieldsOf(text[f]) : y = Blurred(z)
  BY <1>2
<1>4. v = RedactValue(z.key, z.value)
  BY <1>1, <1>3 DEF Field, Blurred
<1>5. z.value \in Seq(PrivateAtom) /\ Len(z.value) \in 1..3
  BY EvidenceTyped
<1> QED
  BY <1>4, <1>5, RedactedTyped

LEMMA FirstTyped ==
  ASSUME NEW T, NEW s \in Seq(T), Len(s) = 1
  PROVE  s[1] \in T
OBVIOUS

LEMMA AliasNoSource ==
  ASSUME text \in Evidence, NEW G \in SUBSET Files, NEW kind, NEW n
  PROVE  <<Alias(kind, n)>> \notin DOMAIN Replacements(Reading(G))
<1> DEFINE w == <<Alias(kind, n)>>
<1>1. DOMAIN Replacements(Reading(G)) = UNION {Values(Reading(G), c) : c \in Categories}
  BY DEF Replacements
<1>2. w[1].public = TRUE /\ Len(w) = 1
  BY DEF Alias
<1> HIDE DEF w
<1>3. SUFFICES ASSUME NEW c \in Categories, w \in Values(Reading(G), c) PROVE FALSE
  BY <1>1 DEF w
<1>4. w \in Seq(PrivateAtom)
  BY <1>3, ValuesPrivate
<1>5. w[1] \in PrivateAtom
  BY <1>2, <1>4, FirstTyped
<1> QED
  BY <1>2, <1>5 DEF PrivateAtom

LEMMA OneCategory ==
  ASSUME NEW C, ~Overlapping(C), NEW c \in Categories, NEW x \in Values(C, c)
  PROVE  x \in DOMAIN Replacements(C) /\ Replacements(C)[x] = AliasOf(C, c, x)
<1>1. \A d \in Categories : x \in Values(C, d) => d = c
  BY DEF Overlapping
<1>2. (CHOOSE d \in Categories : x \in Values(C, d)) = c
  BY <1>1
<1>3. x \in UNION {Values(C, d) : d \in Categories}
  OBVIOUS
<1> QED
  BY <1>2, <1>3 DEF Replacements

\* An identifier's public value is its alias.
LEMMA IdentifierAliased ==
  ASSUME text \in Evidence, NEW G \in SUBSET Files, ~Overlapping(Reading(G)),
         NEW c \in Categories, NEW u \in Values(Reading(G), c),
         \A i \in DOMAIN u : u[i].kind \notin Stamps
  PROVE  PublicValue(Reading(G), u) = <<AliasOf(Reading(G), c, u)>>
<1> DEFINE C == Reading(G)
           r == Replacements(C)
<1>1. u \in Seq(PrivateAtom) /\ Len(u) \in 1..3
  BY ValuesPrivate
<1>2. Shifted(u, Times(C)) = u
  <2>1. Shifted(u, Times(C)) = [i \in DOMAIN u |-> u[i]]
    BY DEF Shifted
  <2>2. [i \in DOMAIN u |-> u[i]] = u
    BY <1>1
  <2> QED
    BY <2>1, <2>2
<1>3. u \in DOMAIN r /\ r[u] = AliasOf(C, c, u)
  BY OneCategory
<1>4. <<r[u]>> \notin DOMAIN r
  BY <1>3, AliasNoSource DEF AliasOf
<1> HIDE DEF r
<1>5. ReplaceMany(u, r) = <<r[u]>>
  BY <1>1, <1>3, <1>4, SourceReplaced
<1> QED
  BY <1>2, <1>3, <1>5 DEF PublicValue, r

\* A moment's public value is the time since the earliest, up to its precision.
LEMMA MomentShifted ==
  ASSUME text \in Evidence, NEW G \in SUBSET Files, NEW y \in Fields(Reading(G)),
         y.value \in Seq(PrivateAtom), Len(y.value) = 1, y.value[1].kind \in Stamps
  PROVE  LET t == CHOOSE t \in Times(Reading(G)) : \A u \in Times(Reading(G)) : t <= u
         IN /\ t \in Nat /\ t <= y.value[1].n
            /\ PublicValue(Reading(G), y.value)[1].n
                 = Truncated(y.value[1].n - t, y.value[1].kind)
<1> DEFINE C == Reading(G)
           t == CHOOSE t \in Times(C) : \A u \in Times(C) : t <= u
           v == y.value
           a == Alias(v[1].kind, Truncated(v[1].n - t, v[1].kind))
           w == <<a>>
           r == Replacements(C)
<1>1. Times(C) \in SUBSET Nat
  <2> SUFFICES ASSUME NEW b \in Atoms(C) PROVE b.n \in Nat
    BY DEF Times
  <2>1. PICK z \in Fields(C) : b \in Range(z.value)
    BY DEF Atoms
  <2>2. PICK f \in G : \E x \in FieldsOf(text[f]) : z = Blurred(x)
    BY <2>1, ReadingField
  <2>3. PICK x \in FieldsOf(text[f]) : z = Blurred(x)
    BY <2>2
  <2>4. z.value = RedactValue(x.key, x.value)
    BY <2>3 DEF Field, Blurred
  <2>5. x.value \in Seq(PrivateAtom) /\ Len(x.value) \in 1..3
    BY EvidenceTyped
  <2>6. z.value \in Seq(PrivateAtom)
    BY <2>4, <2>5, RedactedTyped
  <2>7. PICK j \in DOMAIN z.value : b = z.value[j]
    BY <2>1 DEF Range
  <2>8. b \in PrivateAtom
    BY <2>6, <2>7
  <2> QED
    BY <2>8 DEF PrivateAtom
<1>2. v[1].n \in Times(C)
  <2>1. v[1] \in Range(v)
    BY DEF Range
  <2>2. v[1] \in Atoms(C)
    BY <2>1 DEF Atoms
  <2> QED
    BY <2>2 DEF Times
<1>3. t \in Times(C) /\ t \in Nat /\ t <= v[1].n
  BY <1>1, <1>2, LeastNumber
<1>4. Shifted(v, Times(C)) = w
  <2>1. DOMAIN v = 1..1
    OBVIOUS
  <2>2. Shifted(v, Times(C)) = [i \in 1..1 |->
          IF v[i].kind \in Stamps THEN Alias(v[i].kind, Truncated(v[i].n - t, v[i].kind)) ELSE v[i]]
    BY <2>1 DEF Shifted
  <2> HIDE DEF t
  <2>3. Shifted(v, Times(C)) = [i \in 1..1 |-> a]
    BY <2>2
  <2> QED
    BY <2>3
<1>5. w \notin DOMAIN r
  BY AliasNoSource
<1>6. w \in Seq({a}) /\ Len(w) = 1 /\ w[1] = a
  BY SingleIs
<1>10. a.n = Truncated(v[1].n - t, v[1].kind)
  BY DEF Alias
<1> HIDE DEF w, r, t, a
<1>7. ReplaceMany(w, r) = w
  BY <1>5, <1>6, NoSourceKept
<1>8. PublicValue(C, v) = w
  BY <1>4, <1>7 DEF PublicValue, r
<1>9. PublicValue(C, v)[1].n = Truncated(v[1].n - t, v[1].kind)
  BY <1>6, <1>8, <1>10
<1> QED
  BY <1>3, <1>9 DEF t

\* What a copy has of an object.
LEMMA CopiedObject ==
  ASSUME NEW G, NEW d, CopyOf(d, G), NEW f \in DOMAIN copies[d] \ Added,
         NEW i \in DOMAIN text[f]
  PROVE  LET p == PublicObject(Reading(G), Redacted(text[f])[i])
         IN /\ DOMAIN p = DOMAIN text[f][i]
            /\ \A k \in DOMAIN p :
                 p[k] = PublicValue(Reading(G), RedactValue(k, text[f][i][k]))
            /\ f \notin EventFiles => copies[d][f][i] = p
            /\ f \in EventFiles => copies[d][f][i] = Sanitized(p)
<1> DEFINE C == Reading(G)
           s == text[f]
           o == Redacted(s)[i]
           p == PublicObject(C, o)
<1>1. DOMAIN Redacted(s) = DOMAIN s /\ DOMAIN o = DOMAIN s[i]
      /\ \A k \in DOMAIN s[i] : o[k] = RedactValue(k, s[i][k])
  BY DEF Redacted
<1>2. copies[d][f] = PublicObjects(C, f, Redacted(s))
  BY DEF CopyOf
<1>3. copies[d][f][i] = IF f \in EventFiles THEN Sanitized(p) ELSE p
  BY <1>1, <1>2 DEF PublicObjects
<1>4. DOMAIN p = DOMAIN o /\ \A k \in DOMAIN o : p[k] = PublicValue(C, o[k])
  BY DEF PublicObject
<1> QED
  BY <1>1, <1>3, <1>4

\* What redaction leaves of a session has the placeholder of sessions.
LEMMA SessionAliased ==
  ASSUME text \in Evidence, NEW G \in SUBSET Files, ~Overlapping(Reading(G)),
         NEW f \in G, NEW i \in DOMAIN text[f], NEW k \in DOMAIN text[f][i],
         k \in KeysOf.session
  PROVE  PublicValue(Reading(G), RedactValue(k, text[f][i][k])) = <<Alias("session", 0)>>
<1> DEFINE C == Reading(G)
           u == <<Mark>>
           z == Field(k, text[f][i][k])
<1>1. RedactValue(k, text[f][i][k]) = u
  BY DEF RedactValue
<1>2. z \in FieldsOf(text[f]) /\ z.key = k /\ z.value = text[f][i][k]
  BY TextOfField DEF Field
<1>3. Blurred(z) \in Fields(C)
  BY <1>2, FieldRead
<1>4. Blurred(z).key = k /\ Blurred(z).value = u
  BY <1>1, <1>2 DEF Blurred, Field
<1>5. KeysOf["session"] = KeysOf.session /\ "session" \in Categories
  BY DEF KeysOf, Categories
<1>6. u \in Values(C, "session")
  BY <1>3, <1>4, <1>5 DEF Values
<1>7. \A j \in DOMAIN u : u[j].kind \notin Stamps
  BY DEF Mark, Atom, Stamps
<1>8. AliasOf(C, "session", u) = Alias("session", 0)
  BY DEF AliasOf
<1> HIDE DEF C, u
<1>9. PublicValue(C, u) = <<AliasOf(C, "session", u)>>
  BY <1>5, <1>6, <1>7, IdentifierAliased DEF C
<1> QED
  BY <1>1, <1>8, <1>9 DEF C

\* A field of a copy that read the files G.
LEMMA CellIs ==
  ASSUME text \in Evidence, NEW G \in SUBSET Files, ~Overlapping(Reading(G)),
         NEW d, CopyOf(d, G), NEW x \in Cells(d)
  PROVE  LET u == RedactValue(x.key, x.before)
         IN /\ x.before \in Seq(PrivateAtom) /\ Len(x.before) \in 1..3
            /\ x.before[1].kind \in Stamps => Len(x.before) = 1
            /\ \A c \in Categories : x.key \in KeysOf[c] =>
                 \A i \in DOMAIN x.before : x.before[i].kind \notin Stamps
            /\ Field(x.key, u) \in Fields(Reading(G))
            /\ x.after = PublicValue(Reading(G), u)
            /\ \E f \in G : Field(x.key, x.before) \in FieldsOf(text[f])
            /\ Field(x.key, x.before) \in Fields(text)
            /\ WellFormed(Field(x.key, x.before))
<1>1. PICK f \in DOMAIN copies[d] \ Added : \E i \in DOMAIN text[f] :
        \E k \in (DOMAIN text[f][i] \cap DOMAIN copies[d][f][i]) \ Rewritten(f, text[f][i]) :
          x = [key |-> k, before |-> text[f][i][k], after |-> copies[d][f][i][k]]
  BY DEF Cells
<1>2. PICK i \in DOMAIN text[f] :
        \E k \in (DOMAIN text[f][i] \cap DOMAIN copies[d][f][i]) \ Rewritten(f, text[f][i]) :
          x = [key |-> k, before |-> text[f][i][k], after |-> copies[d][f][i][k]]
  BY <1>1
<1>3. PICK k \in (DOMAIN text[f][i] \cap DOMAIN copies[d][f][i]) \ Rewritten(f, text[f][i]) :
          x = [key |-> k, before |-> text[f][i][k], after |-> copies[d][f][i][k]]
  BY <1>2
<1>4. f \in G
  BY DEF CopyOf
<1> DEFINE o == text[f][i]
           p == PublicObject(Reading(G), Redacted(text[f])[i])
           y == Field(k, o[k])
           a == PublicValue(Reading(G), RedactValue(k, o[k]))
<1>5. DOMAIN p = DOMAIN o /\ p[k] = a
      /\ (f \notin EventFiles => copies[d][f][i] = p)
      /\ (f \in EventFiles => copies[d][f][i] = Sanitized(p))
  BY <1>3, CopiedObject
<1>6. copies[d][f][i][k] = a
  <2>1. CASE f \notin EventFiles
    BY <1>5, <2>1
  <2>2. CASE f \in EventFiles
    <3>1. k # "public_redaction"
          /\ (IsParsed(o) => k # "error_message" /\ k # "raw_response_body")
      BY <1>3, <2>2 DEF Rewritten
    <3>2. IsParsed(p) <=> IsParsed(o)
      BY <1>5 DEF IsParsed
    <3>3. k # "error_message"
      BY <1>3, <3>1 DEF IsParsed
    <3>4. k \in DOMAIN Sanitized(p)
      BY <1>3, <1>5, <2>2
    <3>5. k \in (DOMAIN p \ DroppedHeaders) \cup {"session_id", "public_redaction"}
      BY <3>4 DEF Sanitized
    <3>6. CASE k \in KeysOf.session
      <4>1. Sanitized(p)[k] = <<Alias("session", 0)>>
        <5>1. k # "public_redaction" /\ k # "error_message" /\ k # "raw_response_body"
          BY <3>6 DEF KeysOf
        <5> HIDE DEF p
        <5> QED
          BY <3>5, <3>6, <5>1 DEF Sanitized
      <4>2. a = <<Alias("session", 0)>>
        BY <1>3, <1>4, <3>6, SessionAliased
      <4> QED
        BY <1>5, <2>2, <4>1, <4>2
    <3>7. CASE k \notin KeysOf.session
      <4> HIDE DEF p
      <4>1. Sanitized(p)[k] = p[k]
        BY <3>1, <3>2, <3>3, <3>5, <3>7 DEF Sanitized
      <4> QED
        BY <1>5, <2>2, <4>1
    <3> QED
      BY <3>6, <3>7
  <2> QED
    BY <2>1, <2>2
<1>7. y \in FieldsOf(text[f]) /\ y.key = k /\ y.value = o[k]
  BY <1>3, TextOfField DEF Field
<1>8. Blurred(y) \in Fields(Reading(G))
  BY <1>4, <1>7, FieldRead
<1>9. /\ y \in Fields(text) /\ WellFormed(y)
      /\ y.value \in Seq(PrivateAtom)
      /\ Len(y.value) \in 1..3
      /\ y.value[1].kind \in Stamps => Len(y.value) = 1
      /\ \A c \in Categories : y.key \in KeysOf[c] =>
              \A j \in DOMAIN y.value : y.value[j].kind \notin Stamps
  BY <1>4, <1>7, EvidenceTyped
<1>10. x.key = k /\ x.before = o[k] /\ x.after = a /\ Field(x.key, x.before) = y
  BY <1>3, <1>6
<1>11. Blurred(y) = Field(x.key, RedactValue(x.key, x.before))
  BY <1>7, <1>10 DEF Blurred
<1> HIDE DEF y
<1> QED
  BY <1>4, <1>7, <1>8, <1>9, <1>10, <1>11

LEMMA IdentifierIs ==
  ASSUME text \in Evidence, NEW G \in SUBSET Files, ~Overlapping(Reading(G)),
         NEW d, CopyOf(d, G), NEW x \in Cells(d),
         NEW c \in Categories \ {"session", "commit"}, Identifies(x, c)
  PROVE  LET u == RedactValue(x.key, x.before)
         IN /\ u \in Values(Reading(G), c)
            /\ x.after = <<AliasOf(Reading(G), c, u)>>
<1> DEFINE C == Reading(G)
           v == x.before
           u == RedactValue(x.key, v)
<1>1. /\ v \in Seq(PrivateAtom)
      /\ \A i \in DOMAIN v : v[i].kind \notin Stamps
      /\ Field(x.key, u) \in Fields(C)
      /\ x.after = PublicValue(C, u)
  BY CellIs DEF Identifies
<1>2. x.key \in KeysOf[c] /\ v[1].kind # "arn"
  BY DEF Identifies, Blotted
<1>3. u \in Values(C, c)
  BY <1>1, <1>2 DEF Values, Field
<1>4. x.key \notin KeysOf.session
  BY <1>2 DEF KeysOf, Categories
<1>5. u = Bare(v)
  BY <1>2, <1>4 DEF RedactValue, Bare
<1>6. \A i \in DOMAIN u : u[i].kind \notin Stamps
  BY <1>1, <1>5 DEF Bare, Mark, Atom, Stamps
<1> HIDE DEF C, u
<1>7. x.after = <<AliasOf(C, c, u)>>
  BY <1>1, <1>3, <1>6, IdentifierAliased DEF C
<1> QED
  BY <1>3, <1>7 DEF C, u

\* Moments of one precision lose alike, and none loses one unit of it.
LEMMA TruncatedAlike ==
  ASSUME NEW kind \in Stamps, NEW t \in Nat, NEW m \in Nat, NEW n \in Nat, t <= m, t <= n,
         m % Ticks(kind) = 0, n % Ticks(kind) = 0
  PROVE  Truncated(m - t, kind) + n = Truncated(n - t, kind) + m
<1>1. CASE kind = "seconds"
  <2>1. m % 1000000 = 0 /\ n % 1000000 = 0
    BY <1>1 DEF Ticks
  <2>2. /\ Truncated(m - t, kind) = (m - t) - ((m - t) % 1000000)
        /\ Truncated(n - t, kind) = (n - t) - ((n - t) % 1000000)
    BY <1>1 DEF Truncated, Ticks
  <2>3. (m - t) - ((m - t) % 1000000) + n = (n - t) - ((n - t) % 1000000) + m
    BY <2>1
  <2> QED
    BY <2>2, <2>3
<1>2. CASE kind = "milliseconds"
  <2>1. m % 1000 = 0 /\ n % 1000 = 0
    BY <1>2 DEF Ticks
  <2>2. /\ Truncated(m - t, kind) = (m - t) - ((m - t) % 1000)
        /\ Truncated(n - t, kind) = (n - t) - ((n - t) % 1000)
    BY <1>2 DEF Truncated, Ticks
  <2>3. (m - t) - ((m - t) % 1000) + n = (n - t) - ((n - t) % 1000) + m
    BY <2>1
  <2> QED
    BY <2>2, <2>3
<1>3. CASE kind = "microseconds"
  BY <1>3 DEF Truncated, Ticks
<1> QED
  BY <1>1, <1>2, <1>3 DEF Stamps

LEMMA TruncatedNear ==
  ASSUME NEW kind \in Stamps, NEW n \in Nat, NEW t \in Nat, t <= n
  PROVE  /\ Truncated(n - t, kind) \in Nat /\ Truncated(n - t, kind) <= n - t
         /\ n - t < Truncated(n - t, kind) + Ticks(kind)
         /\ Ticks(kind) \in Nat
BY DEF Stamps, Truncated, Ticks

LEMMA ShiftedNear ==
  ASSUME NEW t \in Nat, NEW j \in Stamps, NEW k \in Stamps, NEW m \in Nat, NEW n \in Nat,
         t <= m, t <= n, m % Ticks(j) = 0, n % Ticks(k) = 0
  PROVE  /\ j = k => Truncated(m - t, j) + n = Truncated(n - t, k) + m
         /\ Truncated(m - t, j) + n < Truncated(n - t, k) + m + Ticks(k)
<1>1. j = k => Truncated(m - t, j) + n = Truncated(n - t, k) + m
  BY TruncatedAlike
<1>2. /\ Truncated(m - t, j) \in Nat /\ Truncated(m - t, j) <= m - t
      /\ Truncated(n - t, k) \in Nat /\ n - t < Truncated(n - t, k) + Ticks(k)
      /\ Ticks(k) \in Nat
  BY TruncatedNear
<1>3. Truncated(m - t, j) + n < Truncated(n - t, k) + m + Ticks(k)
  BY <1>2
<1> QED
  BY <1>1, <1>3

LEMMA CopyCorresponds ==
  ASSUME text \in Evidence, NEW G \in SUBSET Files, ~Overlapping(Reading(G)),
         NEW d, CopyOf(d, G), Certified(d)
  PROVE  Whole(d) /\ Aliased(d) /\ Timed(d)
<1> DEFINE C == Reading(G)
<1>1. Whole(d)
  <2>1. Cardinality(DOMAIN copies[d] \ Added) = copies[d]["manifest"][1].value
    BY DEF CopyOf
  <2>2. ASSUME NEW f \in DOMAIN copies[d] \ Added
        PROVE  /\ DOMAIN copies[d][f] = DOMAIN text[f]
               /\ \A i \in DOMAIN text[f] :
                    DOMAIN copies[d][f][i] = KeysInCopy(f, DOMAIN text[f][i])
    <3>1. copies[d][f] = PublicObjects(C, f, Redacted(text[f]))
      BY DEF CopyOf
    <3>2. DOMAIN copies[d][f] = DOMAIN text[f]
      BY <3>1 DEF PublicObjects, Redacted
    <3>3. ASSUME NEW i \in DOMAIN text[f]
          PROVE  DOMAIN copies[d][f][i] = KeysInCopy(f, DOMAIN text[f][i])
      <4> DEFINE p == PublicObject(C, Redacted(text[f])[i])
      <4>1. DOMAIN p = DOMAIN text[f][i]
            /\ (f \notin EventFiles => copies[d][f][i] = p)
            /\ (f \in EventFiles => copies[d][f][i] = Sanitized(p))
        BY CopiedObject
      <4>2. DOMAIN Sanitized(p) = (DOMAIN p \ DroppedHeaders) \cup {"session_id", "public_redaction"}
        BY DEF Sanitized
      <4> HIDE DEF p
      <4> QED
        BY <4>1, <4>2 DEF KeysInCopy
    <3> QED
      BY <3>2, <3>3
  <2>3. ASSUME NEW x \in Cells(d), NEW y \in Cells(d), x.key = y.key, x.before = y.before
        PROVE  x.after = y.after
    <3>1. /\ x.after = PublicValue(C, RedactValue(x.key, x.before))
          /\ y.after = PublicValue(C, RedactValue(y.key, y.before))
      BY CellIs
    <3> QED
      BY <2>3, <3>1
  <2> QED
    BY <2>1, <2>2, <2>3 DEF Whole
<1>2. Aliased(d)
  <2> SUFFICES ASSUME NEW c \in Categories \ {"session", "commit"},
                      NEW x \in Cells(d), NEW y \in Cells(d),
                      Identifies(x, c), Identifies(y, c)
               PROVE  x.before = y.before <=> x.after = y.after
    BY DEF Aliased
  <2> DEFINE u == RedactValue(x.key, x.before)
             w == RedactValue(y.key, y.before)
             V == Values(C, c)
  <2>1. /\ u \in V /\ w \in V
        /\ x.after = <<AliasOf(C, c, u)>> /\ y.after = <<AliasOf(C, c, w)>>
    BY IdentifierIs
  <2>2. x.key \notin KeysOf.session /\ y.key \notin KeysOf.session
    BY DEF KeysOf, Categories, Identifies
  <2>3. x.before = y.before => u = w
    BY <2>2 DEF RedactValue
  <2>4. AliasOf(C, c, u) = Alias(c, Numbering(V)[u]) /\ AliasOf(C, c, w) = Alias(c, Numbering(V)[w])
    BY DEF AliasOf
  <2>5. IsFiniteSet(V)
    BY ValuesFinite
  <2>6. u = w => x.before = y.before
    <3> DEFINE a == Field(x.key, x.before)
               b == Field(y.key, y.before)
    <3>1. a \in Fields(text) /\ a.key = x.key /\ a.value = x.before
      BY CellIs DEF Field
    <3>2. b \in Fields(text) /\ b.key = y.key /\ b.value = y.before
      BY CellIs DEF Field
    <3> HIDE DEF a, b
    <3>3. IsIdentifier(a) /\ IsIdentifier(b)
      BY <2>2, <3>1, <3>2 DEF Identifies, Blotted, IsIdentifier, CollectedKeys
    <3>4. u = Bare(a.value) /\ w = Bare(b.value)
      BY <2>2, <3>1, <3>2 DEF Identifies, Blotted, RedactValue
    <3> QED
      BY <3>1, <3>2, <3>3, <3>4, BareDistinct
  <2> HIDE DEF u, w, V, C
  <2>7. x.after = y.after => Numbering(V)[u] = Numbering(V)[w]
    BY <2>1, <2>4 DEF Alias
  <2> QED
    BY <2>1, <2>3, <2>5, <2>6, <2>7, NumberingInjective
<1>3. Timed(d)
  <2> DEFINE t == CHOOSE t \in Times(C) : \A u \in Times(C) : t <= u
  <2>1. ASSUME NEW x \in Cells(d), x.before[1].kind \in Stamps
        PROVE  /\ t \in Nat /\ x.before[1].n \in Nat /\ t <= x.before[1].n
               /\ x.before[1].n % Ticks(x.before[1].kind) = 0
               /\ x.after[1].n = Truncated(x.before[1].n - t, x.before[1].kind)
    <3> DEFINE v == x.before
    <3>1. /\ v \in Seq(PrivateAtom) /\ Len(v) = 1
          /\ \A c \in Categories : x.key \in KeysOf[c] =>
                 \A i \in DOMAIN v : v[i].kind \notin Stamps
          /\ Field(x.key, RedactValue(x.key, v)) \in Fields(C)
          /\ x.after = PublicValue(C, RedactValue(x.key, v))
          /\ WellFormed(Field(x.key, v))
      BY <2>1, CellIs
    <3>2. x.key \notin KeysOf.session
      <4>1. KeysOf["session"] = KeysOf.session /\ "session" \in Categories
        BY DEF KeysOf, Categories
      <4> QED
        BY <2>1, <3>1, <4>1
    <3>3. RedactValue(x.key, v) = v
      <4>0. v[1].kind # "arn" /\ v[1].kind # "digits"
        BY <2>1 DEF Stamps
      <4>1. RedactValue(x.key, v) = [i \in DOMAIN v |-> IF v[i].kind = "digits" THEN Mark ELSE v[i]]
        BY <3>2, <4>0 DEF RedactValue, Bare
      <4>2. \A i \in DOMAIN v : i = 1
        BY <3>1
      <4>3. [i \in DOMAIN v |-> IF v[i].kind = "digits" THEN Mark ELSE v[i]] = [i \in DOMAIN v |-> v[i]]
        BY <4>0, <4>2
      <4> QED
        BY <3>1, <4>1, <4>3
    <3> DEFINE y == Field(x.key, v)
    <3>4. y \in Fields(C) /\ y.value = v /\ WellFormed(y)
      BY <3>1, <3>3 DEF Field
    <3>5. v[1] \in PrivateAtom
      BY <3>1, FirstTyped
    <3> HIDE DEF y, C
    <3>6. /\ t \in Nat /\ t <= y.value[1].n
          /\ PublicValue(C, y.value)[1].n = Truncated(y.value[1].n - t, y.value[1].kind)
      BY <2>1, <3>1, <3>4, MomentShifted DEF C
    <3>7. 1 \in DOMAIN y.value
      BY <3>1, <3>4
    <3>8. y.value[1].n % Ticks(y.value[1].kind) = 0
      BY <2>1, <3>4, <3>7 DEF WellFormed
    <3> QED
      BY <3>1, <3>3, <3>4, <3>5, <3>6, <3>8 DEF PrivateAtom
  <2> HIDE DEF t
  <2>2. ASSUME NEW x \in Cells(d), NEW y \in Cells(d), IsStamp(x), IsStamp(y)
        PROVE  /\ x.before[1].kind = y.before[1].kind =>
                    x.after[1].n + y.before[1].n = y.after[1].n + x.before[1].n
               /\ x.after[1].n + y.before[1].n
                    < y.after[1].n + x.before[1].n + Ticks(y.before[1].kind)
    <3>1. x.before[1].kind \in Stamps /\ y.before[1].kind \in Stamps
      BY <2>2 DEF IsStamp
    <3>2. /\ t \in Nat /\ x.before[1].n \in Nat /\ t <= x.before[1].n
          /\ x.before[1].n % Ticks(x.before[1].kind) = 0
          /\ x.after[1].n = Truncated(x.before[1].n - t, x.before[1].kind)
      BY <2>1, <3>1
    <3>3. /\ y.before[1].n \in Nat /\ t <= y.before[1].n
          /\ y.before[1].n % Ticks(y.before[1].kind) = 0
          /\ y.after[1].n = Truncated(y.before[1].n - t, y.before[1].kind)
      BY <2>1, <3>1
    <3> QED
      BY <3>1, <3>2, <3>3, ShiftedNear
  <2> QED
    BY <2>2 DEF Timed
<1> QED
  BY <1>1, <1>2, <1>3

-----------------------------------------------------------------------------

LEMMA IntervalNth ==
  ASSUME NEW m \in Nat
  PROVE  /\ Cardinality(1..m) = m
         /\ \A k \in 1..m : Nth(1..m, k) = k
<1>1. \A n \in Nat : IsFiniteSet(1..n) /\ Cardinality(1..n) = n
  BY FS_Interval
<1>2. ASSUME NEW k \in 1..m PROVE Nth(1..m, k) = k
  <2>1. ASSUME NEW i \in 1..m PROVE Cardinality({j \in 1..m : j <= i}) = i
    <3>1. {j \in 1..m : j <= i} = 1..i /\ i \in Nat
      OBVIOUS
    <3> QED
      BY <3>1, <1>1
  <2> QED
    BY <2>1 DEF Nth
<1> QED
  BY <1>1, <1>2

LEMMA PairNth ==
  ASSUME NEW a \in Nat, NEW b \in Nat, a < b
  PROVE  Cardinality({a, b}) = 2 /\ Nth({a, b}, 1) = a /\ Nth({a, b}, 2) = b
<1>1. Cardinality({a}) = 1 /\ IsFiniteSet({a})
  BY FS_Singleton
<1>2. {a, b} = {a} \cup {b} /\ b \notin {a}
  OBVIOUS
<1>3. Cardinality({a} \cup {b}) = 2
  <2> DEFINE S == {a}
  <2>1. IsFiniteSet(S) /\ Cardinality(S) = 1 /\ b \notin S
    BY <1>1, <1>2
  <2> HIDE DEF S
  <2>2. Cardinality(S \cup {b}) = 2
    BY <2>1, FS_AddElement
  <2> QED
    BY <2>2 DEF S
<1>4. Cardinality({a, b}) = 2
  BY <1>2, <1>3
<1>5. {j \in {a, b} : j <= a} = {a} /\ {j \in {a, b} : j <= b} = {a, b}
  OBVIOUS
<1>6. /\ Cardinality({j \in {a, b} : j <= a}) = 1
      /\ Cardinality({j \in {a, b} : j <= b}) = 2
  BY <1>1, <1>4, <1>5
<1>7. \A k \in {1, 2} : Nth({a, b}, k) = CHOOSE i \in {a, b} : Cardinality({j \in {a, b} : j <= i}) = k
  BY DEF Nth
<1>8. Nth({a, b}, 1) = a
  <2>1. \A i \in {a, b} : Cardinality({j \in {a, b} : j <= i}) = 1 <=> i = a
    BY <1>6
  <2> QED
    BY <1>7, <2>1
<1>9. Nth({a, b}, 2) = b
  <2>1. \A i \in {a, b} : Cardinality({j \in {a, b} : j <= i}) = 2 <=> i = b
    BY <1>6
  <2> QED
    BY <1>7, <2>1
<1> QED
  BY <1>4, <1>8, <1>9

LEMMA SingleAtom ==
  ASSUME NEW T, NEW v \in Seq(T), NEW i \in DOMAIN v
  PROVE  SubSeq(v, i, i) = <<v[i]>>
<1>1. i \in 1..Len(v) /\ Len(v) \in Nat
  OBVIOUS
<1>2. SubSeq(v, i, i) = [k \in 1..1 |-> v[i + k - 1]]
  BY <1>1
<1>3. \A k \in 1..1 : v[i + k - 1] = v[i]
  BY <1>1
<1>4. [k \in 1..1 |-> v[i + k - 1]] = [k \in 1..1 |-> v[i]]
  BY <1>3
<1>5. [k \in 1..1 |-> v[i]] = <<v[i]>>
  OBVIOUS
<1> QED
  BY <1>2, <1>4, <1>5

\* What the last pass makes of an atom.
Renamed(a, r) == IF <<a>> \in DOMAIN r THEN r[<<a>>] ELSE a

Atomwise(v, r) == [i \in DOMAIN v |-> Renamed(v[i], r)]

LEMMA ReplaceAtoms ==
  ASSUME NEW T, NEW v \in Seq(T), NEW r
  PROVE  ReplaceLength(v, r, 1) = Atomwise(v, r)
<1> DEFINE found == Found(v, r, 1)
           kept == Kept(v, r, 1)
<1>1. Len(v) \in Nat /\ DOMAIN v = 1..Len(v)
  OBVIOUS
<1>2. ASSUME NEW i \in DOMAIN v PROVE SubSeq(v, i, i + 1 - 1) = <<v[i]>>
  <2>1. i + 1 - 1 = i
    BY <1>1
  <2>2. SubSeq(v, i, i) = <<v[i]>>
    BY SingleAtom
  <2> QED
    BY <2>1, <2>2
<1>3. ASSUME NEW i \in DOMAIN v PROVE i \in found <=> <<v[i]>> \in DOMAIN r
  <2>1. i + 1 <= Len(v) + 1
    BY <1>1
  <2>2. i \in found <=> SubSeq(v, i, i + 1 - 1) \in DOMAIN r
    BY <2>1 DEF Found
  <2> QED
    BY <1>2, <2>2
<1>4. kept = 1..Len(v)
  BY <1>1 DEF Kept, Found
<1>5. ReplaceLength(v, r, 1) =
        [k \in 1..Cardinality(kept) |->
              IF Nth(kept, k) \in found
                THEN r[SubSeq(v, Nth(kept, k), Nth(kept, k) + 1 - 1)]
                ELSE v[Nth(kept, k)]]
  BY ReplaceLengthIs
<1> HIDE DEF found, kept
<1>6. Cardinality(kept) = Len(v) /\ \A k \in 1..Len(v) : Nth(kept, k) = k
  BY <1>1, <1>4, IntervalNth
<1>7. ASSUME NEW k \in 1..Len(v)
      PROVE  (IF Nth(kept, k) \in found
                THEN r[SubSeq(v, Nth(kept, k), Nth(kept, k) + 1 - 1)]
                ELSE v[Nth(kept, k)]) = Renamed(v[k], r)
  <2>1. Nth(kept, k) = k /\ k \in DOMAIN v
    BY <1>1, <1>6
  <2>2. SubSeq(v, k, k + 1 - 1) = <<v[k]>> /\ (k \in found <=> <<v[k]>> \in DOMAIN r)
    BY <1>2, <1>3, <2>1
  <2> QED
    BY <2>1, <2>2 DEF Renamed
<1>8. ReplaceLength(v, r, 1) = [k \in 1..Len(v) |-> Renamed(v[k], r)]
  BY <1>5, <1>6, <1>7
<1> QED
  BY <1>1, <1>8 DEF Atomwise

\* A pair is found at p, one of two places in three atoms; what is left are its
\* replacement and the third atom.
LEMMA ReplacePair ==
  ASSUME NEW T, NEW v \in Seq(T), Len(v) = 3, NEW r, NEW p \in {1, 2},
         SubSeq(v, p, p + 1) \in DOMAIN r, SubSeq(v, 3 - p, 4 - p) \notin DOMAIN r
  PROVE  LET w == ReplaceLength(v, r, 2)
         IN /\ w \in Seq({w[1], w[2]}) /\ Len(w) = 2
            /\ w[p] = r[SubSeq(v, p, p + 1)]
            /\ w[3 - p] = v[IF p = 1 THEN 3 ELSE 1]
<1> DEFINE found == Found(v, r, 2)
           kept == Kept(v, r, 2)
           q == IF p = 1 THEN 3 ELSE 1
           w == ReplaceLength(v, r, 2)
<1>1. DOMAIN v = 1..3
  OBVIOUS
<1>2. p + 2 - 1 = p + 1 /\ (3 - p) + 2 - 1 = 4 - p
  OBVIOUS
<1>3. p \in found
  BY <1>1, <1>2 DEF Found
<1>4. ASSUME NEW i \in found PROVE i = p
  <2>1. i \in {1, 2} /\ SubSeq(v, i, i + 2 - 1) \in DOMAIN r
    BY <1>1, <1>4 DEF Found
  <2>2. i # 3 - p
    BY <1>2, <2>1
  <2> QED
    BY <2>1, <2>2
<1>5. \A i : i \in kept <=> i = p \/ i = q
  BY <1>1, <1>3, <1>4 DEF Kept
<1>6. w =
        [k \in 1..Cardinality(kept) |->
              IF Nth(kept, k) \in found
                THEN r[SubSeq(v, Nth(kept, k), Nth(kept, k) + 2 - 1)]
                ELSE v[Nth(kept, k)]]
  BY ReplaceLengthIs
<1> HIDE DEF found, kept, w
<1>7. /\ Cardinality(kept) = 2
      /\ Nth(kept, p) = p /\ Nth(kept, 3 - p) = q
  <2>1. CASE p = 1
    <3>1. kept = {1, q}
      BY <1>5, <2>1
    <3>2. Cardinality({1, q}) = 2 /\ Nth({1, q}, 1) = 1 /\ Nth({1, q}, 2) = q
      <4>1. 1 \in Nat /\ q \in Nat /\ 1 < q
        BY <2>1
      <4> HIDE DEF q
      <4> QED
        BY <4>1, PairNth
    <3> QED
      BY <2>1, <3>1, <3>2
  <2>2. CASE p = 2
    <3>1. kept = {1, 2}
      BY <1>5, <2>2
    <3>2. Cardinality({1, 2}) = 2 /\ Nth({1, 2}, 1) = 1 /\ Nth({1, 2}, 2) = 2
      BY PairNth
    <3> QED
      BY <2>2, <3>1, <3>2
  <2> QED
    BY <2>1, <2>2
<1>8. DOMAIN w = 1..2
  BY <1>6, <1>7
<1>9. w[p] = r[SubSeq(v, p, p + 1)]
  <2>1. p \in 1..2
    OBVIOUS
  <2> QED
    BY <1>2, <1>3, <1>6, <1>7, <2>1
<1>10. w[3 - p] = v[q]
  <2>1. 3 - p \in 1..2 /\ q # p
    OBVIOUS
  <2>2. q \notin found
    BY <1>4, <2>1
  <2> QED
    BY <1>6, <1>7, <2>1, <2>2
<1>11. w \in Seq({w[1], w[2]}) /\ Len(w) = 2
  <2>1. w = [k \in 1..2 |-> w[k]]
    BY <1>6, <1>7
  <2>2. \A k \in 1..2 : w[k] \in {w[1], w[2]}
    OBVIOUS
  <2> QED
    BY <2>1, <2>2
<1> QED
  BY <1>9, <1>10, <1>11 DEF w

LEMMA NoTriple ==
  ASSUME NEW T, NEW v \in Seq(T), Len(v) \in 1..3, NEW r, v \notin DOMAIN r
  PROVE  ReplaceLength(v, r, 3) = v
<1>1. ASSUME NEW i \in DOMAIN v, i + 3 <= Len(v) + 1
      PROVE  SubSeq(v, i, i + 3 - 1) \notin DOMAIN r
  <2>0. i \in Nat /\ i >= 1 /\ Len(v) \in Nat /\ Len(v) <= 3
    <3>1. DOMAIN v = 1..Len(v)
      OBVIOUS
    <3>2. \A n \in 1..3 : n \in Nat /\ n <= 3
      OBVIOUS
    <3>3. Len(v) \in Nat /\ Len(v) <= 3
      BY <3>2
    <3> QED
      BY <3>1, <3>3
  <2>1. i = 1 /\ i + 3 - 1 = Len(v)
    BY <1>1, <2>0
  <2>2. SubSeq(v, 1, Len(v)) = v
    BY SubSeqWhole
  <2> QED
    BY <2>1, <2>2
<1>2. 3 \in Nat \ {0}
  OBVIOUS
<1> QED
  BY <1>1, <1>2, NothingFound

LEMMA NoPairReplaced ==
  ASSUME NEW T, NEW v \in Seq(T), Len(v) \in 1..3, NEW r, v \notin DOMAIN r,
         \A p \in DOMAIN v : p < Len(v) => SubSeq(v, p, p + 1) \notin DOMAIN r
  PROVE  ReplaceMany(v, r) = Atomwise(v, r)
<1>1. ReplaceLength(v, r, 3) = v
  BY NoTriple
<1>2. ReplaceLength(v, r, 2) = v
  <2>1. ASSUME NEW i \in DOMAIN v, i + 2 <= Len(v) + 1
        PROVE  SubSeq(v, i, i + 2 - 1) \notin DOMAIN r
    <3>1. i < Len(v) /\ i + 2 - 1 = i + 1
      BY <2>1
    <3> QED
      BY <3>1
  <2>2. 2 \in Nat \ {0}
    OBVIOUS
  <2> QED
    BY <2>1, <2>2, NothingFound
<1> QED
  BY <1>1, <1>2, ReplaceAtoms DEF ReplaceMany

LEMMA PairReplaced ==
  ASSUME NEW T, NEW v \in Seq(T), Len(v) = 3, NEW r, v \notin DOMAIN r, NEW p \in {1, 2},
         SubSeq(v, p, p + 1) \in DOMAIN r, SubSeq(v, 3 - p, 4 - p) \notin DOMAIN r,
         <<r[SubSeq(v, p, p + 1)]>> \notin DOMAIN r
  PROVE  LET w == ReplaceMany(v, r)
         IN /\ w \in Seq({w[1], w[2]}) /\ Len(w) = 2
            /\ w[p] = r[SubSeq(v, p, p + 1)]
            /\ w[3 - p] = Renamed(v[IF p = 1 THEN 3 ELSE 1], r)
<1> DEFINE u == ReplaceLength(v, r, 2)
           a == r[SubSeq(v, p, p + 1)]
           b == v[IF p = 1 THEN 3 ELSE 1]
<1>1. ReplaceLength(v, r, 3) = v
  BY NoTriple
<1>2. u \in Seq({u[1], u[2]}) /\ Len(u) = 2 /\ u[p] = a /\ u[3 - p] = b
  BY ReplacePair
<1> HIDE DEF u, a, b
<1>3. ReplaceLength(u, r, 1) = Atomwise(u, r)
  BY <1>2, ReplaceAtoms
<1>4. ReplaceMany(v, r) = Atomwise(u, r)
  BY <1>1, <1>3 DEF ReplaceMany, u
<1>5. DOMAIN u = 1..2 /\ p \in 1..2 /\ 3 - p \in 1..2
  BY <1>2
<1>6. Renamed(a, r) = a
  BY DEF Renamed, a
<1>7. /\ DOMAIN Atomwise(u, r) = 1..2
      /\ Atomwise(u, r)[p] = a
      /\ Atomwise(u, r)[3 - p] = Renamed(b, r)
  BY <1>2, <1>5, <1>6 DEF Atomwise
<1> DEFINE w == Atomwise(u, r)
<1>8. w \in Seq({w[1], w[2]}) /\ Len(w) = 2
  <2>1. w = [k \in 1..2 |-> w[k]]
    BY <1>5 DEF Atomwise
  <2> HIDE DEF w
  <2>2. \A k \in 1..2 : w[k] \in {w[1], w[2]}
    OBVIOUS
  <2> QED
    BY <2>1, <2>2
<1> QED
  BY <1>4, <1>7, <1>8 DEF a, b

\* An atom of a sequence occurs in it.
LEMMA AtomWithin ==
  ASSUME NEW T, NEW w \in Seq(T), NEW i \in DOMAIN w
  PROVE  Within(<<w[i]>>, w)
<1>1. /\ SubSeq(w, i, i) = <<w[i]>>
      /\ Len(<<w[i]>>) = 1 /\ i + 1 - 1 = i /\ i + 1 <= Len(w) + 1
  BY SingleAtom
<1> QED
  BY <1>1 DEF Within, OccursAt

\* What is replaced is a mark or an identifier of a file that was read.
LEMMA SourceIs ==
  ASSUME text \in Evidence, NEW G \in SUBSET Files, NEW s \in DOMAIN Replacements(Reading(G))
  PROVE  \/ s = <<Mark>>
         \/ \E f \in G : \E x \in FieldsOf(text[f]) : IsIdentifier(x) /\ s = Bare(x.value)
<1>1. PICK c \in Categories : s \in Values(Reading(G), c)
  BY DEF Replacements
<1>2. PICK y \in Fields(Reading(G)) : y.key \in KeysOf[c] /\ s = y.value
  BY <1>1 DEF Values
<1>3. PICK f \in G : \E z \in FieldsOf(text[f]) : y = Blurred(z)
  BY ReadingField
<1>4. PICK x \in FieldsOf(text[f]) : y = Blurred(x)
  BY <1>3
<1>5. x \in FieldsOf(text[f]) /\ x.key \in KeysOf[c] /\ s = RedactValue(x.key, x.value)
  BY <1>2, <1>4 DEF Blurred, Field
<1>6. CASE x.key \in KeysOf.session \/ x.value[1].kind = "arn"
  BY <1>5, <1>6 DEF RedactValue
<1>7. CASE ~(x.key \in KeysOf.session \/ x.value[1].kind = "arn")
  <2>1. IsIdentifier(x) /\ s = Bare(x.value)
    BY <1>5, <1>7 DEF RedactValue, IsIdentifier, CollectedKeys
  <2> QED
    BY <1>5, <2>1
<1> QED
  BY <1>6, <1>7

LEMMA IdentifierReplaced ==
  ASSUME NEW G, NEW f \in G, NEW x \in FieldsOf(text[f]), IsIdentifier(x)
  PROVE  Bare(x.value) \in DOMAIN Replacements(Reading(G))
<1>2. Field(x.key, RedactValue(x.key, x.value)) \in Fields(Reading(G))
  BY FieldRead DEF Blurred
<1>3. RedactValue(x.key, x.value) = Bare(x.value)
  BY DEF IsIdentifier, RedactValue
<1>4. PICK c \in Categories : x.key \in KeysOf[c]
  BY DEF IsIdentifier, CollectedKeys
<1>5. Bare(x.value) \in Values(Reading(G), c)
  BY <1>2, <1>3, <1>4 DEF Values, Field
<1> QED
  BY <1>5 DEF Replacements

LEMMA ReplacementPublic ==
  ASSUME text \in Evidence, NEW G \in SUBSET Files, NEW s \in DOMAIN Replacements(Reading(G))
  PROVE  LET a == Replacements(Reading(G))[s]
         IN /\ a.public = TRUE /\ a.kind \in Categories
            /\ <<a>> \notin DOMAIN Replacements(Reading(G))
<1> DEFINE c == CHOOSE c \in Categories : s \in Values(Reading(G), c)
           a == Replacements(Reading(G))[s]
<1>1. c \in Categories
  BY DEF Replacements
<1>2. a = AliasOf(Reading(G), c, s)
  BY DEF Replacements
<1> HIDE DEF c, a
<1>3. \E n : a = Alias(c, n)
  BY <1>2 DEF AliasOf
<1> QED
  BY <1>1, <1>3, AliasNoSource DEF Alias, a

LEMMA RangeTyped ==
  ASSUME text \in Evidence, NEW f \in Files, NEW x \in FieldsOf(text[f])
  PROVE  /\ x \in Fields(text) /\ WellFormed(x)
         /\ x.value \in Seq(PrivateAtom) /\ Len(x.value) \in 1..3
BY EvidenceTyped

LEMMA SourceTyped ==
  ASSUME text \in Evidence, NEW G \in SUBSET Files, NEW s \in DOMAIN Replacements(Reading(G))
  PROVE  /\ s \in Seq(PrivateAtom) /\ Len(s) \in 1..3
         /\ \A i \in DOMAIN s : s[i].kind \notin {"word"} \cup Stamps
<1>1. PICK c \in Categories : s \in Values(Reading(G), c)
  BY DEF Replacements
<1>2. s \in Seq(PrivateAtom) /\ Len(s) \in 1..3
  BY <1>1, ValuesPrivate
<1>3. CASE s = <<Mark>>
  <2>1. \A i \in DOMAIN s : s[i] = Mark
    BY <1>3
  <2> QED
    BY <1>2, <2>1 DEF Mark, Atom, Stamps
<1>4. ASSUME NEW f \in G, NEW x \in FieldsOf(text[f]), IsIdentifier(x), s = Bare(x.value)
      PROVE  \A i \in DOMAIN s : s[i].kind \notin {"word"} \cup Stamps
  <2>1. /\ x.value \in Seq(PrivateAtom) /\ WellFormed(x)
    BY RangeTyped
  <2>2. \A i \in DOMAIN x.value : x.value[i].kind \notin {"word"} \cup Stamps
    BY <1>4, <2>1 DEF WellFormed, IsIdentifier
  <2> QED
    BY <1>4, <2>1, <2>2, BareTyped DEF Mark, Atom, Stamps
<1> QED
  BY <1>2, <1>3, <1>4, SourceIs

\* An occurrence, atom by atom.
LEMMA OccursAtomwise ==
  ASSUME NEW T, NEW v \in Seq(T), NEW w \in Seq(T), Len(v) # 0, NEW i \in DOMAIN w
  PROVE  OccursAt(v, w, i) <=>
           i + Len(v) <= Len(w) + 1 /\ \A k \in 1..Len(v) : w[i + k - 1] = v[k]
<1> DEFINE n == Len(v)
           s == SubSeq(w, i, i + n - 1)
<1>1. n \in Nat \ {0} /\ DOMAIN v = 1..n /\ i \in 1..Len(w) /\ Len(w) \in Nat
  OBVIOUS
<1> HIDE DEF n
<1>2. ASSUME i + n <= Len(w) + 1 PROVE s = v <=> \A k \in 1..n : w[i + k - 1] = v[k]
  <2>1. s \in Seq(T) /\ Len(s) = n /\ \A k \in 1..n : s[k] = w[i + k - 1]
    BY <1>1, <1>2
  <2> HIDE DEF s
  <2>2. DOMAIN s = 1..n
    BY <2>1
  <2>3. s = [k \in 1..n |-> s[k]] /\ v = [k \in 1..n |-> v[k]]
    BY <1>1, <2>1, <2>2
  <2>4. (\A k \in 1..n : s[k] = v[k]) => s = v
    BY <2>3
  <2> QED
    BY <2>1, <2>4
<1> QED
  BY <1>2 DEF OccursAt, n

LEMMA OccursBare ==
  ASSUME NEW v \in Seq(PrivateAtom), NEW w \in Seq(PrivateAtom), Len(v) # 0,
         NEW i \in DOMAIN w, OccursAt(v, w, i)
  PROVE  OccursAt(Bare(v), Bare(w), i)
<1>1. i + Len(v) <= Len(w) + 1 /\ \A k \in 1..Len(v) : w[i + k - 1] = v[k]
  BY OccursAtomwise
<1>2. \A k \in 1..Len(v) : k \in DOMAIN v /\ i + k - 1 \in DOMAIN w
  BY <1>1
<1>3. \A k \in 1..Len(v) : Bare(w)[i + k - 1] = Bare(v)[k]
  <2>1. \A m \in DOMAIN v : Bare(v)[m] = IF v[m].kind = "digits" THEN Mark ELSE v[m]
    BY BareTyped
  <2>2. \A m \in DOMAIN w : Bare(w)[m] = IF w[m].kind = "digits" THEN Mark ELSE w[m]
    BY BareTyped
  <2> QED
    BY <1>1, <1>2, <2>1, <2>2
<1>4. /\ Bare(v) \in Seq(PrivateAtom) /\ Len(Bare(v)) = Len(v)
      /\ Bare(w) \in Seq(PrivateAtom) /\ Len(Bare(w)) = Len(w) /\ i \in DOMAIN Bare(w)
  BY BareTyped
<1> QED
  BY <1>1, <1>3, <1>4, OccursAtomwise

\* Of two overlapping pairs at most one is replaced.
LEMMA PairsApart ==
  ASSUME text \in Evidence, NEW G \in SUBSET Files, NEW y \in Fields(text), Len(y.value) = 3,
         SubSeq(Bare(y.value), 1, 2) \in DOMAIN Replacements(Reading(G)),
         SubSeq(Bare(y.value), 2, 3) \in DOMAIN Replacements(Reading(G))
  PROVE  FALSE
<1> DEFINE u == Bare(y.value)
<1>1. u \in Seq(PrivateAtom) /\ Len(u) = 3 /\ DOMAIN y.value = 1..3
  BY FieldTyped, BareTyped
<1>2. ASSUME NEW p \in {1, 2}, SubSeq(u, p, p + 1) \in DOMAIN Replacements(Reading(G))
      PROVE  \E x \in Fields(text) : /\ IsIdentifier(x) /\ Len(x.value) = 2
                                     /\ OccursAt(x.value, y.value, p)
  <2> DEFINE s == SubSeq(u, p, p + 1)
  <2>1. Len(s) = 2
    BY <1>1
  <2>2. s # <<Mark>>
    BY <2>1
  <2>3. PICK f \in G : \E x \in FieldsOf(text[f]) : IsIdentifier(x) /\ s = Bare(x.value)
    BY <1>2, <2>2, SourceIs
  <2>4. PICK x \in FieldsOf(text[f]) : IsIdentifier(x) /\ s = Bare(x.value)
    BY <2>3
  <2>5. x \in Fields(text) /\ Len(x.value) = 2
    BY <2>1, <2>4, RangeTyped, BareTyped
  <2>6. OccursAt(Bare(x.value), u, p)
    <3>1. p + 2 - 1 = p + 1 /\ p + 2 <= Len(u) + 1
      BY <1>1
    <3>2. Len(Bare(x.value)) = 2
      BY <2>1, <2>4
    <3> QED
      BY <2>4, <3>1, <3>2 DEF OccursAt
  <2>7. OccursAt(x.value, y.value, p)
    <3>1. Distinct(text) /\ p \in DOMAIN y.value
      BY <1>1, EvidenceIs
    <3> QED
      BY <2>4, <2>5, <2>6, <3>1 DEF Distinct
  <2> QED
    BY <2>4, <2>5, <2>7
<1>3. PICK x \in Fields(text) : IsIdentifier(x) /\ Len(x.value) = 2 /\ OccursAt(x.value, y.value, 1)
  <2>1. 1 \in {1, 2} /\ 1 + 1 = 2
    OBVIOUS
  <2> QED
    BY <1>2, <2>1
<1>4. PICK z \in Fields(text) : IsIdentifier(z) /\ Len(z.value) = 2 /\ OccursAt(z.value, y.value, 2)
  <2>1. 2 \in {1, 2} /\ 2 + 1 = 3
    OBVIOUS
  <2> QED
    BY <1>2, <2>1
<1>5. Distinct(text) /\ 1 \in DOMAIN y.value
  BY <1>1, EvidenceIs
<1>6. \A j \in (1 + 1)..(1 + Len(x.value) - 1) :
        OccursAt(z.value, y.value, j) => j + Len(z.value) <= 1 + Len(x.value)
  BY <1>3, <1>4, <1>5 DEF Distinct
<1>7. 2 \in (1 + 1)..(1 + Len(x.value) - 1)
  BY <1>3
<1> QED
  BY <1>3, <1>4, <1>6, <1>7

\* A field x of a file that was read, and its public value w.
Shown(G, x, w) ==
  /\ text \in Evidence /\ G \in SUBSET Files
  /\ \E f \in G : x \in FieldsOf(text[f])
  /\ w = PublicValue(Reading(G), RedactValue(x.key, x.value))

LEMMA ShownTyped ==
  ASSUME NEW G, NEW x, NEW w, Shown(G, x, w)
  PROVE  /\ x \in Fields(text) /\ WellFormed(x)
         /\ x.value \in Seq(PrivateAtom) /\ Len(x.value) \in 1..3
BY RangeTyped DEF Shown

\* Sessions, ARNs and moments are one atom in public, an alias or a mark.
Veiled(x) == x.key \in KeysOf.session \/ x.value[1].kind \in {"arn"} \cup Stamps

LEMMA VeiledShown ==
  ASSUME NEW G, NEW x, NEW w, Shown(G, x, w), Veiled(x)
  PROVE  \E a : /\ w = <<a>> /\ (a.public = TRUE \/ a = Mark)
                /\ a.kind # "word"
                /\ \A i \in DOMAIN x.value : x.value[i].kind # "word"
<1> DEFINE v == x.value
           C == Reading(G)
           r == Replacements(C)
           u == RedactValue(x.key, v)
<1>1. /\ WellFormed(x) /\ v \in Seq(PrivateAtom) /\ Len(v) \in 1..3
      /\ 1 \in DOMAIN v
      /\ text \in Evidence /\ G \in SUBSET Files
      /\ w = ReplaceMany(Shifted(u, Times(C)), r)
  <2>1. WellFormed(x) /\ v \in Seq(PrivateAtom) /\ Len(v) \in 1..3
    BY ShownTyped
  <2>2. Len(v) >= 1 /\ DOMAIN v = 1..Len(v)
    BY <2>1
  <2>3. text \in Evidence /\ G \in SUBSET Files /\ w = ReplaceMany(Shifted(u, Times(C)), r)
    BY DEF Shown, PublicValue
  <2> QED
    BY <2>1, <2>2, <2>3
<1> HIDE DEF r
<1>2. \A i \in DOMAIN v : v[i].kind # "word"
  <2>1. CASE x.key \in KeysOf.session
    BY <1>1, <2>1 DEF WellFormed, CollectedKeys, Categories, KeysOf
  <2>2. CASE v[1].kind = "arn"
    BY <1>1, <2>2 DEF WellFormed
  <2>3. CASE v[1].kind \in Stamps
    <3>1. Len(v) = 1
      BY <1>1, <2>3 DEF WellFormed
    <3>2. \A i \in DOMAIN v : i = 1
      BY <1>1, <3>1
    <3> QED
      BY <2>3, <3>2 DEF Stamps
  <2> QED
    BY <2>1, <2>2, <2>3 DEF Veiled
<1>3. ASSUME NEW a, <<a>> \notin DOMAIN r PROVE ReplaceMany(<<a>>, r) = <<a>>
  BY <1>3, SingleIs, NoSourceKept
<1>4. ASSUME NEW a, <<a>> \in DOMAIN r
      PROVE  /\ ReplaceMany(<<a>>, r) = <<r[<<a>>]>>
             /\ r[<<a>>].public = TRUE /\ r[<<a>>].kind # "word"
  <2>1. /\ r[<<a>>].public = TRUE /\ r[<<a>>].kind \in Categories
        /\ <<r[<<a>>]>> \notin DOMAIN r
    BY <1>1, <1>4, ReplacementPublic DEF r
  <2>2. <<a>> \in Seq({a}) /\ Len(<<a>>) \in 1..3
    BY SingleIs
  <2> QED
    BY <1>4, <2>1, <2>2, SourceReplaced DEF Categories, KeysOf
<1>5. CASE u = <<Mark>>
  <2>1. Shifted(<<Mark>>, Times(C)) = <<Mark>>
    <3> DEFINE m == <<Mark>>
    <3>1. DOMAIN m = 1..1 /\ m[1] = Mark /\ Mark.kind = "mark"
      BY DEF Mark, Atom
    <3>2. \A i \in DOMAIN m : m[i].kind \notin Stamps
      BY <3>1 DEF Stamps
    <3>3. m = [i \in DOMAIN m |-> m[i]]
      OBVIOUS
    <3> HIDE DEF m
    <3>4. Shifted(m, Times(C)) = [i \in DOMAIN m |-> m[i]]
      BY <3>2 DEF Shifted
    <3> QED
      BY <3>3, <3>4 DEF m
  <2>2. w = ReplaceMany(<<Mark>>, r)
    BY <1>1, <1>5, <2>1
  <2>3. Mark.kind # "word"
    BY DEF Mark, Atom
  <2> QED
    BY <1>2, <1>3, <1>4, <2>2, <2>3
<1>6. CASE u # <<Mark>>
  <2>1. v[1].kind \in Stamps /\ x.key \notin KeysOf.session /\ Len(v) = 1
    BY <1>1, <1>6 DEF Veiled, RedactValue, WellFormed
  <2>2. DOMAIN v = 1..1
    BY <1>1, <2>1
  <2> DEFINE t == CHOOSE t \in Times(C) : \A z \in Times(C) : t <= z
             a == Alias(v[1].kind, Truncated(v[1].n - t, v[1].kind))
  <2>3. u = v
    <3>1. u = [i \in DOMAIN v |-> IF v[i].kind = "digits" THEN Mark ELSE v[i]]
      BY <2>1 DEF RedactValue, Bare, Stamps
    <3>2. \A i \in DOMAIN v : v[i].kind # "digits"
      BY <2>1, <2>2 DEF Stamps
    <3>3. u = [i \in DOMAIN v |-> v[i]]
      BY <3>1, <3>2
    <3> QED
      BY <1>1, <3>3
  <2>4. Shifted(v, Times(C)) = <<a>>
    <3>1. Shifted(v, Times(C)) = [i \in 1..1 |->
            IF v[i].kind \in Stamps
              THEN Alias(v[i].kind, Truncated(v[i].n - t, v[i].kind)) ELSE v[i]]
      BY <2>2 DEF Shifted
    <3> HIDE DEF t
    <3>2. Shifted(v, Times(C)) = [i \in 1..1 |-> a]
      BY <2>1, <3>1
    <3> QED
      BY <3>2
  <2>5. <<a>> \notin DOMAIN r
    BY <1>1, AliasNoSource DEF r
  <2>6. a.public = TRUE /\ a.kind \in Stamps
    BY <2>1 DEF Alias
  <2> HIDE DEF a, t, u
  <2>7. w = <<a>>
    BY <1>1, <1>3, <2>3, <2>4, <2>5
  <2> QED
    BY <1>2, <2>6, <2>7 DEF Stamps
<1> QED
  BY <1>5, <1>6

LEMMA PlainShown ==
  ASSUME NEW G, NEW x, NEW w, Shown(G, x, w), ~Veiled(x)
  PROVE  LET u == Bare(x.value)
         IN /\ w = ReplaceMany(u, Replacements(Reading(G)))
            /\ RedactValue(x.key, x.value) = u
            /\ u \in Seq(PrivateAtom) /\ Len(u) = Len(x.value)
            /\ \A i \in DOMAIN x.value : x.value[i].kind \notin {"arn", "session"} \cup Stamps
<1> DEFINE v == x.value
           u == Bare(v)
<1>1. /\ WellFormed(x) /\ v \in Seq(PrivateAtom) /\ Len(v) \in 1..3
      /\ w = PublicValue(Reading(G), RedactValue(x.key, v))
  BY ShownTyped DEF Shown
<1>2. RedactValue(x.key, v) = u
  BY DEF Veiled, RedactValue
<1>3. u \in Seq(PrivateAtom) /\ Len(u) = Len(v) /\ DOMAIN u = DOMAIN v
  BY <1>1, BareTyped
<1>4. ASSUME NEW i \in DOMAIN v PROVE v[i].kind \notin {"arn", "session"} \cup Stamps
  <2>1. v[i].kind \notin Stamps
    <3>1. SUFFICES ASSUME v[i].kind \in Stamps PROVE FALSE
      OBVIOUS
    <3>2. Len(v) = 1
      BY <1>1, <3>1 DEF WellFormed
    <3>3. i = 1
      BY <1>1, <3>2
    <3> QED
      BY <3>1, <3>3 DEF Veiled
  <2>2. v[i].kind # "arn"
    BY <1>1 DEF WellFormed, Veiled
  <2>3. v[i].kind # "session"
    BY <1>1 DEF WellFormed, Veiled
  <2> QED
    BY <2>1, <2>2, <2>3
<1>5. Shifted(u, Times(Reading(G))) = u
  <2>1. ASSUME NEW i \in DOMAIN u PROVE u[i].kind \notin Stamps
    <3>1. u[i] = IF v[i].kind = "digits" THEN Mark ELSE v[i]
      BY <1>1, <1>3, BareTyped
    <3> QED
      BY <1>3, <1>4, <3>1 DEF Mark, Atom, Stamps
  <2>2. u = [i \in DOMAIN u |-> u[i]]
    BY <1>3
  <2> HIDE DEF u
  <2>3. Shifted(u, Times(Reading(G))) = [i \in DOMAIN u |-> u[i]]
    BY <2>1 DEF Shifted
  <2> QED
    BY <2>2, <2>3
<1> QED
  BY <1>1, <1>2, <1>3, <1>4, <1>5 DEF PublicValue

LEMMA PlainCases ==
  ASSUME NEW G, NEW x, NEW w, Shown(G, x, w), ~Veiled(x)
  PROVE  LET u == Bare(x.value)
             r == Replacements(Reading(G))
         IN \/ u \in DOMAIN r /\ w = <<r[u]>>
            \/ /\ u \notin DOMAIN r /\ w = Atomwise(u, r)
               /\ \A p \in DOMAIN u : p < Len(u) => SubSeq(u, p, p + 1) \notin DOMAIN r
            \/ /\ u \notin DOMAIN r /\ Len(u) = 3
               /\ \E p \in {1, 2} :
                    /\ SubSeq(u, p, p + 1) \in DOMAIN r
                    /\ SubSeq(u, 3 - p, 4 - p) \notin DOMAIN r
                    /\ w \in Seq({w[1], w[2]}) /\ Len(w) = 2
                    /\ w[p] = r[SubSeq(u, p, p + 1)]
                    /\ w[3 - p] = Renamed(u[IF p = 1 THEN 3 ELSE 1], r)
<1> DEFINE v == x.value
           u == Bare(v)
           r == Replacements(Reading(G))
<1>1. /\ v \in Seq(PrivateAtom) /\ Len(v) \in 1..3 /\ x \in Fields(text)
      /\ u \in Seq(PrivateAtom) /\ Len(u) = Len(v) /\ Len(u) \in 1..3
      /\ w = ReplaceMany(u, r)
      /\ text \in Evidence /\ G \in SUBSET Files
  BY ShownTyped, PlainShown DEF Shown
<1>2. \A z \in DOMAIN r : <<r[z]>> \notin DOMAIN r
  BY <1>1, ReplacementPublic
<1>3. Len(u) = 3 => ~(SubSeq(u, 1, 2) \in DOMAIN r /\ SubSeq(u, 2, 3) \in DOMAIN r)
  BY <1>1, PairsApart
<1> HIDE DEF u, r
<1>4. CASE u \in DOMAIN r
  BY <1>1, <1>2, <1>4, SourceReplaced DEF u, r
<1>5. CASE /\ u \notin DOMAIN r
           /\ \A p \in DOMAIN u : p < Len(u) => SubSeq(u, p, p + 1) \notin DOMAIN r
  BY <1>1, <1>5, NoPairReplaced DEF u, r
<1>6. CASE /\ u \notin DOMAIN r
           /\ \E p \in DOMAIN u : p < Len(u) /\ SubSeq(u, p, p + 1) \in DOMAIN r
  <2>1. PICK p \in DOMAIN u : p < Len(u) /\ SubSeq(u, p, p + 1) \in DOMAIN r
    BY <1>6
  <2>2. p \in 1..Len(u) /\ Len(u) \in {1, 2, 3}
    BY <1>1
  <2>3. Len(u) = 3
    <3>1. p \in Nat /\ p >= 1
      BY <2>2
    <3>2. ASSUME Len(u) = 1 PROVE FALSE
      <4>1. p < 1
        BY <2>1, <3>2
      <4> QED
        BY <3>1, <4>1
    <3>3. ASSUME Len(u) = 2 PROVE FALSE
      <4>1. p = 1 /\ p + 1 = Len(u)
        BY <2>1, <3>1, <3>3
      <4>2. SubSeq(u, 1, Len(u)) = u
        BY <1>1, SubSeqWhole
      <4> QED
        BY <1>6, <2>1, <4>1, <4>2
    <3> QED
      BY <2>2, <3>2, <3>3
  <2>4. p \in {1, 2}
    BY <2>1, <2>2, <2>3
  <2>5. SubSeq(u, 3 - p, 4 - p) \notin DOMAIN r
    <3>1. CASE p = 1
      <4>1. p + 1 = 2 /\ 3 - p = 2 /\ 4 - p = 3
        BY <3>1
      <4> QED
        BY <1>3, <2>1, <2>3, <3>1, <4>1
    <3>2. CASE p = 2
      <4>1. p + 1 = 3 /\ 3 - p = 1 /\ 4 - p = 2
        BY <3>2
      <4> QED
        BY <1>3, <2>1, <2>3, <3>2, <4>1
    <3> QED
      BY <2>4, <3>1, <3>2
  <2>6. /\ w \in Seq({w[1], w[2]}) /\ Len(w) = 2
        /\ w[p] = r[SubSeq(u, p, p + 1)]
        /\ w[3 - p] = Renamed(u[IF p = 1 THEN 3 ELSE 1], r)
    BY <1>1, <1>2, <1>6, <2>1, <2>3, <2>4, <2>5, PairReplaced
  <2> QED
    BY <1>6, <2>1, <2>3, <2>4, <2>5, <2>6 DEF u, r
<1> QED
  BY <1>4, <1>5, <1>6

LEMMA ShortLength ==
  ASSUME NEW n \in 1..3
  PROVE  n \in Nat /\ n # 0 /\ n >= 1 /\ n <= 3 /\ ~(n > n) /\ ~(1 > n)
OBVIOUS

\* A source found in a value of three atoms or less: all of it, one of its pairs
\* or an atom.
LEMMA FoundSource ==
  ASSUME NEW u \in Seq(PrivateAtom), Len(u) \in 1..3, NEW s \in Seq(PrivateAtom), Len(s) \in 1..3,
         NEW k \in DOMAIN u, OccursAt(s, u, k)
  PROVE  \/ s = u
         \/ Len(s) = 2 /\ k < Len(u) /\ s = SubSeq(u, k, k + 1)
         \/ Len(s) = 1 /\ s = <<u[k]>>
<1>1. k + Len(s) <= Len(u) + 1 /\ SubSeq(u, k, k + Len(s) - 1) = s
  BY DEF OccursAt
<1>2. k \in 1..Len(u) /\ Len(u) \in {1, 2, 3} /\ Len(s) \in {1, 2, 3}
  OBVIOUS
<1>3. CASE Len(s) = 1
  <2>1. k + Len(s) - 1 = k
    BY <1>2, <1>3
  <2>2. SubSeq(u, k, k) = <<u[k]>>
    BY SingleAtom
  <2> QED
    BY <1>1, <1>3, <2>1, <2>2
<1>4. CASE Len(s) = 2
  <2>1. k + Len(s) - 1 = k + 1 /\ k < Len(u)
    BY <1>1, <1>2, <1>4
  <2> QED
    BY <1>1, <1>4, <2>1
<1>5. CASE Len(s) = 3
  <2>0. k \in Nat /\ k >= 1 /\ Len(u) \in Nat /\ Len(u) <= 3 /\ k + 3 <= Len(u) + 1
    <3>1. Len(u) \in Nat /\ Len(u) <= 3
      BY ShortLength
    <3>2. k + 3 <= Len(u) + 1
      BY <1>1, <1>5
    <3>3. k \in Nat /\ k >= 1
      BY <1>2
    <3> QED
      BY <3>1, <3>2, <3>3
  <2>1. k = 1 /\ Len(u) = 3 /\ k + Len(s) - 1 = Len(u)
    BY <1>5, <2>0
  <2>2. SubSeq(u, 1, Len(u)) = u
    BY SubSeqWhole
  <2> QED
    BY <1>1, <2>1, <2>2
<1> QED
  BY <1>2, <1>3, <1>4, <1>5

\* Position i of x is in nothing that is replaced.
Uncovered(G, x, i) ==
  \A s \in DOMAIN Replacements(Reading(G)) : \A k \in 1..i :
    ~(OccursAt(s, Bare(x.value), k) /\ i < k + Len(s))

\* What may be in the public value of x.
Fine(G, x, a) ==
  \/ a.public = TRUE \/ a.kind \in {"word", "mark"}
  \/ a.kind \in NamingKinds /\ \E i \in DOMAIN x.value : a = x.value[i] /\ Uncovered(G, x, i)

\* An atom that is in no longer source: it gets its alias if it is collected, and
\* words stay.
LEMMA AtomLeft ==
  ASSUME NEW G, NEW x, NEW w, Shown(G, x, w), ~Veiled(x), NEW i \in DOMAIN x.value,
         \A s \in DOMAIN Replacements(Reading(G)) : \A k \in 1..i :
           OccursAt(s, Bare(x.value), k) /\ i < k + Len(s) => Len(s) = 1
  PROVE  LET a == Renamed(Bare(x.value)[i], Replacements(Reading(G)))
         IN /\ Fine(G, x, a)
            /\ a.kind = "word" <=> x.value[i].kind = "word"
            /\ a.kind = "word" => a = x.value[i]
<1> DEFINE v == x.value
           u == Bare(v)
           r == Replacements(Reading(G))
           a == Renamed(u[i], r)
<1>1. /\ v \in Seq(PrivateAtom) /\ Len(v) \in 1..3
      /\ u \in Seq(PrivateAtom) /\ Len(u) = Len(v) /\ DOMAIN u = DOMAIN v
      /\ u[i] = IF v[i].kind = "digits" THEN Mark ELSE v[i]
      /\ v[i].kind \notin {"arn", "session"} \cup Stamps
      /\ text \in Evidence /\ G \in SUBSET Files
  BY ShownTyped, PlainShown, BareTyped DEF Shown
<1>2. Mark.kind = "mark"
  BY DEF Mark, Atom
<1>3. v[i].kind \in AtomKinds
  <2>1. v[i] \in PrivateAtom
    BY <1>1
  <2> QED
    BY <2>1 DEF PrivateAtom
<1>4. CASE <<u[i]>> \in DOMAIN r
  <2>1. a = r[<<u[i]>>]
    BY <1>4 DEF Renamed
  <2>2. a.public = TRUE /\ a.kind \in Categories
    BY <1>1, <1>4, <2>1, ReplacementPublic
  <2>3. a.kind # "word"
    BY <2>2 DEF Categories, KeysOf
  <2>4. u[i].kind # "word"
    <3> DEFINE s == <<u[i]>>
    <3>1. 1 \in DOMAIN s /\ s[1] = u[i]
      OBVIOUS
    <3>2. \A k \in DOMAIN s : s[k].kind \notin {"word"} \cup Stamps
      BY <1>1, <1>4, SourceTyped
    <3> HIDE DEF s
    <3> QED
      BY <3>1, <3>2
  <2>5. v[i].kind # "word"
    BY <1>1, <2>4
  <2> QED
    BY <2>2, <2>3, <2>5 DEF Fine
<1>5. CASE <<u[i]>> \notin DOMAIN r
  <2>1. a = u[i]
    BY <1>5 DEF Renamed
  <2>2. Uncovered(G, x, i)
    <3>1. SUFFICES ASSUME NEW s \in DOMAIN r, NEW k \in 1..i, OccursAt(s, u, k), i < k + Len(s)
                   PROVE  FALSE
      BY DEF Uncovered
    <3>2. Len(s) = 1
      BY <3>1
    <3>3. k = i
      BY <1>1, <3>1, <3>2
    <3>4. SubSeq(u, i, i + 1 - 1) = s /\ i + 1 - 1 = i
      BY <1>1, <3>1, <3>2, <3>3 DEF OccursAt
    <3>5. SubSeq(u, i, i) = <<u[i]>>
      BY <1>1, SingleAtom
    <3> QED
      BY <1>5, <3>1, <3>4, <3>5
  <2>3. v[i].kind \in {"word", "digits", "mark"} \cup NamingKinds
    BY <1>1, <1>3 DEF AtomKinds
  <2> HIDE DEF a, u, r
  <2>4. Fine(G, x, a) /\ (a.kind = "word" <=> v[i].kind = "word") /\ (a.kind = "word" => a = v[i])
    <3>1. CASE v[i].kind = "digits"
      BY <1>1, <1>2, <2>1, <3>1 DEF Fine
    <3>2. CASE v[i].kind # "digits"
      BY <1>1, <2>1, <2>2, <2>3, <3>2 DEF Fine
    <3> QED
      BY <3>1, <3>2
  <2> QED
    BY <2>4 DEF a, u, r
<1> QED
  BY <1>4, <1>5

LEMMA WordsNone ==
  ASSUME NEW v, \A i \in DOMAIN v : v[i].kind # "word"
  PROVE  Words(v) = {}
BY DEF Words

LEMMA WordsOne ==
  ASSUME NEW v, NEW p \in DOMAIN v, p \in Nat, v[p].kind = "word",
         \A i \in DOMAIN v : v[i].kind = "word" => i = p
  PROVE  Words(v) = {<<1, v[p]>>}
<1> DEFINE words == {i \in DOMAIN v : v[i].kind = "word"}
<1>1. words = {p}
  OBVIOUS
<1>2. {j \in words : j <= p} = {p}
  BY <1>1
<1>3. Cardinality({j \in words : j <= p}) = 1
  BY <1>2, FS_Singleton
<1>4. Words(v) = {<<Cardinality({j \in words : j <= i}), v[i]>> : i \in words}
  BY DEF Words
<1> HIDE DEF words
<1> QED
  BY <1>1, <1>3, <1>4

LEMMA WordsSame ==
  ASSUME NEW v, NEW w, DOMAIN v = DOMAIN w,
         \A i \in DOMAIN v : /\ v[i].kind = "word" <=> w[i].kind = "word"
                             /\ v[i].kind = "word" => v[i] = w[i]
  PROVE  Words(v) = Words(w)
<1> DEFINE K(s) == {i \in DOMAIN s : s[i].kind = "word"}
<1>1. K(v) = K(w)
  OBVIOUS
<1>2. \A i \in K(v) : v[i] = w[i]
  OBVIOUS
<1>3. /\ Words(v) = {<<Cardinality({j \in K(v) : j <= i}), v[i]>> : i \in K(v)}
      /\ Words(w) = {<<Cardinality({j \in K(w) : j <= i}), w[i]>> : i \in K(w)}
  BY DEF Words
<1> HIDE DEF K
<1> QED
  BY <1>1, <1>2, <1>3

\* Every value has as public value only what does not identify, and its words.
LEMMA FaithfulShown ==
  ASSUME NEW G, NEW x, NEW w, Shown(G, x, w)
  PROVE  (\A a \in Range(w) : Fine(G, x, a)) /\ Words(x.value) = Words(w)
<1> DEFINE v == x.value
           u == Bare(v)
           r == Replacements(Reading(G))
<1>1. /\ v \in Seq(PrivateAtom) /\ Len(v) \in 1..3
      /\ u \in Seq(PrivateAtom) /\ Len(u) = Len(v) /\ DOMAIN u = DOMAIN v
      /\ \A i \in DOMAIN v : u[i] = IF v[i].kind = "digits" THEN Mark ELSE v[i]
      /\ text \in Evidence /\ G \in SUBSET Files
  BY ShownTyped, BareTyped DEF Shown
<1>2. ASSUME \A i \in DOMAIN w : Fine(G, x, w[i]) PROVE \A a \in Range(w) : Fine(G, x, a)
  BY <1>2 DEF Range
<1>3. ASSUME NEW a, w = <<a>>
      PROVE  DOMAIN w = {1} /\ w[1] = a
  BY <1>3
<1>4. ASSUME NEW s \in DOMAIN r
      PROVE  Fine(G, x, r[s]) /\ r[s].kind # "word"
  <2>1. r[s].public = TRUE /\ r[s].kind \in Categories
    BY <1>1, ReplacementPublic
  <2> QED
    BY <2>1 DEF Categories, KeysOf, Fine
<1>5. ASSUME NEW s \in DOMAIN r
      PROVE  s \in Seq(PrivateAtom) /\ Len(s) \in 1..3 /\ \A i \in DOMAIN s : s[i].kind # "word"
  BY <1>1, SourceTyped
<1>6. ASSUME NEW i \in DOMAIN v, ~Veiled(x),
             \A s \in DOMAIN r : \A k \in 1..i :
               OccursAt(s, u, k) /\ i < k + Len(s) => Len(s) = 1
      PROVE  LET a == Renamed(u[i], r)
             IN Fine(G, x, a) /\ (a.kind = "word" <=> v[i].kind = "word") /\ (a.kind = "word" => a = v[i])
  BY <1>6, AtomLeft
<1> HIDE DEF u, r
<1>7. CASE Veiled(x)
  <2>1. PICK a : /\ w = <<a>> /\ (a.public = TRUE \/ a = Mark)
                 /\ a.kind # "word"
                 /\ \A i \in DOMAIN v : v[i].kind # "word"
    BY <1>7, VeiledShown
  <2>2. Fine(G, x, a)
    BY <2>1 DEF Mark, Atom, Fine
  <2>3. \A i \in DOMAIN w : Fine(G, x, w[i]) /\ w[i].kind # "word"
    BY <1>3, <2>1, <2>2
  <2>4. Words(v) = {} /\ Words(w) = {}
    BY <2>1, <2>3, WordsNone
  <2> QED
    BY <1>2, <2>3, <2>4
<1>8. CASE ~Veiled(x) /\ u \in DOMAIN r /\ w = <<r[u]>>
  <2>1. Fine(G, x, r[u]) /\ r[u].kind # "word"
    BY <1>4, <1>8
  <2>2. \A i \in DOMAIN w : Fine(G, x, w[i]) /\ w[i].kind # "word"
    BY <1>3, <1>8, <2>1
  <2>3. \A i \in DOMAIN v : v[i].kind # "word"
    BY <1>1, <1>5, <1>8
  <2>4. Words(v) = {} /\ Words(w) = {}
    BY <2>2, <2>3, WordsNone
  <2> QED
    BY <1>2, <2>2, <2>4
<1>9. CASE /\ ~Veiled(x) /\ u \notin DOMAIN r /\ w = Atomwise(u, r)
           /\ \A p \in DOMAIN u : p < Len(u) => SubSeq(u, p, p + 1) \notin DOMAIN r
  <2>1. DOMAIN w = DOMAIN v /\ \A i \in DOMAIN v : w[i] = Renamed(u[i], r)
    BY <1>1, <1>9 DEF Atomwise
  <2>2. ASSUME NEW i \in DOMAIN v, NEW s \in DOMAIN r, NEW k \in 1..i, OccursAt(s, u, k)
        PROVE  Len(s) = 1
    <3>1. k \in DOMAIN u /\ s # u
      BY <1>1, <1>9, <2>2
    <3> QED
      BY <1>1, <1>5, <1>9, <2>2, <3>1, FoundSource
  <2>3. \A i \in DOMAIN v : /\ Fine(G, x, w[i]) /\ (w[i].kind = "word" <=> v[i].kind = "word")
                            /\ w[i].kind = "word" => w[i] = v[i]
    BY <1>6, <1>9, <2>1, <2>2
  <2>4. Words(v) = Words(w)
    BY <2>1, <2>3, WordsSame
  <2> QED
    BY <1>2, <2>1, <2>3, <2>4
<1>10. CASE /\ ~Veiled(x) /\ u \notin DOMAIN r /\ Len(u) = 3
            /\ \E p \in {1, 2} :
                 /\ SubSeq(u, p, p + 1) \in DOMAIN r
                 /\ SubSeq(u, 3 - p, 4 - p) \notin DOMAIN r
                 /\ w \in Seq({w[1], w[2]}) /\ Len(w) = 2
                 /\ w[p] = r[SubSeq(u, p, p + 1)]
                 /\ w[3 - p] = Renamed(u[IF p = 1 THEN 3 ELSE 1], r)
  <2>1. PICK p \in {1, 2} :
                 /\ SubSeq(u, p, p + 1) \in DOMAIN r
                 /\ SubSeq(u, 3 - p, 4 - p) \notin DOMAIN r
                 /\ w \in Seq({w[1], w[2]}) /\ Len(w) = 2
                 /\ w[p] = r[SubSeq(u, p, p + 1)]
                 /\ w[3 - p] = Renamed(u[IF p = 1 THEN 3 ELSE 1], r)
    BY <1>10
  <2> DEFINE q == IF p = 1 THEN 3 ELSE 1
             s == SubSeq(u, p, p + 1)
             o == 3 - p
  <2>2. /\ DOMAIN v = 1..3 /\ DOMAIN u = 1..3 /\ DOMAIN w = 1..2
        /\ q \in 1..3 /\ o \in 1..2 /\ o # p /\ p \in 1..2
        /\ \A i \in 1..3 : i = q \/ i = p \/ i = p + 1
        /\ \A i \in 1..2 : i = o \/ i = p
    BY <1>1, <1>10, <2>1
  <2>3. v[p].kind # "word" /\ v[p + 1].kind # "word"
    <3>1. Len(s) = 2 /\ s[1] = u[p] /\ s[2] = u[p + 1] /\ p + 1 \in 1..3
      BY <1>1, <1>10, <2>2
    <3>2. s \in DOMAIN r
      BY <2>1
    <3> HIDE DEF s
    <3>3. 1 \in DOMAIN s /\ 2 \in DOMAIN s
      BY <1>5, <3>1, <3>2
    <3>4. u[p].kind # "word" /\ u[p + 1].kind # "word"
      BY <1>5, <3>1, <3>2, <3>3
    <3> QED
      BY <1>1, <2>2, <3>1, <3>4
  <2>4. ASSUME NEW z \in DOMAIN r, NEW k \in 1..q, OccursAt(z, u, k), q < k + Len(z)
        PROVE  Len(z) = 1
    <3>1. k \in DOMAIN u
      BY <2>2
    <3>2. SUFFICES ASSUME Len(z) = 2, k < Len(u), z = SubSeq(u, k, k + 1) PROVE FALSE
      BY <1>1, <1>5, <1>10, <2>4, <3>1, FoundSource
    <3>3. k \in {1, 2}
      BY <1>10, <3>1, <3>2, <2>2
    <3>4. k # o
      <4>1. ASSUME k = o PROVE k = 3 - p /\ k + 1 = 4 - p
        BY <4>1
      <4> QED
        BY <2>1, <2>4, <3>2, <4>1
    <3>5. k = p
      BY <3>3, <3>4
    <3> QED
      BY <2>4, <3>2, <3>5
  <2>5. LET a == Renamed(u[q], r)
        IN Fine(G, x, a) /\ (a.kind = "word" <=> v[q].kind = "word") /\ (a.kind = "word" => a = v[q])
    BY <1>6, <1>10, <2>2, <2>4
  <2>6. /\ Fine(G, x, w[o]) /\ (w[o].kind = "word" <=> v[q].kind = "word")
        /\ w[o].kind = "word" => w[o] = v[q]
    BY <2>1, <2>5
  <2>7. Fine(G, x, w[p]) /\ w[p].kind # "word"
    BY <1>4, <2>1
  <2> HIDE DEF s
  <2>8. \A i \in DOMAIN w : Fine(G, x, w[i])
    BY <2>2, <2>6, <2>7
  <2>9. Words(v) = Words(w)
    <3>1. CASE v[q].kind = "word"
      <4>1. \A i \in DOMAIN v : v[i].kind = "word" => i = q
        BY <2>2, <2>3
      <4>2. \A i \in DOMAIN w : w[i].kind = "word" => i = o
        BY <2>2, <2>7
      <4>3. q \in DOMAIN v /\ q \in Nat /\ o \in DOMAIN w /\ o \in Nat /\ w[o].kind = "word"
        BY <2>2, <2>6, <3>1
      <4>4. w[o] = v[q]
        BY <2>6, <4>3
      <4> HIDE DEF q, o
      <4>5. Words(v) = {<<1, v[q]>>}
        BY <3>1, <4>1, <4>3, WordsOne
      <4>6. Words(w) = {<<1, w[o]>>}
        BY <4>2, <4>3, WordsOne
      <4> QED
        BY <4>4, <4>5, <4>6
    <3>2. CASE v[q].kind # "word"
      <4>1. \A i \in DOMAIN v : v[i].kind # "word"
        BY <2>2, <2>3, <3>2
      <4>2. \A i \in DOMAIN w : w[i].kind # "word"
        BY <2>2, <2>6, <2>7, <3>2
      <4>3. Words(v) = {} /\ Words(w) = {}
        BY <4>1, <4>2, WordsNone
      <4> QED
        BY <4>3
    <3> QED
      BY <3>1, <3>2
  <2> QED
    BY <1>2, <2>8, <2>9
<1>11. ~Veiled(x) =>
         \/ u \in DOMAIN r /\ w = <<r[u]>>
         \/ /\ u \notin DOMAIN r /\ w = Atomwise(u, r)
            /\ \A p \in DOMAIN u : p < Len(u) => SubSeq(u, p, p + 1) \notin DOMAIN r
         \/ /\ u \notin DOMAIN r /\ Len(u) = 3
            /\ \E p \in {1, 2} :
                 /\ SubSeq(u, p, p + 1) \in DOMAIN r
                 /\ SubSeq(u, 3 - p, 4 - p) \notin DOMAIN r
                 /\ w \in Seq({w[1], w[2]}) /\ Len(w) = 2
                 /\ w[p] = r[SubSeq(u, p, p + 1)]
                 /\ w[3 - p] = Renamed(u[IF p = 1 THEN 3 ELSE 1], r)
  BY PlainCases DEF u, r
<1> QED
  BY <1>7, <1>8, <1>9, <1>10, <1>11

\* What is collected of an identifier is the alias of exactly that identifier.
LEMMA IdentifierShown ==
  ASSUME NEW G, NEW x, NEW w, Shown(G, x, w), IsIdentifier(x)
  PROVE  LET r == Replacements(Reading(G))
         IN Bare(x.value) \in DOMAIN r /\ w = <<r[Bare(x.value)]>>
<1>1. PICK f \in G : x \in FieldsOf(text[f])
  BY DEF Shown
<1>2. Bare(x.value) \in DOMAIN Replacements(Reading(G))
  BY <1>1, IdentifierReplaced
<1>3. ~Veiled(x)
  <2>1. WellFormed(x) /\ x.value \in Seq(PrivateAtom) /\ Len(x.value) \in 1..3
    BY ShownTyped
  <2>2. 1 \in DOMAIN x.value
    BY <2>1
  <2>3. x.value[1].kind \notin Stamps
    BY <2>1, <2>2 DEF WellFormed, IsIdentifier
  <2> QED
    BY <2>3 DEF Veiled, IsIdentifier
<1> QED
  BY <1>2, <1>3, PlainCases

LEMMA WithinItself ==
  ASSUME NEW T, NEW v \in Seq(T), Len(v) # 0
  PROVE  Within(v, v)
<1>1. 1 \in DOMAIN v /\ 1 + Len(v) - 1 = Len(v) /\ 1 + Len(v) <= Len(v) + 1
  OBVIOUS
<1>2. SubSeq(v, 1, Len(v)) = v
  BY SubSeqWhole
<1> QED
  BY <1>1, <1>2 DEF Within, OccursAt

LEMMA SingleWithin ==
  ASSUME NEW a
  PROVE  Within(<<a>>, <<a>>)
<1> DEFINE v == <<a>>
<1>1. v \in Seq({a}) /\ Len(v) = 1
  BY SingleIs
<1> HIDE DEF v
<1>2. Len(v) # 0
  BY <1>1
<1>3. Within(v, v)
  BY <1>1, <1>2, WithinItself
<1> QED
  BY <1>3 DEF v

\* Of two occurrences in one text, one around the other.
LEMMA OccursInside ==
  ASSUME NEW T, NEW v \in Seq(T), NEW w \in Seq(T), NEW y \in Seq(T),
         Len(v) # 0, Len(w) # 0, NEW i \in Nat, NEW p \in Nat, i \in DOMAIN y, p \in DOMAIN y,
         OccursAt(v, y, i), OccursAt(w, y, p), p <= i, i + Len(v) <= p + Len(w)
  PROVE  Within(v, w)
<1>1. p >= 1 /\ Len(v) \in Nat /\ Len(w) \in Nat
  OBVIOUS
<1>2. PICK m \in Nat : p + m = i + 1 /\ m >= 1
  <2>1. i + 1 - p \in Nat /\ p + (i + 1 - p) = i + 1 /\ i + 1 - p >= 1
    BY <1>1
  <2> QED
    BY <2>1
<1>3. m + Len(v) <= Len(w) + 1
  BY <1>1, <1>2
<1>4. m \in DOMAIN w
  <2>1. Len(v) >= 1 /\ DOMAIN w = 1..Len(w)
    BY <1>1
  <2>2. m <= Len(w)
    BY <1>1, <1>3, <2>1
  <2> QED
    BY <1>1, <1>2, <2>1, <2>2
<1>5. \A k \in 1..Len(v) : y[i + k - 1] = v[k]
  BY OccursAtomwise
<1>6. \A k \in 1..Len(w) : y[p + k - 1] = w[k]
  BY OccursAtomwise
<1>7. ASSUME NEW k \in 1..Len(v) PROVE w[m + k - 1] = v[k]
  <2>1. k \in Nat /\ k >= 1 /\ k <= Len(v)
    BY <1>1
  <2>2. m + k - 1 \in 1..Len(w)
    BY <1>1, <1>2, <1>3, <2>1
  <2>3. p + (m + k - 1) - 1 = i + k - 1
    BY <1>1, <1>2, <2>1
  <2> QED
    BY <1>5, <1>6, <2>2, <2>3
<1>8. OccursAt(v, w, m)
  BY <1>3, <1>4, <1>7, OccursAtomwise
<1> QED
  BY <1>4, <1>8 DEF Within

LEMMA ShorterInside ==
  ASSUME NEW i \in Nat, i >= 1, NEW n \in Nat, NEW l \in Nat, i + n <= l + 1
  PROVE  /\ l = n => i = 1
         /\ l # n => l > n /\ 1 <= i /\ i + n <= 1 + l
OBVIOUS

\* The longer identifier around a mention, where it is in the text that mentions.
LEMMA Around ==
  ASSUME NEW G, NEW x, NEW xa, Shown(G, x, xa), NEW y, NEW ya, Shown(G, y, ya),
         IsIdentifier(x), NEW i \in DOMAIN y.value, OccursAt(x.value, y.value, i),
         NEW p \in DOMAIN y.value, NEW s \in DOMAIN Replacements(Reading(G)), s # <<Mark>>,
         OccursAt(s, Bare(y.value), p), p <= i, i + Len(x.value) <= p + Len(s)
  PROVE  \E z, za :
           /\ Shown(G, z, za) /\ IsIdentifier(z) /\ za = <<Replacements(Reading(G))[s]>>
           /\ Within(x.value, z.value) /\ Within(z.value, y.value)
           /\ Len(z.value) = Len(s)
<1>1. text \in Evidence /\ G \in SUBSET Files
  BY DEF Shown
<1>2. PICK f \in G : \E z \in FieldsOf(text[f]) : IsIdentifier(z) /\ s = Bare(z.value)
  BY <1>1, SourceIs
<1>3. PICK z \in FieldsOf(text[f]) : IsIdentifier(z) /\ s = Bare(z.value)
  BY <1>2
<1> DEFINE za == PublicValue(Reading(G), RedactValue(z.key, z.value))
<1>4. Shown(G, z, za)
  BY <1>1, <1>2, <1>3 DEF Shown
<1> HIDE DEF za
<1>5. za = <<Replacements(Reading(G))[s]>>
  BY <1>3, <1>4, IdentifierShown
<1>6. /\ x.value \in Seq(PrivateAtom) /\ Len(x.value) \in 1..3 /\ x \in Fields(text)
      /\ y.value \in Seq(PrivateAtom) /\ Len(y.value) \in 1..3 /\ y \in Fields(text)
      /\ z.value \in Seq(PrivateAtom) /\ Len(z.value) \in 1..3 /\ z \in Fields(text)
  BY <1>4, ShownTyped
<1>7. Len(z.value) = Len(s)
  BY <1>3, <1>6, BareTyped
<1>8. OccursAt(z.value, y.value, p)
  <2>1. Distinct(text)
    BY <1>1, EvidenceIs
  <2> QED
    BY <1>3, <1>6, <2>1 DEF Distinct
<1>9. Len(x.value) # 0 /\ Len(z.value) # 0
  BY <1>6, ShortLength
<1>10. Within(x.value, z.value)
  <2>1. i \in Nat /\ p \in Nat
    BY <1>6
  <2> QED
    BY <1>6, <1>7, <1>8, <1>9, <2>1, OccursInside
<1>11. Within(z.value, y.value)
  BY <1>8 DEF Within
<1> QED
  BY <1>3, <1>4, <1>5, <1>7, <1>10, <1>11

\* What mentions x in the public value of y: x itself or a longer identifier.
Mentions(G, x, y, ya) ==
  \E z, za :
    /\ Shown(G, z, za) /\ Within(za, ya)
    /\ \/ z = x
       \/ /\ z.key \in CollectedKeys /\ z.value # x.value
          /\ Within(x.value, z.value) /\ Within(z.value, y.value)

LEMMA BlottedMentioned ==
  ASSUME NEW G, NEW x, NEW xa, Shown(G, x, xa), NEW y, NEW ya, Shown(G, y, ya),
         x.value[1].kind = "arn", Within(x.value, y.value)
  PROVE  Mentions(G, x, y, ya)
<1>1. /\ x.value \in Seq(PrivateAtom) /\ Len(x.value) \in 1..3
      /\ y.value \in Seq(PrivateAtom) /\ WellFormed(y)
  BY ShownTyped
<1>2. PICK i \in DOMAIN y.value : OccursAt(x.value, y.value, i)
  BY DEF Within
<1>3. y.value[i] = x.value[1]
  <2>1. Len(x.value) # 0 /\ 1 \in 1..Len(x.value) /\ i + 1 - 1 = i
    BY <1>1
  <2>2. \A k \in 1..Len(x.value) : y.value[i + k - 1] = x.value[k]
    BY <1>1, <1>2, <2>1, OccursAtomwise
  <2> QED
    BY <2>1, <2>2
<1>4. y.value[1].kind = "arn"
  <2>1. i = 1
    BY <1>1, <1>3 DEF WellFormed
  <2> QED
    BY <1>3, <2>1
<1>5. RedactValue(x.key, x.value) = <<Mark>> /\ RedactValue(y.key, y.value) = <<Mark>>
  BY <1>4 DEF RedactValue
<1>6. xa = ya
  BY <1>5 DEF Shown
<1>7. PICK a : xa = <<a>>
  <2>1. Veiled(x)
    BY DEF Veiled
  <2> QED
    BY <2>1, VeiledShown
<1>8. Within(xa, xa)
  BY <1>7, SingleWithin
<1> QED
  BY <1>6, <1>8 DEF Mentions

LEMMA IdentifierMentioned ==
  ASSUME NEW G, NEW x, NEW xa, Shown(G, x, xa), NEW y, NEW ya, Shown(G, y, ya),
         IsIdentifier(x), y.key \notin CollectedKeys, Within(x.value, y.value)
  PROVE  Mentions(G, x, y, ya)
<1> DEFINE v == x.value
           b == Bare(v)
           u == Bare(y.value)
           r == Replacements(Reading(G))
<1>1. /\ v \in Seq(PrivateAtom) /\ Len(v) \in 1..3 /\ WellFormed(x)
      /\ b \in Seq(PrivateAtom) /\ Len(b) = Len(v)
      /\ y.value \in Seq(PrivateAtom) /\ Len(y.value) \in 1..3 /\ WellFormed(y)
      /\ u \in Seq(PrivateAtom) /\ Len(u) = Len(y.value) /\ DOMAIN u = DOMAIN y.value
  BY ShownTyped, BareTyped
<1>2. PICK i \in DOMAIN y.value : OccursAt(v, y.value, i)
  BY DEF Within
<1>3. Len(v) # 0 /\ Len(b) # 0
  BY <1>1, ShortLength
<1>4. /\ i + Len(v) <= Len(y.value) + 1
      /\ \A k \in 1..Len(v) : y.value[i + k - 1] = v[k] /\ i + k - 1 \in DOMAIN y.value
  BY <1>1, <1>2, <1>3, OccursAtomwise
<1>5. OccursAt(b, u, i)
  BY <1>1, <1>2, <1>3, OccursBare
<1>6. b \in DOMAIN r /\ xa = <<r[b]>>
  BY IdentifierShown
<1>7. PICK m \in 1..Len(v) : v[m].kind \in NamingKinds
  BY <1>1 DEF WellFormed
<1>8. ~Veiled(y)
  <2>1. y.value[i + m - 1].kind \in NamingKinds /\ i + m - 1 \in DOMAIN y.value
    BY <1>4, <1>7
  <2>2. y.value[1].kind # "arn"
    <3>1. ASSUME y.value[1].kind = "arn" PROVE FALSE
      <4>1. y.value[i + m - 1].kind \in {"arn", "digits"}
        BY <1>1, <2>1, <3>1 DEF WellFormed
      <4> QED
        BY <2>1, <4>1 DEF NamingKinds
    <3> QED
      BY <3>1
  <2>3. y.value[1].kind \notin Stamps
    <3>1. ASSUME y.value[1].kind \in Stamps PROVE FALSE
      <4>1. Len(y.value) = 1 /\ 1 \in DOMAIN y.value
        BY <1>1, <3>1 DEF WellFormed
      <4>2. i + m - 1 = 1
        BY <1>1, <2>1, <4>1
      <4> QED
        BY <2>1, <3>1, <4>2 DEF NamingKinds, Stamps
    <3> QED
      BY <3>1
  <2>4. y.key \notin KeysOf.session
    BY DEF CollectedKeys, Categories, KeysOf
  <2> QED
    BY <2>2, <2>3, <2>4 DEF Veiled
<1>9. b # <<Mark>>
  <2>1. b[m] = v[m] /\ v[m].kind # "mark"
    BY <1>1, <1>7, BareTyped DEF NamingKinds
  <2>2. ASSUME b = <<Mark>> PROVE FALSE
    <3>1. Len(b) = 1
      BY <2>2
    <3>2. m = 1
      BY <1>1, <3>1
    <3>3. b[1] = Mark
      BY <2>2
    <3> QED
      BY <2>1, <3>2, <3>3 DEF Mark, Atom
  <2> QED
    BY <2>2
\* the alias of x, if y shows it
<1>10. ASSUME Within(<<r[b]>>, ya) PROVE Mentions(G, x, y, ya)
  BY <1>6, <1>10 DEF Mentions
<1>11. ASSUME NEW p \in DOMAIN y.value, NEW s \in DOMAIN r, OccursAt(s, u, p), p <= i,
              Len(s) > Len(v), i + Len(v) <= p + Len(s), Within(<<r[s]>>, ya)
       PROVE  Mentions(G, x, y, ya)
  <2>1. s # <<Mark>>
    <3>1. Len(<<Mark>>) = 1
      OBVIOUS
    <3> QED
      BY <1>1, <1>11, <3>1, ShortLength
  <2>2. PICK z, za :
           /\ Shown(G, z, za) /\ IsIdentifier(z) /\ za = <<r[s]>>
           /\ Within(v, z.value) /\ Within(z.value, y.value)
           /\ Len(z.value) = Len(s)
    BY <1>2, <1>11, <2>1, Around
  <2>3. z.value # v
    BY <1>1, <1>11, <2>2, ShortLength
  <2> QED
    BY <1>11, <2>2, <2>3 DEF Mentions, IsIdentifier
<1> HIDE DEF b, u, r
<1>12. CASE u \in DOMAIN r /\ ya = <<r[u]>>
  <2>1. Within(ya, ya)
    BY <1>12, SingleWithin
  <2>2. CASE b = u
    BY <1>10, <1>12, <2>1, <2>2
  <2>3. CASE b # u
    <3>1. 1 \in DOMAIN y.value /\ OccursAt(u, u, 1)
      <4>1. 1 + Len(u) - 1 = Len(u) /\ 1 + Len(u) <= Len(u) + 1
        BY <1>1
      <4>2. SubSeq(u, 1, Len(u)) = u
        BY <1>1, SubSeqWhole
      <4> QED
        BY <1>1, <4>1, <4>2 DEF OccursAt
    <3>2. Len(u) > Len(v) /\ 1 <= i /\ i + Len(v) <= 1 + Len(u)
      <4>1. /\ i \in Nat /\ i >= 1 /\ i + Len(b) <= Len(u) + 1
            /\ Len(u) \in Nat /\ Len(b) \in Nat /\ Len(b) = Len(v)
        <5>1. i \in Nat /\ i >= 1
          BY <1>1
        <5>2. Len(u) \in Nat /\ Len(b) \in Nat
          BY <1>1
        <5>3. i + Len(b) <= Len(u) + 1
          BY <1>1, <1>4
        <5> QED
          BY <1>1, <5>1, <5>2, <5>3
      <4>2. ASSUME Len(u) = Len(b) PROVE FALSE
        <5>1. i = 1
          BY <4>1, <4>2, ShorterInside
        <5>2. SubSeq(u, 1, 1 + Len(u) - 1) = b /\ 1 + Len(u) - 1 = Len(u)
          BY <1>5, <4>1, <4>2, <5>1 DEF OccursAt
        <5>3. SubSeq(u, 1, Len(u)) = u
          BY <1>1, SubSeqWhole
        <5> QED
          BY <2>3, <5>2, <5>3
      <4> QED
        BY <4>1, <4>2, ShorterInside
    <3> QED
      BY <1>11, <1>12, <2>1, <3>1, <3>2
  <2> QED
    BY <2>2, <2>3
<1>13. CASE /\ u \notin DOMAIN r /\ ya = Atomwise(u, r)
            /\ \A p \in DOMAIN u : p < Len(u) => SubSeq(u, p, p + 1) \notin DOMAIN r
  <2>1. b = <<u[i]>>
    <3>1. i \in DOMAIN u /\ Len(u) \in 1..3 /\ Len(b) \in 1..3
      BY <1>1
    <3> QED
      BY <1>1, <1>5, <1>6, <1>13, <3>1, FoundSource
  <2>2. i \in DOMAIN ya /\ ya[i] = r[b]
    BY <1>1, <1>6, <1>13, <2>1 DEF Atomwise, Renamed
  <2>3. ya \in Seq({Renamed(u[k], r) : k \in DOMAIN u})
    <3>1. ya = [k \in 1..Len(u) |-> Renamed(u[k], r)] /\ DOMAIN u = 1..Len(u)
      BY <1>1, <1>13 DEF Atomwise
    <3>2. Len(u) \in Nat
      BY <1>1
    <3> QED
      BY <3>1, <3>2
  <2>4. Within(<<ya[i]>>, ya)
    BY <2>2, <2>3, AtomWithin
  <2> QED
    BY <1>10, <2>2, <2>4
<1>14. CASE /\ u \notin DOMAIN r /\ Len(u) = 3
            /\ \E p \in {1, 2} :
                 /\ SubSeq(u, p, p + 1) \in DOMAIN r
                 /\ SubSeq(u, 3 - p, 4 - p) \notin DOMAIN r
                 /\ ya \in Seq({ya[1], ya[2]}) /\ Len(ya) = 2
                 /\ ya[p] = r[SubSeq(u, p, p + 1)]
                 /\ ya[3 - p] = Renamed(u[IF p = 1 THEN 3 ELSE 1], r)
  <2>1. PICK p \in {1, 2} :
                 /\ SubSeq(u, p, p + 1) \in DOMAIN r
                 /\ SubSeq(u, 3 - p, 4 - p) \notin DOMAIN r
                 /\ ya \in Seq({ya[1], ya[2]}) /\ Len(ya) = 2
                 /\ ya[p] = r[SubSeq(u, p, p + 1)]
                 /\ ya[3 - p] = Renamed(u[IF p = 1 THEN 3 ELSE 1], r)
    BY <1>14
  <2> DEFINE q == IF p = 1 THEN 3 ELSE 1
             s == SubSeq(u, p, p + 1)
             o == 3 - p
  <2>2. /\ DOMAIN u = 1..3 /\ DOMAIN ya = 1..2 /\ o \in 1..2 /\ p \in 1..2
        /\ i \in 1..3 /\ (i = q \/ i = p \/ i = p + 1)
    BY <1>1, <1>14, <2>1
  <2>3. Within(<<ya[p]>>, ya) /\ Within(<<ya[o]>>, ya)
    <3>1. p \in DOMAIN ya /\ o \in DOMAIN ya
      BY <2>2
    <3> HIDE DEF o
    <3> QED
      BY <2>1, <3>1, AtomWithin
  <2>4. \/ Len(b) = 2 /\ i < Len(u) /\ b = SubSeq(u, i, i + 1)
        \/ Len(b) = 1 /\ b = <<u[i]>>
    <3>1. i \in DOMAIN u /\ Len(u) \in 1..3 /\ Len(b) \in 1..3
      BY <1>1
    <3> QED
      BY <1>1, <1>5, <1>6, <1>14, <3>1, FoundSource
  <2>5. CASE Len(b) = 2 /\ i < Len(u) /\ b = SubSeq(u, i, i + 1)
    <3>1. i # o
      <4>1. ASSUME i = o PROVE i = 3 - p /\ i + 1 = 4 - p
        BY <4>1
      <4> QED
        BY <1>6, <2>1, <2>5, <4>1
    <3>2. i = p
      BY <1>14, <2>2, <2>5, <3>1
    <3>3. r[b] = ya[p]
      BY <2>1, <2>5, <3>2
    <3> QED
      BY <1>10, <2>3, <3>3
  <2>6. CASE Len(b) = 1 /\ b = <<u[i]>> /\ i = q
    <3>1. r[b] = ya[o]
      BY <1>6, <2>1, <2>6 DEF Renamed
    <3> QED
      BY <1>10, <2>3, <3>1
  <2>7. CASE Len(b) = 1 /\ (i = p \/ i = p + 1)
    <3>1. Len(s) = 2 /\ p + 2 <= Len(u) + 1 /\ p + 2 - 1 = p + 1
      BY <1>1, <1>14, <2>2
    <3>2. s \in DOMAIN r /\ OccursAt(s, u, p) /\ p \in DOMAIN y.value
      BY <1>1, <2>1, <2>2, <3>1 DEF OccursAt
    <3>3. Len(s) > Len(v) /\ p <= i /\ i + Len(v) <= p + Len(s)
      BY <1>1, <2>2, <2>7, <3>1
    <3>4. Within(<<r[s]>>, ya)
      BY <2>1, <2>3
    <3> HIDE DEF s
    <3> QED
      BY <1>11, <3>2, <3>3, <3>4
  <2> QED
    BY <2>2, <2>4, <2>5, <2>6, <2>7
<1>15. \/ u \in DOMAIN r /\ ya = <<r[u]>>
       \/ /\ u \notin DOMAIN r /\ ya = Atomwise(u, r)
          /\ \A p \in DOMAIN u : p < Len(u) => SubSeq(u, p, p + 1) \notin DOMAIN r
       \/ /\ u \notin DOMAIN r /\ Len(u) = 3
          /\ \E p \in {1, 2} :
                 /\ SubSeq(u, p, p + 1) \in DOMAIN r
                 /\ SubSeq(u, 3 - p, 4 - p) \notin DOMAIN r
                 /\ ya \in Seq({ya[1], ya[2]}) /\ Len(ya) = 2
                 /\ ya[p] = r[SubSeq(u, p, p + 1)]
                 /\ ya[3 - p] = Renamed(u[IF p = 1 THEN 3 ELSE 1], r)
  BY <1>8, PlainCases DEF u, r
<1> QED
  BY <1>12, <1>13, <1>14, <1>15

\* Cells are shown fields, and what is collected is in cells.
LEMMA CellShown ==
  ASSUME text \in Evidence, NEW G \in SUBSET Files, ~Overlapping(Reading(G)),
         NEW d, CopyOf(d, G), NEW x \in Cells(d)
  PROVE  Shown(G, Field(x.key, x.before), x.after)
<1> DEFINE y == Field(x.key, x.before)
<1>1. /\ x.after = PublicValue(Reading(G), RedactValue(x.key, x.before))
      /\ \E f \in G : y \in FieldsOf(text[f])
  BY CellIs
<1>2. y.key = x.key /\ y.value = x.before
  BY DEF Field
<1> HIDE DEF y
<1>3. Shown(G, y, x.after)
  BY <1>1, <1>2 DEF Shown
<1> QED
  BY <1>3 DEF y

LEMMA ShownCell ==
  ASSUME NEW G, ~Overlapping(Reading(G)), NEW d, CopyOf(d, G), Certified(d),
         NEW z, NEW w, Shown(G, z, w), z.key \in CollectedKeys
  PROVE  \E x \in Cells(d) : x.key = z.key /\ x.before = z.value /\ x.after = w
<1>1. PICK f \in G : z \in FieldsOf(text[f])
  BY DEF Shown
<1>2. PICK i \in DOMAIN text[f] : \E k \in DOMAIN text[f][i] : z = Field(k, text[f][i][k])
  BY <1>1, FieldOfText
<1>3. PICK k \in DOMAIN text[f][i] : z = Field(k, text[f][i][k])
  BY <1>2
<1>4. z.key = k /\ z.value = text[f][i][k]
  BY <1>3 DEF Field
<1>5. f \in DOMAIN copies[d] \ Added
  BY DEF CopyOf
<1>6. k \in DOMAIN copies[d][f][i]
  <2>1. k \notin DroppedHeaders
    BY <1>4 DEF CollectedKeys, Categories, KeysOf, DroppedHeaders
  <2> DEFINE p == PublicObject(Reading(G), Redacted(text[f])[i])
  <2>2. DOMAIN p = DOMAIN text[f][i]
        /\ (f \notin EventFiles => copies[d][f][i] = p)
        /\ (f \in EventFiles => copies[d][f][i] = Sanitized(p))
    BY <1>5, CopiedObject
  <2> HIDE DEF p
  <2>3. DOMAIN Sanitized(p) = (DOMAIN p \ DroppedHeaders) \cup {"session_id", "public_redaction"}
    BY DEF Sanitized
  <2> QED
    BY <2>1, <2>2, <2>3
<1>7. k \notin Rewritten(f, text[f][i])
  BY <1>4 DEF CollectedKeys, Categories, KeysOf, Rewritten
<1> DEFINE x == [key |-> k, before |-> text[f][i][k], after |-> copies[d][f][i][k]]
<1>8. x \in Cells(d)
  BY <1>5, <1>6, <1>7 DEF Cells
<1>9. x.key = k /\ x.before = text[f][i][k]
  OBVIOUS
<1> HIDE DEF x
<1>10. x.after = PublicValue(Reading(G), RedactValue(x.key, x.before))
  <2>1. text \in Evidence /\ G \in SUBSET Files
    BY DEF Shown
  <2> QED
    BY <1>8, <2>1, CellIs
<1>11. x.after = w
  BY <1>4, <1>9, <1>10 DEF Shown
<1> QED
  BY <1>4, <1>8, <1>9, <1>11

\* An identifier that survives is one that no file of the copy has collected.
LEMMA CopyConceals ==
  ASSUME text \in Evidence, NEW G \in SUBSET Files, ~Overlapping(Reading(G)),
         NEW d, CopyOf(d, G)
  PROVE  Concealed(d)
<1> SUFFICES ASSUME NEW x \in Cells(d), NEW a \in Range(x.after), ~a.public,
                    a.kind \notin {"word", "mark"}
             PROVE  /\ a.kind \in NamingKinds
                    /\ \E p \in DOMAIN x.before : x.before[p] = a /\ ~Named(d, x.before, p)
  BY DEF Concealed
<1> DEFINE y == Field(x.key, x.before)
           v == x.before
<1>1. Shown(G, y, x.after)
  BY CellShown
<1>2. y.value = v
  BY DEF Field
<1> HIDE DEF y
<1>3. Fine(G, y, a)
  BY <1>1, FaithfulShown
<1>4. PICK p \in DOMAIN v : a = v[p] /\ Uncovered(G, y, p)
  BY <1>2, <1>3 DEF Fine
<1>5. v \in Seq(PrivateAtom)
  BY <1>1, <1>2, ShownTyped
<1>6. ASSUME Named(d, v, p) PROVE FALSE
  <2>1. PICK z \in Cells(d) : /\ IsIdentifier(Field(z.key, z.before))
                              /\ \E i \in 1..p : OccursAt(z.before, v, i) /\ p < i + Len(z.before)
    BY <1>6 DEF Named
  <2>2. PICK i \in 1..p : OccursAt(z.before, v, i) /\ p < i + Len(z.before)
    BY <2>1
  <2> DEFINE b == Bare(z.before)
  <2>3. b \in DOMAIN Replacements(Reading(G))
    <3> DEFINE q == Field(z.key, z.before)
    <3>1. PICK f \in G : q \in FieldsOf(text[f])
      BY CellIs
    <3>2. IsIdentifier(q) /\ q.value = z.before
      BY <2>1 DEF Field
    <3> HIDE DEF q
    <3> QED
      BY <3>1, <3>2, IdentifierReplaced
  <2>4. z.before \in Seq(PrivateAtom) /\ Len(z.before) \in 1..3
    BY CellIs
  <2>5. i \in DOMAIN v /\ Len(z.before) # 0
    <3>1. DOMAIN v = 1..Len(v) /\ Len(v) \in Nat
      BY <1>5
    <3>2. p \in 1..Len(v)
      BY <3>1
    <3>3. i \in 1..Len(v)
      BY <3>1, <3>2
    <3> QED
      BY <2>4, <3>1, <3>3, ShortLength
  <2>6. OccursAt(b, Bare(v), i) /\ Len(b) = Len(z.before)
    BY <1>5, <2>2, <2>4, <2>5, OccursBare, BareTyped
  <2> QED
    BY <1>2, <1>4, <2>2, <2>3, <2>6 DEF Uncovered
<1> QED
  BY <1>3, <1>4, <1>6 DEF Fine

\* A public value is a sequence.
LEMMA ShownSequence ==
  ASSUME NEW G, NEW x, NEW w, Shown(G, x, w)
  PROVE  w \in Seq(Range(w))
<1>1. ASSUME NEW n \in Nat, DOMAIN w = 1..n, w = [i \in 1..n |-> w[i]]
      PROVE  w \in Seq(Range(w))
  BY <1>1 DEF Range
<1>2. ASSUME NEW a, w = <<a>> PROVE w \in Seq(Range(w))
  BY <1>2 DEF Range
<1>3. CASE Veiled(x)
  BY <1>2, <1>3, VeiledShown
<1>4. CASE ~Veiled(x)
  <2> DEFINE u == Bare(x.value)
             r == Replacements(Reading(G))
  <2>1. u \in Seq(PrivateAtom)
    BY <1>4, PlainShown
  <2> HIDE DEF u, r
  <2>2. \/ w = <<r[u]>>
        \/ w = Atomwise(u, r)
        \/ w \in Seq({w[1], w[2]})
    BY <1>4, PlainCases DEF u, r
  <2>3. CASE w = Atomwise(u, r)
    <3>1. DOMAIN u = 1..Len(u) /\ Len(u) \in Nat
      BY <2>1
    <3> QED
      BY <1>1, <2>3, <3>1 DEF Atomwise
  <2>4. CASE w \in Seq({w[1], w[2]})
    <3>1. DOMAIN w = 1..Len(w) /\ Len(w) \in Nat /\ w = [i \in 1..Len(w) |-> w[i]]
      BY <2>4
    <3> QED
      BY <1>1, <3>1
  <2> QED
    BY <1>2, <2>2, <2>3, <2>4
<1> QED
  BY <1>3, <1>4

LEMMA ConcatTyped ==
  ASSUME NEW S, NEW v \in Seq(S), NEW w \in Seq(S)
  PROVE  v \o w \in Seq(S)
OBVIOUS

LEMMA SequenceRange ==
  ASSUME NEW S, NEW v \in Seq(S)
  PROVE  Range(v) \subseteq S
BY DEF Range

LEMMA RangeSequence ==
  ASSUME NEW v, NEW S, v \in Seq(Range(v)), Range(v) \subseteq S
  PROVE  v \in Seq(S)
OBVIOUS

\* Of a message only what stands for it, of a body only what is parsed.
LEMMA CopyDiscloses ==
  ASSUME text \in Evidence, NEW G \in SUBSET Files, ~Overlapping(Reading(G)),
         NEW d, CopyOf(d, G)
  PROVE  Undisclosed(d)
<1> SUFFICES ASSUME NEW f \in EventFiles \cap DOMAIN copies[d], NEW event \in Range(copies[d][f])
             PROVE  LET kept == UNION {Range(Part(event, key)) : key \in ResponseKeys}
                    IN /\ \A a \in Range(Part(event, "error_message")) : a.public
                       /\ IsParsed(event) =>
                            \A a \in Range(Part(event, "raw_response_body")) :
                              a.public \/ a \in kept
  BY DEF Undisclosed
<1> DEFINE kept == UNION {Range(Part(event, key)) : key \in ResponseKeys}
           messages == {Alias("message", 0), Alias("message", 1)}
           S == kept \cup messages
<1>1. f \in DOMAIN copies[d] \ Added
  BY EvidenceAssumption
<1>2. f \in G /\ copies[d][f] = PublicObjects(Reading(G), f, Redacted(text[f]))
  BY <1>1 DEF CopyOf
<1>3. PICK i \in DOMAIN text[f] : event = copies[d][f][i]
  BY <1>2 DEF Range, PublicObjects, Redacted
<1> DEFINE p == PublicObject(Reading(G), Redacted(text[f])[i])
<1>4. /\ DOMAIN p = DOMAIN text[f][i] /\ event = Sanitized(p)
      /\ \A k \in DOMAIN p :
           p[k] = PublicValue(Reading(G), RedactValue(k, text[f][i][k]))
  BY <1>1, <1>3, CopiedObject
<1>5. ASSUME NEW k \in DOMAIN p PROVE p[k] \in Seq(Range(p[k]))
  <2> DEFINE z == Field(k, text[f][i][k])
  <2>1. z \in FieldsOf(text[f]) /\ z.key = k /\ z.value = text[f][i][k]
    BY <1>4, <1>5, TextOfField DEF Field
  <2> HIDE DEF z, p
  <2>2. Shown(G, z, p[k])
    BY <1>2, <1>4, <1>5, <2>1 DEF Shown
  <2> QED
    BY <2>2, ShownSequence
<1> HIDE DEF p
<1>6. DOMAIN event = (DOMAIN p \ DroppedHeaders) \cup {"session_id", "public_redaction"}
  BY <1>4 DEF Sanitized
<1>7. \A key \in ResponseKeys \cup {"error_message", "raw_response_body"} :
        key \in DOMAIN event <=> key \in DOMAIN p
  BY <1>6 DEF ResponseKeys, DroppedHeaders
<1>8. IsParsed(event) <=> IsParsed(p)
  BY <1>7 DEF IsParsed
<1>9. \A key \in ResponseKeys : Part(event, key) = Part(p, key)
  <2>1. \A key \in ResponseKeys : key \in DOMAIN event => event[key] = p[key]
    BY <1>4 DEF Sanitized, ResponseKeys, KeysOf
  <2> QED
    BY <1>7, <2>1 DEF Part
<1>10. "error_message" \in DOMAIN event => event["error_message"] = MessageOf(p)
  BY <1>4 DEF Sanitized, KeysOf
<1>11. "raw_response_body" \in DOMAIN event /\ IsParsed(p) =>
         event["raw_response_body"] = BodyOf(p)
  BY <1>4 DEF Sanitized, KeysOf
<1>12. MessageOf(p) \in Seq(messages)
  BY DEF MessageOf
<1>13. <<>> \in Seq(messages) /\ <<>> \in Seq(S)
  OBVIOUS
<1>14. \A a \in messages : a.public = TRUE
  BY DEF Alias
<1> HIDE DEF messages
<1>15. \A a \in Range(Part(event, "error_message")) : a.public
  <2>1. Part(event, "error_message") \in Seq(messages)
    BY <1>10, <1>12, <1>13 DEF Part
  <2> QED
    BY <1>14, <2>1, SequenceRange
<1>16. ASSUME IsParsed(event)
       PROVE  \A a \in Range(Part(event, "raw_response_body")) : a.public \/ a \in kept
  <2>1. ASSUME NEW key \in ResponseKeys PROVE Part(p, key) \in Seq(S)
    <3>1. Part(event, key) = Part(p, key)
      BY <1>9
    <3>2. Range(Part(event, key)) \subseteq kept
      OBVIOUS
    <3>3. Range(Part(p, key)) \subseteq S
      BY <3>1, <3>2
    <3> HIDE DEF S, kept
    <3>4. CASE key \in DOMAIN p
      <4>1. Part(p, key) = p[key]
        BY <3>4 DEF Part
      <4> QED
        BY <1>5, <3>3, <3>4, <4>1, RangeSequence
    <3>5. CASE key \notin DOMAIN p
      BY <1>13, <3>5 DEF Part
    <3> QED
      BY <3>4, <3>5
  <2> DEFINE message == IF "error_message" \in DOMAIN p THEN MessageOf(p) ELSE <<>>
  <2>2. message \in Seq(S)
    <3>1. messages \subseteq S
      OBVIOUS
    <3> HIDE DEF S, kept
    <3>2. MessageOf(p) \in Seq(S)
      BY <1>12, <3>1
    <3> QED
      BY <1>13, <3>2
  <2>3. "response_id" \in ResponseKeys /\ "response_text" \in ResponseKeys
    BY DEF ResponseKeys
  <2> HIDE DEF S, kept
  <2>4. BodyOf(p) = Part(p, "response_id") \o Part(p, "response_text") \o message
    BY DEF BodyOf
  <2> HIDE DEF message
  <2>5. BodyOf(p) \in Seq(S)
    BY <2>1, <2>2, <2>3, <2>4, ConcatTyped
  <2>6. Part(event, "raw_response_body") \in Seq(S)
    BY <1>8, <1>11, <1>13, <1>16, <2>5 DEF Part
  <2>7. Range(Part(event, "raw_response_body")) \subseteq S
    BY <2>6, SequenceRange
  <2> QED
    BY <1>14, <2>7 DEF S
<1> QED
  BY <1>15, <1>16

LEMMA CopyMentions ==
  ASSUME text \in Evidence, NEW G \in SUBSET Files, ~Overlapping(Reading(G)),
         NEW d, CopyOf(d, G), Certified(d)
  PROVE  Mentioned(d)
<1> SUFFICES ASSUME NEW c \in Categories \ {"session", "commit"},
                    NEW x \in Cells(d), NEW y \in Cells(d),
                    x.key \in KeysOf[c], y.key \notin CollectedKeys, Within(x.before, y.before)
             PROVE  \E z \in Cells(d) :
                      /\ \/ z = x
                         \/ /\ z.key \in CollectedKeys /\ z.before # x.before
                            /\ Within(x.before, z.before) /\ Within(z.before, y.before)
                      /\ Within(z.after, y.after)
  BY DEF Mentioned
<1> DEFINE fx == Field(x.key, x.before)
           fy == Field(y.key, y.before)
<1>1. fx.key = x.key /\ fx.value = x.before /\ Shown(G, fx, x.after)
  BY CellShown DEF Field
<1>2. fy.key = y.key /\ fy.value = y.before /\ Shown(G, fy, y.after)
  BY CellShown DEF Field
<1> HIDE DEF fx, fy
<1>3. Within(fx.value, fy.value) /\ fy.key \notin CollectedKeys
  BY <1>1, <1>2
<1>4. Mentions(G, fx, fy, y.after)
  <2>1. CASE fx.value[1].kind = "arn"
    BY <1>1, <1>2, <1>3, <2>1, BlottedMentioned
  <2>2. CASE fx.value[1].kind # "arn"
    <3>1. fx.key \in CollectedKeys \ KeysOf.session
      BY <1>1 DEF CollectedKeys, Categories, KeysOf
    <3>2. IsIdentifier(fx)
      BY <2>2, <3>1 DEF IsIdentifier
    <3> QED
      BY <1>1, <1>2, <1>3, <3>2, IdentifierMentioned
  <2> QED
    BY <2>1, <2>2
<1>5. PICK z, za :
        /\ Shown(G, z, za) /\ Within(za, y.after)
        /\ \/ z = fx
           \/ /\ z.key \in CollectedKeys /\ z.value # fx.value
              /\ Within(fx.value, z.value) /\ Within(z.value, fy.value)
  BY <1>4 DEF Mentions
<1>6. CASE z = fx
  <2>1. za = x.after
    BY <1>1, <1>5, <1>6 DEF Shown
  <2> QED
    BY <1>5, <2>1
<1>7. CASE z # fx
  <2>1. PICK cell \in Cells(d) : cell.key = z.key /\ cell.before = z.value /\ cell.after = za
    BY <1>5, <1>7, ShownCell
  <2> QED
    BY <1>1, <1>2, <1>5, <1>7, <2>1
<1> QED
  BY <1>6, <1>7

(***************************************************************************)
(* What the manifest of a public copy certifies, whatever the files say,   *)
(* however many there are and whichever of them were read: nothing but     *)
(* words, marks and identifiers that none of these files has under a       *)
(* collected key is left as it was, identifiers and the texts that mention *)
(* them agree across the files, and moments are apart as they were, up to  *)
(* the coarser of their precisions.                                        *)
(***************************************************************************)
THEOREM PublicCopiesFaithful == PublicationSpec => []PublicCopyFaithful
<1>1. PublicationInit => PublicationInv
  BY PublicationStarts
<1>2. PublicationInv /\ [PublicationNext]_publicationVars => PublicationInv'
  BY PublicationStep
<1>3. PublicationInv => PublicCopyFaithful
  <2> SUFFICES ASSUME PublicationInv, NEW d \in Copies, Certified(d)
               PROVE  /\ Whole(d) /\ Aliased(d) /\ Timed(d)
                      /\ \A x \in Cells(d) : Words(x.before) = Words(x.after)
                      /\ Concealed(d) /\ Undisclosed(d) /\ Mentioned(d)
    BY DEF PublicCopyFaithful
  <2>1. text \in Evidence /\ Settled(d) /\ copies[d] # <<>>
    BY DEF PublicationInv, Certified
  <2>2. PICK G \in SUBSET Files : ~Overlapping(Reading(G)) /\ CopyOf(d, G)
    BY <2>1 DEF Settled
  <2>3. Whole(d) /\ Aliased(d) /\ Timed(d)
    BY <2>1, <2>2, CopyCorresponds
  <2>4. ASSUME NEW x \in Cells(d)
        PROVE  Words(x.before) = Words(x.after)
    <3> DEFINE y == Field(x.key, x.before)
    <3>1. y.value = x.before /\ Shown(G, y, x.after)
      BY <2>1, <2>2, CellShown DEF Field
    <3> HIDE DEF y
    <3> QED
      BY <3>1, FaithfulShown
  <2> QED
    BY <2>1, <2>2, <2>3, <2>4, CopyConceals, CopyDiscloses, CopyMentions
<1> QED
  BY <1>1, <1>2, <1>3, PTL DEF PublicationSpec
===================================================================================
