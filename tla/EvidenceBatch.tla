----------------------------- MODULE EvidenceBatch -----------------------------
(***************************************************************************)
(* How a managed run leaves its evidence: the batch directory is refused   *)
(* if it exists, before the run and again before writing; then seven       *)
(* files are written one by one below a private and a redacted root, and   *)
(* the command line adds two.  A runner is one call of run_proof or        *)
(* run_rate_limit with the command line around it; nothing is locked, and  *)
(* a runner may stop between any two of its steps, by an exception or a    *)
(* crash.                                                                  *)
(***************************************************************************)
EXTENDS Naturals, Sequences, FiniteSets

CONSTANTS
  Runners,
  Batches,
  Tasks     \* the assignments of a batch, a mode and a payload to each runner

Modes == {"managed_temporal", "gateway_rate_limit"}

\* clean: the payload to be redacted names no gateway, engine or role.
Task == [batch : Batches, mode : Modes, clean : BOOLEAN]

ASSUME TasksAssumption == Tasks \subseteq [Runners -> Task]

VARIABLES
  task,     \* what each runner has to do, fixed by its construction
  at,       \* how far each runner is
  written,  \* how many outputs it has written
  stopped,  \* the runners that ended early, where at and written tell
  dirs,     \* the directories below the roots: <<root, batch>>
  files,    \* the files in them, each with the runners whose text it holds
  met       \* history: pairs that passed the second check before either wrote

vars == <<task, at, written, stopped, dirs, files, met>>

Out(root, name) == [root |-> root, name |-> name]

Outputs ==
  <<Out("private", "events.jsonl"), Out("private", "control-plane.json"),
    Out("private", "configuration.json"), Out("private", "observability.json"),
    Out("private", "runs.csv"), Out("redacted", "comparison.csv"),
    Out("redacted", "summary.json"),
    Out("private", "managed-environment.json"),
    Out("redacted", "managed-environment-summary.json")>>

Comparison == 6
Summary == 7

\* The first seven names carry the mode, the command line's do not.
Path(r, i) ==
  <<Outputs[i].root, task[r].batch,
    IF i <= Summary THEN task[r].mode ELSE "any", Outputs[i].name>>

Stages == {"new", "running", "granted", "half_made", "between", "inside"}

Writing == {"half_made", "between", "inside"}

Init ==
  /\ task \in Tasks
  /\ at = [r \in Runners |-> "new"]
  /\ written = [r \in Runners |-> 0]
  /\ stopped = {} /\ dirs = {} /\ files = <<>> /\ met = {}

Exists(b) == \E root \in {"private", "redacted"} : <<root, b>> \in dirs

Live(r) == r \notin stopped

Moves(r, from, to) ==
  /\ Live(r) /\ at[r] = from
  /\ at' = [at EXCEPT ![r] = to]

-----------------------------------------------------------------------------

\* _ensure_new_batch at the start of the run.
Begin(r) ==
  /\ Moves(r, "new", "running")
  /\ ~Exists(task[r].batch)
  /\ UNCHANGED <<task, written, stopped, dirs, files, met>>

Granted(s) == {r \in Runners : Live(r) /\ at[r] = "granted" /\ task[r].batch = task[s].batch}

\* mutant: the run does not look again before it writes
RecheckNothing(r) ==
  /\ Moves(r, "running", "granted")
  /\ met' = met \cup {{r, s} : s \in Granted(r)}
  /\ UNCHANGED <<task, written, stopped, dirs, files>>

\* _ensure_new_batch when the run is over and its outputs are to be written.
Recheck(r) ==
  /\ Moves(r, "running", "granted")
  /\ ~Exists(task[r].batch)
  /\ met' = met \cup {{r, s} : s \in Granted(r)}
  /\ UNCHANGED <<task, written, stopped, dirs, files>>

\* Either check raises.
Refuse(r) ==
  /\ Live(r) /\ at[r] \in {"new", "running"}
  /\ Exists(task[r].batch)
  /\ stopped' = stopped \cup {r}
  /\ UNCHANGED <<task, at, written, dirs, files, met>>

\* mkdir(exist_ok=True) for one root, then for the other.
MakePrivate(r) ==
  /\ Moves(r, "granted", "half_made")
  /\ dirs' = dirs \cup {<<"private", task[r].batch>>}
  /\ UNCHANGED <<task, written, stopped, files, met>>

MakeRedacted(r) ==
  /\ Moves(r, "half_made", "between")
  /\ dirs' = dirs \cup {<<"redacted", task[r].batch>>}
  /\ UNCHANGED <<task, written, stopped, files, met>>

\* mutant: the payload is checked after the summary is written
AdmittedLate(r) == written[r] = Summary => task[r].clean

\* The payload is checked after the comparison and before the summary.
Admitted(r) == written[r] = Comparison => task[r].clean

File(by, whole, clean) == [by |-> by, whole |-> whole, clean |-> clean]

With(path, file) ==
  [p \in DOMAIN files \cup {path} |-> IF p = path THEN file ELSE files[p]]

\* Opening for writing truncates; the last two files bring their directory.
Open(r) ==
  /\ written[r] < Len(Outputs) /\ Admitted(r)
  /\ Moves(r, "between", "inside")
  /\ files' = With(Path(r, written[r] + 1), File({}, FALSE, TRUE))
  /\ UNCHANGED <<task, written, stopped, dirs, met>>

\* Two texts written into one open file overlay each other.
Close(r) ==
  /\ Moves(r, "inside", "between")
  /\ written' = [written EXCEPT ![r] = @ + 1]
  /\ LET path == Path(r, written[r] + 1)
     IN files' = With(path, File(files[path].by \cup {r}, TRUE, task[r].clean))
  /\ UNCHANGED <<task, stopped, dirs, met>>

\* A payload with a forbidden identifier raises; its files stay.
RefusePayload(r) ==
  /\ Live(r) /\ at[r] = "between" /\ ~Admitted(r)
  /\ stopped' = stopped \cup {r}
  /\ UNCHANGED <<task, at, written, dirs, files, met>>

\* Any other exception, or a crash: an open file keeps all, part or nothing
\* of what was to be written.
Stop(r) ==
  /\ Live(r) /\ written[r] < Len(Outputs)
  /\ stopped' = stopped \cup {r}
  /\ \/ UNCHANGED files
     \/ /\ at[r] = "inside"
        /\ LET path == Path(r, written[r] + 1) IN
           files' = With(path, [files[path] EXCEPT !.by = @ \cup {r}])
  /\ UNCHANGED <<task, at, written, dirs, met>>

Step(r) ==
  \/ Begin(r) \/ Recheck(r) \/ Refuse(r)
  \/ MakePrivate(r) \/ MakeRedacted(r)
  \/ Open(r) \/ Close(r) \/ RefusePayload(r) \/ Stop(r)

Next == \E r \in Runners : Step(r)

Spec == Init /\ [][Next]_vars

-----------------------------------------------------------------------------

TypeOK ==
  /\ task \in Tasks
  /\ at \in [Runners -> Stages]
  /\ written \in [Runners -> 0..Len(Outputs)]
  /\ stopped \subseteq Runners
  /\ dirs \subseteq {"private", "redacted"} \X Batches
  /\ \A p \in DOMAIN files : files[p].by \subseteq Runners

Rivals(r) == {s \in Runners \ {r} : task[s].batch = task[r].batch}

\* Output i of r is complete and its alone.
Intact(r, i) ==
  /\ Path(r, i) \in DOMAIN files
  /\ files[Path(r, i)] = File({r}, TRUE, task[r].clean)

(***************************************************************************)
(* A batch owns its evidence: two runners write into one batch only if     *)
(* both passed the second check before either made the directory, and a    *)
(* runner that met nobody there has every file it wrote whole and to       *)
(* itself for good, whoever tries the batch later and wherever anyone      *)
(* stops (managed.py, "A batch owns immutable evidence paths").            *)
(***************************************************************************)
BatchesAreOwned ==
  \A r \in Runners : at[r] \in Writing =>
    /\ \A s \in Rivals(r) : at[s] \in Writing => {r, s} \in met
    /\ (\A s \in Rivals(r) : {r, s} \notin met) =>
         \A i \in 1..written[r] : Intact(r, i)

(***************************************************************************)
(* What a reader of the redacted root may conclude from a summary of a     *)
(* batch nobody contended for: the evidence behind it is complete, private *)
(* and redacted, and names no managed identifier; without the summary a    *)
(* comparison may do either.  The command line's files come after it.      *)
(***************************************************************************)
SummaryMeansComplete ==
  \A r \in Runners :
    /\ at[r] \in Writing /\ \A s \in Rivals(r) : {r, s} \notin met
    => /\ Path(r, Summary) \in DOMAIN files =>
            task[r].clean /\ \A i \in 1..Comparison : Intact(r, i)
       /\ \A i \in (Summary + 1)..Len(Outputs) :
            Path(r, i) \in DOMAIN files => Intact(r, Summary)
=============================================================================
