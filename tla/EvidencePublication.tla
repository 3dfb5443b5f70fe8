--------------------------- MODULE EvidencePublication ---------------------------
(***************************************************************************)
(* How private evidence becomes public: redact.ps1 copies the private      *)
(* files to a candidate directory, blotting out sessions, ARNs and         *)
(* twelve-digit numbers, and publicize_evidence.py writes a public copy    *)
(* of the candidate in which collected identifiers have aliases, times are *)
(* shifted and events are sanitized.  An operator runs the scripts one at  *)
(* a time; each may end after any file.  A text is a sequence of objects,  *)
(* an object a function from its keys, nested ones included, to values, a  *)
(* value a sequence of atoms, so that one value can contain another.       *)
(***************************************************************************)
EXTENDS Naturals, Sequences, FiniteSets, Functions

CONSTANTS
  Objects,    \* the objects that files may hold
  Evidence,   \* the texts the private files may have: functions of the files
  Files,      \* the private files, of all batches
  EventFiles, \* those of events: one to a line
  Preceding,  \* the files of its batch that are written before a file
  Copies      \* the output directories an operator may name

VARIABLES
  text,      \* what the runners write into each private file
  private,   \* the private files written so far; they never change
  candidate, \* the texts in the candidate directory
  copies,    \* the texts in each public directory
  publishing \* the script that runs, what it has read and what it has to write

publicationVars == <<text, private, candidate, copies, publishing>>

Atom(kind, n) == [kind |-> kind, n |-> n, public |-> FALSE]

Alias(kind, n) == [kind |-> kind, n |-> n, public |-> TRUE]

Mark == Atom("mark", 0)

Field(key, value) == [key |-> key, value |-> value]

\* The keys whose values are collected, by category of identifier.
KeysOf ==
  [session |-> {"session_id", "policy_session_header"},
   aws_request |-> {"aws_request_id", "aws_request_header"}, mcp_request |-> {"request_id"},
   operation |-> {"OperationId"}, resource |-> {"PhysicalResourceId"},
   commit |-> {"git_commit"}, gateway |-> {"gateway_id"},
   engine |-> {"policy_engine_id"}, url |-> {"gateway_url"}]

Categories == DOMAIN KeysOf

\* An event's response headers that are not allowed into a copy.
DroppedHeaders == {"date", "trace_header"}

\* What an event has of the parsed response, error message aside.
ResponseKeys == {"response_id", "response_text"}

\* Names no private file has: what publicize() adds to a copy.
Added == {"manifest", "README"}

NoScript == [name |-> "none", todo |-> {}, copy |-> {}, contents |-> <<>>]

PublicationInit ==
  /\ text \in Evidence
  /\ private = {} /\ candidate = <<>>
  /\ copies = [d \in Copies |-> <<>>]
  /\ publishing = NoScript

\* A runner leaves another file (EvidenceBatch).
Record(f) ==
  /\ publishing = NoScript /\ f \in Files \ private /\ Preceding[f] \subseteq private
  /\ private' = private \cup {f}
  /\ UNCHANGED <<text, candidate, copies, publishing>>

-----------------------------------------------------------------------------

Bare(v) == [i \in DOMAIN v |-> IF v[i].kind = "digits" THEN Mark ELSE v[i]]

RedactValue(key, v) ==
  IF key \in KeysOf.session \/ v[1].kind = "arn" THEN <<Mark>> ELSE Bare(v)

Redacted(t) == [i \in DOMAIN t |-> [k \in DOMAIN t[i] |-> RedactValue(k, t[i][k])]]

StartRedaction ==
  /\ publishing = NoScript /\ private # {}
  /\ publishing' = [NoScript EXCEPT !.name = "redact", !.todo = private]
  /\ UNCHANGED <<text, private, candidate, copies>>

Put(texts, f, t) == [g \in DOMAIN texts \cup {f} |-> IF g = f THEN t ELSE texts[g]]

\* An existing candidate is overwritten, and one without its file stays.
RedactFile(f) ==
  /\ publishing.name = "redact" /\ f \in publishing.todo
  /\ candidate' = Put(candidate, f, Redacted(text[f]))
  /\ publishing' = IF publishing.todo = {f} THEN NoScript ELSE [publishing EXCEPT !.todo = @ \ {f}]
  /\ UNCHANGED <<text, private, copies>>

-----------------------------------------------------------------------------

FieldsOf(t) == UNION {{Field(k, t[i][k]) : k \in DOMAIN t[i]} : i \in DOMAIN t}

Fields(contents) == UNION {FieldsOf(contents[f]) : f \in DOMAIN contents}

\* collect_values: over all the files that were read.
Values(contents, c) == {x.value : x \in {y \in Fields(contents) : y.key \in KeysOf[c]}}

Overlapping(contents) ==
  \E c, d \in Categories : c # d /\ Values(contents, c) \cap Values(contents, d) # {}

\* Moments, counted in microseconds, are written to one of three precisions.
Stamps == {"seconds", "milliseconds", "microseconds"}

Ticks(kind) ==
  IF kind = "seconds" THEN 1000000 ELSE IF kind = "milliseconds" THEN 1000 ELSE 1

\* Words, what redaction blots out and its mark, moments, and identifiers.
NamingKinds ==
  {"request", "trace", "operation", "resource", "commit", "gateway", "engine",
   "policy", "url"}

AtomKinds == {"word", "arn", "digits", "mark", "session"} \cup Stamps \cup NamingKinds

PrivateAtom == [kind : AtomKinds, n : Nat, public : {FALSE}]

CollectedKeys == UNION {KeysOf[c] : c \in Categories}

OccursAt(v, w, i) ==
  i + Len(v) <= Len(w) + 1 /\ SubSeq(w, i, i + Len(v) - 1) = v

Within(v, w) == \E i \in DOMAIN w : OccursAt(v, w, i)

\* An identifier in full: what is collected of it is not just a mark.
IsIdentifier(x) ==
  x.key \in CollectedKeys \ KeysOf.session /\ x.value[1].kind # "arn"

\* A value has one to three atoms.  A moment (also one inside a text) and an ARN
\* are values of their own, sessions are values of their keys, and what is
\* collected has no words.
WellFormed(x) ==
  /\ Len(x.value) \in 1..3
  /\ \A i \in DOMAIN x.value :
       /\ x.value[i].kind \in Stamps =>
            /\ Len(x.value) = 1 /\ x.key \notin CollectedKeys
            /\ x.value[i].n % Ticks(x.value[i].kind) = 0
       /\ x.value[i].kind = "arn" => i = 1
       /\ x.value[1].kind = "arn" => x.value[i].kind \in {"arn", "digits"}
       /\ x.value[i].kind = "session" => x.key \in KeysOf.session
       /\ x.value[i].kind = "word" => x.key \notin CollectedKeys
  /\ IsIdentifier(x) => \E i \in DOMAIN x.value : x.value[i].kind \in NamingKinds

ObjectWellFormed(o) ==
  /\ IsFiniteSet(DOMAIN o)
  /\ \A k \in DOMAIN o : o[k] \in Seq(PrivateAtom) /\ WellFormed(Field(k, o[k]))

\* Identifiers in one value are nested or apart, and each is told from any other
\* text by more than the digits that redaction blots out.
Distinct(t) ==
  \A x \in {z \in Fields(t) : IsIdentifier(z)}, y \in Fields(t) :
    \A i \in DOMAIN y.value :
      /\ OccursAt(Bare(x.value), Bare(y.value), i) => OccursAt(x.value, y.value, i)
      /\ OccursAt(x.value, y.value, i) =>
           \A z \in {z \in Fields(t) : IsIdentifier(z)} :
             \A j \in (i + 1)..(i + Len(x.value) - 1) :
               OccursAt(z.value, y.value, j) => j + Len(z.value) <= i + Len(x.value)

\* What runners write of one account.  A file may mention identifiers that only
\* another file, or none, has under a collected key.
ASSUME EvidenceAssumption ==
  /\ IsFiniteSet(Files) /\ Files \cap Added = {} /\ EventFiles \subseteq Files
  /\ Evidence \subseteq [Files -> Seq(Objects)]
  /\ \A o \in Objects : ObjectWellFormed(o)
  /\ \A t \in Evidence : Distinct(t)

Atoms(contents) == UNION {Range(x.value) : x \in Fields(contents)}

Times(contents) == {a.n : a \in {b \in Atoms(contents) : b.kind \in Stamps}}

Numbering(V) == CHOOSE number \in Injection(V, 1..Cardinality(V)) : TRUE

\* Sessions and commits share one placeholder, other identifiers are numbered.
AliasOf(contents, c, x) ==
  Alias(c, IF c \in {"session", "commit"} THEN 0 ELSE Numbering(Values(contents, c))[x])

\* The replacement of every collected value.
Replacements(contents) ==
  [x \in UNION {Values(contents, c) : c \in Categories} |->
     AliasOf(contents, CHOOSE c \in Categories : x \in Values(contents, c), x)]

\* The position in K that has rank k.
Nth(K, k) == CHOOSE i \in K : Cardinality({j \in K : j <= i}) = k

\* str.replace of all the sources of n atoms; none overlaps another.
ReplaceLength(v, replacements, n) ==
  LET found == {i \in DOMAIN v : /\ i + n <= Len(v) + 1
                                 /\ SubSeq(v, i, i + n - 1) \in DOMAIN replacements}
      kept == {i \in DOMAIN v : \A j \in found : i <= j \/ i >= j + n}
  IN [k \in 1..Cardinality(kept) |->
        LET i == Nth(kept, k)
        IN IF i \in found THEN replacements[SubSeq(v, i, i + n - 1)] ELSE v[i]]

\* mutant: shorter sources are replaced first
ReplaceShortestFirst(v, replacements) ==
  ReplaceLength(ReplaceLength(ReplaceLength(v, replacements, 1), replacements, 2),
                replacements, 3)

\* replace_many: longer sources first.  A source has at most three atoms.
ReplaceMany(v, replacements) ==
  ReplaceLength(ReplaceLength(ReplaceLength(v, replacements, 3), replacements, 2),
                replacements, 1)

\* mutant: every moment is cut to whole seconds
TruncatedToSeconds(n, kind) == n - (n % Ticks("seconds"))

\* format_shifted: a moment keeps the precision it was written to, and loses what
\* the distance to the earliest has beyond it.
Truncated(n, kind) == n - (n % Ticks(kind))

Shifted(v, times) ==
  LET earliest == CHOOSE t \in times : \A u \in times : t <= u
  IN [i \in DOMAIN v |->
        IF v[i].kind \in Stamps
          THEN Alias(v[i].kind, Truncated(v[i].n - earliest, v[i].kind))
          ELSE v[i]]

\* The decision of an event that was denied.
Deny == <<Atom("word", 0)>>

\* The fixed message that stands for the one in the response.
MessageOf(event) ==
  <<Alias("message", IF "decision" \in DOMAIN event /\ event.decision = Deny THEN 1 ELSE 0)>>

Part(o, key) == IF key \in DOMAIN o THEN o[key] ELSE <<>>

\* The response of an event is an object, not just text.
IsParsed(event) == \E key \in ResponseKeys \cup {"error_message"} : key \in DOMAIN event

\* What the copy's parsed response has is dumped to its raw body.
BodyOf(event) ==
  Part(event, "response_id") \o Part(event, "response_text")
    \o (IF "error_message" \in DOMAIN event THEN MessageOf(event) ELSE <<>>)

\* sanitize_event, after all was replaced: headers are dropped, messages and raw
\* bodies written anew.  Its lookups find the aliases that are there already.
Sanitized(event) ==
  [k \in (DOMAIN event \ DroppedHeaders) \cup {"session_id", "public_redaction"} |->
     CASE k \in KeysOf.session -> <<Alias("session", 0)>>
       [] k = "public_redaction" -> <<Alias("redaction", 0)>>
       [] k = "error_message" -> MessageOf(event)
       [] k = "raw_response_body" /\ IsParsed(event) -> BodyOf(event)
       [] OTHER -> event[k]]

\* mutant: aliases are given file by file
ReadFor(f) == [g \in {f} |-> publishing.contents[g]]

\* The files the aliases and the earliest time of f's text are taken from.
Read(f) == publishing.contents

PublicText(f) ==
  LET times == Times(Read(f))
      replacements == Replacements(Read(f))
      replaced == [i \in DOMAIN publishing.contents[f] |->
                     LET o == publishing.contents[f][i]
                     IN [k \in DOMAIN o |-> ReplaceMany(Shifted(o[k], times), replacements)]]
  IN [i \in DOMAIN replaced |->
        IF f \in EventFiles THEN Sanitized(replaced[i]) ELSE replaced[i]]

\* publicize() refuses a directory that exists and categories that overlap
\* before it writes anything; without a file there is no directory to write to.
StartPublication(d) ==
  /\ publishing = NoScript /\ copies[d] = <<>>
  /\ candidate # <<>> /\ ~Overlapping(candidate)
  /\ publishing' = [name |-> "publicize", todo |-> DOMAIN candidate, copy |-> {d},
                contents |-> candidate]
  /\ UNCHANGED <<text, private, candidate, copies>>

Adding(d, f, t) ==
  /\ publishing.name = "publicize" /\ d \in publishing.copy
  /\ copies' = [copies EXCEPT ![d] = Put(@, f, t)]
  /\ UNCHANGED <<text, private, candidate>>

\* Identifiers, their aliases and times, reduced to their category.
Faceless(v) ==
  [i \in DOMAIN v |-> IF v[i].kind \in Stamps THEN Alias("moment", 0)
                     ELSE IF v[i].public THEN Alias(v[i].kind, 0) ELSE v[i]]

\* What is compared of an event before and after: the projected fields.
Projection(event) ==
  [k \in DOMAIN event \cap {"decision", "run_id", "tool_response"} |->
     Faceless(ReplaceMany(event[k], Replacements(publishing.contents)))]

\* A projection that changed raises, which ScriptEnds covers.
PublicizeFile(d, f) ==
  /\ publishing.name = "publicize" /\ f \in publishing.todo
  /\ f \in EventFiles => \A i \in DOMAIN publishing.contents[f] :
       Projection(PublicText(f)[i]) = Projection(publishing.contents[f][i])
  /\ Adding(d, f, PublicText(f))
  /\ publishing' = [publishing EXCEPT !.todo = @ \ {f}]

\* How many files were read is all of the manifest that depends on them.
Manifest == <<Field("files_processed", Cardinality(DOMAIN publishing.contents))>>

\* mutant: the manifest is written first
WriteManifestEarly(d) ==
  /\ copies[d] # <<>> /\ "manifest" \notin DOMAIN copies[d]
  /\ Adding(d, "manifest", Manifest)
  /\ UNCHANGED publishing

WriteManifest(d) ==
  /\ publishing.todo = {} /\ "manifest" \notin DOMAIN copies[d]
  /\ Adding(d, "manifest", Manifest)
  /\ UNCHANGED publishing

CopyReadme(d) ==
  /\ "manifest" \in DOMAIN copies[d]
  /\ Adding(d, "README", <<>>)
  /\ publishing' = NoScript

\* The script ends early, whatever it was at.
ScriptEnds ==
  /\ publishing # NoScript
  /\ publishing' = NoScript
  /\ UNCHANGED <<text, private, candidate, copies>>

PublicationNext ==
  \/ \E f \in Files : Record(f) \/ RedactFile(f)
  \/ StartRedaction
  \/ \E d \in Copies : \/ StartPublication(d) \/ WriteManifest(d) \/ CopyReadme(d)
                       \/ \E f \in Files : PublicizeFile(d, f)
  \/ ScriptEnds

PublicationSpec == PublicationInit /\ [][PublicationNext]_publicationVars

-----------------------------------------------------------------------------

Certified(d) == "manifest" \in DOMAIN copies[d]

\* What sanitizing adds to an object or writes anew.
Rewritten(f, o) ==
  IF f \notin EventFiles THEN {}
  ELSE {"public_redaction"}
         \cup (IF IsParsed(o) THEN {"error_message", "raw_response_body"} ELSE {})

\* The fields that a copy keeps, beside the private fields they stand for.
Cells(d) ==
  UNION {UNION {{[key |-> k, before |-> text[f][i][k], after |-> copies[d][f][i][k]] :
                  k \in (DOMAIN text[f][i] \cap DOMAIN copies[d][f][i])
                         \ Rewritten(f, text[f][i])} :
                i \in DOMAIN text[f]} :
         f \in DOMAIN copies[d] \ Added}

Blotted(x) == x.before[1].kind = "arn"

Identifies(x, c) == x.key \in KeysOf[c] /\ ~Blotted(x)

IsStamp(x) == x.before[1].kind \in Stamps

KeysInCopy(f, keys) ==
  IF f \in EventFiles THEN (keys \ DroppedHeaders) \cup {"session_id", "public_redaction"}
                      ELSE keys

\* The copy has the files that were read, object for object with their keys,
\* dropped headers aside, and what was equal under one key is equal in the copy.
Whole(d) ==
  /\ Cardinality(DOMAIN copies[d] \ Added) = copies[d]["manifest"][1].value
  /\ \A f \in DOMAIN copies[d] \ Added :
       /\ DOMAIN copies[d][f] = DOMAIN text[f]
       /\ \A i \in DOMAIN text[f] :
            DOMAIN copies[d][f][i] = KeysInCopy(f, DOMAIN text[f][i])
  /\ \A x, y \in Cells(d) : x.key = y.key /\ x.before = y.before => x.after = y.after

\* Two identifiers have one alias exactly if they were one.
Aliased(d) ==
  \A c \in Categories \ {"session", "commit"} : \A x, y \in Cells(d) :
    Identifies(x, c) /\ Identifies(y, c) => (x.before = y.before <=> x.after = y.after)

\* The time between moments of one precision is kept; that between others is less
\* than one unit of either off.
Timed(d) ==
  \A x, y \in Cells(d) : IsStamp(x) /\ IsStamp(y) =>
    /\ x.before[1].kind = y.before[1].kind =>
         x.after[1].n + y.before[1].n = y.after[1].n + x.before[1].n
    /\ x.after[1].n + y.before[1].n
         < y.after[1].n + x.before[1].n + Ticks(y.before[1].kind)

\* The words of v in their order: each beside its number.
Words(v) ==
  LET words == {i \in DOMAIN v : v[i].kind = "word"}
  IN {<<Cardinality({j \in words : j <= i}), v[i]>> : i \in words}

\* Position p of a private value is in an identifier that some file of the copy
\* has under a collected key.
Named(d, v, p) ==
  \E x \in {z \in Cells(d) : IsIdentifier(Field(z.key, z.before))} :
    \E i \in 1..p : OccursAt(x.before, v, i) /\ p < i + Len(x.before)

\* Sessions, ARNs, account numbers and exact times never survive, an identifier
\* only where no file that was read names it under a collected key.
Concealed(d) ==
  \A x \in Cells(d) : \A a \in {b \in Range(x.after) : ~b.public} :
    \/ a.kind \in {"word", "mark"}
    \/ /\ a.kind \in NamingKinds
       /\ \E p \in DOMAIN x.before : x.before[p] = a /\ ~Named(d, x.before, p)

\* Of an error message nothing is kept, and the raw body of a response has nothing
\* that the parsed response beside it does not have.
Undisclosed(d) ==
  \A f \in EventFiles \cap DOMAIN copies[d] : \A event \in Range(copies[d][f]) :
    LET kept == UNION {Range(Part(event, key)) : key \in ResponseKeys}
    IN /\ \A a \in Range(Part(event, "error_message")) : a.public
       /\ IsParsed(event) =>
            \A a \in Range(Part(event, "raw_response_body")) : a.public \/ a \in kept

\* A text that mentions an identifier mentions its alias, or that of a longer
\* identifier around it.
Mentioned(d) ==
  \A c \in Categories \ {"session", "commit"} : \A x, y \in Cells(d) :
    x.key \in KeysOf[c] /\ y.key \notin CollectedKeys /\ Within(x.before, y.before) =>
      LET longer == {z \in Cells(d) : /\ z.key \in CollectedKeys /\ z.before # x.before
                                      /\ Within(x.before, z.before)
                                      /\ Within(z.before, y.before)}
      IN \E z \in {x} \cup longer : Within(z.after, y.after)

(***************************************************************************)
(* What the manifest of a public copy certifies, whichever files of the    *)
(* candidate there were and wherever earlier scripts stopped.  The copy    *)
(* has as many files as were read, and of an event all but the headers     *)
(* that are dropped; words stay, error messages and what repeats them      *)
(* aside.  No session, ARN, account number or exact time is left, and an   *)
(* identifier only if no file that was read has it under a collected key:  *)
(* a control-plane file without the configuration keeps its gateway, any   *)
(* copy its policy and trace identifiers.  Across all files two request,   *)
(* operation, resource or gateway identifiers (other than ARNs, which      *)
(* redaction blots out) have one alias exactly if they were one, and a     *)
(* text that mentions an identifier collected from any file mentions its   *)
(* alias, or that of a longer one around it.  The time between moments of  *)
(* one precision is kept, that between others up to the coarser one.       *)
(***************************************************************************)
PublicCopyFaithful ==
  \A d \in Copies : Certified(d) =>
    /\ Whole(d) /\ Aliased(d) /\ Timed(d)
    /\ \A x \in Cells(d) : Words(x.before) = Words(x.after)
    /\ Concealed(d) /\ Undisclosed(d) /\ Mentioned(d)

(***************************************************************************)
(* PUBLIC_EVIDENCE.md, published with every copy: before publication the   *)
(* repository's evidence generator "replaces managed gateway,              *)
(* policy-engine, resource, operation, and private source-commit           *)
(* identifiers with aliases or explicit placeholders".                     *)
(***************************************************************************)
EngineIdentifiersReplaced ==
  \A d \in Copies : Certified(d) =>
    \A x \in Cells(d) : \A a \in Range(x.after) : a.kind = "engine" => a.public
=============================================================================
