-------------------------------- MODULE Teardown --------------------------------
(***************************************************************************)
(* The cloud stacks of the lab: deploy.ps1 creates them and teardown.ps1   *)
(* deletes them and verifies that the resources it captured are gone.  An  *)
(* operator runs one script at a time; a script may throw or be stopped    *)
(* at any step, and CloudFormation, modelled from what the scripts ask of  *)
(* it, carries out an accepted request whether or not anyone waits.        *)
(***************************************************************************)
EXTENDS Naturals, FiniteSets

CONSTANTS
  Kinds,          \* the logical resources of the main stack
  Verifiable,     \* those with a capture key
  MaxDeployments  \* how often the main stack is created

VARIABLES
  stacks,     \* the status of the two stacks
  deployment, \* the number of the last main stack; ids are new in each
  owned,      \* the ids CloudFormation created in the last main stack
  existing,   \* the ids of all deployments that exist
  script,     \* the teardown in progress and what it knows
  reported,   \* the last script was a teardown that reported success
  missed,     \* history: ids a teardown could not capture from the stack it read
  abandoned   \* history: ids captured by a teardown that ended without a report

cloudVars == <<stacks, deployment, owned, existing, script, reported, missed, abandoned>>

Names == {"main", "rate"}

Id(kind) == <<kind, deployment>>

Ids(kinds) == {Id(kind) : kind \in kinds}

Idle == [at |-> "idle", mainExists |-> FALSE, captured |-> {}, verified |-> {}]

CloudInit ==
  /\ stacks = [n \in Names |-> "absent"]
  /\ deployment = 0 /\ owned = {} /\ existing = {}
  /\ script = Idle
  /\ reported = FALSE /\ missed = {} /\ abandoned = {}

-----------------------------------------------------------------------------
\* deploy.ps1

\* -Apply: all resources are created, or some of them and the stack fails.
DeployMain(created) ==
  /\ script = Idle /\ stacks["main"] = "absent" /\ deployment < MaxDeployments
  /\ deployment' = deployment + 1
  /\ owned' = {<<kind, deployment + 1>> : kind \in created}
  /\ existing' = existing \cup owned'
  /\ stacks' = [stacks EXCEPT !["main"] = IF created = Kinds THEN "complete" ELSE "failed"]
  /\ reported' = FALSE
  /\ UNCHANGED <<script, missed, abandoned>>

\* A stack shows its outputs once it is complete, until it is deleted.
HasOutputs == owned = Ids(Kinds) /\ stacks["main"] # "absent"

\* -ApplyRateLimit needs the gateway identifier from the main stack's outputs.
DeployRate ==
  /\ script = Idle /\ stacks["rate"] \in {"absent", "complete"} /\ HasOutputs
  /\ stacks' = [stacks EXCEPT !["rate"] = "complete"]
  /\ reported' = FALSE
  /\ UNCHANGED <<deployment, owned, existing, script, missed, abandoned>>

-----------------------------------------------------------------------------
\* CloudFormation: a deletion ends, and may leave resources behind.

DeletionEnds(n, left, status) ==
  /\ stacks[n] = "deleting"
  /\ stacks' = [stacks EXCEPT ![n] = status]
  /\ existing' = IF n = "main" THEN (existing \ owned) \cup left ELSE existing
  /\ UNCHANGED <<deployment, owned, script, reported, missed, abandoned>>

-----------------------------------------------------------------------------
\* teardown.ps1

Cloud == <<stacks, deployment, owned, existing>>

Capturable == owned \cap Ids(Verifiable)

\* listed: describe-stack-resources succeeded.
ReadMain(listed) ==
  /\ script = Idle
  /\ LET exists == stacks["main"] # "absent"
         captured == IF exists /\ (HasOutputs \/ listed) THEN Capturable ELSE {}
     IN /\ script' = [at |-> "rate", mainExists |-> exists, captured |-> captured,
                      verified |-> {}]
        /\ missed' = missed \cup (IF exists THEN Capturable \ captured ELSE {})
  /\ reported' = FALSE
  /\ UNCHANGED <<Cloud, abandoned>>

DeleteStack(n, from, to) ==
  /\ script.at = from
  /\ stacks[n] # "absent"
  /\ stacks' = [stacks EXCEPT ![n] = "deleting"]
  /\ script' = [script EXCEPT !.at = to]
  /\ UNCHANGED <<deployment, owned, existing, reported, missed, abandoned>>

Proceed(from, to) ==
  /\ script.at = from
  /\ script' = [script EXCEPT !.at = to]
  /\ UNCHANGED <<Cloud, reported, missed, abandoned>>

\* The rate limit goes first, and is waited for and asserted absent.
DeleteRate == DeleteStack("rate", "rate", "rate_wait")

RateAbsent ==
  /\ stacks["rate"] = "absent"
  /\ Proceed("rate", "main") \/ Proceed("rate_wait", "main")

\* The main stack is deleted if it existed when it was read.
DeleteMain ==
  /\ script.mainExists
  /\ DeleteStack("main", "main", "main_wait")

\* Deleting a stack an earlier request has meanwhile deleted does nothing.
MainAbsent ==
  /\ stacks["main"] = "absent"
  /\ Proceed("main", "verify") \/ Proceed("main_wait", "verify")

Verify(id) ==
  /\ script.at = "verify" /\ id \in script.captured \ script.verified
  /\ id \notin existing
  /\ script' = [script EXCEPT !.verified = @ \cup {id}]
  /\ UNCHANGED <<Cloud, reported, missed, abandoned>>

\* mutant: an id that still exists only warns
VerifiedOrNot == TRUE

Verified == script.verified = script.captured

ReportSuccess ==
  /\ script.at = "verify" /\ Verified
  /\ script' = Idle /\ reported' = TRUE
  /\ UNCHANGED <<Cloud, missed, abandoned>>

\* A check throws, a call fails, or the operator stops the script.
End ==
  /\ script # Idle
  /\ script' = Idle
  /\ abandoned' = abandoned \cup script.captured
  /\ UNCHANGED <<Cloud, reported, missed>>

CloudNext ==
  \/ \E created \in SUBSET Kinds : DeployMain(created)
  \/ DeployRate
  \/ \E n \in Names, left \in SUBSET (owned \cap existing), status \in {"absent", "failed"} :
       DeletionEnds(n, left, status)
  \/ \E listed \in BOOLEAN : ReadMain(listed)
  \/ DeleteRate \/ RateAbsent \/ DeleteMain \/ MainAbsent
  \/ \E id \in script.captured : Verify(id)
  \/ ReportSuccess \/ End

CloudSpec == CloudInit /\ [][CloudNext]_cloudVars

-----------------------------------------------------------------------------

(***************************************************************************)
(* What "every captured resource was verified absent" lets a reader        *)
(* conclude, after any history of deployments and teardowns: both stacks   *)
(* are gone, and a resource that still exists is of a kind no teardown     *)
(* captures, or belonged to a stack some teardown read without outputs or  *)
(* a resource list, or was captured by a teardown that ended without a     *)
(* report.  The last is how a second run reports success over a resource   *)
(* the first one saw.                                                      *)
(***************************************************************************)
AbsenceProven ==
  reported =>
    /\ \A n \in Names : stacks[n] = "absent"
    /\ \A id \in existing : id[1] \in Verifiable => id \in missed \cup abandoned
================================================================================
