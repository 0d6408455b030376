------------------------------ MODULE ProbeJobs ------------------------------
(***************************************************************************)
(* The Validating phase of one policy in detail: the loop over its probes  *)
(* in reconcileValidationProbes and the ephemeral Jobs of its Job probes.  *)
(* A call walks the probes from the first; a Job that is missing is        *)
(* created and one still running is waited for, and both end the call; the *)
(* next call starts over.  The Job's name depends on the policy and the    *)
(* revision only, so all Job probes of a policy share it.                  *)
(*                                                                         *)
(* CanaryRotation sees all of this as ProbesPass and ProbesFail.  The Job  *)
(* controller and the cache of Jobs are external.                          *)
(***************************************************************************)
EXTENDS Naturals, Sequences

CONSTANTS Probes,     \* the policy's validationProbes, by type, in order
          MaxRev,     \* bound: revisions validated, one after the other
          Threshold,  \* circuitBreakerThreshold
          Faults      \* what may go wrong: "lag", the Job informer's cache is
                      \* behind; "delete", deleting a Job fails; "api",
                      \* a call the loop depends on returns an error

Rev == 1..MaxRev
JobProbes == {i \in 1..Len(Probes) : Probes[i] = "Job"}

ASSUME ProbesAssumption ==
    /\ Probes \in Seq({"Job", "Network"})
    /\ MaxRev \in Nat \ {0} /\ Threshold \in Nat \ {0}
    /\ Faults \subseteq {"lag", "delete", "api"}

\* A Job, by the probe and revision it was built for.
Job == [probe : JobProbes, revision : Rev, state : {"Running", "Succeeded", "Failed", "TimedOut"}]
NoJob == [state |-> "NotFound"]

VARIABLES
    faults,      \* the faults of this behaviour
    revision,    \* desired revision
    phase,       \* "Validating", "Promoted", or "Tripped"
    failures,    \* consecutiveFailures
    at,          \* probe the running call is at; 0 when no call is running
    jobs,        \* Job of each name at the API server
    cached,      \* Job of each name in the informer cache
    passed,      \* history: the Job probes, by revision, whose own Job succeeded
    bad          \* history: failed runs of probes of this revision and calls
                 \* that failed while validating it, up to Threshold

policyVars == <<faults, revision, phase, failures, at>>
vars == <<policyVars, jobs, cached, passed, bad>>

TypeOK ==
    /\ faults \subseteq Faults
    /\ revision \in Rev
    /\ phase \in {"Validating", "Promoted", "Tripped"}
    /\ failures \in 0..Threshold
    /\ at \in 0..(Len(Probes) + 1)
    /\ jobs \in [Rev -> Job \cup {NoJob}] /\ cached \in [Rev -> Job \cup {NoJob}]
    /\ passed \subseteq Rev \X JobProbes
    /\ bad \in 0..Threshold

Init ==
    /\ faults \in SUBSET Faults
    /\ revision = 1 /\ phase = "Validating" /\ failures = 0 /\ at = 0
    /\ jobs = [n \in Rev |-> NoJob] /\ cached = jobs
    /\ passed = {} /\ bad = 0

-----------------------------------------------------------------------------

\* Faulty: the part of the name that tells revisions apart is cut off.
DeriveProbeJobName_NoRevision(rev) == 1

\* The policy is fixed, and the end of the revision Secret's name, which holds
\* the revision hash, survives every truncation: names stand for revisions.
DeriveProbeJobName(rev) == rev

TheJob == DeriveProbeJobName(revision)

\* EvaluateJobStatus of the Job the cache holds: a Complete or Failed
\* condition counts before the deadline does.
EvaluateJobStatus(state) ==
    /\ at \in JobProbes
    /\ "lag" \notin faults => cached = jobs
    /\ cached[TheJob].state = state

\* The Jobs after a Delete by name; the error is dropped by every caller.
AfterDelete == {[jobs EXCEPT ![TheJob] = NoJob]} \cup {js \in {jobs} : "delete" \in faults}

\* CleanupCanaryResources deletes the Jobs of the policy that the cache lists,
\* when the breaker trips and after a promotion.
CleanupJobs(js) ==
    {[n \in Rev |-> IF cached[n] # NoJob THEN NoJob ELSE js[n]]} \cup {k \in {js} : "delete" \in faults}

\* One more failure of the revision being validated.
OneMore == IF bad < Threshold THEN bad + 1 ELSE bad
Counted(job) == IF job.revision = revision THEN OneMore ELSE bad

-----------------------------------------------------------------------------
(* A reconcile in the Validating phase, probe by probe.                    *)

Call ==
    /\ phase = "Validating" /\ at = 0
    /\ at' = 1
    /\ UNCHANGED <<faults, revision, phase, failures, jobs, cached, passed, bad>>

\* The call returns RequeueAfter.
Requeue == at' = 0 /\ UNCHANGED <<faults, revision, phase, failures>>

NextProbe == at' = at + 1 /\ UNCHANGED <<faults, revision, phase, failures>>

\* Faulty: the failure is reported but not counted.
RecordFailure_NotCounted == at' = 0 /\ UNCHANGED <<faults, revision, phase, failures>>

\* Faulty: the breaker compares the count before this failure.
RecordFailure_TripsLate ==
    /\ at' = 0
    /\ failures' = failures + 1
    /\ phase' = IF failures >= Threshold THEN "Tripped" ELSE phase
    /\ UNCHANGED <<faults, revision>>

\* The call returns an error and the failure is counted.
RecordFailure ==
    /\ at' = 0
    /\ failures' = failures + 1
    /\ phase' = IF failures + 1 >= Threshold THEN "Tripped" ELSE phase
    /\ UNCHANGED <<faults, revision>>

\* Create tolerates AlreadyExists.
CreateJob ==
    /\ EvaluateJobStatus("NotFound")
    /\ jobs' = IF jobs[TheJob] = NoJob
               THEN [jobs EXCEPT ![TheJob] = [probe |-> at, revision |-> revision, state |-> "Running"]]
               ELSE jobs
    /\ Requeue
    /\ UNCHANGED <<cached, passed, bad>>

AwaitJob ==
    /\ EvaluateJobStatus("Running")
    /\ Requeue
    /\ UNCHANGED <<jobs, cached, passed, bad>>

JobPasses ==
    /\ EvaluateJobStatus("Succeeded")
    /\ jobs' \in AfterDelete
    /\ NextProbe
    /\ UNCHANGED <<cached, passed, bad>>

\* Faulty: the failed Job is left for the next attempt to find.
JobFails_Kept ==
    /\ EvaluateJobStatus("Failed") \/ EvaluateJobStatus("TimedOut")
    /\ RecordFailure
    /\ UNCHANGED <<jobs, cached, passed, bad>>

JobFails ==
    /\ EvaluateJobStatus("Failed") \/ EvaluateJobStatus("TimedOut")
    /\ RecordFailure
    /\ \E left \in AfterDelete : jobs' \in IF phase' = "Tripped" THEN CleanupJobs(left) ELSE {left}
    /\ UNCHANGED <<cached, passed, bad>>

\* A network probe succeeds, or the canary's pod is not ready yet.
NetworkPasses ==
    /\ at \in 1..Len(Probes) /\ Probes[at] = "Network"
    /\ NextProbe
    /\ UNCHANGED <<jobs, cached, passed, bad>>

NetworkWaits ==
    /\ at \in 1..Len(Probes) /\ Probes[at] = "Network"
    /\ Requeue
    /\ UNCHANGED <<jobs, cached, passed, bad>>

\* It fails, or the pod exceeded its readiness timeout or is crashing.
NetworkFails ==
    /\ at \in 1..Len(Probes) /\ Probes[at] = "Network"
    /\ RecordFailure
    /\ bad' = OneMore
    /\ jobs' \in IF phase' = "Tripped" THEN CleanupJobs(jobs) ELSE {jobs}
    /\ UNCHANGED <<cached, passed>>

\* The loop gives up before a probe says anything: the revision's Secret is
\* not read, or at a Job probe the Job is neither read nor made (or its spec is
\* missing).  The error is counted like that of a failed probe.
ApiFails ==
    /\ "api" \in faults
    /\ (at = 1 /\ Probes # <<>>) \/ at \in JobProbes
    /\ RecordFailure
    /\ bad' = OneMore
    /\ jobs' \in IF phase' = "Tripped" THEN CleanupJobs(jobs) ELSE {jobs}
    /\ UNCHANGED <<cached, passed>>

\* Every probe passed: the revision is promoted.
Promote ==
    /\ at = Len(Probes) + 1
    /\ phase' = "Promoted"
    /\ failures' = 0
    /\ at' = 0
    /\ jobs' \in CleanupJobs(jobs)
    /\ UNCHANGED <<faults, revision, cached, passed, bad>>

JobStep == CreateJob \/ AwaitJob \/ JobPasses \/ JobFails
NetworkVerdict == NetworkPasses \/ NetworkFails

-----------------------------------------------------------------------------
(* Around it.                                                              *)

\* The process stops in the middle of a call.
Crash ==
    /\ at # 0
    /\ Requeue
    /\ UNCHANGED <<jobs, cached, passed, bad>>

\* The upstream has a new revision; a canary for it is up.
NextRevision ==
    /\ phase # "Validating" /\ revision < MaxRev
    /\ revision' = revision + 1
    /\ phase' = "Validating" /\ failures' = 0 /\ bad' = 0
    /\ UNCHANGED <<faults, at, jobs, cached, passed>>

\* A Job ends, perhaps after its deadline.
JobEnds(n) ==
    /\ jobs[n].state \in {"Running", "TimedOut"}
    /\ \/ /\ jobs' = [jobs EXCEPT ![n].state = "Succeeded"]
          /\ passed' = passed \cup {<<jobs[n].revision, jobs[n].probe>>}
          /\ UNCHANGED bad
       \/ /\ jobs' = [jobs EXCEPT ![n].state = "Failed"]
          /\ bad' = IF jobs[n].state = "Running" THEN Counted(jobs[n]) ELSE bad
          /\ UNCHANGED passed
    /\ UNCHANGED <<policyVars, cached>>

\* Its deadline passes first.
DeadlinePasses(n) ==
    /\ jobs[n].state = "Running"
    /\ jobs' = [jobs EXCEPT ![n].state = "TimedOut"]
    /\ bad' = Counted(jobs[n])
    /\ UNCHANGED <<policyVars, cached, passed>>

SyncJobs ==
    /\ cached' = jobs
    /\ UNCHANGED <<policyVars, jobs, passed, bad>>

Next ==
    \/ Call \/ JobStep \/ NetworkVerdict \/ NetworkWaits \/ ApiFails \/ Promote
    \/ Crash \/ NextRevision \/ SyncJobs
    \/ \E n \in Rev : JobEnds(n) \/ DeadlinePasses(n)

Spec == Init /\ [][Next]_vars

\* Requeues and backoff keep calling; the process does not stop in every
\* single call; a Job ends or times out; a pod that never gets ready runs
\* into the readiness timeout; the cache catches up.
Fairness ==
    /\ WF_vars(Call) /\ WF_vars(SyncJobs)
    /\ SF_vars(JobStep) /\ SF_vars(NetworkVerdict) /\ SF_vars(Promote)
    /\ \A n \in Rev : WF_vars(JobEnds(n))

FairSpec == Spec /\ Fairness

-----------------------------------------------------------------------------
(* Properties.                                                             *)

\* A promoted revision was validated by every Job probe: each one's own Job
\* ran for this revision and succeeded, not a leftover of another revision.
EveryJobProbeRan == phase = "Promoted" => \A i \in JobProbes : <<revision, i>> \in passed

\* A failure is counted once: consecutiveFailures never exceeds the failed
\* runs and failed calls of the revision being validated, because a failed Job
\* is deleted before the next attempt looks at it (unless the deletion fails or
\* is not seen yet).
FailuresAreReal == faults \subseteq {"api"} => failures <= bad

\* Validation always ends, by promotion or by the breaker: a call that starts
\* over after every requeue still gets through all its probes.
ValidationEnds == [](phase = "Validating" => <>(phase # "Validating"))
=============================================================================
