-------------------------- MODULE ProbeJobsProofs --------------------------
(***************************************************************************)
(* Theorems about ProbeJobs, for every list of probes, threshold, number   *)
(* of revisions and set of faults.                                         *)
(***************************************************************************)
EXTENDS ProbeJobs, TLAPS

USE ProbesAssumption DEF Rev

-----------------------------------------------------------------------------
(* Types.                                                                  *)

\* The states of a Job that count as a failure.
Failing == {"Failed", "TimedOut"}

\* A call runs only while validating, and validating ends with the failure
\* that reaches the threshold: no count goes past it.
CallInv ==
    /\ TypeOK
    /\ at # 0 => phase = "Validating"
    /\ phase = "Validating" => failures < Threshold

\* What is known of the number of probes and of the Job probes.
LEMMA ProbeFacts ==
    /\ Len(Probes) \in Nat
    /\ \A i \in JobProbes : i \in Nat /\ 1 <= i /\ i <= Len(Probes)
BY DEF JobProbes

\* A Job is not NoJob, and its fields are what they are.
LEMMA JobFacts ==
    /\ NoJob \notin Job /\ NoJob.state = "NotFound"
    /\ \A j \in Job : /\ j.probe \in JobProbes /\ j.revision \in Rev
                      /\ j.state \in {"Running", "Succeeded", "Failed", "TimedOut"}
                      /\ j = [probe |-> j.probe, revision |-> j.revision, state |-> j.state]
    /\ \A p \in JobProbes, r \in Rev, s \in {"Running", "Succeeded", "Failed", "TimedOut"} :
          [probe |-> p, revision |-> r, state |-> s] \in Job
<1>1. \A j \in Job : j.state # "NotFound"
  BY DEF Job
<1>2. NoJob.state = "NotFound"
  BY DEF NoJob
<1>3. NoJob \notin Job
  BY <1>1, <1>2
<1> QED BY <1>2, <1>3 DEF Job

\* The Job CreateJob builds, and a Job j in another state.
NewJob == [probe |-> at, revision |-> revision, state |-> "Running"]
InState(j, s) == [probe |-> j.probe, revision |-> j.revision, state |-> s]

\* The Jobs js with the one under name n in another state.
Moved(js, n, s) == [js EXCEPT ![n].state = s]

\* A state is all of a Job that changes.
LEMMA InStateFacts ==
    ASSUME NEW j, NEW s
    PROVE  InState(j, s).probe = j.probe /\ InState(j, s).revision = j.revision /\ InState(j, s).state = s
BY DEF InState

\* A Job that changes its state stays the Job it is.
LEMMA StateChange ==
    ASSUME NEW js \in [Rev -> Job \cup {NoJob}], NEW n \in Rev, js[n] \in Job,
           NEW s \in {"Running", "Succeeded", "Failed", "TimedOut"}
    PROVE  /\ Moved(js, n, s) \in [Rev -> Job \cup {NoJob}]
           /\ Moved(js, n, s)[n] = InState(js[n], s)
           /\ \A m \in Rev \ {n} : Moved(js, n, s)[m] = js[m]
<1> DEFINE after == [js EXCEPT ![n].state = s]
<1>1. after[n] = [js[n] EXCEPT !.state = s]
  OBVIOUS
<1>2. [js[n] EXCEPT !.state = s] = InState(js[n], s)
  <2>1. ASSUME NEW j \in Job PROVE [j EXCEPT !.state = s] = InState(j, s)
    BY DEF Job, InState
  <2> QED BY <2>1
<1>3. InState(js[n], s) \in Job
  BY JobFacts DEF InState
<1>4. \A m \in Rev \ {n} : after[m] = js[m]
  OBVIOUS
<1>5. after \in [Rev -> Job \cup {NoJob}]
  BY <1>1, <1>2, <1>3
<1> QED BY <1>1, <1>2, <1>4, <1>5 DEF Moved

\* What deleting Jobs does: some are gone, the others are unchanged.  Unless
\* deletions fail, the one deleted by name is gone.
LEMMA DeleteFacts ==
    ASSUME TypeOK, NEW js \in AfterDelete
    PROVE  /\ js \in [Rev -> Job \cup {NoJob}]
           /\ \A n \in Rev : js[n] \in {jobs[n], NoJob}
           /\ "delete" \notin faults => js[revision] = NoJob
BY DEF TypeOK, AfterDelete, TheJob, DeriveProbeJobName

\* Cleanup after a trip deletes Jobs, all it finds or some, and makes none.
LEMMA CleanupFacts ==
    ASSUME TypeOK, NEW js \in [Rev -> Job \cup {NoJob}], NEW after \in CleanupJobs(js)
    PROVE  /\ after \in [Rev -> Job \cup {NoJob}]
           /\ \A n \in Rev : after[n] \in {js[n], NoJob}
BY DEF TypeOK, CleanupJobs

\* The Jobs a failed Job leaves, whether or not the breaker trips.
LEMMA FailureLeaves ==
    ASSUME TypeOK, JobFails
    PROVE  /\ jobs' \in [Rev -> Job \cup {NoJob}]
           /\ \A n \in Rev : jobs'[n] \in {jobs[n], NoJob}
           /\ "delete" \notin faults => jobs'[revision] = NoJob
<1>1. PICK left \in AfterDelete : jobs' \in IF phase' = "Tripped" THEN CleanupJobs(left) ELSE {left}
  BY DEF JobFails
<1>2. jobs' \in CleanupJobs(left) \/ jobs' = left
  BY <1>1
<1>3. revision \in Rev
  BY DEF TypeOK
<1> QED BY <1>2, <1>3, DeleteFacts, CleanupFacts

\* The Jobs left by a failed network probe or a failed call.
LEMMA OtherFailureLeaves ==
    ASSUME TypeOK, NetworkFails \/ ApiFails
    PROVE  /\ jobs' \in [Rev -> Job \cup {NoJob}]
           /\ \A n \in Rev : jobs'[n] \in {jobs[n], NoJob}
<1>1. jobs' \in CleanupJobs(jobs) \/ jobs' = jobs
  BY DEF NetworkFails, ApiFails
<1>2. jobs \in [Rev -> Job \cup {NoJob}]
  BY DEF TypeOK
<1> QED BY <1>1, <1>2, CleanupFacts

\* The Job CreateJob leaves is its own, or one that was there.
LEMMA CreateFacts ==
    ASSUME TypeOK, CreateJob
    PROVE  /\ jobs' \in [Rev -> Job \cup {NoJob}]
           /\ \A n \in Rev :
                 \/ jobs'[n] = jobs[n]
                 \/ n = revision /\ jobs'[n] = NewJob
<1>1. at \in JobProbes /\ revision \in Rev /\ jobs \in [Rev -> Job \cup {NoJob}]
  BY DEF TypeOK, CreateJob, EvaluateJobStatus
<1>2. NewJob \in Job
  BY <1>1, JobFacts DEF NewJob
<1>3. jobs' = jobs \/ jobs' = [jobs EXCEPT ![revision] = NewJob]
  BY DEF CreateJob, TheJob, DeriveProbeJobName, NewJob
<1> QED BY <1>1, <1>2, <1>3

\* The count of failed runs moves by one, up to its cap.
LEMMA CountedType ==
    ASSUME TypeOK
    PROVE  OneMore \in 0..Threshold /\ bad <= OneMore /\ (bad < Threshold => OneMore = bad + 1)
           /\ \A j : Counted(j) \in {bad, OneMore}
BY DEF TypeOK, OneMore, Counted

-----------------------------------------------------------------------------

\* Initially no call runs and nothing has failed.
LEMMA CallInit == Init => CallInv
<1> SUFFICES ASSUME Init PROVE CallInv
  OBVIOUS
<1>1. jobs \in [Rev -> Job \cup {NoJob}] /\ cached \in [Rev -> Job \cup {NoJob}]
  BY DEF Init
<1> QED BY <1>1, ProbeFacts DEF Init, CallInv, TypeOK

\* Every step keeps it: only RecordFailure counts, and it ends the validation
\* when the count reaches the threshold.
LEMMA CallNext == CallInv /\ [Next]_vars => CallInv'
<1> SUFFICES ASSUME CallInv, [Next]_vars PROVE CallInv'
  OBVIOUS
<1>0. TypeOK /\ (at # 0 => phase = "Validating") /\ (phase = "Validating" => failures < Threshold)
  BY DEF CallInv
<1> USE DEF CallInv, TypeOK
<1>a. Len(Probes) \in Nat
  BY ProbeFacts
<1>b. ASSUME RecordFailure, at # 0
      PROVE  /\ phase' \in {"Validating", "Promoted", "Tripped"} /\ failures' \in 0..Threshold
             /\ at' = 0 /\ (phase' = "Validating" => failures' < Threshold)
             /\ faults' = faults /\ revision' = revision
  BY <1>0, <1>b DEF RecordFailure
<1>1. CASE Call
  BY <1>0, <1>1, <1>a DEF Call
<1>2. CASE CreateJob
  BY <1>0, <1>2, <1>a, CreateFacts DEF CreateJob, Requeue
<1>3. CASE AwaitJob
  BY <1>0, <1>3, <1>a DEF AwaitJob, Requeue
<1>4. CASE JobPasses
  <2>1. jobs' \in [Rev -> Job \cup {NoJob}]
    BY <1>0, <1>4, DeleteFacts DEF JobPasses
  <2>2. at \in JobProbes
    BY <1>4 DEF JobPasses, EvaluateJobStatus
  <2> QED BY <1>0, <1>4, <2>1, <2>2, ProbeFacts DEF JobPasses, NextProbe
<1>5. CASE JobFails
  <2>1. at # 0
    BY <1>5, ProbeFacts DEF JobFails, EvaluateJobStatus
  <2>2. RecordFailure /\ UNCHANGED <<cached, passed, bad>>
    BY <1>5 DEF JobFails
  <2>3. jobs' \in [Rev -> Job \cup {NoJob}]
    BY <1>0, <1>5, FailureLeaves
  <2>4. /\ phase' \in {"Validating", "Promoted", "Tripped"} /\ failures' \in 0..Threshold
        /\ at' = 0 /\ (phase' = "Validating" => failures' < Threshold)
        /\ faults' = faults /\ revision' = revision
    BY <1>b, <2>1, <2>2
  <2> QED BY <1>0, <1>a, <2>1, <2>2, <2>3, <2>4
<1>6. CASE NetworkPasses
  BY <1>0, <1>6, <1>a DEF NetworkPasses, NextProbe
<1>7. CASE NetworkWaits
  BY <1>0, <1>7, <1>a DEF NetworkWaits, Requeue
<1>8. CASE NetworkFails \/ ApiFails
  <2>1. at # 0 /\ RecordFailure /\ bad' = OneMore /\ UNCHANGED <<cached, passed>>
    BY <1>8, <1>a, ProbeFacts DEF NetworkFails, ApiFails
  <2>2. jobs' \in [Rev -> Job \cup {NoJob}]
    BY <1>0, <1>8, OtherFailureLeaves
  <2>3. bad' \in 0..Threshold
    BY <1>0, <2>1, CountedType
  <2>4. /\ phase' \in {"Validating", "Promoted", "Tripped"} /\ failures' \in 0..Threshold
        /\ at' = 0 /\ (phase' = "Validating" => failures' < Threshold)
        /\ faults' = faults /\ revision' = revision
    BY <1>b, <2>1, <2>2
  <2> QED BY <1>0, <1>a, <2>1, <2>2, <2>3, <2>4
<1>9. CASE Promote
  <2>1. jobs' \in [Rev -> Job \cup {NoJob}]
    BY <1>0, <1>9, CleanupFacts DEF Promote
  <2> QED BY <1>0, <1>9, <1>a, <2>1 DEF Promote
<1>10. CASE Crash
  BY <1>0, <1>10, <1>a DEF Crash, Requeue
<1>11. CASE NextRevision
  BY <1>0, <1>11, <1>a DEF NextRevision
<1>12. CASE SyncJobs
  BY <1>0, <1>12, <1>a DEF SyncJobs, policyVars
<1>13. ASSUME NEW n \in Rev, JobEnds(n) PROVE CallInv'
  <2>1. jobs[n] \in Job
    BY <1>0, <1>13, JobFacts DEF JobEnds
  <2>2. jobs' \in [Rev -> Job \cup {NoJob}]
    <3>1. PICK s \in {"Succeeded", "Failed"} : jobs' = Moved(jobs, n, s)
      BY <1>13 DEF JobEnds, Moved
    <3> QED BY <1>0, <2>1, <3>1, StateChange
  <2>3. passed' \subseteq Rev \X JobProbes
    <3>1. <<jobs[n].revision, jobs[n].probe>> \in Rev \X JobProbes
      BY <2>1, JobFacts
    <3>2. passed' \in {passed, passed \cup {<<jobs[n].revision, jobs[n].probe>>}}
      BY <1>13 DEF JobEnds
    <3> QED BY <1>0, <3>1, <3>2
  <2>4. bad' \in 0..Threshold
    BY <1>0, <1>13, CountedType DEF JobEnds
  <2> QED BY <1>0, <1>13, <1>a, <2>2, <2>3, <2>4 DEF JobEnds, policyVars
<1>14. ASSUME NEW n \in Rev, DeadlinePasses(n) PROVE CallInv'
  <2>1. jobs[n] \in Job
    BY <1>0, <1>14, JobFacts DEF DeadlinePasses
  <2>2. jobs' \in [Rev -> Job \cup {NoJob}]
    <3>1. jobs' = Moved(jobs, n, "TimedOut")
      BY <1>14 DEF DeadlinePasses, Moved
    <3> QED BY <1>0, <2>1, <3>1, StateChange
  <2>3. bad' \in 0..Threshold
    BY <1>0, <1>14, CountedType DEF DeadlinePasses
  <2> QED BY <1>0, <1>14, <1>a, <2>2, <2>3 DEF DeadlinePasses, policyVars
<1>15. CASE UNCHANGED vars
  BY <1>0, <1>15, <1>a DEF vars, policyVars
<1> QED
  BY <1>1, <1>2, <1>3, <1>4, <1>5, <1>6, <1>7, <1>8, <1>9, <1>10, <1>11, <1>12, <1>13, <1>14, <1>15
  DEF Next, JobStep, NetworkVerdict

\* So it holds for good.
LEMMA CallAlways == Spec => []CallInv
BY CallInit, CallNext, PTL DEF Spec

\* Type correctness: consecutiveFailures stays within the threshold because
\* the failure that reaches it ends the validation.
THEOREM ProbeJobsType == Spec => []TypeOK
<1>1. CallInv => TypeOK
  BY DEF CallInv
<1> QED BY <1>1, CallAlways, PTL

-----------------------------------------------------------------------------
(* Whose Jobs they are.                                                    *)

\* A Job under the name of revision n was built for n, and if it succeeded,
\* its own probe's run did.
Own(js, n) ==
    js[n] # NoJob => /\ js[n].revision = n
                     /\ js[n].state = "Succeeded" => <<n, js[n].probe>> \in passed

\* All Jobs at the API server and in the cache, however far behind, are of
\* that kind, and none is ahead of its revision.
JobsInv ==
    \A n \in Rev : Own(jobs, n) /\ Own(cached, n) /\ (jobs[n] # NoJob => n <= revision)

\* Initially there are no Jobs.
LEMMA JobsInit == Init => JobsInv
BY DEF Init, JobsInv, Own

\* Every step keeps it: CreateJob makes Jobs of the present revision under its
\* name, a Job that succeeds is recorded as run, and the cache only copies.
LEMMA JobsNext == CallInv /\ JobsInv /\ [Next]_vars => JobsInv'
<1> SUFFICES ASSUME CallInv, JobsInv, [Next]_vars PROVE JobsInv'
  OBVIOUS
<1>0. TypeOK
  BY DEF CallInv
<1> USE DEF JobsInv, Own
<1>a. ASSUME \A n \in Rev : jobs'[n] \in {jobs[n], NoJob},
             UNCHANGED <<revision, cached, passed>>
      PROVE  JobsInv'
  BY <1>a
<1>1. CASE Call
  BY <1>1 DEF Call
<1>2. CASE CreateJob
  <2>1. \A n \in Rev : jobs'[n] = jobs[n] \/ (n = revision /\ jobs'[n] = NewJob)
    BY <1>0, <1>2, CreateFacts
  <2>2. NewJob.revision = revision /\ NewJob.state # "Succeeded"
    BY DEF NewJob
  <2>3. revision \in Nat /\ UNCHANGED <<revision, cached, passed>>
    BY <1>0, <1>2 DEF TypeOK, CreateJob, Requeue
  <2> SUFFICES ASSUME NEW n \in Rev
               PROVE  Own(jobs, n)' /\ Own(cached, n)' /\ (jobs'[n] # NoJob => n <= revision')
    OBVIOUS
  <2>4. CASE jobs'[n] = jobs[n]
    BY <2>3, <2>4
  <2>5. CASE n = revision /\ jobs'[n] = NewJob
    <3>1. jobs'[n].revision = n /\ jobs'[n].state # "Succeeded"
      BY <2>2, <2>5
    <3>2. n <= revision'
      BY <2>3, <2>5
    <3>3. Own(cached, n)'
      BY <2>3
    <3> QED BY <3>1, <3>2, <3>3
  <2> QED BY <2>1, <2>4, <2>5
<1>3. CASE AwaitJob
  BY <1>3 DEF AwaitJob, Requeue
<1>4. CASE JobPasses
  <2>1. \A n \in Rev : jobs'[n] \in {jobs[n], NoJob}
    BY <1>0, <1>4, DeleteFacts DEF JobPasses
  <2> QED BY <1>a, <1>4, <2>1 DEF JobPasses, NextProbe
<1>5. CASE JobFails
  <2>1. \A n \in Rev : jobs'[n] \in {jobs[n], NoJob}
    BY <1>0, <1>5, FailureLeaves
  <2> QED BY <1>a, <1>5, <2>1 DEF JobFails, RecordFailure
<1>6. CASE NetworkPasses
  BY <1>6 DEF NetworkPasses, NextProbe
<1>7. CASE NetworkWaits
  BY <1>7 DEF NetworkWaits, Requeue
<1>8. CASE NetworkFails \/ ApiFails
  <2>1. \A n \in Rev : jobs'[n] \in {jobs[n], NoJob}
    BY <1>0, <1>8, OtherFailureLeaves
  <2> QED BY <1>a, <1>8, <2>1 DEF NetworkFails, ApiFails, RecordFailure
<1>9. CASE Promote
  <2>1. \A n \in Rev : jobs'[n] \in {jobs[n], NoJob}
    BY <1>0, <1>9, CleanupFacts DEF Promote, TypeOK
  <2> QED BY <1>a, <1>9, <2>1 DEF Promote
<1>10. CASE Crash
  BY <1>10 DEF Crash, Requeue
<1>11. CASE NextRevision
  <2>1. UNCHANGED <<jobs, cached, passed>> /\ revision \in Nat /\ revision' = revision + 1
    BY <1>0, <1>11 DEF NextRevision, TypeOK
  <2>2. \A n \in Rev : n <= revision => n <= revision'
    BY <2>1
  <2> QED BY <2>1, <2>2
<1>12. CASE SyncJobs
  BY <1>12 DEF SyncJobs, policyVars
<1>13. ASSUME NEW n \in Rev, JobEnds(n) \/ DeadlinePasses(n) PROVE JobsInv'
  <2>1. jobs[n] \in Job
    BY <1>0, <1>13, JobFacts DEF JobEnds, DeadlinePasses, TypeOK
  <2>2. PICK s \in {"Succeeded", "Failed", "TimedOut"} :
          /\ jobs' = Moved(jobs, n, s)
          /\ passed \subseteq passed'
          /\ s = "Succeeded" => <<jobs[n].revision, jobs[n].probe>> \in passed'
    BY <1>13 DEF JobEnds, DeadlinePasses, Moved
  <2>3. /\ jobs'[n] = InState(jobs[n], s)
        /\ \A m \in Rev \ {n} : jobs'[m] = jobs[m]
    <3>1. jobs \in [Rev -> Job \cup {NoJob}]
      BY <1>0 DEF TypeOK
    <3> QED BY <2>1, <2>2, <3>1, StateChange
  <2>4. /\ jobs'[n].probe = jobs[n].probe /\ jobs'[n].revision = jobs[n].revision
        /\ jobs'[n].state = s
    BY <2>3, InStateFacts
  <2>5. UNCHANGED <<revision, cached>>
    BY <1>13 DEF JobEnds, DeadlinePasses, policyVars
  <2>6. jobs[n] # NoJob
    BY <2>1, JobFacts
  <2> QED BY <2>2, <2>3, <2>4, <2>5, <2>6
<1>14. CASE UNCHANGED vars
  BY <1>14 DEF vars, policyVars
<1> QED
  BY <1>1, <1>2, <1>3, <1>4, <1>5, <1>6, <1>7, <1>8, <1>9, <1>10, <1>11, <1>12, <1>13, <1>14
  DEF Next, JobStep, NetworkVerdict

-----------------------------------------------------------------------------
(* Every Job probe ran.                                                    *)

\* The probes a call has walked past, and those of a promoted revision, had a
\* Job of their own that succeeded.
PassedInv ==
    /\ \A i \in JobProbes : i < at => <<revision, i>> \in passed
    /\ EveryJobProbeRan

\* Initially no probe has been passed.
LEMMA PassedInit == Init => PassedInv
BY ProbeFacts DEF Init, PassedInv, EveryJobProbeRan

\* Every step keeps it: the loop walks past a Job probe only on a succeeded Job
\* of this revision, which is that probe's because there is no other Job probe.
LEMMA PassedNext ==
    ASSUME \A i, j \in JobProbes : i = j
    PROVE  CallInv /\ JobsInv /\ PassedInv /\ [Next]_vars => PassedInv'
<1> SUFFICES ASSUME CallInv, JobsInv, PassedInv, [Next]_vars PROVE PassedInv'
  OBVIOUS
<1>0. /\ TypeOK /\ (at # 0 => phase = "Validating")
      /\ \A i \in JobProbes : i < at => <<revision, i>> \in passed
      /\ phase = "Promoted" => \A i \in JobProbes : <<revision, i>> \in passed
  BY DEF CallInv, PassedInv, EveryJobProbeRan
<1> USE DEF PassedInv, EveryJobProbeRan
<1>a. \A i \in JobProbes : i \in Nat /\ 1 <= i /\ i <= Len(Probes)
  BY ProbeFacts
<1>b. at \in Nat /\ Len(Probes) \in Nat
  BY <1>0, ProbeFacts DEF TypeOK
<1>c. ASSUME at' = 0, phase' # "Promoted" PROVE PassedInv'
  BY <1>a, <1>c
<1>1. CASE Call
  BY <1>0, <1>1, <1>a DEF Call
<1>2. CASE CreateJob \/ AwaitJob \/ NetworkWaits \/ Crash
  <2>1. at # 0
    BY <1>2, <1>a, <1>b DEF CreateJob, AwaitJob, NetworkWaits, Crash, EvaluateJobStatus
  <2> QED BY <1>0, <1>2, <1>c, <2>1 DEF CreateJob, AwaitJob, NetworkWaits, Crash, Requeue
<1>3. CASE JobPasses
  <2>1. at \in JobProbes /\ at' = at + 1 /\ UNCHANGED <<revision, phase, passed>>
    BY <1>3 DEF JobPasses, NextProbe, EvaluateJobStatus
  <2>2. revision \in Rev /\ cached[revision].state = "Succeeded" /\ cached[revision] \in Job \cup {NoJob}
    BY <1>0, <1>3 DEF JobPasses, EvaluateJobStatus, TheJob, DeriveProbeJobName, TypeOK
  <2>3. cached[revision] \in Job /\ cached[revision] # NoJob
    BY <2>2, JobFacts
  <2>4. cached[revision].probe = at
    BY <2>1, <2>3, JobFacts
  <2>5. <<revision, at>> \in passed
    BY <2>2, <2>3, <2>4 DEF JobsInv, Own
  <2> QED BY <1>0, <1>a, <2>1, <2>5
<1>4. CASE JobFails \/ NetworkFails \/ ApiFails
  <2>1. at # 0
    BY <1>4, <1>a, <1>b DEF JobFails, NetworkFails, ApiFails, EvaluateJobStatus
  <2> QED BY <1>0, <1>4, <1>c, <2>1 DEF JobFails, NetworkFails, ApiFails, RecordFailure
<1>5. CASE NetworkPasses
  <2>1. at \notin JobProbes /\ at' = at + 1 /\ UNCHANGED <<revision, phase, passed>>
    BY <1>5 DEF NetworkPasses, NextProbe, JobProbes
  <2> QED BY <1>0, <1>a, <1>b, <2>1
<1>6. CASE Promote
  <2>1. \A i \in JobProbes : i < at
    BY <1>6, <1>a, <1>b DEF Promote
  <2> QED BY <1>0, <1>6, <1>a, <2>1 DEF Promote
<1>7. CASE NextRevision
  BY <1>0, <1>7, <1>c DEF NextRevision
<1>8. CASE SyncJobs
  BY <1>0, <1>8 DEF SyncJobs, policyVars
<1>9. ASSUME NEW n \in Rev, JobEnds(n) \/ DeadlinePasses(n) PROVE PassedInv'
  BY <1>0, <1>9 DEF JobEnds, DeadlinePasses, policyVars
<1>10. CASE UNCHANGED vars
  BY <1>0, <1>10 DEF vars, policyVars
<1> QED
  BY <1>1, <1>2, <1>3, <1>4, <1>5, <1>6, <1>7, <1>8, <1>9, <1>10 DEF Next, JobStep, NetworkVerdict

\* A policy with one Job probe promotes a revision only when the Job of that
\* probe ran for this revision and succeeded, wherever in the list the probe
\* stands, however far behind the cache of Jobs is, whichever deletions fail
\* and wherever the process stops.
THEOREM JobProbeRan ==
    ASSUME \A i, j \in JobProbes : i = j
    PROVE  Spec => []EveryJobProbeRan
<1>1. PassedInv => EveryJobProbeRan
  BY DEF PassedInv
<1>2. CallInv /\ JobsInv /\ PassedInv /\ [Next]_vars => PassedInv'
  BY PassedNext
<1> QED BY <1>1, <1>2, CallAlways, JobsInit, JobsNext, PassedInit, PTL DEF Spec

-----------------------------------------------------------------------------
(* Failures are real.                                                      *)

\* With a current cache and working deletions, a failed Job that a call is yet to see is a failed run that
\* is yet to be counted.
CountInv ==
    faults \subseteq {"api"} =>
       /\ failures <= bad
       /\ phase = "Validating" /\ jobs[revision].state \in Failing => failures < bad

\* Initially nothing has failed and nothing is counted.
LEMMA CountInit == Init => CountInv
<1> SUFFICES ASSUME Init PROVE CountInv
  OBVIOUS
<1>1. jobs[revision] = NoJob
  BY DEF Init
<1>2. jobs[revision].state \notin Failing
  BY <1>1, JobFacts DEF Failing
<1> QED BY <1>2 DEF Init, CountInv

\* Every step keeps it: a failed Job is deleted in the call that counts it.
LEMMA CountNext == CallInv /\ JobsInv /\ CountInv /\ [Next]_vars => CountInv'
<1>f. [Next]_vars => faults' = faults
  BY DEF Next, Call, JobStep, CreateJob, AwaitJob, JobPasses, JobFails, NetworkVerdict, NetworkPasses,
    NetworkFails, ApiFails, NetworkWaits, Promote, Crash, NextRevision, SyncJobs, JobEnds, DeadlinePasses,
    Requeue, NextProbe, RecordFailure, vars, policyVars
<1> SUFFICES ASSUME CallInv, JobsInv, CountInv, [Next]_vars, faults \subseteq {"api"} PROVE CountInv'
  BY <1>f DEF CountInv
<1>0. /\ TypeOK /\ (at # 0 => phase = "Validating") /\ (phase = "Validating" => failures < Threshold)
      /\ failures <= bad
      /\ phase = "Validating" /\ jobs[revision].state \in Failing => failures < bad
  BY DEF CallInv, CountInv
<1>t. /\ revision \in Rev /\ failures \in Nat /\ bad \in Nat /\ bad <= Threshold
      /\ at \in Nat /\ Len(Probes) \in Nat /\ jobs \in [Rev -> Job \cup {NoJob}]
  BY <1>0, ProbeFacts DEF TypeOK
<1>n. NoJob.state \notin Failing
  BY JobFacts DEF Failing
<1> USE DEF CountInv
<1>a. ASSUME jobs'[revision] \in {jobs[revision], NoJob},
             UNCHANGED <<revision, failures, bad>>,
             phase' = "Validating" => phase = "Validating"
      PROVE  CountInv'
  BY <1>0, <1>n, <1>a
<1>1. CASE Call
  BY <1>0, <1>1, <1>a DEF Call
<1>2. CASE CreateJob
  <2>1. jobs'[revision] = jobs[revision] \/ jobs'[revision] = NewJob
    BY <1>0, <1>2, <1>t, CreateFacts
  <2>2. NewJob.state \notin Failing
    BY DEF NewJob, Failing
  <2>3. UNCHANGED <<revision, phase, failures, bad>>
    BY <1>2 DEF CreateJob, Requeue
  <2> QED BY <1>0, <2>1, <2>2, <2>3
<1>3. CASE AwaitJob \/ NetworkWaits \/ Crash
  BY <1>3, <1>a DEF AwaitJob, NetworkWaits, Crash, Requeue
<1>4. CASE JobPasses
  <2>1. jobs'[revision] \in {jobs[revision], NoJob}
    BY <1>0, <1>4, <1>t, DeleteFacts DEF JobPasses
  <2> QED BY <1>4, <1>a, <2>1 DEF JobPasses, NextProbe
<1>5. CASE JobFails
  <2>1. jobs'[revision] = NoJob
    BY <1>0, <1>5, FailureLeaves
  <2>2. cached = jobs /\ jobs[revision].state \in Failing /\ at # 0
    BY <1>5, ProbeFacts DEF JobFails, EvaluateJobStatus, TheJob, DeriveProbeJobName, Failing
  <2>3. failures < bad
    BY <1>0, <2>2
  <2>4. failures' = failures + 1 /\ bad' = bad /\ revision' = revision
    BY <1>5 DEF JobFails, RecordFailure
  <2> QED BY <1>n, <1>t, <2>1, <2>3, <2>4
<1>6. CASE NetworkPasses
  BY <1>6, <1>a DEF NetworkPasses, NextProbe
<1>7. CASE NetworkFails \/ ApiFails
  <2>1. jobs'[revision] \in {jobs[revision], NoJob}
    BY <1>0, <1>7, <1>t, OtherFailureLeaves
  <2>2. at # 0
    BY <1>7, <1>t, ProbeFacts DEF NetworkFails, ApiFails
  <2>3. /\ failures' = failures + 1 /\ bad' = OneMore /\ revision' = revision
        /\ phase' = IF failures + 1 >= Threshold THEN "Tripped" ELSE phase
    BY <1>7 DEF NetworkFails, ApiFails, RecordFailure
  <2>4. OneMore \in 0..Threshold /\ bad <= OneMore /\ (bad < Threshold => OneMore = bad + 1)
    BY <1>0, CountedType
  <2>5. failures' <= bad'
    BY <1>0, <1>t, <2>2, <2>3, <2>4
  <2>6. ASSUME phase' = "Validating", jobs'[revision'].state \in Failing PROVE failures' < bad'
    <3>1. jobs[revision].state \in Failing
      BY <1>n, <2>1, <2>3, <2>6
    <3>2. failures + 1 < Threshold
      BY <1>t, <2>3, <2>6
    <3> QED BY <1>0, <1>t, <2>2, <2>3, <2>4, <3>1, <3>2
  <2> QED BY <2>5, <2>6
<1>8. CASE Promote
  BY <1>8, <1>t DEF Promote
<1>9. CASE NextRevision
  <2>1. /\ revision' = revision + 1 /\ revision < MaxRev /\ jobs' = jobs
        /\ failures' = 0 /\ bad' = 0
    BY <1>9 DEF NextRevision
  <2>2. jobs'[revision'] = NoJob
    BY <1>t, <2>1 DEF JobsInv
  <2> QED BY <1>n, <2>1, <2>2
<1>10. CASE SyncJobs
  BY <1>10, <1>a DEF SyncJobs, policyVars
<1>11. ASSUME NEW n \in Rev, JobEnds(n) \/ DeadlinePasses(n) PROVE CountInv'
  <2>1. jobs[n] \in Job
    BY <1>11, <1>t, JobFacts DEF JobEnds, DeadlinePasses
  <2>2. PICK s \in {"Succeeded", "Failed", "TimedOut"} : jobs' = Moved(jobs, n, s)
    BY <1>11 DEF JobEnds, DeadlinePasses, Moved
  <2>3. jobs'[n] = InState(jobs[n], s) /\ \A m \in Rev \ {n} : jobs'[m] = jobs[m]
    BY <1>t, <2>1, <2>2, StateChange
  <2>4. bad' \in {bad, Counted(jobs[n])} /\ UNCHANGED <<revision, phase, failures>>
    BY <1>11 DEF JobEnds, DeadlinePasses, policyVars
  <2>5. bad <= bad'
    BY <1>0, <1>t, <2>4, CountedType
  <2>6. CASE n # revision
    BY <1>0, <1>t, <2>3, <2>4, <2>5, <2>6
  <2>7. CASE n = revision
    <3>1. jobs'[n].state = s
      BY <2>3, InStateFacts
    <3>2. CASE s = "Succeeded"
      <4>1. jobs'[revision'].state \notin Failing
        BY <2>4, <2>7, <3>1, <3>2 DEF Failing
      <4>2. failures' <= bad'
        BY <1>0, <1>t, <2>4, <2>5, CountedType
      <4> QED BY <4>1, <4>2
    <3>3. CASE jobs[n].state = "TimedOut"
      BY <1>0, <1>t, <2>4, <2>5, <2>7, <3>3 DEF Failing
    <3>4. CASE s # "Succeeded" /\ jobs[n].state # "TimedOut"
      <4>1. bad' = Counted(jobs[n])
        <5>1. CASE DeadlinePasses(n)
          BY <5>1 DEF DeadlinePasses
        <5>2. CASE JobEnds(n)
          <6>1. jobs[n].state = "Running" /\ jobs'[n].state # "Succeeded"
            BY <5>2, <3>1, <3>4 DEF JobEnds
          <6>2. Moved(jobs, n, "Succeeded")[n].state = "Succeeded"
            BY <1>t, <2>1, StateChange, InStateFacts
          <6>3. jobs' # [jobs EXCEPT ![n].state = "Succeeded"]
            BY <6>1, <6>2 DEF Moved
          <6> QED BY <5>2, <6>1, <6>3 DEF JobEnds
        <5> QED BY <1>11, <5>1, <5>2
      <4>2. Counted(jobs[n]) = OneMore
        BY <2>1, <2>7, JobFacts DEF Counted, JobsInv, Own
      <4>3. phase = "Validating" => failures < OneMore
        BY <1>0, <1>t, CountedType
      <4> QED BY <1>0, <1>t, <2>4, <2>5, <4>1, <4>2, <4>3
    <3> QED BY <3>2, <3>3, <3>4
  <2> QED BY <2>6, <2>7
<1>12. CASE UNCHANGED vars
  BY <1>12, <1>a DEF vars, policyVars
<1> QED
  BY <1>1, <1>2, <1>3, <1>4, <1>5, <1>6, <1>7, <1>8, <1>9, <1>10, <1>11, <1>12
  DEF Next, JobStep, NetworkVerdict

\* With a cache that is up to date and deletions that succeed, the breaker
\* counts failed runs and failed calls of the revision being validated, each
\* once: no failed Job is counted twice, over any number of requeues and stops,
\* and none of another revision is.
THEOREM FailuresReal == Spec => []FailuresAreReal
<1>1. CountInv => FailuresAreReal
  BY DEF CountInv, FailuresAreReal
<1> QED BY <1>1, CallAlways, JobsInit, JobsNext, CountInit, CountNext, PTL DEF Spec
=============================================================================
