---------------------------- MODULE RolloutProofs ----------------------------
(***************************************************************************)
(* Theorems about RolloutRotation, for every number of revisions, every    *)
(* threshold and every set of bad revisions, with the Rollout's cache      *)
(* lagging or not.                                                         *)
(*                                                                         *)
(* RolloutType                every state is well typed                    *)
(* RolloutStatusTrue          when every reconcile reads the latest        *)
(*                            policy, the status and the Rollout disagree  *)
(*                            only after a skipped patch, and the Secrets  *)
(*                            the status names exist                       *)
(* FinalizedWhenHealthy       ... a revision is recorded as current only   *)
(*                            on an observed Healthy                       *)
(* RolloutImplementsRotation  ... the path implements Rotation             *)
(***************************************************************************)
EXTENDS RolloutRotation, PolicyStatusProofs

-----------------------------------------------------------------------------
(* Reads and writes of the policy.                                         *)

\* What a reconcile reads and what the API server holds are policies, and with
\* MaxVersions = 1 they are the same one.
LEMMA RolloutReads ==
    ASSUME StoreTypeOK
    PROVE  /\ Cached \in Policy
           /\ Stored \in Policy
           /\ MaxVersions = 1 /\ MayReconcile => Cached = Stored
  BY StoreAssumption DEF StoreTypeOK, MayReconcile, Cached, Stored

\* A write to the API server is what it holds afterwards.
LEMMA RolloutWrites ==
    ASSUME StoreTypeOK, MayReconcile, NEW v \in Policy, Write(v)
    PROVE  /\ versions' \in Seq(Policy) /\ Len(versions') \in 1..(MaxVersions + 1)
           /\ Stored' = v
  BY StoreAssumption DEF StoreTypeOK, MayReconcile, Write, Stored

\* The informer's delivery does not change what the API server holds.
LEMMA RolloutSyncs ==
    ASSUME StoreTypeOK, SyncPolicy
    PROVE  /\ versions' \in Seq(Policy) /\ Len(versions') \in 1..(MaxVersions + 1)
           /\ Stored' = Stored
  BY StoreAssumption DEF StoreTypeOK, SyncPolicy, Stored

\* A status patch stores a policy, and with MaxVersions = 1 the computed one.
LEMMA RolloutUpdates ==
    ASSUME StoreTypeOK, MayReconcile, NEW new \in Policy, new.threshold = Cached.threshold,
           updateStatus(new)
    PROVE  /\ versions' \in Seq(Policy) /\ Len(versions') \in 1..(MaxVersions + 1)
           /\ MaxVersions = 1 => Stored' = new
  <1>1. Cached \in Policy /\ Stored \in Policy
    BY RolloutReads
  <1>2. Merged(Stored, Cached, new) \in Policy
    BY <1>1, MergedType
  <1>3. /\ versions' \in Seq(Policy) /\ Len(versions') \in 1..(MaxVersions + 1)
        /\ Stored' = Merged(Stored, Cached, new)
    BY <1>2, RolloutWrites DEF updateStatus
  <1>4. MaxVersions = 1 => Merged(Stored, Cached, new) = new
    BY <1>1, RolloutReads, MergedFresh
  <1>5. QED
    BY <1>3, <1>4

\* The statuses the branches of this path compute.
LEMMA RolloutComputes ==
    ASSUME NEW p \in Policy
    PROVE  /\ \A rev \in Rev : Started(p, rev) \in Policy /\ Started(p, rev).threshold = p.threshold
           /\ Tripped(p) \in Policy /\ Tripped(p).threshold = p.threshold
           /\ InPhase(p, "RevisionPrepared") =>
                 LET q == Advanced(p, "RevisionPrepared", "RolloutProgressing")
                 IN  q \in Policy /\ q.threshold = p.threshold
           /\ InPhase(p, "RolloutProgressing") =>
                 LET q == Failed(p, "RolloutProgressing")
                 IN  q \in Policy /\ q.threshold = p.threshold
           /\ LET q == Promoted(p, "RolloutProgressing")
              IN  q \in Policy /\ q.threshold = p.threshold
  <1>1. \A rev \in Rev : Started(p, rev) \in Policy /\ Started(p, rev).threshold = p.threshold
    BY StartedFacts
  <1>2. Tripped(p) \in Policy /\ Tripped(p).threshold = p.threshold
    BY TrippedFacts
  <1>3. ASSUME InPhase(p, "RevisionPrepared")
        PROVE  LET q == Advanced(p, "RevisionPrepared", "RolloutProgressing")
               IN  q \in Policy /\ q.threshold = p.threshold
    <2>1. p.desired # None /\ ~Halted(p) /\ "RolloutProgressing" \in CondTypes
      BY <1>3, CondNames DEF InPhase, determineState
    <2> QED BY <2>1, AdvancedFacts
  <1>4. ASSUME InPhase(p, "RolloutProgressing")
        PROVE  LET q == Failed(p, "RolloutProgressing")
               IN  q \in Policy /\ q.threshold = p.threshold
    BY <1>4, FailedFacts
  <1>5. LET q == Promoted(p, "RolloutProgressing") IN q \in Policy /\ q.threshold = p.threshold
    BY PromotedFacts
  <1>6. QED
    BY <1>1, <1>2, <1>3, <1>4, <1>5

-----------------------------------------------------------------------------

\* Every step keeps the policy object, the upstream and the revision Secrets
\* well typed.
LEMMA RolloutStoreStep ==
    ASSUME StoreTypeOK, Next
    PROVE  StoreTypeOK'
  <1>c. Cached \in Policy /\ Stored \in Policy
    BY RolloutReads
  <1>r. upstream \in Rev /\ secrets \subseteq Rev
    BY DEF StoreTypeOK
  <1>u. ASSUME MayReconcile, NEW new \in Policy, new.threshold = Cached.threshold, updateStatusIgnored(new)
        PROVE  versions' \in Seq(Policy) /\ Len(versions') \in 1..(MaxVersions + 1)
    BY <1>u, RolloutUpdates DEF updateStatusIgnored, StoreTypeOK
  <1>1. CASE StartRollout
    BY <1>1, <1>c, <1>r, <1>u, RolloutComputes
    DEF StartRollout, StartRotation, updateStatusIgnored, materializeSecretRevision, StoreTypeOK
  <1>2. CASE InSyncOrHalted \/ StopWhilePreparing
    BY <1>2, <1>r DEF InSyncOrHalted, StopWhilePreparing, StopBeforePrepared, NothingNew, materializeSecretRevision, StoreTypeOK
  <1>3. CASE TripBreakerOnEntry
    BY <1>3, <1>c, <1>r, <1>u, RolloutComputes DEF TripBreakerOnEntry, TripOnEntry, materializeSecretRevision, StoreTypeOK
  <1>4. CASE PatchRollout
    BY <1>4, <1>c, <1>u, RolloutComputes DEF PatchRollout, updateStatusIgnored, StoreTypeOK
  <1>5. CASE RolloutHealthy
    BY <1>5, <1>c, <1>r, <1>u, RolloutComputes
    DEF RolloutHealthy, updateStatusIgnored, gcOldSecretRevisions, StoreTypeOK
  <1>6. CASE RolloutDegraded
    BY <1>6, <1>c, <1>u, RolloutComputes DEF RolloutDegraded, StoreTypeOK
  <1>7. CASE StopAfterPatch
    BY <1>7 DEF StopAfterPatch, storeVars, StoreTypeOK
  <1>8. CASE StopAfterCollection
    BY <1>8, <1>r DEF StopAfterCollection, gcOldSecretRevisions, StoreTypeOK
  <1>9. CASE StoreMoves
    <2>1. CASE Rotate
      BY <2>1, <1>r, BoundsAssumption DEF Rotate, StoreTypeOK, Rev
    <2>2. CASE EditThreshold
      BY <2>2, <1>c, EditFacts, RolloutWrites DEF EditThreshold, StoreTypeOK
    <2>3. CASE MarkRolledBack
      BY <2>3, <1>c, EditFacts, RolloutWrites DEF MarkRolledBack, StoreTypeOK
    <2>4. CASE SyncPolicy
      BY <2>4, RolloutSyncs DEF SyncPolicy, StoreTypeOK
    <2> QED BY <1>9, <2>1, <2>2, <2>3, <2>4 DEF StoreMoves
  <1>10. CASE SyncRollout \/ ArgoObserves \/ ArgoDecides \/ ArgoRetries \/ ArgoPauses \/ ArgoResumes
    BY <1>10 DEF SyncRollout, ArgoObserves, ArgoDecides, ArgoRetries, ArgoPauses, ArgoResumes, storeVars, StoreTypeOK
  <1>11. QED
    BY <1>1, <1>2, <1>3, <1>4, <1>5, <1>6, <1>7, <1>8, <1>9, <1>10 DEF Next, Reconcile, Stop, Environment

\* The statuses of a Rollout are all the pairs of an observation and a phase.
LEMMA RolloutStatusPair ==
    ASSUME NEW o \in BOOLEAN, NEW ph \in {"Progressing", "Paused", "Healthy", "Degraded"}
    PROVE  [observed |-> o, phase |-> ph] \in RolloutStatus
  BY DEF RolloutStatus

\* And the Rollout with its cached status.
LEMMA RolloutTypeStep ==
    ASSUME TypeOK, [Next]_vars
    PROVE  TypeOK'
  <1>1. CASE Next
    <2>1. StoreTypeOK'
      BY <1>1, RolloutStoreStep DEF TypeOK
    <2>2. Cached.desired \in Rev \cup {None}
      BY RolloutReads DEF TypeOK, Policy
    <2>3. CASE PatchRollout \/ StopAfterPatch
      <3>1. prod' = Cached.desired /\ seen' = seen /\ rollout' = [rollout EXCEPT !.observed = @ /\ Cached.desired = prod]
        BY <2>3 DEF PatchRollout, StopAfterPatch, PatchTemplate
      <3>2. rollout' \in RolloutStatus
        <4>1. rollout' = [observed |-> rollout.observed /\ Cached.desired = prod, phase |-> rollout.phase]
          BY <3>1 DEF TypeOK, RolloutStatus
        <4> QED BY <4>1 DEF TypeOK, RolloutStatus
      <3> QED BY <2>1, <2>2, <3>1, <3>2 DEF TypeOK
    <2>4. CASE \/ StartRollout \/ InSyncOrHalted \/ TripBreakerOnEntry \/ RolloutHealthy \/ RolloutDegraded
               \/ StopWhilePreparing \/ StopAfterCollection \/ StoreMoves
      <3>1. UNCHANGED rolloutVars
        BY <2>4 DEF StartRollout, InSyncOrHalted, TripBreakerOnEntry, RolloutHealthy, RolloutDegraded,
                    StopWhilePreparing, StopAfterCollection, StoreMoves
      <3> QED BY <2>1, <3>1 DEF rolloutVars, TypeOK
    <2>5. CASE SyncRollout
      BY <2>1, <2>5 DEF SyncRollout, TypeOK
    <2>6. CASE ArgoObserves \/ ArgoDecides \/ ArgoRetries \/ ArgoPauses \/ ArgoResumes
      <3>1. rollout \in RolloutStatus /\ UNCHANGED <<prod, seen>>
        BY <2>6 DEF TypeOK, ArgoObserves, ArgoDecides, ArgoRetries, ArgoPauses, ArgoResumes
      <3>2. \/ rollout' = [observed |-> TRUE, phase |-> "Progressing"]
            \/ \E verdict \in {"Healthy", "Degraded", "Progressing", "Paused"} : rollout' = [rollout EXCEPT !.phase = verdict]
        BY <2>6 DEF ArgoObserves, ArgoDecides, ArgoRetries, ArgoPauses, ArgoResumes
      <3>3. ASSUME rollout' = [observed |-> TRUE, phase |-> "Progressing"]
            PROVE  rollout' \in RolloutStatus
        BY <3>3, RolloutStatusPair
      <3>4. ASSUME NEW verdict \in {"Healthy", "Degraded", "Progressing", "Paused"}, rollout' = [rollout EXCEPT !.phase = verdict]
            PROVE  rollout' \in RolloutStatus
        <4>1. rollout' = [observed |-> rollout.observed, phase |-> verdict] /\ rollout.observed \in BOOLEAN
          BY <3>1, <3>4 DEF RolloutStatus
        <4> QED BY <4>1, RolloutStatusPair
      <3>5. rollout' \in RolloutStatus
        BY <3>2, <3>3, <3>4
      <3> QED BY <2>1, <3>1, <3>5 DEF TypeOK
    <2> QED BY <1>1, <2>3, <2>4, <2>5, <2>6 DEF Next, Reconcile, Stop, Environment
  <1>2. CASE UNCHANGED vars
    BY <1>2 DEF TypeOK, StoreTypeOK, vars, storeVars, rolloutVars
  <1>3. QED
    BY <1>1, <1>2

\* A new policy, whatever its threshold.
LEMMA RolloutInit ==
    ASSUME Init
    PROVE  /\ TypeOK
           /\ Stored.current = None /\ Stored.desired = None /\ Stored.failures = 0
           /\ Breaker(Stored) = "closed" /\ ~CircuitBreakerTripped(Stored)
           /\ prod = None /\ secrets = {}
  <1>1. PICK t \in 1..MaxThreshold : versions = <<NewPolicy(t)>>
    BY DEF Init, StoreInit
  <1>2. versions \in Seq(Policy) /\ Len(versions) = 1 /\ Stored = NewPolicy(t)
    BY <1>1, NewPolicyType DEF Stored
  <1>3. /\ Stored.current = None /\ Stored.desired = None /\ Stored.failures = 0
        /\ Stored.threshold = t /\ Stored.conds["CircuitBreakerTripped"] = "absent"
    BY <1>2, NewPolicyType, CondNames
  <1>4. ~CircuitBreakerTripped(Stored) /\ Breaker(Stored) = "closed"
    BY <1>3 DEF Breaker, Halted, CircuitBreakerTripped
  <1>5. StoreTypeOK
    BY <1>2, CondNames, StoreAssumption DEF StoreTypeOK, Init, StoreInit
  <1>6. QED
    BY <1>3, <1>4, <1>5 DEF Init, StoreInit, TypeOK, RolloutStatus

\* Type correctness of the Rollout path, however stale the reads: the count of
\* degraded polls never passes the threshold's range.
THEOREM RolloutType == Spec => []TypeOK
  <1>1. Init => TypeOK
    BY RolloutInit
  <1>2. QED
    BY <1>1, RolloutTypeStep, PTL DEF Spec

-----------------------------------------------------------------------------
(* One step of the Rollout path, as the safety arguments need it: when      *)
(* every reconcile reads the latest policy, a step either starts a         *)
(* rotation, patches the Rollout, records it as healthy, or leaves the     *)
(* revisions, the Rollout and the Secrets of the status alone.             *)

\* The patch of this rotation was made, or is still to be made: its absence
\* shows as a RevisionPrepared condition.
Polled(p) == determineState(p) \in {"", "RolloutProgressing"}

Starts ==
    /\ ChecksUpstream(Stored) /\ upstream \notin {Stored.current, Stored.desired}
    /\ Stored' = Started(Stored, upstream)
    /\ secrets' = secrets \cup {upstream} /\ prod' = prod

Patches ==
    /\ InPhase(Stored, "RevisionPrepared")
    /\ prod' = Stored.desired /\ secrets' = secrets
    /\ Stored' \in {Stored, Advanced(Stored, "RevisionPrepared", "RolloutProgressing")}

Finalizes ==
    /\ InPhase(Stored, "RolloutProgressing") /\ ObservedPhase("Healthy")
    /\ secrets \cap {Stored.desired, Stored.current} \subseteq secrets' /\ secrets' \subseteq secrets
    /\ prod' = prod /\ UNCHANGED <<rollout, seen>>
    /\ Stored' \in {Stored, Promoted(Stored, "RolloutProgressing")}

Keeps ==
    /\ Stored'.current = Stored.current /\ Stored'.desired = Stored.desired
    /\ prod' = prod /\ secrets \subseteq secrets'
    /\ CircuitBreakerTripped(Stored) => CircuitBreakerTripped(Stored')
    /\ Halted(Stored) /\ ~Halted(Stored') => "edit" \in Disturb
    /\ Rests(Stored) => Rests(Stored')
    /\ Polled(Stored') => determineState(Stored) = determineState(Stored')
    /\ Present(Stored, "RevisionPrepared") => Present(Stored', "RevisionPrepared")

\* Every step is one of the four.
LEMMA RolloutStep ==
    ASSUME MaxVersions = 1, TypeOK, [Next]_vars
    PROVE  Starts \/ Patches \/ Finalizes \/ Keeps
  <1>t. StoreTypeOK /\ upstream \in Rev /\ Stored \in Policy /\ None \notin Rev
    BY RolloutReads, CondNames DEF TypeOK, StoreTypeOK
  <1>c. MayReconcile => Cached = Stored
    BY <1>t, RolloutReads
  <1>u. ASSUME MayReconcile, NEW new \in Policy, new.threshold = Stored.threshold, updateStatus(new)
        PROVE  Stored' = new
    BY <1>u, <1>t, <1>c, RolloutUpdates
  <1>s. UNCHANGED versions => Stored' = Stored
    BY DEF Stored
  <1>1. CASE StartRollout
    <2>1. /\ MayReconcile /\ updateStatus(Started(Stored, upstream)) /\ ChecksUpstream(Stored)
          /\ upstream \notin {Stored.current, Stored.desired}
          /\ secrets' = secrets \cup {upstream} /\ prod' = prod
      BY <1>1, <1>c DEF StartRollout, StartRotation, Drift, materializeSecretRevision, rolloutVars
    <2>2. Stored' = Started(Stored, upstream)
      BY <2>1, <1>t, <1>u, RolloutComputes
    <2> QED BY <2>1, <2>2 DEF Starts
  <1>2. CASE PatchRollout \/ StopAfterPatch
    <2>1. /\ MayReconcile /\ InPhase(Stored, "RevisionPrepared") /\ prod' = Stored.desired /\ secrets' = secrets
          /\ \/ updateStatus(Advanced(Stored, "RevisionPrepared", "RolloutProgressing"))
             \/ UNCHANGED versions
      BY <1>2, <1>c DEF PatchRollout, StopAfterPatch, PatchTemplate, storeVars
    <2>2. Stored' \in {Stored, Advanced(Stored, "RevisionPrepared", "RolloutProgressing")}
      BY <2>1, <1>t, <1>u, <1>s, RolloutComputes
    <2> QED BY <2>1, <2>2 DEF Patches
  <1>3. CASE RolloutHealthy \/ StopAfterCollection
    <2>1. /\ MayReconcile /\ InPhase(Stored, "RolloutProgressing") /\ ObservedPhase("Healthy")
          /\ gcOldSecretRevisions(Stored) /\ UNCHANGED <<prod, rollout, seen>>
          /\ \/ updateStatus(Promoted(Stored, "RolloutProgressing"))
             \/ UNCHANGED versions
      BY <1>3, <1>c DEF RolloutHealthy, StopAfterCollection, rolloutVars
    <2>2. Stored' \in {Stored, Promoted(Stored, "RolloutProgressing")}
      BY <2>1, <1>t, <1>u, <1>s, RolloutComputes
    <2>3. secrets \cap {Stored.desired, Stored.current} \subseteq secrets' /\ secrets' \subseteq secrets
      BY <2>1 DEF gcOldSecretRevisions
    <2> QED BY <2>1, <2>2, <2>3 DEF Finalizes
  <1>4. CASE RolloutDegraded
    <2>1. /\ MayReconcile /\ InPhase(Stored, "RolloutProgressing") /\ prod' = prod /\ secrets' = secrets
          /\ updateStatusIgnored(Failed(Stored, "RolloutProgressing"))
      BY <1>4, <1>c DEF RolloutDegraded, rolloutVars
    <2> DEFINE failed == Failed(Stored, "RolloutProgressing")
    <2>2. /\ failed \in Policy /\ failed.threshold = Stored.threshold
          /\ failed.current = Stored.current /\ failed.desired = Stored.desired
          /\ determineState(failed) = "RolloutProgressing"
          /\ Present(failed, "RevisionPrepared") <=> Present(Stored, "RevisionPrepared")
      BY <2>1, <1>t, FailedFacts
    <2>3. Stored' \in {Stored, failed}
      BY <2>1, <2>2, <1>u, <1>s DEF updateStatusIgnored
    <2>4. ~Halted(Stored) /\ Stored.desired # None /\ determineState(Stored) = "RolloutProgressing"
      BY <2>1 DEF InPhase, determineState
    <2> HIDE DEF failed
    <2> QED BY <2>1, <2>2, <2>3, <2>4 DEF Keeps, Rests, Halted
  <1>5. CASE TripBreakerOnEntry
    <2>1. /\ MayReconcile /\ updateStatusIgnored(Tripped(Stored)) /\ prod' = prod /\ secrets \subseteq secrets'
          /\ Halted(Stored) /\ ~CircuitBreakerTripped(Stored)
      BY <1>5, <1>c DEF TripBreakerOnEntry, TripOnEntry, materializeSecretRevision, rolloutVars
    <2>2. Stored' \in {Stored, Tripped(Stored)}
      BY <2>1, <1>t, <1>u, <1>s, RolloutComputes DEF updateStatusIgnored
    <2>3. Rests(Stored) => Stored.desired # None
      BY <2>1, <1>t DEF Rests, Halted, Policy
    <2> DEFINE tripped == Tripped(Stored)
    <2>4. /\ tripped.current = Stored.current /\ tripped.desired = Stored.desired
          /\ CircuitBreakerTripped(tripped)
          /\ \A c \in CondTypes \ {"CircuitBreakerTripped"} : tripped.conds[c] = Stored.conds[c]
      BY <1>t, TrippedFacts
    <2> HIDE DEF tripped
    <2>5. /\ Present(Stored, "RevisionPrepared") => Present(tripped, "RevisionPrepared")
          /\ Polled(tripped) => determineState(Stored) = determineState(tripped)
      BY <2>4, CondNames DEF Present, Polled, determineState
    <2> QED BY <2>1, <2>2, <2>3, <2>4, <2>5 DEF Keeps, Rests, Halted, tripped
  <1>6. CASE StoreMoves
    <2>1. prod' = prod
      BY <1>6 DEF StoreMoves, rolloutVars
    <2>2. CASE EditThreshold
      <3>1. PICK t \in 1..MaxThreshold : MayReconcile /\ Write([Stored EXCEPT !.threshold = t])
        BY <2>2 DEF EditThreshold
      <3>2. Stored' = [Stored EXCEPT !.threshold = t]
        BY <3>1, <1>t, EditFacts, RolloutWrites
      <3>3. /\ Stored'.current = Stored.current /\ Stored'.desired = Stored.desired
            /\ Stored'.failures = Stored.failures /\ Stored'.conds = Stored.conds
        BY <3>2, <1>t DEF Policy
      <3> QED BY <2>1, <2>2, <3>3 DEF Keeps, Rests, CircuitBreakerTripped, EditThreshold, Polled, determineState, Present
    <2>3. CASE MarkRolledBack
      <3>1. Stored' = [Stored EXCEPT !.conds = With(@, "RolledBack", "True")]
        BY <2>3, <1>t, EditFacts, RolloutWrites DEF MarkRolledBack
      <3>2. /\ Stored'.current = Stored.current /\ Stored'.desired = Stored.desired
            /\ Stored'.failures = Stored.failures
            /\ Halted(Stored') <=> Halted(Stored)
            /\ CircuitBreakerTripped(Stored') <=> CircuitBreakerTripped(Stored)
            /\ Stored.desired # None => determineState(Stored') = "RolledBack"
            /\ Present(Stored', "RevisionPrepared") <=> Present(Stored, "RevisionPrepared")
        BY <3>1, <1>t, EditFacts
      <3>3. Polled(Stored') => determineState(Stored) = determineState(Stored')
        BY <3>2 DEF Polled, determineState
      <3> QED BY <2>1, <2>3, <3>2, <3>3 DEF Keeps, Rests, MarkRolledBack
    <2>4. CASE Rotate \/ SyncPolicy
      <3>1. Stored' = Stored /\ secrets' = secrets
        BY <2>4, <1>t, <1>s, RolloutSyncs DEF Rotate, SyncPolicy
      <3> QED BY <2>1, <3>1 DEF Keeps
    <2> QED BY <1>6, <2>2, <2>3, <2>4 DEF StoreMoves
  <1>7. CASE \/ InSyncOrHalted \/ StopWhilePreparing \/ SyncRollout
             \/ ArgoObserves \/ ArgoDecides \/ ArgoRetries \/ ArgoPauses \/ ArgoResumes \/ UNCHANGED vars
    <2>1. UNCHANGED <<versions, prod>> /\ secrets \subseteq secrets'
      BY <1>7 DEF InSyncOrHalted, NothingNew, StopWhilePreparing, StopBeforePrepared, SyncRollout, ArgoObserves,
                  ArgoDecides, ArgoRetries, ArgoPauses, ArgoResumes, vars, storeVars, rolloutVars, materializeSecretRevision
    <2> QED BY <2>1, <1>s DEF Keeps
  <1>8. QED
    BY <1>1, <1>2, <1>3, <1>4, <1>5, <1>6, <1>7 DEF Next, Reconcile, Stop, Environment

-----------------------------------------------------------------------------
(* What the status says of the Rollout.                                    *)

\* The two invariants of the status together are inductive.
LEMMA RolloutStatusStep ==
    ASSUME MaxVersions = 1, TypeOK, StatusMatchesRollout, StatusRevisionsExist, [Next]_vars
    PROVE  StatusMatchesRollout' /\ StatusRevisionsExist'
  <1>t. Stored \in Policy /\ upstream \in Rev /\ None \notin Rev
    BY RolloutReads, CondNames DEF TypeOK, StoreTypeOK
  <1>1. CASE Starts
    <2>1. /\ Stored'.current = Stored.current /\ Stored'.desired = upstream
          /\ Present(Stored', "RevisionPrepared")
      BY <1>1, <1>t, StartedFacts DEF Starts
    <2>2. determineState(Stored') = "RolloutProgressing" => PatchSkipped'
      BY <2>1 DEF PatchSkipped
    <2> QED BY <1>1, <1>t, <2>1, <2>2 DEF Starts, StatusMatchesRollout, CurrentIsServed, StatusRevisionsExist
  <1>2. CASE Patches
    <2>1. Stored.desired # None /\ ~Halted(Stored) /\ determineState(Stored) = "RevisionPrepared"
      BY <1>2 DEF Patches, InPhase, determineState
    <2>2. CASE Stored' = Stored
      BY <1>2, <2>1, <2>2 DEF Patches, StatusMatchesRollout, CurrentIsServed, StatusRevisionsExist
    <2>3. CASE Stored' = Advanced(Stored, "RevisionPrepared", "RolloutProgressing")
      <3>1. Stored'.current = Stored.current /\ Stored'.desired = Stored.desired
        BY <2>1, <2>3, <1>t, AdvancedFacts, CondNames
      <3> QED BY <1>2, <2>1, <3>1 DEF Patches, StatusMatchesRollout, CurrentIsServed, StatusRevisionsExist
    <2> QED BY <1>2, <2>2, <2>3 DEF Patches
  <1>3. CASE Finalizes
    <2>1. Stored.desired # None /\ determineState(Stored) = "RolloutProgressing"
      BY <1>3 DEF Finalizes, InPhase, determineState
    <2>2. CASE Stored' = Stored
      BY <1>3, <2>1, <2>2 DEF Finalizes, StatusMatchesRollout, PatchSkipped, CurrentIsServed, StatusRevisionsExist
    <2>3. CASE Stored' = Promoted(Stored, "RolloutProgressing")
      <3>1. /\ Stored'.current = Stored.desired /\ Stored'.desired = None
            /\ Present(Stored', "RevisionPrepared") <=> Present(Stored, "RevisionPrepared")
        BY <2>3, <1>t, PromotedFacts
      <3>2. determineState(Stored') = ""
        BY <3>1 DEF determineState
      <3> QED BY <1>3, <2>1, <3>1, <3>2
              DEF Finalizes, StatusMatchesRollout, PatchSkipped, CurrentIsServed, StatusRevisionsExist
    <2> QED BY <1>3, <2>2, <2>3 DEF Finalizes
  <1>4. CASE Keeps
    <2>1. StatusRevisionsExist'
      BY <1>4 DEF Keeps, StatusRevisionsExist
    <2>2. CASE Polled(Stored')
      <3>1. /\ determineState(Stored') = determineState(Stored)
            /\ Present(Stored, "RevisionPrepared") => Present(Stored', "RevisionPrepared")
            /\ Stored'.current = Stored.current /\ Stored'.desired = Stored.desired /\ prod' = prod
        BY <1>4, <2>2 DEF Keeps
      <3>2. PatchSkipped => PatchSkipped'
        BY <3>1 DEF PatchSkipped
      <3> QED BY <2>1, <3>1, <3>2 DEF StatusMatchesRollout, CurrentIsServed
    <2>3. CASE ~Polled(Stored')
      <3>1. Stored'.desired # None /\ determineState(Stored') # "RolloutProgressing"
        BY <2>3 DEF Polled, determineState
      <3> QED BY <2>1, <3>1 DEF StatusMatchesRollout, CurrentIsServed
    <2> QED BY <2>1, <2>2, <2>3
  <1>5. QED
    BY <1>1, <1>2, <1>3, <1>4, RolloutStep

\* Whatever crashes, drops its patch, lags at Argo, is retried or edited: as
\* long as reconciles read the latest policy, what is polled and then recorded
\* as current is what the Rollout references, unless a left-over
\* RolloutProgressing condition made the patch be skipped; and no Secret the
\* status names is collected.
THEOREM RolloutStatusTrue ==
    ASSUME MaxVersions = 1
    PROVE  Spec => [](StatusMatchesRollout /\ StatusRevisionsExist)
  <1>1. Init => StatusMatchesRollout /\ StatusRevisionsExist
    <2> SUFFICES ASSUME Init PROVE StatusMatchesRollout /\ StatusRevisionsExist
      OBVIOUS
    <2>1. Stored.current = None /\ Stored.desired = None /\ prod = None
      BY RolloutInit
    <2> QED BY <2>1 DEF StatusMatchesRollout, CurrentIsServed, determineState, StatusRevisionsExist
  <1>2. TypeOK /\ StatusMatchesRollout /\ StatusRevisionsExist /\ [Next]_vars
           => StatusMatchesRollout' /\ StatusRevisionsExist'
    BY RolloutStatusStep
  <1>3. QED
    BY <1>1, <1>2, RolloutType, PTL DEF Spec

\* The observedGeneration guard works: a revision is recorded as current only
\* while the Rollout references it and Argo reports it observed and Healthy,
\* with two exceptions, the skipped patch and a lagging cache of the Rollout.
THEOREM FinalizedWhenHealthy ==
    ASSUME MaxVersions = 1
    PROVE  Spec => FinalizedOnObservedHealth
  <1> DEFINE Recorded == Stored'.current # Stored.current =>
                            \/ PatchSkipped
                            \/ seen # rollout
                            \/ rollout = [observed |-> TRUE, phase |-> "Healthy"] /\ prod = Stored'.current
  <1>1. TypeOK /\ StatusMatchesRollout /\ [Next]_vars => Recorded
    <2> SUFFICES ASSUME TypeOK, StatusMatchesRollout, [Next]_vars PROVE Recorded
      OBVIOUS
    <2>t. Stored \in Policy /\ upstream \in Rev /\ rollout \in RolloutStatus
      BY RolloutReads DEF TypeOK, StoreTypeOK
    <2>1. CASE Starts
      BY <2>1, <2>t, StartedFacts DEF Starts
    <2>2. CASE Patches
      <3>1. Stored.desired # None /\ ~Halted(Stored)
        BY <2>2 DEF Patches, InPhase, determineState
      <3> QED BY <2>2, <2>t, <3>1, AdvancedFacts, CondNames DEF Patches
    <2>3. CASE Finalizes
      <3>1. determineState(Stored) = "RolloutProgressing" /\ seen.observed /\ seen.phase = "Healthy"
        BY <2>3 DEF Finalizes, InPhase, ObservedPhase
      <3>2. PatchSkipped \/ prod = Stored.desired
        BY <3>1 DEF StatusMatchesRollout
      <3>3. seen = rollout => rollout = [observed |-> TRUE, phase |-> "Healthy"]
        BY <3>1, <2>t DEF RolloutStatus
      <3>4. Stored'.current \in {Stored.current, Stored.desired}
        BY <2>3, <2>t, PromotedFacts DEF Finalizes
      <3> QED BY <3>2, <3>3, <3>4
    <2>4. CASE Keeps
      BY <2>4 DEF Keeps
    <2> QED BY <2>1, <2>2, <2>3, <2>4, RolloutStep
  <1>2. TypeOK /\ StatusMatchesRollout /\ [Next]_vars => [Recorded]_vars
    BY <1>1
  <1>3. QED
    BY <1>2, RolloutType, RolloutStatusTrue, PTL DEF Spec, FinalizedOnObservedHealth

-----------------------------------------------------------------------------
(* The Rollout path implements Rotation.                                   *)

\* A policy between rotations counts nothing.
LEMMA RolloutRests ==
    ASSUME MaxVersions = 1, TypeOK, Rests(Stored), [Next]_vars
    PROVE  Rests(Stored')
  <1>t. Stored \in Policy /\ upstream \in Rev /\ None \notin Rev
    BY RolloutReads, CondNames DEF TypeOK, StoreTypeOK
  <1>1. CASE Starts
    BY <1>1, <1>t, StartedFacts DEF Starts, Rests
  <1>2. CASE Patches
    <2>1. Stored.desired # None /\ ~Halted(Stored)
      BY <1>2 DEF Patches, InPhase, determineState
    <2> QED BY <1>2, <1>t, <2>1, AdvancedFacts, CondNames DEF Patches, Rests
  <1>3. CASE Finalizes
    BY <1>3, <1>t, PromotedFacts DEF Finalizes, InPhase, Halted, Rests
  <1>4. CASE Keeps
    BY <1>4 DEF Keeps
  <1>5. QED
    BY <1>1, <1>2, <1>3, <1>4, RolloutStep

\* Starts is Begin, a patch is Serve, a recorded Healthy is Complete, and the
\* others move only the breaker.
LEMMA RolloutRotationStep ==
    ASSUME MaxVersions = 1, TypeOK, TypeOK', Rests(Stored), [Next]_vars
    PROVE  Abstract!Next \/ UNCHANGED <<Stored.current, Stored.desired, Breaker(Stored), prod>>
  <1>t. Stored \in Policy /\ Stored' \in Policy /\ upstream \in Rev /\ None \notin Rev
    <2>1. versions' \in Seq(Policy) /\ Len(versions') \in 1..(MaxVersions + 1)
      BY DEF TypeOK, StoreTypeOK
    <2>2. Stored' = versions'[Len(versions')]
      BY DEF Stored
    <2>3. Stored' \in Policy
      BY <2>1, <2>2, StoreAssumption
    <2> QED BY <2>3, RolloutReads, CondNames DEF TypeOK, StoreTypeOK
  <1>1. CASE Starts
    <2>1. Stored'.current = Stored.current /\ Stored'.desired = upstream /\ ~Halted(Stored')
      BY <1>1, <1>t, StartedFacts DEF Starts
    <2>2. Breaker(Stored') = "closed"
      BY <2>1 DEF Breaker, Halted
    <2>3. Stored.desired = None \/ Breaker(Stored) # "closed"
      BY <1>1 DEF Starts, ChecksUpstream, determineState, Breaker
    <2>4. Abstract!Begin
      BY <1>1, <1>t, <2>1, <2>2, <2>3 DEF Starts, Abstract!Begin, Abstract!Trying
    <2> QED BY <2>4 DEF Abstract!Next
  <1>2. CASE Patches
    <2>1. Stored.desired # None /\ ~Halted(Stored)
      BY <1>2 DEF Patches, InPhase, determineState
    <2>2. /\ Stored'.current = Stored.current /\ Stored'.desired = Stored.desired /\ ~Halted(Stored')
      BY <1>2, <1>t, <2>1, AdvancedFacts, CondNames DEF Patches
    <2>3. Breaker(Stored) = "closed" /\ Breaker(Stored') = "closed"
      BY <2>1, <2>2 DEF Breaker, Halted
    <2>4. Abstract!Serve
      BY <1>2, <2>1, <2>2, <2>3 DEF Patches, Abstract!Serve, Abstract!Trying
    <2> QED BY <2>4 DEF Abstract!Next
  <1>3. CASE Finalizes
    <2>1. Stored.desired # None /\ ~Halted(Stored)
      BY <1>3 DEF Finalizes, InPhase, determineState
    <2>2. CASE Stored' = Stored
      BY <1>3, <2>2 DEF Finalizes
    <2>3. CASE Stored' = Promoted(Stored, "RolloutProgressing")
      <3>1. /\ Stored'.current = Stored.desired /\ Stored'.desired = None
            /\ Stored'.failures = 0 /\ ~CircuitBreakerTripped(Stored')
        BY <2>1, <2>3, <1>t, PromotedFacts DEF Halted
      <3>2. Breaker(Stored) = "closed" /\ Breaker(Stored') = "closed"
        BY <2>1, <3>1, <1>t DEF Breaker, Halted, Policy
      <3>3. Abstract!Complete
        BY <1>3, <2>1, <3>1, <3>2 DEF Finalizes, Abstract!Complete, Abstract!Trying
      <3> QED BY <3>3 DEF Abstract!Next
    <2> QED BY <1>3, <2>2, <2>3 DEF Finalizes
  <1>4. CASE Keeps
    <2>1. Rests(Stored') /\ Stored'.desired = Stored.desired
      BY <1>4 DEF Keeps
    <2>2. \/ Breaker(Stored') = Breaker(Stored)
          \/ Stored.desired # None /\ Breaker(Stored) = "closed" /\ Breaker(Stored') \in {"due", "open"}
          \/ Stored.desired # None /\ Breaker(Stored) = "due" /\ Breaker(Stored') = "open"
          \/ Breaker(Stored) = "due" /\ Breaker(Stored') = "closed" /\ "edit" \in Disturb
      BY <1>4, <1>t, <2>1, BreakerMoves DEF Keeps
    <2> QED BY <1>4, <2>2 DEF Keeps, Abstract!Halt, Abstract!Release, Abstract!Next
  <1>5. QED
    BY <1>1, <1>2, <1>3, <1>4, RolloutStep

\* As long as reconciles read the latest policy, the Rollout path implements
\* Rotation with the workload patched when the rotation begins: what is
\* recorded was tried, what is tried was never seen, and a halted policy
\* leaves the Rollout alone.
THEOREM RolloutImplementsRotation ==
    ASSUME MaxVersions = 1
    PROVE  Spec => ImplementsRotation
  <1>1. Init => Abstract!Init /\ Rests(Stored)
    BY RolloutInit DEF Abstract!Init, Rests
  <1>2. TypeOK /\ Rests(Stored) /\ [Next]_vars => Rests(Stored)'
    BY RolloutRests
  <1>3. TypeOK /\ TypeOK' /\ Rests(Stored) /\ [Next]_vars
          => [Abstract!Next]_(Abstract!rotationVars)
    BY RolloutRotationStep DEF Abstract!rotationVars
  <1>4. QED
    BY <1>1, <1>2, <1>3, RolloutType, PTL DEF Spec, ImplementsRotation, Abstract!Spec
=============================================================================
