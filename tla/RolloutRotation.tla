--------------------------- MODULE RolloutRotation ---------------------------
(***************************************************************************)
(* Reconcile for a policy whose target is an Argo Rollout.  No canary is   *)
(* built: the Rollout's pod template is patched at once and Argo's own     *)
(* progressive delivery decides.  The reconciler polls the Rollout's       *)
(* status, finalizes on Healthy and counts a failure on every poll that    *)
(* finds it Degraded.  The Argo controller is external: it is modelled by  *)
(* the status fields Reconcile reads.                                      *)
(***************************************************************************)
EXTENDS PolicyStore

CONSTANTS Bad,         \* revisions with which the workload does not work
          RolloutLags  \* the Rollout informer's cache may lag

ASSUME RolloutAssumption ==
    /\ Bad \subseteq Rev
    /\ RolloutLags \in BOOLEAN
    /\ Disturb \subseteq {"crash", "ignoredPatch", "gc", "edit", "rolledBack", "retry", "pause"}

RolloutStatus == [observed : BOOLEAN,  \* observedGeneration = generation
                  phase    : {"Progressing", "Paused", "Healthy", "Degraded"}]

VARIABLES
    prod,     \* revision the Rollout's pod template references
    rollout,  \* status of the Rollout
    seen      \* that status in the informer cache

rolloutVars == <<prod, rollout, seen>>
vars == <<storeVars, rolloutVars>>

TypeOK ==
    /\ StoreTypeOK
    /\ prod \in Rev \cup {None}
    /\ rollout \in RolloutStatus
    /\ seen \in RolloutStatus

Init ==
    /\ StoreInit
    /\ prod = None
    /\ rollout = [observed |-> TRUE, phase |-> "Healthy"]
    /\ seen = rollout

-----------------------------------------------------------------------------
(* Reconcile, one action per branch.                                       *)

StartRollout == StartRotation /\ UNCHANGED rolloutVars

InSyncOrHalted == NothingNew /\ UNCHANGED rolloutVars

TripBreakerOnEntry == TripOnEntry /\ UNCHANGED rolloutVars

\* RolloutAdapter.Promote: a changed pod template is a new generation, which
\* Argo has not observed; its phase still reports the one before.
PatchTemplate(rev) ==
    /\ prod' = rev
    /\ rollout' = [rollout EXCEPT !.observed = @ /\ rev = prod]
    /\ UNCHANGED seen

\* BuildCanary returned nil: patch the Rollout itself.
PatchRollout ==
    /\ MayReconcile
    /\ InPhase(Cached, "RevisionPrepared")
    /\ PatchTemplate(Cached.desired)
    /\ updateStatus(Advanced(Cached, "RevisionPrepared", "RolloutProgressing"))
    /\ UNCHANGED <<upstream, secrets>>

\* Faulty: the phase is trusted before Argo has observed the patch.
ObservedPhase_Unchecked(phase) == (~RolloutLags => seen = rollout) /\ seen.phase = phase

\* The phase counts only once Argo has observed the latest generation.
ObservedPhase(phase) ==
    /\ ~RolloutLags => seen = rollout
    /\ seen.observed
    /\ seen.phase = phase

RolloutHealthy ==
    /\ MayReconcile
    /\ InPhase(Cached, "RolloutProgressing")
    /\ ObservedPhase("Healthy")
    /\ gcOldSecretRevisions(Cached)
    /\ updateStatus(Promoted(Cached, "RolloutProgressing"))
    /\ UNCHANGED <<upstream, rolloutVars>>

\* Both status patches of this branch drop their error.
RolloutDegraded ==
    /\ MayReconcile
    /\ InPhase(Cached, "RolloutProgressing")
    /\ ObservedPhase("Degraded")
    /\ updateStatusIgnored(Failed(Cached, "RolloutProgressing"))
    /\ UNCHANGED <<upstream, secrets, rolloutVars>>

Reconcile ==
    \/ StartRollout \/ InSyncOrHalted \/ TripBreakerOnEntry
    \/ PatchRollout \/ RolloutHealthy \/ RolloutDegraded

-----------------------------------------------------------------------------
(* A Reconcile call that ends before its status patch.                     *)

StopWhilePreparing == StopBeforePrepared /\ UNCHANGED rolloutVars

\* Faulty: the phase is recorded before the Rollout is patched.
StopAfterPatch_RecordedFirst ==
    /\ "crash" \in Disturb /\ MayReconcile
    /\ InPhase(Cached, "RevisionPrepared")
    /\ updateStatus(Advanced(Cached, "RevisionPrepared", "RolloutProgressing"))
    /\ UNCHANGED <<upstream, secrets, rolloutVars>>

StopAfterPatch ==
    /\ "crash" \in Disturb /\ MayReconcile
    /\ InPhase(Cached, "RevisionPrepared")
    /\ PatchTemplate(Cached.desired)
    /\ UNCHANGED storeVars

StopAfterCollection ==
    /\ "crash" \in Disturb /\ MayReconcile
    /\ InPhase(Cached, "RolloutProgressing")
    /\ ObservedPhase("Healthy")
    /\ gcOldSecretRevisions(Cached)
    /\ UNCHANGED <<versions, upstream, rolloutVars>>

Stop == StopWhilePreparing \/ StopAfterPatch \/ StopAfterCollection

-----------------------------------------------------------------------------
(* Argo and the informers.                                                 *)

StoreMoves ==
    /\ Rotate \/ EditThreshold \/ MarkRolledBack \/ SyncPolicy
    /\ UNCHANGED rolloutVars

SyncRollout ==
    /\ seen' = rollout
    /\ UNCHANGED <<storeVars, prod, rollout>>

\* Argo observes the generation and starts its steps.
ArgoObserves ==
    /\ ~rollout.observed
    /\ rollout' = [observed |-> TRUE, phase |-> "Progressing"]
    /\ UNCHANGED <<storeVars, prod, seen>>

\* A step of its strategy pauses the Rollout ...
ArgoPauses ==
    /\ "pause" \in Disturb
    /\ rollout.observed /\ rollout.phase = "Progressing"
    /\ rollout' = [rollout EXCEPT !.phase = "Paused"]
    /\ UNCHANGED <<storeVars, prod, seen>>

\* ... until it is promoted, by a person or by the pause's duration.  A pause
\* without a duration need never end; Reconcile polls it as it polls Progressing.
ArgoResumes ==
    /\ rollout.observed /\ rollout.phase = "Paused"
    /\ rollout' = [rollout EXCEPT !.phase = "Progressing"]
    /\ UNCHANGED <<storeVars, prod, seen>>

\* Its steps end.  They may fail for reasons of their own, and do not succeed
\* with a revision that does not work.
ArgoDecides ==
    /\ rollout.observed /\ rollout.phase = "Progressing"
    /\ \E verdict \in {"Degraded"} \cup (IF prod \in Bad THEN {} ELSE {"Healthy"}) :
           rollout' = [rollout EXCEPT !.phase = verdict]
    /\ UNCHANGED <<storeVars, prod, seen>>

\* Someone retries a degraded Rollout.
ArgoRetries ==
    /\ "retry" \in Disturb
    /\ rollout.observed /\ rollout.phase = "Degraded"
    /\ rollout' = [rollout EXCEPT !.phase = "Progressing"]
    /\ UNCHANGED <<storeVars, prod, seen>>

Environment == StoreMoves \/ SyncRollout \/ ArgoObserves \/ ArgoDecides \/ ArgoRetries \/ ArgoPauses \/ ArgoResumes

Next == Reconcile \/ Stop \/ Environment

Spec == Init /\ [][Next]_vars

\* The reconciler polls every few seconds.  Argo's steps are finitely many and
\* each ends by success, by failure or by the progress deadline, so a Rollout
\* that is not left paused gets its verdict however often it was resumed.
\* Nothing obliges anyone to resume it.
Fairness ==
    /\ WF_vars(Reconcile)
    /\ WF_vars(SyncPolicy /\ UNCHANGED rolloutVars)
    /\ WF_vars(SyncRollout)
    /\ WF_vars(ArgoObserves)
    /\ SF_vars(ArgoDecides)

FairSpec == Spec /\ Fairness

-----------------------------------------------------------------------------
(* Properties.                                                             *)

\* Between rotations status.currentRevision is what the Rollout references.
CurrentIsServed == Stored.desired = None => prod = Stored.current

\* RevisionPrepared is removed by the branch that patches the Rollout, so a
\* rotation that is over, or is being polled, with RevisionPrepared still
\* present never patched it: determineState went past that branch because the
\* RolloutProgressing condition of an earlier, tripped rotation was left over.
PatchSkipped ==
    /\ Present(Stored, "RevisionPrepared")
    /\ determineState(Stored) \in {"", "RolloutProgressing"}

\* The skipped patch is the only way in which the status and the Rollout
\* disagree: otherwise what is polled, and then recorded as current, is what
\* the Rollout references, whatever crashes, retries and edits happen.
StatusMatchesRollout ==
    \/ PatchSkipped
    \/ /\ CurrentIsServed
       /\ determineState(Stored) = "RolloutProgressing" => prod = Stored.desired

\* A revision is recorded as current only when Argo has observed the patch
\* and reports Healthy for it (the observedGeneration guard), except on a
\* cached Rollout of before the patch: its generations match too, and its
\* Healthy is the previous revision's.
FinalizedOnObservedHealth ==
    [][Stored'.current # Stored.current =>
         \/ PatchSkipped
         \/ seen # rollout
         \/ rollout = [observed |-> TRUE, phase |-> "Healthy"] /\ prod = Stored'.current]_vars

\* The Rollout waits for a promotion that may never come.
AwaitsPromotion ==
    rollout = [observed |-> TRUE, phase |-> "Paused"] /\ determineState(Stored) = "RolloutProgressing"

\* Crashes, lost status patches, stale caches and a skipped patch do not keep
\* a rotation from ending.  Only people do: by leaving the Rollout paused,
\* which is polled without limit, by retrying it or editing the threshold for
\* ever, or by setting RolledBack, a state Reconcile never leaves because it
\* clears the desired revision in memory only.
RolloutSettles ==
    \/ <>[](Settled \/ determineState(Stored) = "RolledBack")
    \/ <>[]AwaitsPromotion
    \/ []<><<ArgoRetries \/ (EditThreshold /\ UNCHANGED rolloutVars)>>_vars

\* The Secrets of the revisions the status names are never collected.
StatusRevisionsExist == {Stored.current, Stored.desired} \subseteq secrets \cup {None}

-----------------------------------------------------------------------------
(* The abstract specification.                                             *)

Abstract == INSTANCE Rotation
            WITH current <- Stored.current,
                 desired <- Stored.desired,
                 breaker <- Breaker(Stored),
                 served <- prod,
                 Promotes <- FALSE,
                 Releasable <- "edit" \in Disturb

\* The Rollout path keeps the promise of Rotation with the workload patched
\* when the rotation begins, and its completion recorded without a look at
\* what the Rollout references.
ImplementsRotation == Abstract!Spec
=============================================================================
