--------------------------- MODULE CanaryRotation ---------------------------
(***************************************************************************)
(* Reconcile for a policy whose target is a Deployment, a StatefulSet or a *)
(* DaemonSet: materialize the upstream revision, run a canary of the       *)
(* workload with it, probe the canary, then patch production and collect   *)
(* the old revisions; or count failures and trip the circuit breaker.      *)
(*                                                                         *)
(* Reconciles of one policy are serialized by the workqueue, so each       *)
(* action is one Reconcile call from its reads to its last write.  What    *)
(* interleaves with it is the cluster: the upstream writes new revisions,  *)
(* people edit the policy, informer caches catch up late, pods come and    *)
(* go; and a call can stop half way.                                       *)
(***************************************************************************)
EXTENDS PolicyStore, FiniteSets

CONSTANTS Bad,     \* revisions with which the workload does not work
          Probes,  \* kinds of synchronous probe configured
          Lag      \* informer caches, besides the policy's, that may lag

ASSUME CanaryAssumption ==
    /\ Bad \subseteq Rev
    /\ Probes \subseteq {"workload", "external"}
    /\ Lag \subseteq {"canary", "pods"}
    /\ Disturb \subseteq {"crash", "cleanup", "ignoredPatch", "gc", "edit", "rolledBack"}

VARIABLES
    canary,      \* revision the <target>-canary Deployment mounts, or None
    netpol,      \* the canary's (Cilium)NetworkPolicy exists
    canarySeen,  \* the Deployment informer's cache holds the canary
    pods,        \* revisions mounted by the ready pods with the canary labels
    leftover,    \* history: a rotation ended and its canary was not removed
    prod         \* revision the production workload references; None before
                 \* the first promotion

canaryVars == <<canary, netpol, canarySeen, pods, leftover>>
vars == <<storeVars, canaryVars, prod>>

TypeOK ==
    /\ StoreTypeOK
    /\ canary \in Rev \cup {None}
    /\ netpol \in BOOLEAN
    /\ canarySeen \in BOOLEAN
    /\ pods \subseteq Rev
    /\ leftover \in BOOLEAN
    /\ prod \in Rev \cup {None}

Init ==
    /\ StoreInit
    /\ canary = None
    /\ netpol = FALSE
    /\ canarySeen = FALSE
    /\ pods = {}
    /\ leftover = FALSE
    /\ prod = None

-----------------------------------------------------------------------------
(* Effects the branches of Reconcile share.                                *)

\* Faulty: only the network policy is deleted.
CleanupCanaryResources_KeepsDeployment == netpol' = FALSE /\ UNCHANGED canary

\* The Deployment goes first, then its network policy: cut short, the cleanup
\* leaves both or the policy.
CleanupCutShort == canary' \in {canary, None} /\ UNCHANGED netpol

\* It stops at the first API error, and no caller acts on the error or tries
\* again.
CleanupCanaryResources ==
    \/ canary' = None /\ netpol' = FALSE
    \/ "cleanup" \in Disturb /\ CleanupCutShort

\* What the history records of a cleanup, at the end of a rotation and within.
RotationOver == leftover' = (canary' # None)
RotationGoesOn == leftover' = (leftover /\ canary' # None)

\* Faulty: the canary is built from the revision the upstream serves by now.
CreateCanary_Upstream(p) == canary' = IF canary = None THEN upstream ELSE canary

\* Create tolerates AlreadyExists: a Deployment of that name stays as it is.
CreateCanary(p) == canary' = IF canary = None THEN p.desired ELSE canary

-----------------------------------------------------------------------------
(* Probing.                                                                *)

\* What the validation branch reads from caches is current, unless it may lag.
CachesRead ==
    /\ "canary" \notin Lag => canarySeen = (canary # None)
    /\ "pods" \notin Lag => pods \subseteq {canary}

\* Faulty: the endpoint is not rewritten to the canary's address.
WorkloadProbePasses_NotRedirected == prod \notin Bad

\* resolveCanaryProbeEndpoint: a probe of the workload goes to a ready pod
\* with the canary labels when the canary Deployment is found, and to the
\* configured endpoint, production, when it is not.
WorkloadProbePasses ==
    IF canarySeen THEN \E r \in pods : r \notin Bad
                  ELSE prod \notin Bad

\* A TLS probe, or one whose host is the workload's name; not one of another
\* host, such as a database.
isWorkloadProbe(probe) == probe = "workload"

\* Probes of other endpoints may succeed whatever the revision.
ProbesPass(p) ==
    /\ CachesRead
    /\ Probes # {} => p.desired \in secrets
    /\ \A probe \in Probes : isWorkloadProbe(probe) => WorkloadProbePasses

\* Any probe may fail: a wrong secret, a network fault, a pod not ready in time.
ProbesFail == CachesRead /\ Probes # {}

-----------------------------------------------------------------------------
(* Reconcile, one action per branch.                                       *)

StartRollout == StartRotation /\ UNCHANGED <<canaryVars, prod>>

InSyncOrHalted == NothingNew /\ UNCHANGED <<canaryVars, prod>>

TripBreakerOnEntry ==
    /\ TripOnEntry
    /\ CleanupCanaryResources /\ RotationOver
    /\ UNCHANGED <<canarySeen, pods, prod>>

\* Faulty: an existing canary is taken to be isolated already.
ProvisionCanary_SkipsNetpol ==
    /\ MayReconcile
    /\ InPhase(Cached, "RevisionPrepared")
    /\ CreateCanary(Cached)
    /\ netpol' = (netpol \/ canary = None)
    /\ updateStatus(Advanced(Cached, "RevisionPrepared", "CanaryProvisioning"))
    /\ UNCHANGED <<upstream, secrets, canarySeen, pods, leftover, prod>>

ProvisionCanary ==
    /\ MayReconcile
    /\ InPhase(Cached, "RevisionPrepared")
    /\ CreateCanary(Cached)
    /\ netpol' = TRUE
    /\ updateStatus(Advanced(Cached, "RevisionPrepared", "CanaryProvisioning"))
    /\ UNCHANGED <<upstream, secrets, canarySeen, pods, leftover, prod>>

BeginValidating ==
    /\ MayReconcile
    /\ InPhase(Cached, "CanaryProvisioning")
    /\ updateStatus(Advanced(Cached, "CanaryProvisioning", "Validating"))
    /\ UNCHANGED <<upstream, secrets, canaryVars, prod>>

\* A probe failed, the threshold is not reached: the error backs the key off.
\* The condition's message is the probe's error, so the condition list may
\* travel in the patch even when Validating already was False.
ValidationFails ==
    LET failed == Failed(Cached, "Validating")
        patched == Merged(Stored, Cached, failed)
    IN  /\ MayReconcile
        /\ InPhase(Cached, "Validating")
        /\ ProbesFail
        /\ Cached.failures + 1 < Cached.threshold
        /\ Write(patched) \/ Write([patched EXCEPT !.conds = failed.conds])
        /\ UNCHANGED <<upstream, secrets, canaryVars, prod>>

\* A probe failed for the last time: the patch that trips the breaker, whose
\* error is dropped, comes before the removal of the canary.
LastProbeFails ==
    /\ MayReconcile
    /\ InPhase(Cached, "Validating")
    /\ ProbesFail
    /\ Cached.failures + 1 >= Cached.threshold
    /\ updateStatusIgnored(Failed(Cached, "Validating"))
    /\ UNCHANGED <<upstream, secrets>>

\* Faulty: production is set back to the current revision.
ValidationTrips_RollsBack ==
    /\ LastProbeFails
    /\ CleanupCanaryResources /\ RotationOver
    /\ prod' = Cached.current
    /\ UNCHANGED <<canarySeen, pods>>

ValidationTrips ==
    /\ LastProbeFails
    /\ CleanupCanaryResources /\ RotationOver
    /\ UNCHANGED <<canarySeen, pods, prod>>

\* All probes passed: patch production, collect old revisions, remove the
\* canary, record the promotion.
promoteTargetWorkload ==
    /\ MayReconcile
    /\ InPhase(Cached, "Validating")
    /\ ProbesPass(Cached)
    /\ prod' = Cached.desired
    /\ gcOldSecretRevisions(Cached)
    /\ CleanupCanaryResources /\ RotationOver
    /\ updateStatus(Promoted(Cached, "Validating"))
    /\ UNCHANGED <<upstream, canarySeen, pods>>

\* RolledBack clears desiredRevision in memory only.
CleanUpRolledBack ==
    /\ MayReconcile
    /\ InPhase(Cached, "RolledBack")
    /\ CleanupCanaryResources /\ RotationGoesOn
    /\ UNCHANGED <<storeVars, canarySeen, pods, prod>>

Reconcile ==
    \/ StartRollout \/ InSyncOrHalted \/ TripBreakerOnEntry
    \/ ProvisionCanary \/ BeginValidating
    \/ ValidationFails \/ ValidationTrips \/ promoteTargetWorkload
    \/ CleanUpRolledBack

-----------------------------------------------------------------------------
(* A Reconcile call that stops half way: the process dies or, before the    *)
(* status patch, an API call fails and the error is returned.  The next     *)
(* call starts over from the stored status.                                 *)

StopWhilePreparing == StopBeforePrepared /\ UNCHANGED <<canaryVars, prod>>

\* The canary exists, its network policy perhaps not.
StopWhileProvisioning ==
    /\ "crash" \in Disturb /\ MayReconcile
    /\ InPhase(Cached, "RevisionPrepared")
    /\ CreateCanary(Cached)
    /\ netpol' \in {netpol, TRUE}
    /\ UNCHANGED <<storeVars, canarySeen, pods, leftover, prod>>

\* Faulty: the promotion is recorded before production is patched.
StopWhilePromoting_RecordedFirst ==
    /\ "crash" \in Disturb /\ MayReconcile
    /\ InPhase(Cached, "Validating")
    /\ ProbesPass(Cached)
    /\ updateStatus(Promoted(Cached, "Validating"))
    /\ UNCHANGED <<upstream, secrets, canaryVars, prod>>

\* Production is patched; collection and cleanup happened, in part or not.
StopWhilePromoting ==
    /\ "crash" \in Disturb /\ MayReconcile
    /\ InPhase(Cached, "Validating")
    /\ ProbesPass(Cached)
    /\ prod' = Cached.desired
    /\ \/ UNCHANGED <<secrets, canary, netpol>>
       \/ gcOldSecretRevisions(Cached) /\ CleanupCutShort
       \/ gcOldSecretRevisions(Cached) /\ CleanupCanaryResources
    /\ RotationGoesOn
    /\ UNCHANGED <<versions, upstream, canarySeen, pods>>

\* The breaker is tripped and the cleanup cut short: from here on the branch
\* of a tripped breaker returns before it would clean up.
StopAfterTrip ==
    /\ "crash" \in Disturb
    /\ TripOnEntry \/ LastProbeFails
    /\ CleanupCutShort /\ RotationOver
    /\ UNCHANGED <<canarySeen, pods, prod>>

\* Half way through the cleanup of a rotation marked RolledBack.
StopWhileCleaningUp ==
    /\ "crash" \in Disturb /\ MayReconcile
    /\ InPhase(Cached, "RolledBack")
    /\ CleanupCutShort /\ RotationGoesOn
    /\ UNCHANGED <<storeVars, canarySeen, pods, prod>>

Stop ==
    \/ StopWhilePreparing \/ StopWhileProvisioning \/ StopWhilePromoting
    \/ StopAfterTrip \/ StopWhileCleaningUp

-----------------------------------------------------------------------------
(* The cluster around the reconciler.                                      *)

\* The upstream, the people and the policy informer.
StoreMoves ==
    /\ Rotate \/ EditThreshold \/ MarkRolledBack \/ SyncPolicy
    /\ UNCHANGED <<canaryVars, prod>>

\* The Deployment informer catches up.
SyncCanary ==
    /\ canarySeen' = (canary # None)
    /\ UNCHANGED <<storeVars, canary, netpol, pods, leftover, prod>>

\* The Deployment controller starts the canary's pod.
PodReady ==
    /\ canary # None
    /\ pods' = pods \cup {canary}
    /\ UNCHANGED <<storeVars, canary, netpol, canarySeen, leftover, prod>>

\* The garbage collector removes the pods of a deleted canary.
PodsCollected ==
    /\ pods' = pods \cap {canary}
    /\ UNCHANGED <<storeVars, canary, netpol, canarySeen, leftover, prod>>

Environment == StoreMoves \/ SyncCanary \/ PodReady \/ PodsCollected

Next == Reconcile \/ Stop \/ Environment

Spec == Init /\ [][Next]_vars

\* A failing reconcile is retried with backoff, a phase change requeues, a
\* halted or idle policy is looked at again on events and on every resync;
\* informers deliver what the API server holds and deleted pods go away.
Fairness ==
    /\ WF_vars(Reconcile)
    /\ WF_vars(SyncPolicy /\ UNCHANGED <<canaryVars, prod>>)
    /\ WF_vars(SyncCanary)
    /\ WF_vars(PodsCollected)

FairSpec == Spec /\ Fairness

-----------------------------------------------------------------------------
(* Properties.                                                             *)

\* No revision with which the workload does not work reaches production:
\* promoteTargetWorkload runs only behind a canary that proved the revision.
NoBadPromotion == prod \notin Bad

\* Such a revision is promoted only when the canary that was probed is one an
\* earlier rotation left behind: its cleanup, after the patch that trips the
\* breaker, failed or never ran, and creating a canary tolerates the leftover.
BadOnlyThroughLeftover == [][prod' # prod /\ prod' \in Bad => leftover]_vars

\* The Secret production mounts is never collected by gcOldSecretRevisions.
ServedRevisionExists == prod \in secrets \cup {None}

\* Nor is the Secret of a revision the status names: the current one, which
\* running pods may still mount, and the desired one, about to be mounted.
RevisionsInUseExist == {prod, Stored.current, Stored.desired} \subseteq secrets \cup {None}

\* Between rotations status.currentRevision is what production references,
\* although the two are written by separate API calls.
CurrentIsServed == Stored.desired = None => prod = Stored.current

\* A canary under validation has its network policy, although the Deployment
\* is created first.
CanaryIsolated ==
    determineState(Stored) \in {"CanaryProvisioning", "Validating"} /\ canary # None => netpol

\* The canary being probed runs the revision being validated, through stops
\* and retries, unless it was left behind by an earlier rotation.
CanaryRunsDesired ==
    InPhase(Stored, "Validating") /\ canary # None /\ ~leftover => canary = Stored.desired

\* A promoted rotation leaves neither canary nor network policy, although its
\* cleanup comes before the patch that records it and may be repeated; a
\* tripped one leaves its canary only when the call ended between the patch
\* and the cleanup.
NoOrphanCanary ==
    /\ Stored.desired = None => canary = None /\ ~netpol
    /\ CircuitBreakerTripped(Stored) /\ canary # None => leftover

\* A tripped breaker freezes production until it is reset.
HaltProtectsProduction == [][CircuitBreakerTripped(Stored) => prod' = prod]_vars

\* Production never goes back to an older revision, even when a promotion is
\* repeated from a stale read.
ProductionNeverGoesBack == [][prod' >= prod]_vars

-----------------------------------------------------------------------------
(* The abstract specification.                                             *)

Abstract == INSTANCE Rotation
            WITH current <- Stored.current,
                 desired <- Stored.desired,
                 breaker <- Breaker(Stored),
                 served <- prod,
                 Promotes <- TRUE,
                 Releasable <- "edit" \in Disturb

\* The canary path keeps the promise of Rotation: what it adds (phases, canary,
\* probes, crashes, lost cleanups and patches, edits) never shows in the
\* revisions recorded, tried and served, as long as the policy is read fresh.
ImplementsRotation == Abstract!Spec
=============================================================================
