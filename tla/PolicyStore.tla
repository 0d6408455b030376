----------------------------- MODULE PolicyStore -----------------------------
(***************************************************************************)
(* What every reconcile of a policy shares, whatever kind of workload it   *)
(* targets: the policy object with its informer cache, the upstream secret *)
(* and the revision Secrets materialized from it.                          *)
(*                                                                         *)
(* Reads of the policy come from the informer cache, writes go to the API  *)
(* server, and the two meet again when the watch delivers.                 *)
(***************************************************************************)
EXTENDS PolicyStatus, Sequences

CONSTANTS MaxVersions,  \* bound: policy versions between cache and API server
          Disturb       \* failures and interventions that may happen

ASSUME StoreAssumption == MaxVersions \in Nat \ {0}

VARIABLES
    versions,  \* versions of the policy object, oldest first: the first is in
               \* the informer cache, the last is what the API server holds
    upstream,  \* revision the provider serves
    secrets    \* materialized revision Secrets

storeVars == <<versions, upstream, secrets>>

Cached == versions[1]
Stored == versions[Len(versions)]

StoreTypeOK ==
    /\ versions \in Seq(Policy) /\ Len(versions) \in 1..(MaxVersions + 1)
    /\ upstream \in Rev
    /\ secrets \subseteq Rev

StoreInit ==
    /\ \E t \in 1..MaxThreshold : versions = <<NewPolicy(t)>>
    /\ upstream = 1
    /\ secrets = {}

\* With MaxVersions = 1 a reconcile only ever reads the latest version.
MayReconcile == Len(versions) <= MaxVersions

Write(version) == versions' = Append(versions, version)

updateStatus(new) == Write(Merged(Stored, Cached, new))

\* `_ = r.updateStatus(...)`: the error of a failed patch is dropped.
updateStatusIgnored(new) ==
    \/ updateStatus(new)
    \/ "ignoredPatch" \in Disturb /\ UNCHANGED versions

\* Create of the revision's Secret; AlreadyExists counts as success.
materializeSecretRevision == secrets' = secrets \cup {upstream}

\* Faulty: only the new revision is kept.
gcOldSecretRevisions_DropsCurrent(p) == secrets' = secrets \cap {p.desired}

\* Faulty: the revision just promoted is not protected.
gcOldSecretRevisions_DropsDesired(p) == secrets' = secrets \cap {p.current}

\* List errors and Delete errors are dropped.
gcOldSecretRevisions(p) ==
    LET keep == {p.desired, p.current}
    IN  \/ secrets' = secrets \cap keep
        \/ "gc" \in Disturb /\ \E kept \in SUBSET secrets : secrets' = (secrets \cap keep) \cup kept

-----------------------------------------------------------------------------
(* The branches of Reconcile that come before the phases.                  *)

\* Faulty: only the current revision is compared.
Drift_IgnoresDesired == ChecksUpstream(Cached) /\ upstream # Cached.current

\* The upstream serves a revision the policy does not know.
Drift == ChecksUpstream(Cached) /\ upstream \notin {Cached.current, Cached.desired}

\* The upstream was asked and has nothing new.
NoDrift == ChecksUpstream(Cached) /\ upstream \in {Cached.current, Cached.desired}

\* New upstream revision while idle, or while the breaker is tripped.
StartRotation ==
    /\ MayReconcile
    /\ Drift
    /\ materializeSecretRevision
    /\ updateStatus(Started(Cached, upstream))
    /\ UNCHANGED upstream

\* The call ends before the status patch.
StopBeforePrepared ==
    /\ "crash" \in Disturb /\ MayReconcile
    /\ Drift
    /\ materializeSecretRevision
    /\ UNCHANGED <<versions, upstream>>

\* The failure count reached the threshold and the condition is not set: the
\* threshold was lowered, or the write that should have set it was lost.
TripOnEntry ==
    /\ MayReconcile
    /\ NoDrift
    /\ Halted(Cached) /\ ~CircuitBreakerTripped(Cached)
    /\ materializeSecretRevision
    /\ updateStatusIgnored(Tripped(Cached))
    /\ UNCHANGED upstream

\* In sync, or halted by the breaker: the revision is materialized again.
NothingNew ==
    /\ MayReconcile
    /\ NoDrift
    /\ Halted(Cached) => CircuitBreakerTripped(Cached)
    /\ materializeSecretRevision
    /\ UNCHANGED <<versions, upstream>>

-----------------------------------------------------------------------------
(* The world outside the reconciler.                                       *)

\* The provider's secret is rotated.
Rotate ==
    /\ upstream < MaxRev
    /\ upstream' = upstream + 1
    /\ UNCHANGED <<versions, secrets>>

\* Someone edits spec.rollbackConfig.circuitBreakerThreshold.
EditThreshold ==
    /\ "edit" \in Disturb /\ MayReconcile
    /\ \E t \in (1..MaxThreshold) \ {Stored.threshold} : Write([Stored EXCEPT !.threshold = t])
    /\ UNCHANGED <<upstream, secrets>>

\* Someone sets the RolledBack condition, which no code of the operator sets.
MarkRolledBack ==
    /\ "rolledBack" \in Disturb /\ MayReconcile
    /\ Stored.conds["RolledBack"] # "True"
    /\ Write([Stored EXCEPT !.conds = With(@, "RolledBack", "True")])
    /\ UNCHANGED <<upstream, secrets>>

\* The policy informer delivers the next version.
SyncPolicy ==
    /\ Len(versions) > 1
    /\ versions' = Tail(versions)
    /\ UNCHANGED <<upstream, secrets>>

-----------------------------------------------------------------------------
(* Properties that make sense for every kind of workload.                  *)

\* The policy came to rest: on the latest revision, or halted on it.
Settled == \/ Stored.desired = None /\ Stored.current = upstream
           \/ CircuitBreakerTripped(Stored) /\ Stored.desired = upstream

\* A rotation always ends: once the upstream stops changing, the policy
\* serves its latest revision or is halted on it by the breaker.  This is
\* about the requeues, backoff and self-healing of Reconcile.
EventuallySettled == <>[]Settled

\* A tripped breaker is reset only by a revision the policy has not seen
\* (the drift branch), never by a retry of the one that failed.
BreakerResetByNewRevision ==
    [][CircuitBreakerTripped(Stored) /\ ~CircuitBreakerTripped(Stored')
         => Stored'.desired \notin {Stored.desired, Stored.current, None}]_storeVars
=============================================================================
