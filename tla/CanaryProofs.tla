---------------------------- MODULE CanaryProofs ----------------------------
(***************************************************************************)
(* Theorems about CanaryRotation, for every number of revisions, every     *)
(* threshold and every set of bad revisions.                               *)
(*                                                                         *)
(* CanaryType            every state is well typed, whatever goes wrong    *)
(* ServedSecretKept      no Secret production mounts is ever collected,    *)
(*                       however stale the reads                           *)
(* FreshReadsKeepStatus  when every reconcile reads the latest policy, the *)
(*                       status tells the truth about production           *)
(* FreshReadsNeverGoBack ... promotions only move production forward       *)
(* BreakerProtects       ... a tripped breaker freezes production until a  *)
(*                       revision not seen before resets it                *)
(* CanaryImplementsRotation  ... the canary path implements Rotation       *)
(* BadNeedsLeftover      when, besides, the canary is read fresh, a bad    *)
(*                       revision is promoted only through a leftover      *)
(*                       canary                                            *)
(* CanaryEndsWithRotation  ... which only a stop after a trip leaves, when *)
(*                       cleanup itself does not fail                      *)
(* CanaryConfined        when the policy is read fresh, a canary under     *)
(*                       validation has its network policy                 *)
(***************************************************************************)
EXTENDS CanaryRotation, PolicyStatusProofs

\* What a reconcile reads and what the API server holds are policies, and with
\* MaxVersions = 1 they are the same one.
LEMMA ReadFacts ==
    ASSUME StoreTypeOK
    PROVE  /\ Cached \in Policy
           /\ Stored \in Policy
           /\ MaxVersions = 1 /\ MayReconcile => Cached = Stored
  BY StoreAssumption DEF StoreTypeOK, MayReconcile, Cached, Stored

\* A write to the API server is what it holds afterwards.
LEMMA WriteFacts ==
    ASSUME StoreTypeOK, MayReconcile, NEW v \in Policy, Write(v)
    PROVE  /\ versions' \in Seq(Policy) /\ Len(versions') \in 1..(MaxVersions + 1)
           /\ Stored' = v
  BY StoreAssumption DEF StoreTypeOK, MayReconcile, Write, Stored

\* The informer's delivery does not change what the API server holds.
LEMMA SyncFacts ==
    ASSUME StoreTypeOK, SyncPolicy
    PROVE  /\ versions' \in Seq(Policy) /\ Len(versions') \in 1..(MaxVersions + 1)
           /\ Stored' = Stored
  BY StoreAssumption DEF StoreTypeOK, SyncPolicy, Stored

\* A status patch stores a policy, and with MaxVersions = 1 the computed one.
LEMMA UpdateFacts ==
    ASSUME StoreTypeOK, MayReconcile, NEW new \in Policy, new.threshold = Cached.threshold,
           updateStatus(new)
    PROVE  /\ versions' \in Seq(Policy) /\ Len(versions') \in 1..(MaxVersions + 1)
           /\ Stored' \in Policy
           /\ MaxVersions = 1 => Stored' = new
  <1>1. Cached \in Policy /\ Stored \in Policy
    BY ReadFacts
  <1>2. Merged(Stored, Cached, new) \in Policy
    BY <1>1, MergedType
  <1>3. Write(Merged(Stored, Cached, new))
    BY DEF updateStatus
  <1>4. /\ versions' \in Seq(Policy) /\ Len(versions') \in 1..(MaxVersions + 1)
        /\ Stored' = Merged(Stored, Cached, new)
    BY <1>2, <1>3, WriteFacts
  <1>5. MaxVersions = 1 => Merged(Stored, Cached, new) = new
    BY <1>1, ReadFacts, MergedFresh
  <1>6. QED
    BY <1>2, <1>4, <1>5

\* A phase is a rotation in progress that the breaker has not halted.
LEMMA InPhaseFacts ==
    ASSUME NEW p \in Policy, NEW phase, phase # "", InPhase(p, phase)
    PROVE  ~Halted(p) /\ p.desired \in Rev /\ determineState(p) = phase
  BY DEF InPhase, determineState, Policy

-----------------------------------------------------------------------------

\* The status every branch of Reconcile computes, from a policy it read, is a
\* policy with the same spec.
LEMMA ComputedStatus ==
    ASSUME NEW p \in Policy
    PROVE  /\ \A rev \in Rev : Started(p, rev) \in Policy /\ Started(p, rev).threshold = p.threshold
           /\ Tripped(p) \in Policy /\ Tripped(p).threshold = p.threshold
           /\ Promoted(p, "Validating") \in Policy /\ Promoted(p, "Validating").threshold = p.threshold
           /\ InPhase(p, "RevisionPrepared") =>
                 LET q == Advanced(p, "RevisionPrepared", "CanaryProvisioning")
                 IN  q \in Policy /\ q.threshold = p.threshold
           /\ InPhase(p, "CanaryProvisioning") =>
                 LET q == Advanced(p, "CanaryProvisioning", "Validating")
                 IN  q \in Policy /\ q.threshold = p.threshold
           /\ InPhase(p, "Validating") =>
                 LET q == Failed(p, "Validating")
                 IN  q \in Policy /\ q.threshold = p.threshold
  <1>1. \A rev \in Rev : Started(p, rev) \in Policy /\ Started(p, rev).threshold = p.threshold
    BY StartedFacts
  <1>2. Tripped(p) \in Policy /\ Tripped(p).threshold = p.threshold
    BY TrippedFacts
  <1>3. Promoted(p, "Validating") \in Policy /\ Promoted(p, "Validating").threshold = p.threshold
    BY PromotedFacts
  <1>4. ASSUME InPhase(p, "RevisionPrepared")
        PROVE  LET q == Advanced(p, "RevisionPrepared", "CanaryProvisioning")
               IN  q \in Policy /\ q.threshold = p.threshold
    <2>1. p.desired # None /\ ~Halted(p) /\ "CanaryProvisioning" \in CondTypes
      BY <1>4, InPhaseFacts, CondNames
    <2> QED BY <2>1, AdvancedFacts
  <1>5. ASSUME InPhase(p, "CanaryProvisioning")
        PROVE  LET q == Advanced(p, "CanaryProvisioning", "Validating")
               IN  q \in Policy /\ q.threshold = p.threshold
    <2>1. p.desired # None /\ ~Halted(p) /\ "Validating" \in CondTypes
      BY <1>5, InPhaseFacts, CondNames
    <2> QED BY <2>1, AdvancedFacts
  <1>6. ASSUME InPhase(p, "Validating")
        PROVE  LET q == Failed(p, "Validating")
               IN  q \in Policy /\ q.threshold = p.threshold
    BY <1>6, FailedFacts
  <1>7. QED
    BY <1>1, <1>2, <1>3, <1>4, <1>5, <1>6

\* Every step keeps the policy object, the upstream and the revision Secrets
\* well typed.
LEMMA StoreTypeStep ==
    ASSUME StoreTypeOK, Next
    PROVE  StoreTypeOK'
  <1> USE CondNames
  <1>c. Cached \in Policy /\ Stored \in Policy
    BY ReadFacts
  <1>r. upstream \in Rev /\ secrets \subseteq Rev
    BY DEF StoreTypeOK
  <1>u. ASSUME MayReconcile, NEW new \in Policy, new.threshold = Cached.threshold, updateStatus(new)
        PROVE  versions' \in Seq(Policy) /\ Len(versions') \in 1..(MaxVersions + 1)
    BY <1>u, UpdateFacts
  <1>i. ASSUME MayReconcile, NEW new \in Policy, new.threshold = Cached.threshold, updateStatusIgnored(new)
        PROVE  versions' \in Seq(Policy) /\ Len(versions') \in 1..(MaxVersions + 1)
    BY <1>i, <1>u DEF updateStatusIgnored, StoreTypeOK
  <1>1. CASE StartRollout
    BY <1>1, <1>c, <1>r, <1>u, ComputedStatus DEF StartRollout, StartRotation, materializeSecretRevision, StoreTypeOK
  <1>2. CASE InSyncOrHalted \/ StopWhilePreparing
    BY <1>2, <1>r DEF InSyncOrHalted, StopWhilePreparing, StopBeforePrepared, NothingNew, materializeSecretRevision, StoreTypeOK
  <1>e. TripOnEntry => StoreTypeOK'
    BY <1>c, <1>r, <1>i, ComputedStatus DEF TripOnEntry, materializeSecretRevision, StoreTypeOK
  <1>3. CASE TripBreakerOnEntry
    BY <1>3, <1>e DEF TripBreakerOnEntry
  <1>4. CASE ProvisionCanary
    BY <1>4, <1>c, <1>u, ComputedStatus DEF ProvisionCanary, StoreTypeOK
  <1>5. CASE BeginValidating
    BY <1>5, <1>c, <1>u, ComputedStatus DEF BeginValidating, StoreTypeOK
  <1>6. CASE ValidationFails
    <2> DEFINE failed  == Failed(Cached, "Validating")
               patched == Merged(Stored, Cached, failed)
    <2>1. MayReconcile /\ InPhase(Cached, "Validating") /\ UNCHANGED <<upstream, secrets>>
      BY <1>6 DEF ValidationFails
    <2>2. failed \in Policy
      BY <2>1, <1>c, ComputedStatus
    <2>3. patched \in Policy
      BY <2>2, <1>c, MergedType
    <2> HIDE DEF failed, patched
    <2>4. [patched EXCEPT !.conds = failed.conds] \in Policy
      BY <2>2, <2>3 DEF Policy
    <2>5. Write(patched) \/ Write([patched EXCEPT !.conds = failed.conds])
      BY <1>6 DEF ValidationFails, failed, patched
    <2> QED BY <2>1, <2>3, <2>4, <2>5, WriteFacts DEF StoreTypeOK
  <1>l. LastProbeFails => StoreTypeOK'
    BY <1>c, <1>i, ComputedStatus DEF LastProbeFails, StoreTypeOK
  <1>7. CASE ValidationTrips \/ StopAfterTrip
    BY <1>7, <1>l, <1>e DEF ValidationTrips, StopAfterTrip
  <1>8. CASE promoteTargetWorkload
    BY <1>8, <1>c, <1>r, <1>u, ComputedStatus DEF promoteTargetWorkload, gcOldSecretRevisions, StoreTypeOK
  <1>9. CASE CleanUpRolledBack \/ StopWhileCleaningUp
    BY <1>9 DEF CleanUpRolledBack, StopWhileCleaningUp, storeVars, StoreTypeOK
  <1>10. CASE StopWhileProvisioning
    BY <1>10 DEF StopWhileProvisioning, storeVars, StoreTypeOK
  <1>11. CASE StopWhilePromoting
    BY <1>11, <1>r DEF StopWhilePromoting, gcOldSecretRevisions, StoreTypeOK
  <1>12. CASE StoreMoves
    <2>1. CASE Rotate
      BY <2>1, <1>r, BoundsAssumption DEF Rotate, StoreTypeOK, Rev
    <2>2. CASE EditThreshold
      BY <2>2, <1>c, EditFacts, WriteFacts DEF EditThreshold, StoreTypeOK
    <2>3. CASE MarkRolledBack
      BY <2>3, <1>c, EditFacts, WriteFacts DEF MarkRolledBack, StoreTypeOK
    <2>4. CASE SyncPolicy
      BY <2>4, SyncFacts DEF SyncPolicy, StoreTypeOK
    <2> QED BY <1>12, <2>1, <2>2, <2>3, <2>4 DEF StoreMoves
  <1>13. CASE SyncCanary \/ PodReady \/ PodsCollected
    BY <1>13 DEF SyncCanary, PodReady, PodsCollected, storeVars, StoreTypeOK
  <1>14. QED
    BY <1>1, <1>2, <1>3, <1>4, <1>5, <1>6, <1>7, <1>8, <1>9, <1>10, <1>11, <1>12, <1>13
    DEF Next, Reconcile, Stop, Environment

\* And the canary, its pods and production.
LEMMA TypeStep ==
    ASSUME TypeOK, [Next]_vars
    PROVE  TypeOK'
  <1>1. CASE Next
    <2>1. StoreTypeOK'
      BY <1>1, StoreTypeStep DEF TypeOK
    <2>2. Cached.desired \in Rev \cup {None}
      BY ReadFacts DEF TypeOK, Policy
    <2>3. /\ canary' \in Rev \cup {None}
          /\ netpol' \in BOOLEAN
      <3>1. CASE \/ TripBreakerOnEntry \/ ValidationTrips \/ promoteTargetWorkload
                 \/ CleanUpRolledBack \/ StopWhilePromoting \/ StopAfterTrip \/ StopWhileCleaningUp
        BY <3>1 DEF TypeOK, TripBreakerOnEntry, ValidationTrips, promoteTargetWorkload, CleanUpRolledBack,
                    StopWhilePromoting, StopAfterTrip, StopWhileCleaningUp, CleanupCanaryResources, CleanupCutShort
      <3>2. CASE ProvisionCanary \/ StopWhileProvisioning
        BY <3>2, <2>2 DEF TypeOK, ProvisionCanary, StopWhileProvisioning, CreateCanary
      <3>3. CASE \/ StartRollout \/ InSyncOrHalted \/ BeginValidating \/ ValidationFails
                 \/ StopWhilePreparing \/ Environment
        BY <3>3 DEF TypeOK, StartRollout, InSyncOrHalted, BeginValidating, ValidationFails, StopWhilePreparing,
                    Environment, StoreMoves, SyncCanary, PodReady, PodsCollected, canaryVars
      <3> QED BY <1>1, <3>1, <3>2, <3>3 DEF Next, Reconcile, Stop
    <2>4. canarySeen' \in BOOLEAN /\ pods' \subseteq Rev /\ leftover' \in BOOLEAN
      BY <1>1 DEF TypeOK, StopAfterTrip, StopWhileCleaningUp, RotationOver, RotationGoesOn, Next, Reconcile, Stop, Environment, StartRollout, InSyncOrHalted, TripBreakerOnEntry,
                  ProvisionCanary, BeginValidating, ValidationFails, ValidationTrips, promoteTargetWorkload,
                  CleanUpRolledBack, StopWhilePreparing, StopWhileProvisioning, StopWhilePromoting,
                  StoreMoves, SyncCanary, PodReady, PodsCollected, canaryVars
    <2>5. prod' \in Rev \cup {None}
      BY <1>1, <2>2 DEF TypeOK, StopAfterTrip, StopWhileCleaningUp, canaryVars, Next, Reconcile, Stop, Environment, StartRollout, InSyncOrHalted, TripBreakerOnEntry,
                  ProvisionCanary, BeginValidating, ValidationFails, ValidationTrips, promoteTargetWorkload,
                  CleanUpRolledBack, StopWhilePreparing, StopWhileProvisioning, StopWhilePromoting,
                  StoreMoves, SyncCanary, PodReady, PodsCollected
    <2> QED BY <2>1, <2>3, <2>4, <2>5 DEF TypeOK
  <1>2. CASE UNCHANGED vars
    BY <1>2 DEF TypeOK, StoreTypeOK, vars, storeVars, canaryVars
  <1>3. QED
    BY <1>1, <1>2

\* The initial state is well typed.
LEMMA TypeInit == Init => TypeOK
  <1> SUFFICES ASSUME Init PROVE TypeOK
    OBVIOUS
  <1>1. PICK t \in 1..MaxThreshold : versions = <<NewPolicy(t)>>
    BY DEF Init, StoreInit
  <1>2. versions \in Seq(Policy) /\ Len(versions) = 1
    BY <1>1, NewPolicyType
  <1>3. upstream = 1 /\ secrets = {} /\ canary = None /\ netpol = FALSE /\ canarySeen = FALSE /\ pods = {} /\ leftover = FALSE /\ prod = None
    BY DEF Init, StoreInit
  <1>4. StoreTypeOK
    BY <1>2, <1>3, CondNames, StoreAssumption DEF StoreTypeOK
  <1>5. QED
    BY <1>3, <1>4 DEF TypeOK

\* Type correctness: in particular the failure count never passes the
\* threshold's range, because a halted policy counts no failure, and every
\* merge patch stores a well-formed status.
THEOREM CanaryType == Spec => []TypeOK
  BY TypeInit, TypeStep, PTL DEF Spec

-----------------------------------------------------------------------------

\* gcOldSecretRevisions keeps the two revisions it protects.
LEMMA CollectionKeeps ==
    ASSUME NEW p, gcOldSecretRevisions(p)
    PROVE  {p.desired, p.current} \cap secrets \subseteq secrets' /\ secrets' \subseteq secrets
  BY DEF gcOldSecretRevisions

\* Only a promotion, complete or cut short, touches production or removes
\* Secrets.
LEMMA OnlyPromotionTouches ==
    ASSUME [Next]_vars, ~promoteTargetWorkload, ~StopWhilePromoting
    PROVE  prod' = prod /\ secrets \subseteq secrets'
  BY DEF Next, Reconcile, Stop, Environment, StartRollout, InSyncOrHalted, TripBreakerOnEntry,
         ProvisionCanary, BeginValidating, ValidationFails, ValidationTrips, CleanUpRolledBack,
         StopWhilePreparing, StopWhileProvisioning, StopAfterTrip, StopWhileCleaningUp, LastProbeFails,
         StoreMoves, SyncCanary, PodReady, PodsCollected, StartRotation, NothingNew, TripOnEntry, StopBeforePrepared, materializeSecretRevision,
         Rotate, EditThreshold, MarkRolledBack, SyncPolicy, storeVars, vars

\* A promotion needs the Secret it promotes, as long as anything is probed,
\* and collects neither that one nor the current one.
LEMMA PromotionKeeps ==
    ASSUME TypeOK, promoteTargetWorkload \/ StopWhilePromoting
    PROVE  /\ MayReconcile /\ InPhase(Cached, "Validating") /\ ProbesPass(Cached)
           /\ prod' = Cached.desired
           /\ {Cached.desired, Cached.current} \cap secrets \subseteq secrets'
  <1>1. gcOldSecretRevisions(Cached) \/ UNCHANGED secrets
    BY DEF promoteTargetWorkload, StopWhilePromoting
  <1>2. {Cached.desired, Cached.current} \cap secrets \subseteq secrets'
    BY <1>1, CollectionKeeps
  <1>3. QED
    BY <1>2 DEF promoteTargetWorkload, StopWhilePromoting

\* The Secret production mounts is never collected: whatever stale policy the
\* promotion was computed from and wherever it stops.  Without a probe nothing
\* reads the Secret before production is patched to it.
THEOREM ServedSecretKept ==
    ASSUME Probes # {}
    PROVE  Spec => []ServedRevisionExists
  <1>1. Init => ServedRevisionExists
    BY DEF Init, ServedRevisionExists
  <1>2. TypeOK /\ ServedRevisionExists /\ [Next]_vars => ServedRevisionExists'
    <2> SUFFICES ASSUME TypeOK, ServedRevisionExists, [Next]_vars
                 PROVE  ServedRevisionExists'
      OBVIOUS
    <2>1. CASE promoteTargetWorkload \/ StopWhilePromoting
      BY <2>1, PromotionKeeps DEF ProbesPass, ServedRevisionExists
    <2>2. CASE ~promoteTargetWorkload /\ ~StopWhilePromoting
      BY <2>2, OnlyPromotionTouches DEF ServedRevisionExists
    <2> QED BY <2>1, <2>2
  <1>3. QED
    BY <1>1, <1>2, CanaryType, PTL DEF Spec

-----------------------------------------------------------------------------
(* When every reconcile reads the latest policy (MaxVersions = 1), what a  *)
(* step does to the revisions in play falls into four cases.               *)

\* A rotation to a revision the policy does not know starts.
Starts ==
    /\ ChecksUpstream(Stored) /\ upstream \notin {Stored.current, Stored.desired}
    /\ Stored' = Started(Stored, upstream)
    /\ upstream' = upstream /\ prod' = prod /\ secrets' = secrets \cup {upstream}

\* Production is patched to the desired revision.
Patches ==
    /\ InPhase(Stored, "Validating")
    /\ prod' = Stored.desired
    /\ {Stored.desired, Stored.current} \cap secrets \subseteq secrets'
    /\ upstream' = upstream

\* The status keeps its revisions, production its Secret, a tripped breaker its
\* state; only an edit of the threshold ends a halt.
Keeps ==
    /\ Stored'.current = Stored.current /\ Stored'.desired = Stored.desired
    /\ CircuitBreakerTripped(Stored) => CircuitBreakerTripped(Stored')
    /\ Halted(Stored) /\ ~Halted(Stored') => "edit" \in Disturb
    /\ Rests(Stored) => Rests(Stored')
    /\ prod' = prod /\ secrets \subseteq secrets'
    /\ upstream' \in Rev /\ upstream' >= upstream

\* The four cases: with reads current, a patch of production is recorded in
\* the same step or not at all.
LEMMA FreshStep ==
    ASSUME MaxVersions = 1, TypeOK, [Next]_vars
    PROVE  \/ Starts
           \/ Patches /\ Stored' = Promoted(Stored, "Validating")
           \/ Patches /\ Stored' = Stored
           \/ Keeps
  <1>t. StoreTypeOK /\ upstream \in Rev /\ upstream \in Nat /\ Stored \in Policy
    BY ReadFacts, CondNames DEF TypeOK, StoreTypeOK
  <1>c. MayReconcile => Cached = Stored
    BY <1>t, ReadFacts
  <1>u. ASSUME MayReconcile, NEW new \in Policy, new.threshold = Stored.threshold, updateStatus(new)
        PROVE  Stored' = new
    BY <1>u, <1>t, <1>c, UpdateFacts
  <1>s. UNCHANGED versions => Stored' = Stored
    BY DEF Stored
  <1>1. CASE StartRollout
    <2>1. MayReconcile /\ Drift /\ updateStatus(Started(Stored, upstream))
      BY <1>1, <1>c DEF StartRollout, StartRotation
    <2>2. Started(Stored, upstream) \in Policy /\ Started(Stored, upstream).threshold = Stored.threshold
      BY <1>t, ComputedStatus
    <2>3. Stored' = Started(Stored, upstream)
      BY <2>1, <2>2, <1>u
    <2>4. Starts
      BY <1>1, <2>1, <2>3, <1>c DEF Starts, Drift, StartRollout, StartRotation, materializeSecretRevision
    <2> QED BY <2>4
  <1>2. CASE TripBreakerOnEntry \/ (StopAfterTrip /\ TripOnEntry)
    <2>0. TripOnEntry /\ prod' = prod
      BY <1>2 DEF TripBreakerOnEntry, StopAfterTrip
    <2>1. MayReconcile /\ updateStatusIgnored(Tripped(Stored)) /\ upstream' = upstream
      BY <2>0, <1>c DEF TripOnEntry
    <2>2. Stored' \in {Stored, Tripped(Stored)}
      BY <2>1, <1>t, <1>u, <1>s, ComputedStatus DEF updateStatusIgnored
    <2>3. prod' = prod /\ secrets \subseteq secrets'
      BY <2>0 DEF TripOnEntry, materializeSecretRevision
    <2>4. Rests(Stored) => Stored.desired # None
      BY <2>0, <1>t, <1>c, <2>1 DEF TripOnEntry, Rests, Halted, Policy
    <2>5. Halted(Tripped(Stored))
      BY <1>t, TrippedFacts DEF Halted
    <2> QED BY <2>1, <2>2, <2>3, <2>4, <2>5, <1>t, TrippedFacts DEF Keeps, Rests
  <1>3. CASE ProvisionCanary \/ BeginValidating
    <2>1. /\ MayReconcile /\ ~Halted(Stored) /\ Stored.desired # None
          /\ \/ InPhase(Stored, "RevisionPrepared") /\ updateStatus(Advanced(Stored, "RevisionPrepared", "CanaryProvisioning"))
             \/ InPhase(Stored, "CanaryProvisioning") /\ updateStatus(Advanced(Stored, "CanaryProvisioning", "Validating"))
      BY <1>3, <1>t, <1>c, InPhaseFacts, CondNames DEF ProvisionCanary, BeginValidating
    <2>2. Stored' \in {Advanced(Stored, "RevisionPrepared", "CanaryProvisioning"), Advanced(Stored, "CanaryProvisioning", "Validating")}
      BY <2>1, <1>t, <1>u, ComputedStatus
    <2>3. Stored'.current = Stored.current /\ Stored'.desired = Stored.desired
      BY <2>1, <2>2, <1>t, AdvancedFacts, CondNames
    <2> QED BY <1>3, <1>t, <2>1, <2>3 DEF Keeps, Rests, Halted, ProvisionCanary, BeginValidating
  <1>4. CASE ValidationFails \/ ValidationTrips \/ (StopAfterTrip /\ LastProbeFails)
    <2>0. (ValidationFails \/ LastProbeFails) /\ UNCHANGED <<upstream, secrets, prod>>
      BY <1>4 DEF ValidationFails, ValidationTrips, StopAfterTrip, LastProbeFails
    <2>1. MayReconcile /\ InPhase(Stored, "Validating") /\ ~Halted(Stored)
      BY <2>0, <1>c DEF ValidationFails, LastProbeFails, InPhase
    <2> DEFINE failed == Failed(Stored, "Validating")
    <2>2. /\ failed \in Policy /\ failed.threshold = Stored.threshold
          /\ failed.current = Stored.current /\ failed.desired = Stored.desired
      BY <2>1, <1>t, FailedFacts
    <2>3. Merged(Stored, Stored, failed) = failed
      BY <2>2, <1>t, MergedFresh
    <2>4. \/ Write(failed)
          \/ Write([failed EXCEPT !.conds = failed.conds])
          \/ updateStatusIgnored(failed)
      BY <2>0, <2>1, <2>3, <1>c DEF ValidationFails, LastProbeFails
    <2> HIDE DEF failed
    <2>5. [failed EXCEPT !.conds = failed.conds] = failed
      BY <2>2 DEF Policy
    <2>6. Stored' \in {failed, Stored}
      BY <2>1, <2>2, <2>4, <2>5, <1>t, <1>u, <1>s, WriteFacts DEF updateStatusIgnored
    <2>7. Stored.desired # None
      BY <2>1, <1>t, InPhaseFacts, CondNames
    <2> QED BY <2>0, <1>t, <2>1, <2>2, <2>6, <2>7 DEF Keeps, Rests, Halted
  <1>5. CASE promoteTargetWorkload
    <2>1. MayReconcile /\ updateStatus(Promoted(Stored, "Validating")) /\ upstream' = upstream
      BY <1>5, <1>c DEF promoteTargetWorkload
    <2>2. Stored' = Promoted(Stored, "Validating")
      BY <2>1, <1>t, <1>u, ComputedStatus
    <2>3. Patches
      BY <1>5, <2>1, <1>c, PromotionKeeps DEF Patches
    <2> QED BY <2>2, <2>3
  <1>6. CASE StopWhilePromoting
    <2>1. upstream' = upstream /\ Stored' = Stored
      BY <1>6, <1>s DEF StopWhilePromoting
    <2>2. Patches
      BY <1>6, <2>1, <1>c, PromotionKeeps DEF Patches
    <2> QED BY <2>1, <2>2
  <1>7. CASE StoreMoves
    <2>1. prod' = prod
      BY <1>7 DEF StoreMoves
    <2>2. CASE Rotate
      BY <2>1, <2>2, <1>t, <1>s, BoundsAssumption DEF Rotate, Keeps, Rests, Rev
    <2>3. CASE EditThreshold
      <3>1. PICK t \in 1..MaxThreshold : MayReconcile /\ Write([Stored EXCEPT !.threshold = t])
        BY <2>3 DEF EditThreshold
      <3>2. Stored' = [Stored EXCEPT !.threshold = t]
        BY <3>1, <1>t, EditFacts, WriteFacts
      <3> QED BY <2>1, <2>3, <3>2, <1>t DEF Keeps, Rests, CircuitBreakerTripped, EditThreshold, Policy
    <2>4. CASE MarkRolledBack
      <3>1. Stored' = [Stored EXCEPT !.conds = With(@, "RolledBack", "True")]
        BY <2>4, <1>t, EditFacts, WriteFacts DEF MarkRolledBack
      <3> QED BY <2>1, <2>4, <3>1, <1>t, EditFacts DEF Keeps, Rests, MarkRolledBack
    <2>5. CASE SyncPolicy
      BY <2>1, <2>5, <1>t, SyncFacts DEF SyncPolicy, Keeps, Rests
    <2> QED BY <1>7, <2>2, <2>3, <2>4, <2>5 DEF StoreMoves
  <1>8. CASE \/ InSyncOrHalted \/ CleanUpRolledBack \/ StopWhileCleaningUp
             \/ StopWhilePreparing \/ StopWhileProvisioning
             \/ SyncCanary \/ PodReady \/ PodsCollected \/ UNCHANGED vars
    <2>1. UNCHANGED <<versions, upstream, prod>> /\ secrets \subseteq secrets'
      BY <1>8 DEF InSyncOrHalted, NothingNew, CleanUpRolledBack, StopWhilePreparing, StopBeforePrepared,
                  StopWhileProvisioning, StopWhileCleaningUp, SyncCanary, PodReady, PodsCollected,
                  vars, storeVars, materializeSecretRevision
    <2> QED BY <2>1, <1>s, <1>t DEF Keeps, Rests
  <1>9. QED
    BY <1>1, <1>2, <1>3, <1>4, <1>5, <1>6, <1>7, <1>8 DEF Next, Reconcile, Stop, StopAfterTrip, Environment

\* The inductive invariant of FreshReadsKeepStatus.  The order of the
\* revisions is what keeps production from going back: a rotation in progress
\* is to a revision no older than the one production serves.
FreshInv ==
    /\ CurrentIsServed
    /\ RevisionsInUseExist
    /\ prod <= upstream /\ Stored.desired <= upstream
    /\ Stored.desired # None => prod <= Stored.desired

\* A new policy serves nothing.
LEMMA FreshInit == Init => FreshInv
  <1> SUFFICES ASSUME Init PROVE FreshInv
    OBVIOUS
  <1>1. PICK t \in 1..MaxThreshold : versions = <<NewPolicy(t)>>
    BY DEF Init, StoreInit
  <1>2. Stored = NewPolicy(t)
    BY <1>1 DEF Stored
  <1>3. Stored.current = None /\ Stored.desired = None
    BY <1>2, NewPolicyType
  <1>4. upstream = 1 /\ secrets = {} /\ prod = None
    BY DEF Init, StoreInit
  <1>5. QED
    BY <1>3, <1>4 DEF FreshInv, CurrentIsServed, RevisionsInUseExist, None

\* Each of the four cases keeps it, production moving only forward.
LEMMA FreshInvStep ==
    ASSUME MaxVersions = 1, TypeOK, FreshInv, [Next]_vars
    PROVE  FreshInv' /\ prod' >= prod
  <1>t. /\ Stored \in Policy /\ upstream \in Rev
        /\ Stored.current \in Rev \cup {None} /\ Stored.desired \in Rev \cup {None}
        /\ prod \in Rev \cup {None}
    BY ReadFacts DEF TypeOK, StoreTypeOK, Policy
  <1>n. None = 0 /\ Rev \subseteq Nat /\ None \notin Rev
    BY CondNames DEF None
  <1>m. prod \in Nat /\ upstream \in Nat /\ Stored.desired \in Nat
    <2>1. \A r \in Rev \cup {None} : r \in Nat
      BY <1>n
    <2> QED BY <2>1, <1>t
  <1>1. CASE Starts
    <2>1. Stored'.current = Stored.current /\ Stored'.desired = upstream
      BY <1>1, <1>t, StartedFacts DEF Starts
    <2> QED BY <1>1, <1>t, <1>n, <2>1 DEF Starts, FreshInv, CurrentIsServed, RevisionsInUseExist
  <1>2. CASE Patches /\ Stored' = Promoted(Stored, "Validating")
    <2>1. Stored'.current = Stored.desired /\ Stored'.desired = None
      BY <1>2, <1>t, PromotedFacts
    <2>2. Stored.desired \in Rev
      BY <1>2, <1>t, InPhaseFacts DEF Patches
    <2> QED BY <1>2, <1>t, <1>n, <2>1, <2>2 DEF Patches, FreshInv, CurrentIsServed, RevisionsInUseExist
  <1>3. CASE Patches /\ Stored' = Stored
    <2>1. Stored.desired \in Rev
      BY <1>3, <1>t, InPhaseFacts DEF Patches
    <2>2. (CurrentIsServed /\ RevisionsInUseExist)'
      BY <1>3, <1>n, <2>1 DEF Patches, FreshInv, CurrentIsServed, RevisionsInUseExist
    <2>3. prod' >= prod /\ prod' <= upstream' /\ prod' <= Stored'.desired /\ Stored'.desired <= upstream'
      BY <1>3, <1>m, <1>n, <2>1 DEF Patches, FreshInv
    <2> QED BY <2>2, <2>3 DEF FreshInv
  <1>4. CASE Keeps
    <2>1. (CurrentIsServed /\ RevisionsInUseExist)'
      BY <1>4 DEF Keeps, FreshInv, CurrentIsServed, RevisionsInUseExist
    <2>2. /\ prod' >= prod /\ prod' <= upstream' /\ Stored'.desired <= upstream'
          /\ Stored'.desired # None => prod' <= Stored'.desired
      BY <1>4, <1>m, <1>n DEF Keeps, FreshInv
    <2> QED BY <2>1, <2>2 DEF FreshInv
  <1>5. QED
    BY <1>1, <1>2, <1>3, <1>4, FreshStep

\* When every reconcile reads the latest policy, whatever else lags, fails,
\* stops half way or is edited by hand: between rotations the status names
\* what production serves, and every revision the status or production names
\* has its Secret.
THEOREM FreshReadsKeepStatus ==
    ASSUME MaxVersions = 1
    PROVE  Spec => [](CurrentIsServed /\ RevisionsInUseExist)
  <1>1. TypeOK /\ FreshInv /\ [Next]_vars => FreshInv'
    BY FreshInvStep
  <1>2. FreshInv => CurrentIsServed /\ RevisionsInUseExist
    BY DEF FreshInv
  <1>3. QED
    BY <1>1, <1>2, FreshInit, CanaryType, PTL DEF Spec

\* Under the same condition promotions only move production forward.
THEOREM FreshReadsNeverGoBack ==
    ASSUME MaxVersions = 1
    PROVE  Spec => ProductionNeverGoesBack
  <1>1. TypeOK /\ FreshInv /\ [Next]_vars => FreshInv'
    BY FreshInvStep
  <1>2. TypeOK /\ FreshInv /\ [Next]_vars => [prod' >= prod]_vars
    BY FreshInvStep
  <1>3. QED
    BY <1>1, <1>2, FreshInit, CanaryType, PTL DEF Spec, ProductionNeverGoesBack

\* A tripped breaker freezes production, and only a revision the policy has
\* not seen resets it.
THEOREM BreakerProtects ==
    ASSUME MaxVersions = 1
    PROVE  Spec => HaltProtectsProduction /\ BreakerResetByNewRevision
  <1> DEFINE Frozen == CircuitBreakerTripped(Stored) => prod' = prod
             Reset  == CircuitBreakerTripped(Stored) /\ ~CircuitBreakerTripped(Stored')
                          => Stored'.desired \notin {Stored.desired, Stored.current, None}
  <1>1. TypeOK /\ [Next]_vars => Frozen /\ Reset
    <2> SUFFICES ASSUME TypeOK, [Next]_vars PROVE Frozen /\ Reset
      OBVIOUS
    <2>t. Stored \in Policy /\ upstream \in Rev /\ None \notin Rev
      BY ReadFacts, CondNames DEF TypeOK, StoreTypeOK
    <2>1. CASE Starts
      <3>1. Stored'.desired = upstream
        BY <2>1, <2>t, StartedFacts DEF Starts
      <3> QED BY <2>1, <2>t, <3>1 DEF Starts
    <2>2. CASE Patches
      BY <2>2 DEF Patches, InPhase, Halted
    <2>3. CASE Keeps
      BY <2>3 DEF Keeps
    <2> QED BY <2>1, <2>2, <2>3, FreshStep
  <1>2. TypeOK /\ [Next]_vars => [Frozen]_vars /\ [Reset]_storeVars
    BY <1>1
  <1>3. QED
    BY <1>2, CanaryType, PTL DEF Spec, HaltProtectsProduction, BreakerResetByNewRevision

-----------------------------------------------------------------------------
(* The canary path implements Rotation.                                    *)

\* A policy between rotations counts nothing, whatever was edited meanwhile.
LEMMA RestsStep ==
    ASSUME MaxVersions = 1, TypeOK, Rests(Stored), [Next]_vars
    PROVE  Rests(Stored')
  <1>t. Stored \in Policy /\ upstream \in Rev /\ None \notin Rev
    BY ReadFacts, CondNames DEF TypeOK, StoreTypeOK
  <1>1. CASE Starts
    BY <1>1, <1>t, StartedFacts DEF Starts, Rests
  <1>2. CASE Patches /\ Stored' = Promoted(Stored, "Validating")
    BY <1>2, <1>t, PromotedFacts DEF Patches, InPhase, Halted, Rests
  <1>3. CASE Patches /\ Stored' = Stored
    BY <1>3
  <1>4. CASE Keeps
    BY <1>4 DEF Keeps
  <1>5. QED
    BY <1>1, <1>2, <1>3, <1>4, FreshStep

\* Each of the four cases is a step of Rotation: Starts is Begin, a recorded
\* patch is Complete, an unrecorded one Serve, and the others move only the
\* breaker: Halt, Release or nothing.
LEMMA RotationStep ==
    ASSUME MaxVersions = 1, TypeOK, TypeOK', Rests(Stored), [Next]_vars
    PROVE  Abstract!Next \/ UNCHANGED <<Stored.current, Stored.desired, Breaker(Stored), prod>>
  <1>t. Stored \in Policy /\ Stored' \in Policy /\ upstream \in Rev /\ None \notin Rev
    <2>1. versions' \in Seq(Policy) /\ Len(versions') \in 1..(MaxVersions + 1)
      BY DEF TypeOK, StoreTypeOK
    <2>2. Stored' = versions'[Len(versions')]
      BY DEF Stored
    <2>3. Stored' \in Policy
      BY <2>1, <2>2, StoreAssumption
    <2> QED BY <2>3, ReadFacts, CondNames DEF TypeOK, StoreTypeOK
  <1>1. CASE Starts
    <2>1. Stored'.current = Stored.current /\ Stored'.desired = upstream /\ ~Halted(Stored')
      BY <1>1, <1>t, StartedFacts DEF Starts
    <2>2. Breaker(Stored') = "closed"
      BY <2>1 DEF Breaker, Halted
    <2>3. Stored.desired = None \/ Breaker(Stored) # "closed"
      BY <1>1 DEF Starts, ChecksUpstream, determineState, Breaker
    <2>4. Abstract!Begin
      BY <1>1, <1>t, <2>1, <2>2, <2>3 DEF Starts, Abstract!Begin, Abstract!Trying
    <2> QED BY <2>4 DEF Abstract!Next
  <1>2. CASE Patches /\ Stored' \in {Stored, Promoted(Stored, "Validating")}
    <2>1. Stored.desired \in Rev /\ ~Halted(Stored)
      BY <1>2, <1>t, InPhaseFacts DEF Patches
    <2>2. Abstract!Trying
      BY <2>1, <1>t DEF Abstract!Trying, Breaker, Halted
    <2>3. CASE Stored' = Stored
      BY <1>2, <2>2, <2>3 DEF Patches, Abstract!Serve, Abstract!Next
    <2>4. CASE Stored' = Promoted(Stored, "Validating")
      <3>1. /\ Stored'.current = Stored.desired /\ Stored'.desired = None
            /\ Stored'.failures = 0 /\ ~CircuitBreakerTripped(Stored')
        BY <2>1, <2>4, <1>t, PromotedFacts DEF Halted
      <3>2. Breaker(Stored) = "closed" /\ Breaker(Stored') = "closed"
        BY <2>1, <3>1, <1>t DEF Breaker, Halted, Policy
      <3> QED BY <1>2, <2>2, <3>1, <3>2 DEF Patches, Abstract!Complete, Abstract!Next
    <2> QED BY <1>2, <2>3, <2>4
  <1>3. CASE Keeps
    <2>1. Rests(Stored') /\ Stored'.desired = Stored.desired
      BY <1>3 DEF Keeps
    <2>2. \/ Breaker(Stored') = Breaker(Stored)
          \/ Stored.desired # None /\ Breaker(Stored) = "closed" /\ Breaker(Stored') \in {"due", "open"}
          \/ Stored.desired # None /\ Breaker(Stored) = "due" /\ Breaker(Stored') = "open"
          \/ Breaker(Stored) = "due" /\ Breaker(Stored') = "closed" /\ "edit" \in Disturb
      BY <1>3, <1>t, <2>1, BreakerMoves DEF Keeps
    <2> QED BY <1>3, <2>2 DEF Keeps, Abstract!Halt, Abstract!Release, Abstract!Next
  <1>4. QED
    BY <1>1, <1>2, <1>3, FreshStep

\* As long as reconciles read the latest policy, the whole canary path, with
\* its crashes, lost cleanups, dropped patches, lagging caches and edits,
\* implements Rotation: what is recorded was tried, what is tried was never
\* seen, and a halted policy leaves production alone.
THEOREM CanaryImplementsRotation ==
    ASSUME MaxVersions = 1
    PROVE  Spec => ImplementsRotation
  <1>1. Init => Abstract!Init /\ Rests(Stored)
    <2> SUFFICES ASSUME Init PROVE Abstract!Init /\ Rests(Stored)
      OBVIOUS
    <2>1. PICK t \in 1..MaxThreshold : versions = <<NewPolicy(t)>>
      BY DEF Init, StoreInit
    <2>2. Stored = NewPolicy(t)
      BY <2>1 DEF Stored
    <2>3. /\ Stored.current = None /\ Stored.desired = None /\ Stored.failures = 0
          /\ Stored.threshold = t /\ Stored.conds["CircuitBreakerTripped"] = "absent"
      BY <2>2, NewPolicyType, CondNames
    <2>4. Breaker(Stored) = "closed" /\ Rests(Stored)
      BY <2>3 DEF Breaker, Halted, CircuitBreakerTripped, Rests
    <2> QED BY <2>3, <2>4 DEF Abstract!Init, Init
  <1>2. TypeOK /\ Rests(Stored) /\ [Next]_vars => Rests(Stored)'
    BY RestsStep
  <1>3. TypeOK /\ TypeOK' /\ Rests(Stored) /\ [Next]_vars
          => [Abstract!Next]_(Abstract!rotationVars)
    BY RotationStep DEF Abstract!rotationVars
  <1>4. QED
    BY <1>1, <1>2, <1>3, CanaryType, PTL DEF Spec, ImplementsRotation, Abstract!Spec

-----------------------------------------------------------------------------
(* Production is protected from bad revisions: the argument.  Unless an    *)
(* earlier rotation left its canary behind, a canary exists only for the   *)
(* rotation in progress; so the canary found in Validating runs the        *)
(* desired revision, a probe that passes shows that revision works, and    *)
(* the one case in which the canary is gone is a promotion already made.   *)

\* No canary, or the one of the rotation in progress.
OwnCanary ==
    /\ Stored.desired = None \/ Halted(Stored) => canary = None
    /\ InPhase(Stored, "RevisionPrepared") => canary \in {None, Stored.desired}
    /\ InPhase(Stored, "CanaryProvisioning") => canary = Stored.desired
    /\ InPhase(Stored, "Validating") =>
          canary = Stored.desired \/ (canary = None /\ prod = Stored.desired)

\* The inductive invariant of BadNeedsLeftover and CanaryEndsWithRotation.
CanaryInv ==
    /\ Stored.conds["RolloutProgressing"] = "absent"
    /\ leftover \/ OwnCanary
    /\ "cleanup" \notin Disturb /\ Stored.desired = None => canary = None /\ ~netpol

\* Initially there is no canary and no rotation.
LEMMA CanaryInit == Init => CanaryInv
  <1> SUFFICES ASSUME Init PROVE CanaryInv
    OBVIOUS
  <1>1. PICK t \in 1..MaxThreshold : versions = <<NewPolicy(t)>>
    BY DEF Init, StoreInit
  <1>2. Stored = NewPolicy(t)
    BY <1>1 DEF Stored
  <1>3. Stored.desired = None /\ Stored.conds["RolloutProgressing"] = "absent"
    BY <1>2, NewPolicyType, CondNames
  <1>4. ~InPhase(Stored, "RevisionPrepared") /\ ~InPhase(Stored, "CanaryProvisioning") /\ ~InPhase(Stored, "Validating")
    BY <1>3 DEF InPhase, determineState
  <1>5. canary = None /\ ~netpol
    BY DEF Init
  <1>6. QED
    BY <1>3, <1>4, <1>5 DEF CanaryInv, OwnCanary

\* The probes of the workload pass only for a revision that works, unless the
\* canary was left behind or production has the revision already.
LEMMA ProbesProve ==
    ASSUME "workload" \in Probes, Lag = {}, TypeOK, CanaryInv, ~leftover, Cached = Stored,
           InPhase(Cached, "Validating"), ProbesPass(Cached)
    PROVE  Stored.desired \notin Bad \/ prod = Stored.desired
  <1>1. Stored.desired \in Rev /\ None \notin Rev
    BY ReadFacts, InPhaseFacts, CondNames DEF TypeOK
  <1>2. canarySeen = (canary # None) /\ pods \subseteq {canary} /\ WorkloadProbePasses
    BY DEF ProbesPass, isWorkloadProbe, CachesRead
  <1>3. CASE canary = Stored.desired
    BY <1>1, <1>2, <1>3 DEF WorkloadProbePasses
  <1>4. CASE canary = None /\ prod = Stored.desired
    BY <1>4
  <1>5. QED
    BY <1>3, <1>4 DEF CanaryInv, OwnCanary

\* Each action keeps the invariant when reads are current.
LEMMA CanaryInvStep ==
    ASSUME MaxVersions = 1, Disturb \subseteq {"crash", "cleanup", "gc", "rolledBack"},
           TypeOK, CanaryInv, [Next]_vars
    PROVE  CanaryInv'
  <1>t. StoreTypeOK /\ upstream \in Rev /\ None \notin Rev /\ Stored \in Policy
    BY ReadFacts, CondNames DEF TypeOK, StoreTypeOK
  <1>c. MayReconcile => Cached = Stored
    BY <1>t, ReadFacts
  <1>u. ASSUME MayReconcile, NEW new \in Policy, new.threshold = Stored.threshold, updateStatus(new)
        PROVE  Stored' = new
    BY <1>u, <1>t, <1>c, UpdateFacts
  <1>s. UNCHANGED versions => Stored' = Stored
    BY DEF Stored
  <1>d. "ignoredPatch" \notin Disturb /\ "edit" \notin Disturb
    OBVIOUS
  <1>k. CleanupCanaryResources /\ "cleanup" \notin Disturb => canary' = None /\ ~netpol'
    BY DEF CleanupCanaryResources
  <1>o. RotationOver => leftover' \/ canary' = None
    BY DEF RotationOver
  <1>g. RotationGoesOn => leftover' \/ ~leftover \/ canary' = None
    BY DEF RotationGoesOn
  <1>h. /\ CleanupCutShort => canary' \in {canary, None}
        /\ CleanupCanaryResources => canary' \in {canary, None}
    BY DEF CleanupCutShort, CleanupCanaryResources
  <1>1. CASE StartRollout
    <2>1. /\ MayReconcile /\ ChecksUpstream(Stored) /\ updateStatus(Started(Stored, upstream))
          /\ UNCHANGED <<canary, leftover, prod>>
      BY <1>1, <1>c DEF StartRollout, StartRotation, Drift, canaryVars
    <2>2. Stored' = Started(Stored, upstream)
      BY <2>1, <1>t, <1>u, ComputedStatus
    <2>3. leftover \/ canary = None
      BY <2>1 DEF ChecksUpstream, determineState, CanaryInv, OwnCanary
    <2>4. /\ ~Halted(Stored') /\ Stored'.desired \in Rev /\ Stored'.conds["RolloutProgressing"] = "absent"
          /\ determineState(Stored') = "RevisionPrepared"
      BY <2>2, <1>t, StartedFacts DEF CanaryInv
    <2> QED BY <2>1, <2>3, <2>4, <1>t DEF CanaryInv, OwnCanary, InPhase
  <1>2. CASE TripBreakerOnEntry \/ (StopAfterTrip /\ TripOnEntry)
    <2>1. MayReconcile /\ NoDrift /\ Halted(Stored) /\ updateStatus(Tripped(Stored)) /\ RotationOver
      BY <1>2, <1>c, <1>d DEF TripBreakerOnEntry, StopAfterTrip, TripOnEntry, updateStatusIgnored
    <2>2. Stored' = Tripped(Stored)
      BY <2>1, <1>t, <1>u, ComputedStatus
    <2>3. /\ Halted(Stored') /\ Stored'.desired = Stored.desired
          /\ Stored'.conds["RolloutProgressing"] = "absent"
      BY <2>2, <1>t, TrippedFacts DEF CanaryInv, Halted
    <2>4. "cleanup" \notin Disturb /\ Stored.desired = None => canary' = None /\ ~netpol'
      BY <1>2, <1>k DEF TripBreakerOnEntry, StopAfterTrip, CleanupCutShort, CanaryInv
    <2> QED BY <2>1, <2>3, <2>4, <1>o DEF CanaryInv, OwnCanary, InPhase
  <1>3. CASE ProvisionCanary
    <2>1. /\ MayReconcile /\ InPhase(Stored, "RevisionPrepared") /\ CreateCanary(Stored)
          /\ updateStatus(Advanced(Stored, "RevisionPrepared", "CanaryProvisioning")) /\ leftover' = leftover
      BY <1>3, <1>c DEF ProvisionCanary
    <2>2. Stored' = Advanced(Stored, "RevisionPrepared", "CanaryProvisioning")
      BY <2>1, <1>t, <1>u, ComputedStatus
    <2>3. ~Halted(Stored) /\ Stored.desired # None /\ determineState(Stored) = "RevisionPrepared"
      BY <2>1, <1>t, InPhaseFacts
    <2>4. /\ ~Halted(Stored') /\ Stored'.desired = Stored.desired /\ Stored'.conds["RolloutProgressing"] = "absent"
          /\ determineState(Stored') = "CanaryProvisioning"
      BY <2>2, <2>3, <1>t, AdvancedFacts, CondNames DEF CanaryInv
    <2>5. leftover \/ canary' = Stored.desired
      BY <2>1 DEF CanaryInv, OwnCanary, CreateCanary
    <2> QED BY <2>1, <2>3, <2>4, <2>5 DEF CanaryInv, OwnCanary, InPhase
  <1>4. CASE BeginValidating
    <2>1. /\ MayReconcile /\ InPhase(Stored, "CanaryProvisioning") /\ UNCHANGED <<canary, leftover>>
          /\ updateStatus(Advanced(Stored, "CanaryProvisioning", "Validating"))
      BY <1>4, <1>c DEF BeginValidating, canaryVars
    <2>2. Stored' = Advanced(Stored, "CanaryProvisioning", "Validating")
      BY <2>1, <1>t, <1>u, ComputedStatus
    <2>3. ~Halted(Stored) /\ Stored.desired # None /\ determineState(Stored) = "CanaryProvisioning"
      BY <2>1, <1>t, InPhaseFacts
    <2>4. /\ ~Halted(Stored') /\ Stored'.desired = Stored.desired /\ Stored'.conds["RolloutProgressing"] = "absent"
          /\ determineState(Stored') = "Validating"
      BY <2>2, <2>3, <1>t, AdvancedFacts, CondNames DEF CanaryInv
    <2> QED BY <2>1, <2>3, <2>4 DEF CanaryInv, OwnCanary, InPhase
  <1>5. CASE ValidationFails \/ ValidationTrips \/ (StopAfterTrip /\ LastProbeFails)
    <2>1. MayReconcile /\ InPhase(Stored, "Validating") /\ prod' = prod
      BY <1>5, <1>c DEF ValidationFails, ValidationTrips, StopAfterTrip, LastProbeFails
    <2> DEFINE failed == Failed(Stored, "Validating")
    <2>2. /\ failed \in Policy /\ failed.threshold = Stored.threshold /\ failed.desired = Stored.desired
          /\ failed.conds["RolloutProgressing"] = "absent"
          /\ Stored.failures + 1 >= Stored.threshold => Halted(failed)
          /\ Stored.failures + 1 < Stored.threshold => InPhase(failed, "Validating")
      BY <2>1, <1>t, FailedFacts DEF CanaryInv
    <2>3. Merged(Stored, Stored, failed) = failed
      BY <2>2, <1>t, MergedFresh
    <2>d. Stored.desired # None
      BY <2>1, <1>t, InPhaseFacts
    <2>4. CASE ValidationFails
      <3>1. /\ Stored.failures + 1 < Stored.threshold /\ UNCHANGED <<canary, leftover>>
            /\ Write(failed) \/ Write([failed EXCEPT !.conds = failed.conds])
        BY <2>4, <2>1, <2>3, <1>c DEF ValidationFails, canaryVars
      <3> HIDE DEF failed
      <3>2. [failed EXCEPT !.conds = failed.conds] = failed
        BY <2>2 DEF Policy
      <3>3. Stored' = failed
        BY <2>1, <2>2, <3>1, <3>2, <1>t, WriteFacts
      <3>4. ~Halted(failed) /\ failed.desired # None /\ determineState(failed) = "Validating"
        BY <2>2, <3>1, <1>t, InPhaseFacts
      <3> QED BY <2>1, <2>2, <3>1, <3>3, <3>4 DEF CanaryInv, OwnCanary, InPhase
    <2>5. CASE ValidationTrips \/ (StopAfterTrip /\ LastProbeFails)
      <3>1. Stored.failures + 1 >= Stored.threshold /\ updateStatus(failed) /\ RotationOver
        BY <2>5, <2>1, <1>c, <1>d DEF ValidationTrips, StopAfterTrip, LastProbeFails, updateStatusIgnored
      <3>2. Stored' = failed
        BY <2>1, <2>2, <3>1, <1>u
      <3> HIDE DEF failed
      <3> QED BY <2>1, <2>2, <2>d, <3>1, <3>2, <1>o DEF CanaryInv, OwnCanary, InPhase
    <2> QED BY <1>5, <2>4, <2>5
  <1>6. CASE promoteTargetWorkload
    <2>1. /\ MayReconcile /\ InPhase(Stored, "Validating")
          /\ CleanupCanaryResources /\ RotationOver /\ updateStatus(Promoted(Stored, "Validating"))
      BY <1>6, <1>c DEF promoteTargetWorkload
    <2>2. Stored' = Promoted(Stored, "Validating")
      BY <2>1, <1>t, <1>u, ComputedStatus
    <2>3. Stored'.desired = None /\ Stored'.conds["RolloutProgressing"] = "absent"
      BY <2>2, <1>t, PromotedFacts DEF CanaryInv
    <2>4. determineState(Stored') = ""
      BY <2>3 DEF determineState
    <2> QED BY <2>1, <2>3, <2>4, <1>k, <1>o DEF CanaryInv, OwnCanary, InPhase
  <1>7. CASE StopWhilePromoting
    <2>1. /\ InPhase(Stored, "Validating") /\ prod' = Stored.desired /\ Stored' = Stored
          /\ canary' \in {canary, None} /\ RotationGoesOn
      BY <1>7, <1>c, <1>s, <1>h DEF StopWhilePromoting
    <2>2. ~Halted(Stored) /\ Stored.desired # None /\ determineState(Stored) = "Validating"
      BY <2>1, <1>t, InPhaseFacts
    <2> QED BY <2>1, <2>2, <1>g DEF CanaryInv, OwnCanary, InPhase
  <1>8. CASE CleanUpRolledBack \/ StopWhileCleaningUp
    <2>1. /\ InPhase(Stored, "RolledBack") /\ Stored' = Stored
          /\ canary' \in {canary, None} /\ RotationGoesOn
      BY <1>8, <1>c, <1>s, <1>h DEF CleanUpRolledBack, StopWhileCleaningUp, storeVars
    <2>2. Stored.desired # None /\ determineState(Stored) = "RolledBack"
      BY <2>1, <1>t, InPhaseFacts
    <2> QED BY <2>1, <2>2, <1>g DEF CanaryInv, OwnCanary, InPhase
  <1>9. CASE StopWhileProvisioning
    <2>1. InPhase(Stored, "RevisionPrepared") /\ CreateCanary(Stored) /\ Stored' = Stored /\ leftover' = leftover
      BY <1>9, <1>c, <1>s DEF StopWhileProvisioning, storeVars
    <2>2. ~Halted(Stored) /\ Stored.desired # None /\ determineState(Stored) = "RevisionPrepared"
      BY <2>1, <1>t, InPhaseFacts
    <2> QED BY <2>1, <2>2 DEF CanaryInv, OwnCanary, InPhase, CreateCanary
  <1>10. CASE StoreMoves
    <2>1. UNCHANGED <<canary, netpol, leftover, prod>>
      BY <1>10 DEF StoreMoves, canaryVars
    <2>2. CASE MarkRolledBack
      <3>1. Stored' = [Stored EXCEPT !.conds = With(@, "RolledBack", "True")]
        BY <2>2, <1>t, EditFacts, WriteFacts DEF MarkRolledBack
      <3>2. /\ Stored'.desired = Stored.desired
            /\ Halted(Stored') <=> Halted(Stored)
            /\ Stored.desired # None => determineState(Stored') = "RolledBack"
            /\ Stored'.conds["RolloutProgressing"] = "absent"
        BY <3>1, <1>t, EditFacts DEF CanaryInv
      <3>3. Stored.desired = None => determineState(Stored') = ""
        BY <3>2 DEF determineState
      <3> QED BY <2>1, <3>2, <3>3 DEF CanaryInv, OwnCanary, InPhase
    <2>3. CASE Rotate \/ SyncPolicy
      <3>1. Stored' = Stored
        BY <2>3, <1>t, <1>s, SyncFacts DEF Rotate
      <3> QED BY <2>1, <3>1 DEF CanaryInv, OwnCanary
    <2> QED BY <1>10, <1>d, <2>2, <2>3 DEF StoreMoves, EditThreshold
  <1>11. CASE \/ InSyncOrHalted \/ StopWhilePreparing
              \/ SyncCanary \/ PodReady \/ PodsCollected \/ UNCHANGED vars
    <2>1. UNCHANGED <<versions, canary, netpol, leftover, prod>>
      BY <1>11 DEF InSyncOrHalted, NothingNew, StopWhilePreparing, StopBeforePrepared,
                   SyncCanary, PodReady, PodsCollected, vars, storeVars, canaryVars
    <2> QED BY <2>1, <1>s DEF CanaryInv, OwnCanary
  <1>12. QED
    BY <1>1, <1>2, <1>3, <1>4, <1>5, <1>6, <1>7, <1>8, <1>9, <1>10, <1>11
    DEF Next, Reconcile, Stop, StopAfterTrip, Environment

\* A revision the workload cannot run with is promoted only when the canary
\* that was probed is one an earlier rotation left behind, and any other canary
\* under validation is the desired revision's: provided a probe goes to the
\* workload, reads are current, the patch that trips the breaker is not lost
\* and nobody edits the threshold meanwhile.  Calls may stop anywhere, cleanup
\* and collection may fail, RolledBack may be set by hand.
THEOREM BadNeedsLeftover ==
    ASSUME MaxVersions = 1, Lag = {}, "workload" \in Probes,
           Disturb \subseteq {"crash", "cleanup", "gc", "rolledBack"}
    PROVE  Spec => BadOnlyThroughLeftover /\ []CanaryRunsDesired
  <1>1. TypeOK /\ CanaryInv /\ [Next]_vars => CanaryInv'
    BY CanaryInvStep
  <1>2. CanaryInv => CanaryRunsDesired
    BY DEF CanaryInv, OwnCanary, CanaryRunsDesired
  <1>3. TypeOK /\ CanaryInv /\ [Next]_vars => [prod' # prod /\ prod' \in Bad => leftover]_vars
    <2> SUFFICES ASSUME TypeOK, CanaryInv, [Next]_vars, prod' # prod, prod' \in Bad, ~leftover
                 PROVE  FALSE
      OBVIOUS
    <2>1. promoteTargetWorkload \/ StopWhilePromoting
      BY OnlyPromotionTouches
    <2>2. MayReconcile /\ InPhase(Cached, "Validating") /\ ProbesPass(Cached) /\ prod' = Cached.desired
      BY <2>1, PromotionKeeps
    <2>3. Cached = Stored
      BY <2>2, ReadFacts DEF TypeOK
    <2> QED BY <2>2, <2>3, ProbesProve
  <1>4. QED
    BY <1>1, <1>2, <1>3, CanaryInit, CanaryType, PTL DEF Spec, BadOnlyThroughLeftover

\* A promoted rotation leaves neither canary nor network policy, and a tripped
\* one its canary only by a stop between the patch and the cleanup, as long as
\* the cleanup's own calls do not fail.
THEOREM CanaryEndsWithRotation ==
    ASSUME MaxVersions = 1, Disturb \subseteq {"crash", "gc", "rolledBack"}
    PROVE  Spec => []NoOrphanCanary
  <1>1. TypeOK /\ CanaryInv /\ [Next]_vars => CanaryInv'
    BY CanaryInvStep
  <1>2. CanaryInv => NoOrphanCanary
    BY DEF CanaryInv, OwnCanary, NoOrphanCanary, Halted
  <1>3. QED
    BY <1>1, <1>2, CanaryInit, CanaryType, PTL DEF Spec

-----------------------------------------------------------------------------
(* A canary under validation is confined, whatever happens to its cleanup. *)

\* Tripping the breaker or editing the threshold moves no policy into a phase.
LEMMA PhasesKept ==
    ASSUME NEW p \in Policy
    PROVE  /\ determineState(Tripped(p)) \in {"CanaryProvisioning", "Validating"}
                => determineState(Tripped(p)) = determineState(p)
           /\ \A t \in 1..MaxThreshold :
                 LET q == [p EXCEPT !.threshold = t]
                 IN  /\ determineState(q) = determineState(p)
                     /\ q.conds["RolloutProgressing"] = p.conds["RolloutProgressing"]
  <1>1. /\ Tripped(p).desired = p.desired
        /\ \A c \in CondTypes \ {"CircuitBreakerTripped"} : Tripped(p).conds[c] = p.conds[c]
    BY TrippedFacts
  <1>2. /\ Tripped(p).conds["RolledBack"] = p.conds["RolledBack"]
        /\ Tripped(p).conds["Validating"] = p.conds["Validating"]
        /\ Tripped(p).conds["RolloutProgressing"] = p.conds["RolloutProgressing"]
        /\ Tripped(p).conds["CanaryProvisioning"] = p.conds["CanaryProvisioning"]
    BY <1>1, CondNames
  <1>3. determineState(Tripped(p)) \in {"CanaryProvisioning", "Validating"}
          => determineState(Tripped(p)) = determineState(p)
    BY <1>1, <1>2 DEF determineState, Present
  <1>4. ASSUME NEW t \in 1..MaxThreshold
        PROVE  LET q == [p EXCEPT !.threshold = t]
               IN  q.desired = p.desired /\ q.conds = p.conds
    BY DEF Policy
  <1>5. QED
    BY <1>3, <1>4 DEF determineState, Present

\* The inductive invariant of CanaryConfined.  A rotation enters the phase in
\* which a canary may run only through ProvisionCanary, because starting one
\* leaves no phase condition behind; RolloutProgressing would be such a one.
IsolationInv == CanaryIsolated /\ Stored.conds["RolloutProgressing"] = "absent"

\* Each action keeps it: the policy is deleted only after the Deployment.
LEMMA IsolationStep ==
    ASSUME MaxVersions = 1, TypeOK, IsolationInv, [Next]_vars
    PROVE  IsolationInv'
  <1>t. StoreTypeOK /\ upstream \in Rev /\ None \notin Rev /\ Stored \in Policy
    BY ReadFacts, CondNames DEF TypeOK, StoreTypeOK
  <1>c. MayReconcile => Cached = Stored
    BY <1>t, ReadFacts
  <1>u. ASSUME MayReconcile, NEW new \in Policy, new.threshold = Stored.threshold, updateStatus(new)
        PROVE  Stored' = new
    BY <1>u, <1>t, <1>c, UpdateFacts
  <1>s. UNCHANGED versions => Stored' = Stored
    BY DEF Stored
  <1> DEFINE Confined == canary # None => netpol
             Exposed(p) == determineState(p) \in {"CanaryProvisioning", "Validating"}
  <1>k. CleanupCanaryResources => (Confined => Confined')
    BY DEF CleanupCanaryResources, CleanupCutShort
  <1>h. CleanupCutShort => (Confined => Confined')
    BY DEF CleanupCutShort
  <1>e. IsolationInv' <=> (Exposed(Stored') => Confined') /\ Stored'.conds["RolloutProgressing"] = "absent"
    BY DEF IsolationInv, CanaryIsolated
  <1>i. (Exposed(Stored) => Confined) /\ Stored.conds["RolloutProgressing"] = "absent"
    BY DEF IsolationInv, CanaryIsolated
  <1>1. CASE StartRollout
    <2>1. MayReconcile /\ updateStatus(Started(Stored, upstream))
      BY <1>1, <1>c DEF StartRollout, StartRotation
    <2>2. Stored' = Started(Stored, upstream)
      BY <2>1, <1>t, <1>u, ComputedStatus
    <2>3. determineState(Stored') = "RevisionPrepared" /\ Stored'.conds["RolloutProgressing"] = "absent"
      BY <2>2, <1>t, <1>i, StartedFacts
    <2> QED BY <2>3, <1>e
  <1>2. CASE TripBreakerOnEntry \/ (StopAfterTrip /\ TripOnEntry)
    <2>1. /\ MayReconcile /\ updateStatusIgnored(Tripped(Stored))
          /\ CleanupCanaryResources \/ CleanupCutShort
      BY <1>2, <1>c DEF TripBreakerOnEntry, StopAfterTrip, TripOnEntry
    <2>2. Stored' = Stored \/ Stored' = Tripped(Stored)
      BY <2>1, <1>t, <1>u, <1>s, ComputedStatus DEF updateStatusIgnored
    <2>3. Exposed(Stored') => Exposed(Stored)
      BY <2>2, <1>t, PhasesKept
    <2>4. Stored'.conds["RolloutProgressing"] = "absent"
      BY <2>2, <1>t, <1>i, TrippedFacts
    <2> QED BY <2>1, <2>3, <2>4, <1>e, <1>i, <1>k, <1>h
  <1>3. CASE ProvisionCanary
    <2>1. /\ MayReconcile /\ InPhase(Stored, "RevisionPrepared") /\ netpol' = TRUE
          /\ updateStatus(Advanced(Stored, "RevisionPrepared", "CanaryProvisioning"))
      BY <1>3, <1>c DEF ProvisionCanary
    <2>2. Stored' = Advanced(Stored, "RevisionPrepared", "CanaryProvisioning")
      BY <2>1, <1>t, <1>u, ComputedStatus
    <2>3. ~Halted(Stored) /\ Stored.desired # None
      BY <2>1, <1>t, InPhaseFacts
    <2>4. Stored'.conds["RolloutProgressing"] = "absent"
      BY <2>1, <2>2, <2>3, <1>t, <1>i, AdvancedFacts, CondNames
    <2> QED BY <2>1, <2>4, <1>e
  <1>4. CASE BeginValidating
    <2>1. /\ MayReconcile /\ InPhase(Stored, "CanaryProvisioning") /\ UNCHANGED <<canary, netpol>>
          /\ updateStatus(Advanced(Stored, "CanaryProvisioning", "Validating"))
      BY <1>4, <1>c DEF BeginValidating, canaryVars
    <2>2. Stored' = Advanced(Stored, "CanaryProvisioning", "Validating")
      BY <2>1, <1>t, <1>u, ComputedStatus
    <2>3. ~Halted(Stored) /\ Stored.desired # None /\ Exposed(Stored)
      BY <2>1, <1>t, InPhaseFacts
    <2>4. Stored'.conds["RolloutProgressing"] = "absent"
      BY <2>1, <2>2, <2>3, <1>t, <1>i, AdvancedFacts, CondNames
    <2> QED BY <2>1, <2>3, <2>4, <1>e, <1>i
  <1>5. CASE ValidationFails \/ ValidationTrips \/ (StopAfterTrip /\ LastProbeFails)
    <2>1. /\ MayReconcile /\ InPhase(Stored, "Validating")
          /\ UNCHANGED <<canary, netpol>> \/ CleanupCanaryResources \/ CleanupCutShort
      BY <1>5, <1>c DEF ValidationFails, ValidationTrips, StopAfterTrip, LastProbeFails, canaryVars
    <2> DEFINE failed == Failed(Stored, "Validating")
    <2>2. failed \in Policy /\ failed.threshold = Stored.threshold /\ failed.conds["RolloutProgressing"] = "absent"
      BY <2>1, <1>t, <1>i, FailedFacts
    <2>3. Merged(Stored, Stored, failed) = failed
      BY <2>2, <1>t, MergedFresh
    <2>4. \/ Write(failed)
          \/ Write([failed EXCEPT !.conds = failed.conds])
          \/ updateStatusIgnored(failed)
      BY <1>5, <2>1, <2>3, <1>c DEF ValidationFails, ValidationTrips, LastProbeFails
    <2> HIDE DEF failed
    <2>5. [failed EXCEPT !.conds = failed.conds] = failed
      BY <2>2 DEF Policy
    <2>6. Stored' = failed \/ Stored' = Stored
      BY <2>1, <2>2, <2>4, <2>5, <1>t, <1>u, <1>s, WriteFacts DEF updateStatusIgnored
    <2>7. Exposed(Stored)
      BY <2>1, <1>t, InPhaseFacts
    <2>8. Confined'
      BY <2>1, <2>7, <1>i, <1>k, <1>h
    <2> QED BY <2>2, <2>6, <2>8, <1>e, <1>i
  <1>6. CASE promoteTargetWorkload
    <2>1. MayReconcile /\ updateStatus(Promoted(Stored, "Validating"))
      BY <1>6, <1>c DEF promoteTargetWorkload
    <2>2. Stored' = Promoted(Stored, "Validating")
      BY <2>1, <1>t, <1>u, ComputedStatus
    <2>3. Stored'.desired = None /\ Stored'.conds["RolloutProgressing"] = "absent"
      BY <2>2, <1>t, <1>i, PromotedFacts
    <2>4. ~Exposed(Stored')
      BY <2>3 DEF determineState
    <2> QED BY <2>3, <2>4, <1>e
  <1>7. CASE StopWhileProvisioning
    <2>1. Stored' = Stored /\ determineState(Stored) = "RevisionPrepared"
      BY <1>7, <1>c, <1>s DEF StopWhileProvisioning, storeVars, InPhase
    <2> QED BY <2>1, <1>e, <1>i
  <1>8. CASE CleanUpRolledBack \/ StopWhilePromoting \/ StopWhileCleaningUp
    <2>1. /\ Stored' = Stored
          /\ UNCHANGED <<canary, netpol>> \/ CleanupCanaryResources \/ CleanupCutShort
      BY <1>8, <1>s DEF CleanUpRolledBack, StopWhilePromoting, StopWhileCleaningUp, storeVars
    <2> QED BY <2>1, <1>e, <1>i, <1>k, <1>h
  <1>9. CASE StoreMoves
    <2>1. UNCHANGED <<canary, netpol>>
      BY <1>9 DEF StoreMoves, canaryVars
    <2>2. CASE MarkRolledBack
      <3>1. Stored' = [Stored EXCEPT !.conds = With(@, "RolledBack", "True")]
        BY <2>2, <1>t, EditFacts, WriteFacts DEF MarkRolledBack
      <3>2. /\ Stored'.desired = Stored.desired
            /\ Stored.desired # None => determineState(Stored') = "RolledBack"
            /\ Stored'.conds["RolloutProgressing"] = "absent"
        BY <3>1, <1>t, <1>i, EditFacts
      <3>3. ~Exposed(Stored')
        BY <3>2 DEF determineState
      <3> QED BY <3>2, <3>3, <1>e
    <2>3. CASE EditThreshold
      <3>1. PICK t \in 1..MaxThreshold : MayReconcile /\ Write([Stored EXCEPT !.threshold = t])
        BY <2>3 DEF EditThreshold
      <3>2. Stored' = [Stored EXCEPT !.threshold = t]
        BY <3>1, <1>t, EditFacts, WriteFacts
      <3>3. determineState(Stored') = determineState(Stored) /\ Stored'.conds["RolloutProgressing"] = "absent"
        BY <3>2, <1>t, <1>i, PhasesKept
      <3> QED BY <2>1, <3>3, <1>e, <1>i
    <2>4. CASE Rotate \/ SyncPolicy
      <3>1. Stored' = Stored
        BY <2>4, <1>t, <1>s, SyncFacts DEF Rotate
      <3> QED BY <2>1, <3>1, <1>e, <1>i
    <2> QED BY <1>9, <2>2, <2>3, <2>4 DEF StoreMoves
  <1>10. CASE \/ InSyncOrHalted \/ StopWhilePreparing
              \/ SyncCanary \/ PodReady \/ PodsCollected \/ UNCHANGED vars
    <2>1. UNCHANGED <<versions, canary, netpol>>
      BY <1>10 DEF InSyncOrHalted, NothingNew, StopWhilePreparing, StopBeforePrepared,
                   SyncCanary, PodReady, PodsCollected, vars, storeVars, canaryVars
    <2> QED BY <2>1, <1>s, <1>e, <1>i
  <1>11. QED
    BY <1>1, <1>2, <1>3, <1>4, <1>5, <1>6, <1>7, <1>8, <1>9, <1>10
    DEF Next, Reconcile, Stop, StopAfterTrip, Environment

\* A canary under validation has its network policy: whatever stops half way,
\* whichever cleanup or patch is lost, whatever is edited by hand and however
\* far the workload's caches lag, as long as the policy itself is read fresh.
\* A reconcile that reads RevisionPrepared although the phase is over and the
\* canary cleaned up recreates it, and may stop before its network policy.
THEOREM CanaryConfined ==
    ASSUME MaxVersions = 1
    PROVE  Spec => []CanaryIsolated
  <1>1. Init => IsolationInv
    <2> SUFFICES ASSUME Init PROVE IsolationInv
      OBVIOUS
    <2>1. PICK t \in 1..MaxThreshold : versions = <<NewPolicy(t)>>
      BY DEF Init, StoreInit
    <2>2. Stored = NewPolicy(t)
      BY <2>1 DEF Stored
    <2>3. Stored.conds["RolloutProgressing"] = "absent" /\ canary = None
      BY <2>2, NewPolicyType, CondNames DEF Init
    <2> QED BY <2>3 DEF IsolationInv, CanaryIsolated
  <1>2. TypeOK /\ IsolationInv /\ [Next]_vars => IsolationInv'
    BY IsolationStep
  <1>3. IsolationInv => CanaryIsolated
    BY DEF IsolationInv
  <1>4. QED
    BY <1>1, <1>2, <1>3, CanaryType, PTL DEF Spec
=============================================================================
