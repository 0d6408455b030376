------------------------- MODULE SharedTargetProofs -------------------------
(***************************************************************************)
(* Theorems about SharedTarget, for any number of policies of a workload,  *)
(* any revisions, thresholds and kinds of references, and any Application. *)
(*                                                                         *)
(* SharedType       every state is well typed                              *)
(* SharedServed     no Secret that production mounts is missing, and each  *)
(*                  policy's status names what production mounts for it    *)
(* SharedBadOnlyWhenOverlapping  a bad revision reaches production only    *)
(*                  through rotations that overlapped or found a canary    *)
(***************************************************************************)
EXTENDS SharedTarget, PolicyStatusProofs

\* Revisions only grow, what the cache shows of production is no newer than
\* production, unless Argo CD has put Git's template back, and what is being
\* tried has its Secret.
OrderInv(p) ==
    /\ status[p].current <= upstream[p] /\ status[p].desired <= upstream[p]
    /\ workload[p] <= upstream[p] /\ workloadSeen[p] <= upstream[p]
    /\ workload[p] = None \/ workloadSeen[p] <= workload[p]
    /\ status[p].desired # None =>
          /\ workload[p] <= status[p].desired /\ workloadSeen[p] <= status[p].desired
          /\ status[p].desired \in secrets[p]
    /\ workload[p] \in secrets[p] \cup {None}

\* Argo CD was told before production was first patched.
Told == app.rule = "kind" /\ app.prefixed /\ \A p \in Policies : RefKind[p] \in app.hides

\* Unless Argo CD interferes the status names what production mounts, and the
\* cache shows a state production has had.
ServedInv ==
    LeftAlone =>
        /\ "selfHeal" \in Disturb /\ (\E p \in Policies : workload[p] # None) => Told
        /\ \A p \in Policies : workloadSeen[p] <= workload[p]
        /\ \A p \in Policies : status[p].desired = None => workload[p] = status[p].current

\* The inductive invariant of SharedServed.
SharedInv ==
    PatchesApart => (\A p \in Policies : OrderInv(p)) /\ ServedInv

\* A rotation that is alone has a canary of its own, because it found none and
\* nobody else's rotation is there to touch it; when it is gone again, a stop
\* came after the promotion for which it was probed.
AloneInv ==
    /\ \A p \in Policies : status[p].conds["RolloutProgressing"] = "absent"
    /\ \A p \in Policies : alone[p] /\ Rotating(p) =>
          /\ \A r \in Policies \ {p} : ~Rotating(r)
          /\ \/ <<p, status[p].desired>> \notin BadPairs
             \/ canary # NoCanary /\ canary[p] = status[p].desired
             \/ canary = NoCanary /\ InPhase(status[p], "RevisionPrepared")

-----------------------------------------------------------------------------
(* Types.                                                                  *)

\* Updating the status of one policy leaves the others'.
LEMMA UpdateOne ==
    ASSUME TypeOK, NEW p \in Policies, NEW new \in Policy, updateStatus(p, new)
    PROVE  /\ status' \in [Policies -> Policy]
           /\ status'[p] = new
           /\ \A q \in Policies \ {p} : status'[q] = status[q]
  BY DEF TypeOK, updateStatus

\* What each branch computes for the policy it reconciles.
LEMMA SharedComputes ==
    ASSUME TypeOK, NEW p \in Policies
    PROVE  /\ status[p] \in Policy /\ upstream[p] \in Rev
           /\ Started(status[p], upstream[p]) \in Policy
           /\ InPhase(status[p], "RevisionPrepared") =>
                 Advanced(status[p], "RevisionPrepared", "CanaryProvisioning") \in Policy
           /\ InPhase(status[p], "CanaryProvisioning") =>
                 Advanced(status[p], "CanaryProvisioning", "Validating") \in Policy
           /\ InPhase(status[p], "Validating") => Failed(status[p], "Validating") \in Policy
           /\ Promoted(status[p], "Validating") \in Policy
  <1>1. status[p] \in Policy /\ upstream[p] \in Rev
    BY DEF TypeOK
  <1>2. \A phase \in {"RevisionPrepared", "CanaryProvisioning", "Validating"} :
           InPhase(status[p], phase) => status[p].desired # None /\ ~Halted(status[p])
    BY DEF InPhase, determineState
  <1>3. InPhase(status[p], "RevisionPrepared") =>
           Advanced(status[p], "RevisionPrepared", "CanaryProvisioning") \in Policy
    BY <1>1, <1>2, AdvancedFacts, CondNames
  <1>4. InPhase(status[p], "CanaryProvisioning") =>
           Advanced(status[p], "CanaryProvisioning", "Validating") \in Policy
    BY <1>1, <1>2, AdvancedFacts, CondNames
  <1>5. QED
    BY <1>1, <1>3, <1>4, StartedFacts, FailedFacts, PromotedFacts

\* The template with one policy's references rewritten is a template, and no
\* template is NoCanary.
LEMMA TemplateFacts ==
    ASSUME TypeOK, NEW p \in Policies
    PROVE  /\ Rewritten(p) \in Template /\ Rewritten(p)[p] = status[p].desired
           /\ \A q \in Policies \ {p} : Rewritten(p)[q] = workloadSeen[q]
           /\ \A t \in Template : t # NoCanary
  <1>1. status[p].desired \in Rev \cup {None} /\ workloadSeen \in [Policies -> Rev \cup {None}]
    BY DEF TypeOK, Policy, Template
  <1>2. \A t \in Template : t # NoCanary
    BY DEF Template, NoCanary
  <1>3. QED
    BY <1>1, <1>2 DEF Rewritten, Template

\* A merge patch yields a template.
LEMMA PatchType ==
    ASSUME TypeOK, NEW p \in Policies, PatchWorkload(p)
    PROVE  workload' \in Template
  <1>1. Rewritten(p) \in [Policies -> Rev \cup {None}] /\ workload \in [Policies -> Rev \cup {None}]
    BY TemplateFacts DEF TypeOK, Template
  <1>2. workload' = [q \in Policies |-> IF workloadSeen[p] # status[p].desired /\ ListOf(q) = ListOf(p)
                                        THEN Rewritten(p)[q] ELSE workload[q]]
    BY DEF PatchWorkload
  <1>3. QED
    BY <1>1, <1>2 DEF Template

\* An Application told to ignore the references is an Application, hides more
\* than before and keeps what does not depend on the operator.
LEMMA ToldFacts ==
    ASSUME NEW a \in Application
    PROVE  LET b == ensureIgnoreDifferences(a)
           IN  /\ b \in Application
               /\ b.tracked = a.tracked /\ b.prefixed = a.prefixed
               /\ b.hides = a.hides \cup requiredJQ
               /\ b.rule = IF a.rule = "none" THEN "kind" ELSE a.rule
  <1> DEFINE rule  == IF a.rule = "none" THEN "kind" ELSE a.rule
             hides == a.hides \cup requiredJQ
  <1>1. /\ a.tracked \in BOOLEAN /\ a.prefixed \in BOOLEAN /\ hides \subseteq RefKinds
        /\ rule \in {"none", "kind", "resource"}
    BY DEF Application, requiredJQ, RefKinds
  <1>2. ensureIgnoreDifferences(a) = [a EXCEPT !.rule = rule, !.hides = hides]
    BY DEF ensureIgnoreDifferences, Application
  <1> DEFINE ruled == [a EXCEPT !.rule = rule]
  <1>3. ensureIgnoreDifferences(a) = [ruled EXCEPT !.hides = hides]
    BY <1>2
  <1> HIDE DEF rule, hides
  <1>4. /\ ruled \in Application /\ ruled.tracked = a.tracked /\ ruled.prefixed = a.prefixed
        /\ ruled.rule = rule
    BY <1>1 DEF Application
  <1> HIDE DEF ruled
  <1>5. /\ [ruled EXCEPT !.hides = hides] \in Application
        /\ [ruled EXCEPT !.hides = hides].tracked = a.tracked
        /\ [ruled EXCEPT !.hides = hides].prefixed = a.prefixed
        /\ [ruled EXCEPT !.hides = hides].rule = rule
        /\ [ruled EXCEPT !.hides = hides].hides = hides
    BY <1>1, <1>4 DEF Application
  <1>6. QED
    BY <1>3, <1>5 DEF rule, hides

\* Preparing the Application keeps it one.
LEMMA PrepareType ==
    ASSUME TypeOK, PrepareArgoCD
    PROVE  app' \in Application
  <1>1. app' = app \/ app' = ensureIgnoreDifferences(app)
    BY DEF PrepareArgoCD, ReconcileArgoCDIgnoreDifferences
  <1>2. QED
    BY <1>1, ToldFacts DEF TypeOK

\* Every step keeps the types.
LEMMA SharedTypeStep ==
    ASSUME TypeOK, [Next]_vars
    PROVE  TypeOK'
  <1>1. ASSUME NEW p \in Policies, Reconcile(p) \/ Stop(p) PROVE TypeOK'
    <2>1. CASE StartRotation(p)
      <3>1. status' \in [Policies -> Policy]
        BY <2>1, SharedComputes, UpdateOne DEF StartRotation
      <3>2. secrets' \in [Policies -> SUBSET Rev]
        BY <2>1 DEF StartRotation, TypeOK
      <3>3. alone' \in [Policies -> BOOLEAN]
        BY <2>1 DEF StartRotation, TypeOK
      <3> QED BY <2>1, <3>1, <3>2, <3>3 DEF StartRotation, TypeOK
    <2>2. CASE NothingNew(p) \/ StopWhilePreparing(p)
      <3>1. secrets' \in [Policies -> SUBSET Rev]
        BY <2>2 DEF NothingNew, StopWhilePreparing, TypeOK
      <3> QED BY <2>2, <3>1 DEF NothingNew, StopWhilePreparing, TypeOK
    <2>3. CASE ProvisionCanary(p)
      <3>1. status' \in [Policies -> Policy]
        BY <2>3, SharedComputes, UpdateOne DEF ProvisionCanary
      <3>2. canary' \in Template \cup {NoCanary}
        BY <2>3, TemplateFacts DEF ProvisionCanary, BuildCanary, TypeOK
      <3> QED BY <2>3, <3>1, <3>2 DEF ProvisionCanary, TypeOK
    <2>4. CASE BeginValidating(p)
      <3>1. status' \in [Policies -> Policy]
        BY <2>4, SharedComputes, UpdateOne DEF BeginValidating
      <3> QED BY <2>4, <3>1 DEF BeginValidating, TypeOK
    <2>5. CASE ValidationFails(p) \/ StopAfterTrip(p)
      <3>1. status' \in [Policies -> Policy]
        BY <2>5, SharedComputes, UpdateOne DEF ValidationFails, StopAfterTrip, ProbeFails
      <3>2. canary' \in Template \cup {NoCanary}
        BY <2>5 DEF ValidationFails, StopAfterTrip, TypeOK
      <3> QED BY <2>5, <3>1, <3>2 DEF ValidationFails, StopAfterTrip, ProbeFails, TypeOK
    <2>6. CASE promoteTargetWorkload(p)
      <3>1. status' \in [Policies -> Policy]
        BY <2>6, SharedComputes, UpdateOne DEF promoteTargetWorkload
      <3>2. secrets' \in [Policies -> SUBSET Rev]
        BY <2>6 DEF promoteTargetWorkload, gcOldSecretRevisions, TypeOK
      <3> QED BY <2>6, <3>1, <3>2, PatchType, PrepareType DEF promoteTargetWorkload, TypeOK
    <2>7. CASE StopAfterPatch(p)
      <3>1. secrets' \in [Policies -> SUBSET Rev] /\ canary' \in Template \cup {NoCanary}
        BY <2>7 DEF StopAfterPatch, gcOldSecretRevisions, TypeOK
      <3> QED BY <2>7, <3>1, PatchType, PrepareType DEF StopAfterPatch, TypeOK
    <2>8. CASE StopWhileProvisioning(p)
      BY <2>8, TemplateFacts DEF StopWhileProvisioning, BuildCanary, TypeOK, policyVars
    <2> QED BY <1>1, <2>1, <2>2, <2>3, <2>4, <2>5, <2>6, <2>7, <2>8 DEF Reconcile, Stop
  <1>2. ASSUME NEW p \in Policies, Rotate(p) PROVE TypeOK'
    <2>1. upstream[p] + 1 \in Rev
      BY <1>2, BoundsAssumption DEF Rotate, TypeOK, Rev
    <2>2. upstream' \in [Policies -> Rev]
      BY <1>2, <2>1 DEF Rotate, TypeOK
    <2> QED BY <1>2, <2>2 DEF Rotate, TypeOK
  <1>3. CASE SyncWorkload \/ SelfHeal
    BY <1>3 DEF SyncWorkload, SelfHeal, TypeOK, Template, policyVars
  <1>4. CASE UNCHANGED vars
    BY <1>4 DEF vars, policyVars, TypeOK
  <1>5. QED
    BY <1>1, <1>2, <1>3, <1>4 DEF Next, Environment

\* New policies of a workload as Git has it.
LEMMA SharedInit ==
    ASSUME Init
    PROVE  /\ TypeOK
           /\ \A p \in Policies : /\ status[p].current = None /\ status[p].desired = None
                                  /\ \A c \in CondTypes : status[p].conds[c] = "absent"
                                  /\ workload[p] = None /\ workloadSeen[p] = None /\ ~alone[p]
           /\ canary = NoCanary
  <1>1. PICK t \in 1..MaxThreshold : status = [p \in Policies |-> NewPolicy(t)]
    BY DEF Init
  <1>2. /\ status \in [Policies -> Policy]
        /\ \A p \in Policies : /\ status[p].current = None /\ status[p].desired = None
                               /\ \A c \in CondTypes : status[p].conds[c] = "absent"
    BY <1>1, NewPolicyType
  <1>3. /\ \A p \in Policies : workload[p] = None /\ workloadSeen[p] = None /\ ~alone[p]
        /\ canary = NoCanary
    BY DEF Init
  <1>4. TypeOK
    BY <1>2, CondNames, SharedAssumption DEF Init, TypeOK, Template
  <1>5. QED
    BY <1>2, <1>3, <1>4

\* Type correctness, whatever the policies do to each other.
THEOREM SharedType == Spec => []TypeOK
  <1>1. Init => TypeOK
    BY SharedInit
  <1>2. QED
    BY <1>1, SharedTypeStep, PTL DEF Spec

-----------------------------------------------------------------------------
(* What production mounts.                                                 *)

\* A promotion writes the references of its own policy only, when the patches
\* are apart, and none when the cache shows them written.
LEMMA PatchFacts ==
    ASSUME TypeOK, PatchesApart, NEW p \in Policies, PatchWorkload(p)
    PROVE  /\ workload'[p] = IF workloadSeen[p] # status[p].desired THEN status[p].desired ELSE workload[p]
           /\ \A q \in Policies \ {p} : workload'[q] = workload[q]
  <1>1. \A q \in Policies :
           workload'[q] = IF workloadSeen[p] # status[p].desired /\ ListOf(q) = ListOf(p)
                          THEN Rewritten(p)[q] ELSE workload[q]
    BY DEF PatchWorkload
  <1>2. \A q \in Policies \ {p} : ListOf(q) # ListOf(p) \/ workloadSeen[q] = workload[q]
    BY DEF PatchesApart, Separate, PatchWorkload, WorkloadRead
  <1>3. QED
    BY <1>1, <1>2, TemplateFacts

\* Preparing the Application does not change whether it can be told, and when
\* it can, it has been told afterwards.
LEMMA PrepareFacts ==
    ASSUME TypeOK, PrepareArgoCD
    PROVE  /\ LeftAlone' <=> LeftAlone
           /\ LeftAlone /\ "selfHeal" \in Disturb => Told'
  <1>1. app' = app \/ app' = ensureIgnoreDifferences(app)
    BY DEF PrepareArgoCD, ReconcileArgoCDIgnoreDifferences
  <1>2. /\ app'.tracked = app.tracked /\ app'.prefixed = app.prefixed
        /\ app'.rule = "resource" <=> app.rule = "resource"
        /\ requiredJQ \cup app'.hides = requiredJQ \cup app.hides
    BY <1>1, ToldFacts DEF TypeOK, Application
  <1>3. LeftAlone' <=> LeftAlone
    BY <1>2 DEF LeftAlone, Coverable
  <1>4. ASSUME LeftAlone, "selfHeal" \in Disturb PROVE Told'
    <2>1. Coverable /\ app' = ensureIgnoreDifferences(app)
      BY <1>4 DEF LeftAlone, Coverable, PrepareArgoCD, ReconcileArgoCDIgnoreDifferences
    <2>2. app'.hides = app.hides \cup requiredJQ /\ app'.rule = "kind" /\ app'.prefixed
      BY <1>2, <2>1, ToldFacts DEF TypeOK, Application, Coverable
    <2> QED BY <2>1, <2>2 DEF Told, Coverable
  <1>5. QED
    BY <1>3, <1>4

\* The state of one policy is in numbers.
LEMMA SharedNumbers ==
    ASSUME TypeOK, NEW p \in Policies
    PROVE  /\ status[p].current \in Nat /\ status[p].desired \in Nat /\ upstream[p] \in Nat
           /\ workload[p] \in Nat /\ workloadSeen[p] \in Nat
           /\ upstream[p] \in Rev /\ upstream[p] # None
           /\ None = 0
  <1>1. \A r \in Rev \cup {None} : r \in Nat
    BY CondNames DEF None
  <1>2. QED
    BY <1>1, CondNames DEF TypeOK, Policy, Template, None

\* A rotation begins.
LEMMA StartKeepsServed ==
    ASSUME TypeOK, PatchesApart, SharedInv, NEW p \in Policies, StartRotation(p)
    PROVE  SharedInv'
  <1>1. /\ status'[p] = Started(status[p], upstream[p])
        /\ \A q \in Policies \ {p} : status'[q] = status[q]
    BY SharedComputes, UpdateOne DEF StartRotation
  <1>2. status'[p].current = status[p].current /\ status'[p].desired = upstream[p]
    BY <1>1, SharedComputes, StartedFacts
  <1>3. /\ secrets'[p] = secrets[p] \cup {upstream[p]}
        /\ \A q \in Policies \ {p} : secrets'[q] = secrets[q]
        /\ UNCHANGED <<upstream, workload, workloadSeen, app>>
    BY DEF StartRotation, TypeOK
  <1>4. \A q \in Policies : OrderInv(q)
    BY DEF SharedInv
  <1>5. OrderInv(p)'
    BY <1>2, <1>3, <1>4, SharedNumbers DEF OrderInv
  <1>6. ASSUME NEW q \in Policies \ {p} PROVE OrderInv(q)'
    BY <1>1, <1>3, <1>4, <1>6 DEF OrderInv
  <1>7. ServedInv'
    <2>1. LeftAlone' <=> LeftAlone
      BY <1>3 DEF LeftAlone, Coverable
    <2>2. \A q \in Policies : status'[q].desired = None => q # p
      BY <1>2, SharedNumbers
    <2> QED BY <1>1, <1>3, <2>1, <2>2 DEF SharedInv, ServedInv, Told
  <1>8. QED
    BY <1>5, <1>6, <1>7 DEF SharedInv

\* Production is patched, and the patch recorded or not.
LEMMA PatchKeepsServed ==
    ASSUME TypeOK, PatchesApart, SharedInv, NEW p \in Policies,
           promoteTargetWorkload(p) \/ StopAfterPatch(p)
    PROVE  SharedInv'
  <1>1. /\ InPhase(status[p], "Validating") /\ PrepareArgoCD /\ PatchWorkload(p)
        /\ UNCHANGED <<upstream, workloadSeen>>
    BY DEF promoteTargetWorkload, StopAfterPatch
  <1>2. status[p].desired # None
    BY <1>1 DEF InPhase, determineState
  <1>3. /\ workload'[p] = IF workloadSeen[p] # status[p].desired THEN status[p].desired ELSE workload[p]
        /\ \A q \in Policies \ {p} : workload'[q] = workload[q]
    BY <1>1, PatchFacts
  <1>4. /\ \A q \in Policies \ {p} : status'[q] = status[q] /\ secrets'[q] = secrets[q]
        /\ secrets[p] \cap {status[p].desired} \subseteq secrets'[p]
        /\ \/ status'[p].current = status[p].desired /\ status'[p].desired = None
           \/ status'[p] = status[p]
    <2>1. CASE promoteTargetWorkload(p)
      <3>1. /\ status'[p] = Promoted(status[p], "Validating")
            /\ \A q \in Policies \ {p} : status'[q] = status[q]
        BY <2>1, SharedComputes, UpdateOne DEF promoteTargetWorkload
      <3>2. status'[p].current = status[p].desired /\ status'[p].desired = None
        BY <3>1, SharedComputes, PromotedFacts
      <3>3. /\ secrets'[p] = secrets[p] \cap {status[p].desired, status[p].current}
            /\ \A q \in Policies \ {p} : secrets'[q] = secrets[q]
        BY <2>1 DEF promoteTargetWorkload, gcOldSecretRevisions, TypeOK
      <3> QED BY <3>1, <3>2, <3>3
    <2>2. CASE StopAfterPatch(p)
      <3>1. \/ secrets' = secrets
            \/ /\ secrets'[p] = secrets[p] \cap {status[p].desired, status[p].current}
               /\ \A q \in Policies \ {p} : secrets'[q] = secrets[q]
        BY <2>2 DEF StopAfterPatch, gcOldSecretRevisions, TypeOK
      <3> QED BY <2>2, <3>1 DEF StopAfterPatch
    <2> QED BY <2>1, <2>2
  <1>5. \A q \in Policies : OrderInv(q)
    BY DEF SharedInv
  <1>6. workload'[p] \in {status[p].desired, None}
    BY <1>2, <1>3, <1>5, SharedNumbers DEF OrderInv
  <1>7. OrderInv(p)'
    <2>1. /\ workloadSeen[p] <= status[p].desired /\ status[p].desired <= upstream[p]
          /\ workloadSeen[p] <= upstream[p] /\ status[p].current <= upstream[p]
          /\ status[p].desired \in secrets[p]
      BY <1>2, <1>5 DEF OrderInv
    <2>2. status[p].desired \in secrets'[p]
      BY <1>4, <2>1
    <2> QED BY <1>1, <1>4, <1>6, <2>1, <2>2, SharedNumbers DEF OrderInv
  <1>8. ASSUME NEW q \in Policies \ {p} PROVE OrderInv(q)'
    BY <1>1, <1>3, <1>4, <1>5, <1>8 DEF OrderInv
  <1>9. ServedInv'
    <2>1. (LeftAlone' <=> LeftAlone) /\ (LeftAlone /\ "selfHeal" \in Disturb => Told')
      BY <1>1, PrepareFacts
    <2>2. ASSUME LeftAlone PROVE workload'[p] = status[p].desired /\ workloadSeen'[p] <= workload'[p]
      BY <1>1, <1>2, <1>3, <1>5, <2>2, SharedNumbers DEF OrderInv, SharedInv, ServedInv
    <2> QED BY <1>1, <1>2, <1>3, <1>4, <2>1, <2>2 DEF SharedInv, ServedInv
  <1>10. QED
    BY <1>7, <1>8, <1>9 DEF SharedInv

\* The other steps of a reconcile do not move the revisions.
LEMMA QuietKeepsServed ==
    ASSUME TypeOK, PatchesApart, SharedInv, UNCHANGED <<upstream, workload, workloadSeen, app>>,
           \A q \in Policies : /\ status'[q].current = status[q].current
                               /\ status'[q].desired = status[q].desired
                               /\ secrets[q] \subseteq secrets'[q]
    PROVE  SharedInv'
  <1>1. ASSUME NEW q \in Policies PROVE OrderInv(q)'
    BY <1>1 DEF SharedInv, OrderInv
  <1>2. LeftAlone' <=> LeftAlone
    BY DEF LeftAlone, Coverable
  <1>3. ServedInv'
    BY <1>2 DEF SharedInv, ServedInv, Told
  <1>4. QED
    BY <1>1, <1>3 DEF SharedInv

\* Every step keeps SharedInv.
LEMMA SharedStep ==
    ASSUME TypeOK, SharedInv, [Next]_vars
    PROVE  SharedInv'
  <1> SUFFICES ASSUME PatchesApart PROVE SharedInv'
    BY DEF SharedInv
  <1>1. ASSUME NEW p \in Policies, Reconcile(p) \/ Stop(p) PROVE SharedInv'
    <2>1. CASE NothingNew(p) \/ StopWhilePreparing(p) \/ StopWhileProvisioning(p)
      BY <2>1, QuietKeepsServed DEF NothingNew, StopWhilePreparing, StopWhileProvisioning, TypeOK, policyVars
    <2>2. CASE ProvisionCanary(p) \/ BeginValidating(p)
      <3>1. /\ status[p].desired # None /\ ~Halted(status[p])
            /\ UNCHANGED <<upstream, secrets, workload, workloadSeen, app>>
        BY <2>2 DEF ProvisionCanary, BeginValidating, InPhase, determineState
      <3>2. /\ \A q \in Policies \ {p} : status'[q] = status[q]
            /\ status'[p] \in {Advanced(status[p], "RevisionPrepared", "CanaryProvisioning"),
                               Advanced(status[p], "CanaryProvisioning", "Validating")}
        BY <2>2, SharedComputes, UpdateOne DEF ProvisionCanary, BeginValidating
      <3>3. status'[p].current = status[p].current /\ status'[p].desired = status[p].desired
        BY <3>1, <3>2, SharedComputes, AdvancedFacts, CondNames
      <3> QED BY <3>1, <3>2, <3>3, QuietKeepsServed
    <2>3. CASE ValidationFails(p) \/ StopAfterTrip(p)
      <3>1. /\ InPhase(status[p], "Validating")
            /\ UNCHANGED <<upstream, secrets, workload, workloadSeen, app>>
        BY <2>3 DEF ValidationFails, StopAfterTrip, ProbeFails
      <3>2. /\ \A q \in Policies \ {p} : status'[q] = status[q]
            /\ status'[p] = Failed(status[p], "Validating")
        BY <2>3, <3>1, SharedComputes, UpdateOne DEF ValidationFails, StopAfterTrip, ProbeFails
      <3>3. status'[p].current = status[p].current /\ status'[p].desired = status[p].desired
        BY <3>1, <3>2, SharedComputes, FailedFacts
      <3> QED BY <3>1, <3>2, <3>3, QuietKeepsServed
    <2> QED BY <1>1, <2>1, <2>2, <2>3, StartKeepsServed, PatchKeepsServed DEF Reconcile, Stop
  <1>2. ASSUME NEW p \in Policies, Rotate(p) PROVE SharedInv'
    <2>1. /\ upstream'[p] = upstream[p] + 1 /\ \A q \in Policies \ {p} : upstream'[q] = upstream[q]
          /\ UNCHANGED <<status, secrets, workload, workloadSeen, app>>
      BY <1>2 DEF Rotate, TypeOK
    <2>2. ASSUME NEW q \in Policies PROVE OrderInv(q)'
      BY <2>1, <2>2, SharedNumbers DEF SharedInv, OrderInv
    <2>3. LeftAlone' <=> LeftAlone
      BY <2>1 DEF LeftAlone, Coverable
    <2>4. ServedInv'
      BY <2>1, <2>3 DEF SharedInv, ServedInv, Told
    <2> QED BY <2>2, <2>4 DEF SharedInv
  <1>3. CASE SyncWorkload
    <2>1. workloadSeen' = workload /\ UNCHANGED <<status, upstream, secrets, workload, app>>
      BY <1>3 DEF SyncWorkload, policyVars
    <2>2. ASSUME NEW q \in Policies PROVE OrderInv(q)'
      BY <2>1, <2>2, SharedNumbers DEF SharedInv, OrderInv
    <2>3. LeftAlone' <=> LeftAlone
      BY <2>1 DEF LeftAlone, Coverable
    <2>4. ServedInv'
      BY <2>1, <2>3, SharedNumbers DEF SharedInv, ServedInv, Told
    <2> QED BY <2>2, <2>4 DEF SharedInv
  <1>4. CASE SelfHeal
    <2>1. /\ "selfHeal" \in Disturb /\ \E p \in Policies : workload[p] # None /\ ~Hidden(app, RefKind[p])
          /\ \A p \in Policies : workload'[p] = None
          /\ UNCHANGED <<status, upstream, secrets, workloadSeen, app>>
      BY <1>4 DEF SelfHeal, policyVars
    <2>2. ASSUME NEW q \in Policies PROVE OrderInv(q)'
      BY <2>1, <2>2, SharedNumbers DEF SharedInv, OrderInv
    <2>3. (LeftAlone' <=> LeftAlone) /\ ~Told
      BY <2>1 DEF LeftAlone, Coverable, Told, Hidden
    <2>4. ServedInv'
      BY <2>1, <2>3 DEF SharedInv, ServedInv
    <2> QED BY <2>2, <2>4 DEF SharedInv
  <1>5. CASE UNCHANGED vars
    BY <1>5, QuietKeepsServed DEF vars, policyVars
  <1>6. QED
    BY <1>1, <1>2, <1>3, <1>4, <1>5 DEF Next, Environment

\* However many policies share a workload: no Secret that production mounts
\* is missing, and between its rotations each policy's status names what
\* production mounts for it.  Both need patches that do not carry each other's
\* references; the second also an Argo CD that is off or could be told.
THEOREM SharedServed == Spec => [](ReferencedSecretsExist /\ EachCurrentIsServed)
  <1>1. ASSUME Init PROVE SharedInv
    BY <1>1, SharedInit, SharedNumbers DEF SharedInv, OrderInv, ServedInv, LeftAlone
  <1>2. SharedInv => ReferencedSecretsExist /\ EachCurrentIsServed
    BY DEF SharedInv, OrderInv, ServedInv, ReferencedSecretsExist, EachCurrentIsServed
  <1>3. QED
    BY <1>1, <1>2, SharedStep, SharedType, PTL DEF Spec

-----------------------------------------------------------------------------
(* Whose canary was probed.                                                *)

\* A rotation that begins alone, or ends another's being alone.
LEMMA StartKeepsAlone ==
    ASSUME TypeOK, AloneInv, NEW p \in Policies, StartRotation(p)
    PROVE  AloneInv'
  <1>1. /\ status'[p] = Started(status[p], upstream[p])
        /\ \A q \in Policies \ {p} : status'[q] = status[q]
    BY SharedComputes, UpdateOne DEF StartRotation
  <1>2. InPhase(status'[p], "RevisionPrepared") /\ status'[p].conds["RolloutProgressing"] = "absent"
    BY <1>1, SharedComputes, StartedFacts DEF AloneInv, InPhase
  <1>3. /\ canary' = canary
        /\ \A q \in Policies : alone'[q] => q = p /\ canary = NoCanary /\ \A r \in Policies \ {p} : ~Rotating(r)
    BY DEF StartRotation
  <1>4. \A q \in Policies \ {p} : Rotating(q)' = Rotating(q)
    BY <1>1 DEF Rotating
  <1>5. \A q \in Policies : status'[q].conds["RolloutProgressing"] = "absent"
    BY <1>1, <1>2 DEF AloneInv
  <1>6. QED
    BY <1>2, <1>3, <1>4, <1>5 DEF AloneInv

\* The steps of a rotation in progress, by what they do to its phase and to
\* the canary: the rotation ends, builds a canary, keeps the one it has, or
\* loses it after a probe that passed.
MovesOn(p) ==
    /\ Rotating(p) /\ alone' = alone
    /\ \A q \in Policies \ {p} : status'[q] = status[q]
    /\ status'[p].conds["RolloutProgressing"] = "absent"
    /\ status'[p].desired \in {status[p].desired, None}
    /\ \/ ~Rotating(p)'
       \/ canary' = BuildCanary(p)
       \/ canary' = canary /\ ~InPhase(status[p], "RevisionPrepared")
       \/ ProbePasses /\ ~InPhase(status[p], "RevisionPrepared")

\* Each branch of Reconcile in a phase is such a step, stopped or not.
LEMMA PhasesMoveOn ==
    ASSUME TypeOK, AloneInv, NEW p \in Policies,
           \/ ProvisionCanary(p) \/ BeginValidating(p) \/ ValidationFails(p) \/ promoteTargetWorkload(p)
           \/ StopWhileProvisioning(p) \/ StopAfterPatch(p) \/ StopAfterTrip(p)
    PROVE  MovesOn(p)
  <1>t. status[p] \in Policy /\ status[p].conds["RolloutProgressing"] = "absent"
    BY SharedComputes DEF AloneInv
  <1>i. \A phase \in {"RevisionPrepared", "CanaryProvisioning", "Validating"} :
           InPhase(status[p], phase) => /\ status[p].desired # None /\ ~Halted(status[p]) /\ Rotating(p)
                                        /\ determineState(status[p]) = phase
    BY DEF InPhase, determineState, Rotating
  <1>1. CASE ProvisionCanary(p)
    <2>1. /\ InPhase(status[p], "RevisionPrepared") /\ canary' = BuildCanary(p) /\ alone' = alone
          /\ status'[p] = Advanced(status[p], "RevisionPrepared", "CanaryProvisioning")
          /\ \A q \in Policies \ {p} : status'[q] = status[q]
      BY <1>1, SharedComputes, UpdateOne DEF ProvisionCanary
    <2>2. status'[p].desired = status[p].desired /\ status'[p].conds["RolloutProgressing"] = "absent"
      BY <1>t, <1>i, <2>1, AdvancedFacts, CondNames
    <2> QED BY <1>i, <2>1, <2>2 DEF MovesOn
  <1>2. CASE BeginValidating(p)
    <2>1. /\ InPhase(status[p], "CanaryProvisioning") /\ canary' = canary /\ alone' = alone
          /\ status'[p] = Advanced(status[p], "CanaryProvisioning", "Validating")
          /\ \A q \in Policies \ {p} : status'[q] = status[q]
      BY <1>2, SharedComputes, UpdateOne DEF BeginValidating
    <2>2. status'[p].desired = status[p].desired /\ status'[p].conds["RolloutProgressing"] = "absent"
      BY <1>t, <1>i, <2>1, AdvancedFacts, CondNames
    <2>3. ~InPhase(status[p], "RevisionPrepared")
      BY <2>1 DEF InPhase
    <2> QED BY <1>i, <2>1, <2>2, <2>3 DEF MovesOn
  <1>3. CASE ValidationFails(p) \/ StopAfterTrip(p)
    <2>1. /\ InPhase(status[p], "Validating") /\ alone' = alone
          /\ status'[p] = Failed(status[p], "Validating")
          /\ \A q \in Policies \ {p} : status'[q] = status[q]
          /\ canary' = canary \/ status[p].failures + 1 >= status[p].threshold
      BY <1>3, SharedComputes, UpdateOne DEF ValidationFails, StopAfterTrip, ProbeFails
    <2>2. /\ status'[p].desired = status[p].desired /\ status'[p].conds["RolloutProgressing"] = "absent"
          /\ status[p].failures + 1 >= status[p].threshold => Halted(status'[p])
      BY <1>t, <2>1, FailedFacts
    <2>3. ~InPhase(status[p], "RevisionPrepared")
      BY <2>1 DEF InPhase
    <2> QED BY <1>i, <2>1, <2>2, <2>3 DEF MovesOn, Rotating
  <1>4. CASE promoteTargetWorkload(p)
    <2>1. /\ InPhase(status[p], "Validating") /\ alone' = alone
          /\ status'[p] = Promoted(status[p], "Validating")
          /\ \A q \in Policies \ {p} : status'[q] = status[q]
      BY <1>4, SharedComputes, UpdateOne DEF promoteTargetWorkload
    <2>2. status'[p].desired = None /\ status'[p].conds["RolloutProgressing"] = "absent"
      BY <1>t, <2>1, PromotedFacts
    <2> QED BY <1>i, <2>1, <2>2 DEF MovesOn, Rotating
  <1>5. CASE StopWhileProvisioning(p)
    BY <1>5, <1>t, <1>i DEF StopWhileProvisioning, policyVars, MovesOn
  <1>6. CASE StopAfterPatch(p)
    <2>1. InPhase(status[p], "Validating") /\ ProbePasses /\ status' = status /\ alone' = alone
      BY <1>6 DEF StopAfterPatch
    <2>2. ~InPhase(status[p], "RevisionPrepared")
      BY <2>1 DEF InPhase
    <2> QED BY <2>1, <2>2, <1>t, <1>i DEF MovesOn
  <1>7. QED
    BY <1>1, <1>2, <1>3, <1>4, <1>5, <1>6

\* A probe of a canary of one's own shows one's own revision to work.
LEMMA ProbeProves ==
    ASSUME NEW p \in Policies, ProbePasses, canary # NoCanary, canary[p] = status[p].desired
    PROVE  <<p, status[p].desired>> \notin BadPairs
  BY DEF ProbePasses, Works

\* Such a step touches nobody's canary but its own, if it is alone.
LEMMA MovesKeepAlone ==
    ASSUME TypeOK, AloneInv, NEW p \in Policies, MovesOn(p)
    PROVE  AloneInv'
  <1>1. /\ \A q \in Policies \ {p} : status'[q] = status[q] /\ Rotating(q)' = Rotating(q)
        /\ Rotating(p) /\ alone' = alone
    BY DEF MovesOn, Rotating
  <1>2. ASSUME NEW q \in Policies, alone[q], Rotating(q), q # p PROVE FALSE
    BY <1>1, <1>2 DEF AloneInv
  <1>3. \A q \in Policies : status'[q].conds["RolloutProgressing"] = "absent"
    BY <1>1 DEF MovesOn, AloneInv
  <1>4. ASSUME alone[p], Rotating(p)'
        PROVE  /\ \A r \in Policies \ {p} : ~Rotating(r)'
               /\ \/ <<p, status'[p].desired>> \notin BadPairs
                  \/ canary' # NoCanary /\ canary'[p] = status'[p].desired
    <2>1. \A r \in Policies \ {p} : ~Rotating(r)
      BY <1>1, <1>4 DEF AloneInv
    <2>2. status'[p].desired = status[p].desired
      BY <1>4 DEF MovesOn, Rotating
    <2>3. CASE <<p, status[p].desired>> \notin BadPairs
      BY <1>1, <2>1, <2>2, <2>3
    <2>4. CASE canary # NoCanary /\ canary[p] = status[p].desired
      <3>1. BuildCanary(p) = canary
        BY <2>4 DEF BuildCanary
      <3>2. canary' = canary \/ ProbePasses
        BY <1>4, <3>1 DEF MovesOn
      <3> QED BY <1>1, <2>1, <2>2, <2>4, <3>2, ProbeProves
    <2>5. CASE canary = NoCanary /\ InPhase(status[p], "RevisionPrepared")
      <3>1. canary' = Rewritten(p)
        BY <1>4, <2>5 DEF MovesOn, BuildCanary
      <3> QED BY <1>1, <2>1, <2>2, <3>1, TemplateFacts
    <2> QED BY <1>1, <1>4, <2>3, <2>4, <2>5 DEF AloneInv
  <1>5. QED
    BY <1>1, <1>2, <1>3, <1>4 DEF AloneInv

\* Every step keeps AloneInv.
LEMMA AloneStep ==
    ASSUME TypeOK, AloneInv, [Next]_vars
    PROVE  AloneInv'
  <1>1. ASSUME NEW p \in Policies, Reconcile(p) \/ Stop(p), ~NothingNew(p), ~StopWhilePreparing(p)
        PROVE  AloneInv'
    BY <1>1, StartKeepsAlone, PhasesMoveOn, MovesKeepAlone DEF Reconcile, Stop
  <1>2. ASSUME UNCHANGED <<status, canary, alone>> PROVE AloneInv'
    BY <1>2 DEF AloneInv, Rotating
  <1>3. QED
    BY <1>1, <1>2 DEF Next, Environment, NothingNew, StopWhilePreparing, Rotate, SyncWorkload, SelfHeal, policyVars, vars

\* A revision with which the workload does not work is patched into it only
\* by a rotation that overlapped with another policy's or began with a canary
\* already there: one that was alone probed a canary of its own, with its own
\* revision, wherever its calls stopped.
THEOREM SharedBadOnlyWhenOverlapping == Spec => BadOnlyWhenOverlapping
  <1> DEFINE Overlapped ==
                PatchesApart =>
                  \A p \in Policies :
                    workload'[p] # workload[p] /\ <<p, workload'[p]>> \in BadPairs => ~alone[p]
  <1>1. ASSUME Init PROVE AloneInv
    BY <1>1, SharedInit, CondNames DEF AloneInv
  <1>2. TypeOK /\ AloneInv /\ [Next]_vars => Overlapped
    <2> SUFFICES ASSUME TypeOK, AloneInv, [Next]_vars, PatchesApart, NEW q \in Policies,
                        workload'[q] # workload[q], <<q, workload'[q]>> \in BadPairs, alone[q]
                 PROVE  FALSE
      OBVIOUS
    <2>1. workload'[q] # None
      BY SharedAssumption, CondNames
    <2>2. PICK p \in Policies : promoteTargetWorkload(p) \/ StopAfterPatch(p)
      BY <2>1 DEF Next, Reconcile, Stop, Environment, StartRotation, NothingNew, ProvisionCanary, BeginValidating,
                  ValidationFails, ProbeFails, StopWhilePreparing, StopWhileProvisioning, StopAfterTrip,
                  Rotate, SyncWorkload, SelfHeal, vars
    <2>3. InPhase(status[p], "Validating") /\ ProbePasses /\ PatchWorkload(p)
      BY <2>2 DEF promoteTargetWorkload, StopAfterPatch
    <2>4. q = p /\ workload'[p] = status[p].desired
      BY <2>3, PatchFacts
    <2>5. Rotating(p)
      BY <2>3 DEF InPhase, determineState, Rotating
    <2>6. ~InPhase(status[p], "RevisionPrepared")
      BY <2>3 DEF InPhase
    <2>7. canary # NoCanary /\ canary[p] = status[p].desired
      BY <2>4, <2>5, <2>6 DEF AloneInv
    <2> QED BY <2>3, <2>4, <2>7, ProbeProves
  <1>3. TypeOK /\ AloneInv /\ [Next]_vars => [Overlapped]_vars
    BY <1>2
  <1>4. QED
    BY <1>1, <1>3, AloneStep, SharedType, PTL DEF Spec, BadOnlyWhenOverlapping
=============================================================================
