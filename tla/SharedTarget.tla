---------------------------- MODULE SharedTarget ----------------------------
(***************************************************************************)
(* Several policies, each for a secret of its own, target one workload, as *)
(* a service with a database password and a certificate needs.  Reconciles *)
(* of one policy are serialized, those of different policies are not.      *)
(* They meet in three places: the canary, whose name depends on the target *)
(* only; the production pod template, which each promotion patches with a  *)
(* merge patch computed from a cached copy; and Argo CD, which watches the *)
(* same template.                                                          *)
(*                                                                         *)
(* What a single policy does is CanaryRotation's matter: here its reads of *)
(* its own status, of the canary and of the pods are current, its status   *)
(* patches succeed and cleanup works, so the branch TripOnEntry, which     *)
(* needs a lost patch or an edited threshold, is not reachable.            *)
(***************************************************************************)
EXTENDS PolicyStatus, ArgoCDIntegration

CONSTANTS Policies,      \* the policies with this target
          RefKind,       \* where the template references each policy's secret
          BadPairs,      \* <<policy, revision>>: the workload does not work with it
          Applications,  \* states the parent Application may be in at first
          Disturb        \* what may happen besides

ASSUME SharedAssumption ==
    /\ RefKind \in [Policies -> RefKinds]
    /\ BadPairs \subseteq Policies \X Rev
    /\ Applications \subseteq Application
    /\ Disturb \subseteq {"crash", "workloadLag", "selfHeal", "argoUpdate"}

\* What a pod template references: a revision of each policy's secret, or
\* None, the Secret the manifest in Git names.
Template == [Policies -> Rev \cup {None}]
NoCanary == [p \in {} |-> None]

VARIABLES
    status,        \* status of each policy
    upstream,      \* revision each provider serves
    secrets,       \* revision Secrets of each policy
    canary,        \* template of the <target>-canary Deployment
    workload,      \* production's pod template
    workloadSeen,  \* the same in the informer's cache
    app,           \* the parent Application
    alone          \* history: this policy's rotation found no canary and no
                   \* other rotation, and none has begun since

policyVars == <<status, upstream, secrets>>
vars == <<policyVars, canary, workload, workloadSeen, app, alone>>

TypeOK ==
    /\ status \in [Policies -> Policy]
    /\ upstream \in [Policies -> Rev]
    /\ secrets \in [Policies -> SUBSET Rev]
    /\ canary \in Template \cup {NoCanary}
    /\ workload \in Template /\ workloadSeen \in Template
    /\ app \in Application
    /\ alone \in [Policies -> BOOLEAN]

Init ==
    /\ \E t \in 1..MaxThreshold : status = [p \in Policies |-> NewPolicy(t)]
    /\ upstream = [p \in Policies |-> 1]
    /\ secrets = [p \in Policies |-> {}]
    /\ canary = NoCanary
    /\ workload = [p \in Policies |-> None]
    /\ workloadSeen = workload
    /\ app \in Applications
    /\ alone = [p \in Policies |-> FALSE]

-----------------------------------------------------------------------------
(* What the branches of Reconcile share.                                   *)

updateStatus(p, new) == status' = [status EXCEPT ![p] = new]

Rotating(p) == status[p].desired # None /\ ~Halted(status[p])

\* The workload works with the revisions a template mounts.
Works(template) == \A p \in Policies : <<p, template[p]>> \notin BadPairs

\* The cached copy is current, unless it may lag.
WorkloadRead == "workloadLag" \notin Disturb => workloadSeen = workload

\* The cached template with the references of one policy rewritten.
Rewritten(p) == [workloadSeen EXCEPT ![p] = status[p].desired]

\* Faulty: the canary gets the new Secret only.
BuildCanary_Alone(p) == [q \in {p} |-> status[p].desired]

\* Create of <target>-canary: whoever's it is, one that exists is kept.
BuildCanary(p) == IF canary = NoCanary THEN Rewritten(p) ELSE canary

\* The HTTP probe of the workload goes to the canary when there is one.
ProbePasses == IF canary = NoCanary THEN Works(workload) ELSE Works(canary)

\* The list of the pod template a reference is in.
ListOf(p) == CASE RefKind[p] = "volume"        -> "volumes"
               [] RefKind[p] = "initContainer" -> "initContainers"
               [] OTHER                        -> "containers"

\* Faulty: the whole cached template is sent, not the lists that changed.
PatchWorkload_SendsAll(p) ==
    /\ WorkloadRead
    /\ workload' = IF workloadSeen[p] = status[p].desired THEN workload ELSE Rewritten(p)

\* client.MergeFrom(cached copy): a JSON merge patch carries each list that
\* changed, whole, and with it the cached references of other policies in the
\* same list; nothing when the cached copy has the desired revision already.
PatchWorkload(p) ==
    /\ WorkloadRead
    /\ workload' = [q \in Policies |->
                       IF workloadSeen[p] # status[p].desired /\ ListOf(q) = ListOf(p)
                       THEN Rewritten(p)[q] ELSE workload[q]]

\* Faulty: the revisions of all policies are compared with this one's.
gcOldSecretRevisions_AllPolicies(p) ==
    secrets' = [q \in Policies |-> secrets[q] \cap {status[p].desired, status[p].current}]

\* The list is restricted to this policy's Secrets by label.
gcOldSecretRevisions(p) ==
    secrets' = [secrets EXCEPT ![p] = @ \cap {status[p].desired, status[p].current}]

PrepareArgoCD ==
    \E fails \in {FALSE, "argoUpdate" \in Disturb} :
        app' = ReconcileArgoCDIgnoreDifferences(app, fails)

-----------------------------------------------------------------------------
(* Reconcile of one policy.                                                *)

StartRotation(p) ==
    /\ ChecksUpstream(status[p])
    /\ upstream[p] \notin {status[p].current, status[p].desired}
    /\ secrets' = [secrets EXCEPT ![p] = @ \cup {upstream[p]}]
    /\ updateStatus(p, Started(status[p], upstream[p]))
    /\ alone' = [q \in Policies |->
                    q = p /\ canary = NoCanary /\ \A r \in Policies \ {p} : ~Rotating(r)]
    /\ UNCHANGED <<upstream, canary, workload, workloadSeen, app>>

NothingNew(p) ==
    /\ ChecksUpstream(status[p])
    /\ upstream[p] \in {status[p].current, status[p].desired}
    /\ secrets' = [secrets EXCEPT ![p] = @ \cup {upstream[p]}]
    /\ UNCHANGED <<status, upstream, canary, workload, workloadSeen, app, alone>>

ProvisionCanary(p) ==
    /\ InPhase(status[p], "RevisionPrepared")
    /\ WorkloadRead
    /\ canary' = BuildCanary(p)
    /\ updateStatus(p, Advanced(status[p], "RevisionPrepared", "CanaryProvisioning"))
    /\ UNCHANGED <<upstream, secrets, workload, workloadSeen, app, alone>>

BeginValidating(p) ==
    /\ InPhase(status[p], "CanaryProvisioning")
    /\ updateStatus(p, Advanced(status[p], "CanaryProvisioning", "Validating"))
    /\ UNCHANGED <<upstream, secrets, canary, workload, workloadSeen, app, alone>>

\* A probe fails; the patch that may trip the breaker comes first.
ProbeFails(p) ==
    /\ InPhase(status[p], "Validating")
    /\ updateStatus(p, Failed(status[p], "Validating"))
    /\ UNCHANGED <<upstream, secrets, workload, workloadSeen, app, alone>>

\* Faulty: the canary is removed by every failure, not by the last one.
ValidationFails_AlwaysCleans(p) == ProbeFails(p) /\ canary' = NoCanary

\* The last failure removes the canary.
ValidationFails(p) ==
    /\ ProbeFails(p)
    /\ canary' = IF status[p].failures + 1 >= status[p].threshold THEN NoCanary ELSE canary

\* Argo CD first, then the patch, the collection, the cleanup and the status.
promoteTargetWorkload(p) ==
    /\ InPhase(status[p], "Validating")
    /\ ProbePasses
    /\ PrepareArgoCD
    /\ PatchWorkload(p)
    /\ gcOldSecretRevisions(p)
    /\ canary' = NoCanary
    /\ updateStatus(p, Promoted(status[p], "Validating"))
    /\ UNCHANGED <<upstream, workloadSeen, alone>>

Reconcile(p) ==
    \/ StartRotation(p) \/ NothingNew(p)
    \/ ProvisionCanary(p) \/ BeginValidating(p)
    \/ ValidationFails(p) \/ promoteTargetWorkload(p)

-----------------------------------------------------------------------------
(* A reconcile that stops half way.                                        *)

\* The revision's Secret exists, the status does not name it.
StopWhilePreparing(p) ==
    /\ ChecksUpstream(status[p])
    /\ secrets' = [secrets EXCEPT ![p] = @ \cup {upstream[p]}]
    /\ UNCHANGED <<status, upstream, canary, workload, workloadSeen, app, alone>>

\* The canary exists, the phase is still RevisionPrepared.
StopWhileProvisioning(p) ==
    /\ InPhase(status[p], "RevisionPrepared")
    /\ WorkloadRead
    /\ canary' = BuildCanary(p)
    /\ UNCHANGED <<policyVars, workload, workloadSeen, app, alone>>

\* Production is patched; collection and cleanup happened, or not.
StopAfterPatch(p) ==
    /\ InPhase(status[p], "Validating")
    /\ ProbePasses
    /\ PrepareArgoCD
    /\ PatchWorkload(p)
    /\ \/ UNCHANGED <<secrets, canary>>
       \/ gcOldSecretRevisions(p) /\ canary' \in {canary, NoCanary}
    /\ UNCHANGED <<status, upstream, workloadSeen, alone>>

\* The breaker is tripped and the canary stays: no later reconcile removes it
\* before it is adopted.
StopAfterTrip(p) ==
    /\ ProbeFails(p)
    /\ status[p].failures + 1 >= status[p].threshold
    /\ UNCHANGED canary

Stop(p) ==
    /\ "crash" \in Disturb
    /\ StopWhilePreparing(p) \/ StopWhileProvisioning(p) \/ StopAfterPatch(p) \/ StopAfterTrip(p)

-----------------------------------------------------------------------------
(* The world around the reconciler.                                        *)

Rotate(p) ==
    /\ upstream[p] < MaxRev
    /\ upstream' = [upstream EXCEPT ![p] = @ + 1]
    /\ UNCHANGED <<status, secrets, canary, workload, workloadSeen, app, alone>>

\* The workload informer catches up.
SyncWorkload ==
    /\ workloadSeen' = workload
    /\ UNCHANGED <<policyVars, canary, workload, app, alone>>

\* Argo CD finds a difference it is not told to ignore and syncs: the
\* template is Git's again.
SelfHeal ==
    /\ "selfHeal" \in Disturb
    /\ \E p \in Policies : workload[p] # None /\ ~Hidden(app, RefKind[p])
    /\ workload' = [p \in Policies |-> None]
    /\ UNCHANGED <<policyVars, canary, workloadSeen, app, alone>>

Environment == (\E p \in Policies : Rotate(p)) \/ SyncWorkload \/ SelfHeal

Next == (\E p \in Policies : Reconcile(p) \/ Stop(p)) \/ Environment

\* Each policy has its own key in the workqueue: one that keeps failing does
\* not keep another from its turn; the informer delivers.
Fairness ==
    /\ \A p \in Policies : WF_vars(Reconcile(p))
    /\ WF_vars(SyncWorkload)

Spec == Init /\ [][Next]_vars

FairSpec == Spec /\ Fairness

-----------------------------------------------------------------------------
(* Properties.                                                             *)

\* Merge patches of different policies cannot carry each other's references.
Separate == \A p, q \in Policies : p # q => ListOf(p) # ListOf(q)

\* Promotions read the latest template, or change different lists of it.
PatchesApart == "workloadLag" \notin Disturb \/ Separate

\* No Secret that production mounts is missing: no policy's collection removes
\* another's, and no patch brings back a reference to one already collected.
ReferencedSecretsExist ==
    PatchesApart => \A p \in Policies : workload[p] \in secrets[p] \cup {None}

\* The Application can be made to hide every reference the operator rewrites.
Coverable ==
    /\ app.tracked /\ app.prefixed /\ app.rule # "resource"
    /\ \A p \in Policies : RefKind[p] \in requiredJQ \cup app.hides

\* Argo CD is off, or is told to leave the references alone.
LeftAlone == "selfHeal" \notin Disturb \/ ("argoUpdate" \notin Disturb /\ Coverable)

\* Between its rotations each policy's status names what production mounts
\* for it, whatever the other policies promote.
EachCurrentIsServed ==
    LeftAlone /\ PatchesApart =>
        \A p \in Policies : status[p].desired = None => workload[p] = status[p].current

\* A revision that does not work reaches production only when the rotation
\* that promoted it shared its canary: another policy's rotation of the same
\* workload overlapped with it, or it began with a canary already there,
\* which an earlier rotation left when it stopped after the breaker tripped.
BadOnlyWhenOverlapping ==
    [][PatchesApart =>
         \A p \in Policies :
           workload'[p] # workload[p] /\ <<p, workload'[p]>> \in BadPairs => ~alone[p]]_vars

\* Policies that share a workload do not keep each other from coming to rest.
AllSettle ==
    <>[](\A p \in Policies :
            \/ status[p].desired = None /\ status[p].current = upstream[p]
            \/ Halted(status[p]) /\ status[p].desired = upstream[p])
=============================================================================
