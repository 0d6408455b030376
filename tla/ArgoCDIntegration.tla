------------------------- MODULE ArgoCDIntegration -------------------------
(***************************************************************************)
(* ReconcileArgoCDIgnoreDifferences: before the operator patches a         *)
(* workload that Argo CD manages, it tells the parent Application to       *)
(* ignore the references the patch will change, so that self-heal does not *)
(* put Git's back.  Argo CD itself is external; of its diffing the module  *)
(* keeps which references the rules hide.                                  *)
(***************************************************************************)

\* The places of a pod template in which MutatePodTemplateSpec rewrites names.
RefKinds == {"volume", "env", "envFrom", "initContainer"}

Application ==
    [tracked  : BOOLEAN,                      \* auto-patch is on, the workload names its
                                              \* Application and the Application is found
     prefixed : BOOLEAN,                      \* "<application>-" begins every Secret name
                                              \* "<target>-<object>-rev-<hash>"
     rule     : {"none", "kind", "resource"}, \* first ignoreDifferences item for the workload's
                                              \* group and kind: none, for every such
                                              \* resource, for one other resource by name
     hides    : SUBSET RefKinds]              \* references that item selects

\* The two JQ expressions.
requiredJQ == {"volume", "env"}

\* The first item for the group and kind is extended, whichever resource it is
\* for; without one a new item is appended.
ensureIgnoreDifferences(app) ==
    [app EXCEPT !.rule  = IF @ = "none" THEN "kind" ELSE @,
                !.hides = @ \cup requiredJQ]

\* An Application that is not tracked, or cannot be read, is skipped without
\* an error.  A conflicting Update is read and tried again; any other outcome
\* is an error, which the caller logs before it patches the workload.
ReconcileArgoCDIgnoreDifferences(app, fails) ==
    IF app.tracked /\ ~fails THEN ensureIgnoreDifferences(app) ELSE app

\* External: the diff of a changed reference is hidden.
Hidden(app, refKind) == app.rule = "kind" /\ app.prefixed /\ refKind \in app.hides
=============================================================================
