-------------------------- MODULE SecretReferences --------------------------
(***************************************************************************)
(* Which references of a pod template a rotation rewrites: the volumes,    *)
(* env variables and envFrom entries that BuildCanaryFromTemplate points   *)
(* at the new revision Secret in the canary, and those that                *)
(* MutatePodTemplateSpec points at it in production.  The references are   *)
(* recognised by the names of the Secrets they mention, and those names    *)
(* were written by the rotations before.  CanaryRotation sees the outcome  *)
(* as one number, the revision production references.                      *)
(*                                                                         *)
(* A Secret name is modelled by its form, T being the workload's name and  *)
(* O the object's: "revision" T-O-rev-<revision>, "legacy" T-rev-<rev>,    *)
(* "object" O, "target" T-O, "targetSecret" T-O-secret, "defaultSecret"    *)
(* T-secret, "foreign" anything else.                                      *)
(***************************************************************************)
EXTENDS Naturals

CONSTANTS MaxRev,      \* bound: revisions the upstream writes are 1..MaxRev
          Containers,  \* containers and initContainers of the workload
          HasVaultRef  \* the policy uses spec.vaultRef rather than spec.source:
                       \* VaultRef.ObjectName is the object's name, or empty

ASSUME ReferencesAssumption ==
    /\ MaxRev \in Nat \ {0}
    /\ "app" \in Containers
    /\ HasVaultRef \in BOOLEAN

Rev == 1..MaxRev
None == 0

Name == [form : {"revision", "legacy"}, rev : Rev]
          \cup [form : {"object", "target", "targetSecret", "defaultSecret", "foreign"}]

\* A reference.  Label tells how the volume or env variable is called: as
\* TargetRef says, after the object, or otherwise.
Reference ==
    [kind : {"volume"}, label : {"bound", "object", "other"}, secret : Name]
      \cup [kind : {"env"}, label : {"bound", "other"}, key : {"object", "other", ""},
            container : Containers, secret : Name]
      \cup [kind : {"envFrom"}, container : Containers, secret : Name]

\* spec.targetRef: whether it names a volume and an env variable, and the
\* container it names, if any.
Binding == [volume : BOOLEAN, env : BOOLEAN, container : {"", "app"}]

VARIABLES
    bind,      \* spec.targetRef
    template,  \* references in production's pod template
    canary,    \* references in the canary's pod template; {} without a canary
    current,   \* status.currentRevision
    desired,   \* status.desiredRevision
    secrets    \* materialized revision Secrets

vars == <<bind, template, canary, current, desired, secrets>>

TypeOK ==
    /\ bind \in Binding
    /\ template \subseteq Reference /\ canary \subseteq Reference
    /\ current \in Rev \cup {None} /\ desired \in Rev \cup {None}
    /\ secrets \subseteq Rev

\* The API server refuses a secretKeyRef without a key.
Accepted(refs) == \A r \in refs : r.kind = "env" => r.key # ""

\* A workload that mentions one Secret, not yet one of the operator's; or one
\* an earlier release of the operator promoted, under the legacy name.
Init ==
    /\ bind \in Binding
    /\ \E r \in Reference : r.secret.form # "revision" /\ Accepted({r}) /\ template = {r}
    /\ canary = {}
    /\ current \in {None, 1} /\ desired = None /\ secrets = {}

-----------------------------------------------------------------------------
(* Recognising a reference.                                                *)

NewSecret == [form |-> "revision", rev |-> desired]

\* Names that contain the object's name only match when it is known.
NamesObject(secret, forms) == HasVaultRef /\ secret.form \in forms

\* The Secret of the current revision under its legacy name.
LegacyCurrent(secret) == current # None /\ secret = [form |-> "legacy", rev |-> current]

\* The implicit rules of MutatePodTemplateSpec, for production ...
VolumeMatches(r) ==
    \/ NamesObject(r.secret, {"revision", "object", "target", "targetSecret"})
    \/ HasVaultRef /\ r.label = "object"
    \/ r.secret.form \in {"defaultSecret", "legacy"}

\* Faulty: the names given by earlier rotations are not recognised.
EnvMatches_NoPrefix(r) == NamesObject(r.secret, {"object", "target"}) \/ r.secret.form = "legacy"

EnvMatches(r) == NamesObject(r.secret, {"revision", "object", "target"}) \/ r.secret.form = "legacy"

EnvFromMatches(r) ==
    NamesObject(r.secret, {"revision", "object", "target"}) \/ LegacyCurrent(r.secret)

Matches(r) ==
    \/ r.kind = "volume" /\ VolumeMatches(r)
    \/ r.kind = "env" /\ EnvMatches(r)
    \/ r.kind = "envFrom" /\ EnvFromMatches(r)

\* ... and their copy in BuildCanaryFromTemplate, where an env variable's key
\* alone is enough and its legacy name must be the current revision's.
CanaryVolumeMatches(r) ==
    \/ NamesObject(r.secret, {"revision", "object", "target", "targetSecret"})
    \/ HasVaultRef /\ r.label = "object"
    \/ r.secret.form \in {"defaultSecret", "legacy"}

CanaryEnvMatches(r) ==
    \/ NamesObject(r.secret, {"revision", "object", "target"})
    \/ HasVaultRef /\ r.key = "object"
    \/ LegacyCurrent(r.secret)

\* Faulty: the canary is built without the object's own name.
CanaryEnvFromMatches_NoObject(r) ==
    NamesObject(r.secret, {"revision", "target"}) \/ LegacyCurrent(r.secret)

CanaryEnvFromMatches(r) ==
    NamesObject(r.secret, {"revision", "object", "target"}) \/ LegacyCurrent(r.secret)

CanaryMatches(r) ==
    \/ r.kind = "volume" /\ CanaryVolumeMatches(r)
    \/ r.kind = "env" /\ CanaryEnvMatches(r)
    \/ r.kind = "envFrom" /\ CanaryEnvFromMatches(r)

InScope(container) == bind.container \in {"", container}

\* TargetRef decides alone when it names a volume or an env variable.
Rewrites(r, matches) ==
    \/ r.kind = "volume" /\ IF bind.volume THEN r.label = "bound" ELSE ~bind.env /\ matches
    \/ r.kind = "env" /\ InScope(r.container) /\ IF bind.env THEN r.label = "bound" ELSE matches
    \/ r.kind = "envFrom" /\ InScope(r.container) /\ ~bind.env /\ matches

\* The key an env variable named by TargetRef gets: VaultRef.ObjectName.
BoundKey == IF HasVaultRef THEN "object" ELSE ""

Rewritten(r) ==
    IF r.kind = "env" /\ bind.env THEN [r EXCEPT !.secret = NewSecret, !.key = BoundKey]
                                  ELSE [r EXCEPT !.secret = NewSecret]

\* The env variable TargetRef names is added to the containers without it.
Added(refs) ==
    {[kind |-> "env", label |-> "bound", key |-> BoundKey, container |-> c, secret |-> NewSecret] :
       c \in {c \in Containers : /\ bind.env /\ InScope(c)
                                 /\ ~\E r \in refs : r.kind = "env" /\ r.label = "bound" /\ r.container = c}}

BuildCanaryFromTemplate(refs) ==
    {IF Rewrites(r, CanaryMatches(r)) THEN Rewritten(r) ELSE r : r \in refs} \cup Added(refs)

MutatePodTemplateSpec(refs) ==
    {IF Rewrites(r, Matches(r)) THEN Rewritten(r) ELSE r : r \in refs} \cup Added(refs)

-----------------------------------------------------------------------------
(* A rotation.                                                             *)

\* A new revision, while idle or after the breaker tripped on another.
StartRotation ==
    /\ canary = {}
    /\ \E r \in Rev : /\ r > current /\ r > desired
                      /\ desired' = r /\ secrets' = secrets \cup {r}
    /\ UNCHANGED <<bind, template, canary, current>>

\* Faulty: a canary is built although no revision is desired.
ProvisionCanary_Idle ==
    /\ canary = {}
    /\ canary' = BuildCanaryFromTemplate(template)
    /\ Accepted(canary')
    /\ UNCHANGED <<bind, template, current, desired, secrets>>

ProvisionCanary ==
    /\ desired # None /\ canary = {}
    /\ canary' = BuildCanaryFromTemplate(template)
    /\ Accepted(canary')
    /\ UNCHANGED <<bind, template, current, desired, secrets>>

\* Validation failed for good: the canary is deleted.  What follows when it is
\* left behind is in CanaryRotation.
Trip ==
    /\ canary # {}
    /\ canary' = {}
    /\ UNCHANGED <<bind, template, current, desired, secrets>>

\* Production is patched, old revisions are collected, the status is written.
promoteTargetWorkload ==
    /\ canary # {}
    /\ template' = MutatePodTemplateSpec(template)
    /\ secrets' = secrets \cap {desired, current}
    /\ canary' = {}
    /\ current' = desired /\ desired' = None
    /\ UNCHANGED bind

\* The same, stopped before the status is written.
StopWhilePromoting ==
    /\ canary # {}
    /\ template' = MutatePodTemplateSpec(template)
    /\ secrets' \in {secrets, secrets \cap {desired, current}}
    /\ UNCHANGED <<bind, canary, current, desired>>

Next == StartRotation \/ ProvisionCanary \/ Trip \/ promoteTargetWorkload \/ StopWhilePromoting

Spec == Init /\ [][Next]_vars

-----------------------------------------------------------------------------
(* Properties.                                                             *)

\* Once a reference follows the policy it follows it for good: every name
\* MutatePodTemplateSpec wrote is recognised by the next rotation, so between
\* rotations all of them name the current revision.
FollowersAreCurrent ==
    desired = None => \A r \in template : r.secret.form = "revision" => r.secret.rev = current

\* No reference of production's dangles: the revision it names has not been
\* collected by gcOldSecretRevisions.
ReferencesExist == \A r \in template : r.secret.form = "revision" => r.secret.rev \in secrets

\* How far a promoted template may be from the canary's: an env variable the
\* policy finds by itself, which the canary takes for its key alone while
\* production keeps the Secret it names; or one under the legacy name of
\* another than the current revision, which only production takes.
AsShown(shown, promoted) ==
    /\ \A r \in (shown \ promoted) \cup (promoted \ shown) : r.kind = "env" /\ ~bind.env
    /\ \A r \in shown \ promoted :
          \/ r.key = "object" /\ r.secret = NewSecret
          \/ r.secret.form = "legacy" /\ ~LegacyCurrent(r.secret)
    /\ \A r \in promoted \ shown :
          \/ r.key = "object" /\ r.secret.form \in {"targetSecret", "defaultSecret", "foreign"}
          \/ r.secret = NewSecret

\* What a rotation leaves in production is what its canary showed, even if the
\* promotion was stopped and repeated: up to AsShown, the two copies of the
\* rules rewrite the same references, so that the probes' verdict is about the
\* template that is promoted.
CanaryShowsPromotion == [][current' # current => AsShown(canary, template')]_vars
=============================================================================
