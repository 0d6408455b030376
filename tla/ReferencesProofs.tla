-------------------------- MODULE ReferencesProofs --------------------------
(***************************************************************************)
(* Theorems about SecretReferences, for every number of revisions and any  *)
(* set of containers.                                                      *)
(***************************************************************************)
EXTENDS SecretReferences, TLAPS

USE ReferencesAssumption DEF Rev, None

-----------------------------------------------------------------------------
(* Rewriting one reference.                                                *)

\* What MutatePodTemplateSpec makes of one reference.
Mutated(r) == IF Rewrites(r, Matches(r)) THEN Rewritten(r) ELSE r

\* What BuildCanaryFromTemplate makes of one reference.
Shown(r) == IF Rewrites(r, CanaryMatches(r)) THEN Rewritten(r) ELSE r

\* The containers that have no env variable of the name TargetRef gives.
Lacking(refs) ==
    {c \in Containers : /\ bind.env /\ InScope(c)
                        /\ ~\E r \in refs : r.kind = "env" /\ r.label = "bound" /\ r.container = c}

\* The env variable that is added to a container.
BoundEnv(c) ==
    [kind |-> "env", label |-> "bound", key |-> BoundKey, container |-> c, secret |-> NewSecret]

\* MutatePodTemplateSpec and BuildCanaryFromTemplate in these terms.
LEMMA MutateByReference ==
    ASSUME NEW refs
    PROVE  /\ MutatePodTemplateSpec(refs) = {Mutated(r) : r \in refs} \cup {BoundEnv(c) : c \in Lacking(refs)}
           /\ BuildCanaryFromTemplate(refs) = {Shown(r) : r \in refs} \cup {BoundEnv(c) : c \in Lacking(refs)}
BY Zenon DEF MutatePodTemplateSpec, BuildCanaryFromTemplate, Added, Mutated, Shown, Lacking, BoundEnv

\* A rewrite touches the Secret's name and the key, nothing else: the
\* reference stays where it is and is called what it was called.
LEMMA RewrittenFacts ==
    ASSUME NEW r \in Reference, bind \in Binding, desired \in Rev
    PROVE  /\ Rewritten(r) \in Reference
           /\ Rewritten(r).kind = r.kind
           /\ Rewritten(r).secret = NewSecret
           /\ r.kind \in {"volume", "env"} => Rewritten(r).label = r.label
           /\ r.kind \in {"env", "envFrom"} => Rewritten(r).container = r.container
           /\ Rewritten(Rewritten(r)) = Rewritten(r)
<1> DEFINE Volume == [kind : {"volume"}, label : {"bound", "object", "other"}, secret : Name]
           Env == [kind : {"env"}, label : {"bound", "other"}, key : {"object", "other", ""},
                   container : Containers, secret : Name]
           EnvFrom == [kind : {"envFrom"}, container : Containers, secret : Name]
<1>1. NewSecret \in Name
  BY DEF NewSecret, Name
<1>2. BoundKey \in {"object", ""}
  BY DEF BoundKey
<1> HIDE DEF NewSecret
<1>3. CASE r \in Volume
  <2>1. Rewritten(r) = [kind |-> r.kind, label |-> r.label, secret |-> NewSecret]
    BY <1>3 DEF Rewritten
  <2>2. Rewritten(r) \in Volume
    BY <1>3, <1>1, <2>1
  <2>3. Rewritten(Rewritten(r)) = [kind |-> r.kind, label |-> r.label, secret |-> NewSecret]
    BY <2>1, <1>3 DEF Rewritten
  <2>4. Rewritten(r) \in Reference
    BY <2>2 DEF Reference
  <2>5. r.kind = "volume"
    BY <1>3
  <2> QED BY <2>1, <2>3, <2>4, <2>5
<1>4. CASE r \in Env
  <2> DEFINE key == IF bind.env THEN BoundKey ELSE r.key
             s == [kind |-> "env", label |-> r.label, key |-> key, container |-> r.container,
                   secret |-> NewSecret]
  <2>0. bind.env \in BOOLEAN
    BY DEF Binding
  <2>1. r = [kind |-> "env", label |-> r.label, key |-> r.key, container |-> r.container,
             secret |-> r.secret]
    BY <1>4
  <2>2. /\ r.label \in {"bound", "other"} /\ r.key \in {"object", "other", ""}
        /\ r.container \in Containers
    BY <1>4
  <2>3. key \in {"object", "other", ""}
    BY <2>0, <2>2, <1>2
  <2>4. r.kind = "env"
    BY <2>1
  <2>5. Rewritten(r) = s
    <3>1. CASE bind.env
      <4>1. Rewritten(r) = [r EXCEPT !.secret = NewSecret, !.key = key]
        BY <3>1, <2>4 DEF Rewritten
      <4> HIDE DEF key
      <4> DEFINE t == [r EXCEPT !.secret = NewSecret]
      <4>2. Rewritten(r) = [t EXCEPT !.key = key]
        BY <4>1
      <4>3. t = [kind |-> "env", label |-> r.label, key |-> r.key, container |-> r.container,
                 secret |-> NewSecret]
        BY <2>1
      <4> HIDE DEF t
      <4>4. [t EXCEPT !.key = key] = s
        BY <4>3
      <4> QED BY <4>2, <4>4
    <3>2. CASE ~bind.env
      <4>1. Rewritten(r) = [r EXCEPT !.secret = NewSecret] /\ key = r.key
        BY <3>2 DEF Rewritten
      <4> HIDE DEF key
      <4> QED BY <4>1, <2>1
    <3> QED BY <3>1, <3>2
  <2>6. Rewritten(s) = s
    <3>0. s.kind = "env"
      OBVIOUS
    <3>1. CASE bind.env
      <4>1. Rewritten(s) = [s EXCEPT !.secret = NewSecret, !.key = key]
        BY <3>0, <3>1 DEF Rewritten
      <4> HIDE DEF key
      <4> QED BY <4>1
    <3>2. CASE ~bind.env
      <4>1. Rewritten(s) = [s EXCEPT !.secret = NewSecret]
        BY <3>2 DEF Rewritten
      <4> HIDE DEF key
      <4> QED BY <4>1
    <3> QED BY <3>1, <3>2
  <2> HIDE DEF key
  <2>7. s \in Reference
    BY <1>1, <2>2, <2>3 DEF Reference
  <2> QED BY <2>4, <2>5, <2>6, <2>7
<1>5. CASE r \in EnvFrom
  <2>0. r.kind = "envFrom" /\ r = [kind |-> r.kind, container |-> r.container, secret |-> r.secret]
    BY <1>5
  <2>1. Rewritten(r) = [kind |-> r.kind, container |-> r.container, secret |-> NewSecret]
    BY <2>0 DEF Rewritten
  <2>2. Rewritten(r) \in EnvFrom
    BY <1>5, <1>1, <2>1
  <2>3. Rewritten(Rewritten(r)) = [kind |-> r.kind, container |-> r.container, secret |-> NewSecret]
    BY <2>1, <1>5 DEF Rewritten
  <2>4. Rewritten(r) \in Reference
    BY <2>2 DEF Reference
  <2> QED BY <2>0, <2>1, <2>3, <2>4
<1> QED BY <1>3, <1>4, <1>5 DEF Reference

\* The env variable TargetRef names, where it is added.
LEMMA BoundEnvFacts ==
    ASSUME NEW c \in Containers, bind \in Binding, desired \in Rev
    PROVE  /\ BoundEnv(c) \in Reference
           /\ BoundEnv(c).kind = "env" /\ BoundEnv(c).label = "bound" /\ BoundEnv(c).container = c
           /\ BoundEnv(c).secret = NewSecret
           /\ bind.env => Rewritten(BoundEnv(c)) = BoundEnv(c)
<1>1. NewSecret \in Name
  BY DEF NewSecret, Name
<1>2. BoundKey \in {"object", ""}
  BY DEF BoundKey
<1>3. BoundEnv(c) \in Reference
  BY <1>1, <1>2 DEF BoundEnv, Reference
<1>4. bind.env => Rewritten(BoundEnv(c)) = BoundEnv(c)
  BY DEF BoundEnv, Rewritten
<1> QED BY <1>3, <1>4 DEF BoundEnv

\* A reference after a promotion: where it was, and settled.
LEMMA MutatedFacts ==
    ASSUME NEW r \in Reference, bind \in Binding, desired \in Rev
    PROVE  /\ Mutated(r) \in Reference
           /\ Mutated(r).kind = r.kind
           /\ r.kind \in {"volume", "env"} => Mutated(r).label = r.label
           /\ r.kind \in {"env", "envFrom"} => Mutated(r).container = r.container
           /\ Mutated(Mutated(r)) = Mutated(r)
<1>1. CASE Rewrites(r, Matches(r))
  <2>1. Mutated(r) = Rewritten(r)
    BY <1>1 DEF Mutated
  <2>2. Mutated(Rewritten(r)) \in {Rewritten(r), Rewritten(Rewritten(r))}
    BY DEF Mutated
  <2> QED BY <2>1, <2>2, RewrittenFacts
<1>2. CASE ~Rewrites(r, Matches(r))
  <2>1. Mutated(r) = r
    BY <1>2 DEF Mutated
  <2> QED BY <2>1
<1> QED BY <1>1, <1>2

\* A pod template stays one.
LEMMA PromotedType ==
    ASSUME NEW refs \in SUBSET Reference, bind \in Binding, desired \in Rev
    PROVE  MutatePodTemplateSpec(refs) \subseteq Reference /\ BuildCanaryFromTemplate(refs) \subseteq Reference
<1>1. \A c \in Lacking(refs) : c \in Containers
  BY DEF Lacking
<1>2. \A c \in Lacking(refs) : BoundEnv(c) \in Reference
  BY <1>1, BoundEnvFacts
<1>3. \A r \in refs : Mutated(r) \in Reference /\ Shown(r) \in Reference
  BY RewrittenFacts, MutatedFacts DEF Shown
<1> QED BY <1>2, <1>3, MutateByReference

\* Patching production a second time, as the reconcile after a stop does,
\* changes nothing.
LEMMA PromotionIdempotent ==
    ASSUME NEW refs \in SUBSET Reference, bind \in Binding, desired \in Rev
    PROVE  MutatePodTemplateSpec(MutatePodTemplateSpec(refs)) = MutatePodTemplateSpec(refs)
<1> DEFINE once == MutatePodTemplateSpec(refs)
<1>1. once = {Mutated(r) : r \in refs} \cup {BoundEnv(c) : c \in Lacking(refs)}
  BY MutateByReference
<1>2. MutatePodTemplateSpec(once) = {Mutated(r) : r \in once} \cup {BoundEnv(c) : c \in Lacking(once)}
  BY MutateByReference
<1> HIDE DEF once
<1>3. Lacking(once) = {}
  <2> SUFFICES ASSUME NEW c \in Lacking(once) PROVE FALSE
    OBVIOUS
  <2>1. /\ c \in Containers /\ bind.env /\ InScope(c)
        /\ ~\E r \in once : r.kind = "env" /\ r.label = "bound" /\ r.container = c
    BY DEF Lacking
  <2>2. CASE c \in Lacking(refs)
    BY <2>1, <2>2, <1>1, BoundEnvFacts
  <2>3. CASE c \notin Lacking(refs)
    <3>1. PICK r \in refs : r.kind = "env" /\ r.label = "bound" /\ r.container = c
      BY <2>1, <2>3 DEF Lacking
    <3>2. Mutated(r) \in once
      BY <1>1
    <3> QED BY <2>1, <3>1, <3>2, MutatedFacts
  <2> QED BY <2>2, <2>3
<1>4. \A r \in once : Mutated(r) = r
  <2> SUFFICES ASSUME NEW r \in once PROVE Mutated(r) = r
    OBVIOUS
  <2>1. CASE \E q \in refs : r = Mutated(q)
    BY <2>1, MutatedFacts
  <2>2. CASE \E c \in Lacking(refs) : r = BoundEnv(c)
    <3>1. PICK c \in Lacking(refs) : r = BoundEnv(c)
      BY <2>2
    <3>2. c \in Containers /\ bind.env
      BY DEF Lacking
    <3>3. Rewritten(r) = r
      BY <3>1, <3>2, BoundEnvFacts
    <3> QED BY <3>3 DEF Mutated
  <2> QED BY <1>1, <2>1, <2>2
<1> QED BY <1>2, <1>3, <1>4 DEF once

\* The one kind of reference the two copies of the rules treat differently.
LEMMA ShownAsMutated ==
    ASSUME NEW r \in Reference, bind \in Binding, desired \in Rev, Shown(r) # Mutated(r)
    PROVE  /\ r.kind = "env" /\ ~bind.env
           /\ \/ /\ r.key = "object" /\ r.secret.form \in {"targetSecret", "defaultSecret", "foreign"}
                 /\ Shown(r) = Rewritten(r) /\ Mutated(r) = r
              \/ /\ r.secret.form = "legacy" /\ ~LegacyCurrent(r.secret)
                 /\ Shown(r) = r /\ Mutated(r) = Rewritten(r)
<1>1. bind.env \in BOOLEAN /\ bind.volume \in BOOLEAN
  BY DEF Binding
<1>2. CASE Rewrites(r, CanaryMatches(r)) <=> Rewrites(r, Matches(r))
  BY <1>2 DEF Shown, Mutated
<1>3. CASE ~(Rewrites(r, CanaryMatches(r)) <=> Rewrites(r, Matches(r)))
  <2>1. r.kind \in {"volume", "env", "envFrom"}
    BY DEF Reference
  <2>2. /\ r.kind = "volume" => (CanaryMatches(r) <=> Matches(r))
        /\ r.kind = "envFrom" => (CanaryMatches(r) <=> Matches(r))
    BY DEF CanaryMatches, Matches, CanaryVolumeMatches, VolumeMatches, CanaryEnvFromMatches, EnvFromMatches
  <2>3. /\ r.kind = "env" /\ InScope(r.container) /\ ~bind.env
        /\ ~(CanaryMatches(r) <=> Matches(r))
    BY <1>1, <1>3, <2>1, <2>2 DEF Rewrites
  <2>4. ~(CanaryEnvMatches(r) <=> EnvMatches(r))
    BY <2>3 DEF CanaryMatches, Matches
  <2>5. r.secret \in Name
    BY DEF Reference
  <2>6. r.secret.form \in {"revision", "legacy", "object", "target", "targetSecret", "defaultSecret", "foreign"}
    BY <2>5 DEF Name
  <2>7. LegacyCurrent(r.secret) => r.secret.form = "legacy"
    BY DEF LegacyCurrent
  <2>8. CASE CanaryEnvMatches(r)
    <3>1. r.key = "object" /\ r.secret.form \in {"targetSecret", "defaultSecret", "foreign"}
      BY <2>4, <2>6, <2>7, <2>8 DEF CanaryEnvMatches, EnvMatches, NamesObject
    <3>2. Rewrites(r, CanaryMatches(r)) /\ ~Rewrites(r, Matches(r))
      BY <2>3, <2>4, <2>8 DEF Rewrites, CanaryMatches, Matches
    <3> QED BY <2>3, <3>1, <3>2 DEF Shown, Mutated
  <2>9. CASE ~CanaryEnvMatches(r)
    <3>1. r.secret.form = "legacy" /\ ~LegacyCurrent(r.secret)
      BY <2>4, <2>9 DEF CanaryEnvMatches, EnvMatches, NamesObject
    <3>2. ~Rewrites(r, CanaryMatches(r)) /\ Rewrites(r, Matches(r))
      BY <2>3, <2>4, <2>9 DEF Rewrites, CanaryMatches, Matches
    <3> QED BY <2>3, <3>1, <3>2 DEF Shown, Mutated
  <2> QED BY <2>8, <2>9
<1> QED BY <1>2, <1>3

\* A rewritten env variable that TargetRef does not name keeps its key.
LEMMA ImplicitKey ==
    ASSUME NEW r \in Reference, r.kind = "env", ~bind.env
    PROVE  Rewritten(r).key = r.key
<1>1. Rewritten(r) = [r EXCEPT !.secret = NewSecret]
  BY DEF Rewritten
<1> HIDE DEF NewSecret
<1>2. ASSUME NEW q \in Reference, q.kind = "env" PROVE [q EXCEPT !.secret = NewSecret].key = q.key
  BY <1>2 DEF Reference
<1> QED BY <1>1, <1>2

\* So a canary and a promotion of the same template differ as AsShown says.
LEMMA CanaryShows ==
    ASSUME NEW refs \in SUBSET Reference, bind \in Binding, desired \in Rev
    PROVE  AsShown(BuildCanaryFromTemplate(refs), MutatePodTemplateSpec(refs))
<1> DEFINE shown == BuildCanaryFromTemplate(refs)
           promoted == MutatePodTemplateSpec(refs)
<1>1. ASSUME NEW r \in shown \ promoted
      PROVE  \E q \in refs : r = Shown(q) /\ Shown(q) # Mutated(q)
  BY <1>1, MutateByReference
<1>2. ASSUME NEW r \in promoted \ shown
      PROVE  \E q \in refs : r = Mutated(q) /\ Shown(q) # Mutated(q)
  BY <1>2, MutateByReference
<1> HIDE DEF shown, promoted
<1>3. ASSUME NEW r \in shown \ promoted
      PROVE  /\ r.kind = "env" /\ ~bind.env
             /\ \/ r.key = "object" /\ r.secret = NewSecret
                \/ r.secret.form = "legacy" /\ ~LegacyCurrent(r.secret)
  <2>1. PICK q \in refs : r = Shown(q) /\ Shown(q) # Mutated(q)
    BY <1>1, <1>3
  <2>2. q \in Reference
    OBVIOUS
  <2> QED BY <2>1, <2>2, ShownAsMutated, RewrittenFacts, ImplicitKey
<1>4. ASSUME NEW r \in promoted \ shown
      PROVE  /\ r.kind = "env" /\ ~bind.env
             /\ \/ r.key = "object" /\ r.secret.form \in {"targetSecret", "defaultSecret", "foreign"}
                \/ r.secret = NewSecret
  <2>1. PICK q \in refs : r = Mutated(q) /\ Shown(q) # Mutated(q)
    BY <1>2, <1>4
  <2>2. q \in Reference
    OBVIOUS
  <2> QED BY <2>1, <2>2, ShownAsMutated, RewrittenFacts
<1> QED BY <1>3, <1>4 DEF AsShown, shown, promoted

-----------------------------------------------------------------------------
(* Types, and what the canary shows.                                       *)

\* A canary is up for a revision only, and shows what a promotion would leave.
CanaryInv ==
    /\ TypeOK
    /\ canary # {} => desired # None /\ AsShown(canary, MutatePodTemplateSpec(template))

\* Initially there is no canary.
LEMMA CanaryInit == Init => CanaryInv
<1> SUFFICES ASSUME Init PROVE CanaryInv
  OBVIOUS
<1> QED BY DEF Init, CanaryInv, TypeOK

\* Every step keeps it: the canary is built from the template a promotion will
\* patch, or has patched already when it stopped half way.
LEMMA CanaryNext == CanaryInv /\ [Next]_vars => CanaryInv'
<1> SUFFICES ASSUME CanaryInv, [Next]_vars PROVE CanaryInv'
  OBVIOUS
<1>0. TypeOK
  BY DEF CanaryInv
<1>1. CASE StartRotation
  BY <1>0, <1>1 DEF StartRotation, TypeOK, CanaryInv
<1>2. CASE ProvisionCanary
  <2>1. desired \in Rev /\ bind \in Binding /\ template \in SUBSET Reference
    BY <1>0, <1>2 DEF ProvisionCanary, TypeOK
  <2>2. canary' = BuildCanaryFromTemplate(template) /\ UNCHANGED <<bind, template, current, desired, secrets>>
    BY <1>2 DEF ProvisionCanary
  <2>3. TypeOK'
    BY <1>0, <2>1, <2>2, PromotedType DEF TypeOK
  <2>4. AsShown(canary', MutatePodTemplateSpec(template))
    BY <2>1, <2>2, CanaryShows
  <2>5. AsShown(canary, MutatePodTemplateSpec(template))'
    <3> DEFINE once == MutatePodTemplateSpec(template)
    <3>1. MutatePodTemplateSpec(template)' = once
      BY <2>2 DEF MutatePodTemplateSpec, Rewrites, Rewritten, Added, Matches, VolumeMatches,
        EnvMatches, EnvFromMatches, LegacyCurrent, NamesObject, InScope, NewSecret, BoundKey
    <3>2. AsShown(canary', once)
      BY <2>4
    <3> HIDE DEF once
    <3> QED BY <3>1, <3>2, <2>2 DEF AsShown, NewSecret, LegacyCurrent
  <2> QED BY <2>3, <2>5, <1>2 DEF ProvisionCanary, CanaryInv
<1>3. CASE Trip
  BY <1>0, <1>3 DEF Trip, TypeOK, CanaryInv
<1>4. CASE promoteTargetWorkload
  <2>1. desired \in Rev /\ bind \in Binding /\ template \in SUBSET Reference
    BY <1>0, <1>4 DEF promoteTargetWorkload, TypeOK, CanaryInv
  <2> QED BY <1>0, <1>4, <2>1, PromotedType DEF promoteTargetWorkload, TypeOK, CanaryInv
<1>5. CASE StopWhilePromoting
  <2> DEFINE once == MutatePodTemplateSpec(template)
  <2>1. desired \in Rev /\ bind \in Binding /\ template \in SUBSET Reference
    BY <1>0, <1>5 DEF StopWhilePromoting, TypeOK, CanaryInv
  <2>2. template' = once /\ UNCHANGED <<bind, canary, current, desired>>
    BY <1>5 DEF StopWhilePromoting
  <2>3. MutatePodTemplateSpec(once) = once
    BY <2>1, PromotionIdempotent
  <2>4. TypeOK'
    BY <1>0, <1>5, <2>1, PromotedType DEF StopWhilePromoting, TypeOK
  <2>5. canary # {} /\ desired # None /\ AsShown(canary, once)
    BY <1>5 DEF StopWhilePromoting, CanaryInv
  <2> HIDE DEF once
  <2>6. MutatePodTemplateSpec(template)' = MutatePodTemplateSpec(once)
    BY <2>2 DEF MutatePodTemplateSpec, Rewrites, Rewritten, Added, Matches, VolumeMatches,
      EnvMatches, EnvFromMatches, LegacyCurrent, NamesObject, InScope, NewSecret, BoundKey
  <2>7. AsShown(canary, MutatePodTemplateSpec(template))'
    <3>1. MutatePodTemplateSpec(template)' = once
      BY <2>3, <2>6
    <3> QED BY <3>1, <2>2, <2>5 DEF AsShown, NewSecret, LegacyCurrent
  <2> QED BY <2>2, <2>4, <2>5, <2>7 DEF CanaryInv
<1>6. CASE UNCHANGED vars
  <2>1. AsShown(canary, MutatePodTemplateSpec(template))' <=> AsShown(canary, MutatePodTemplateSpec(template))
    BY <1>6 DEF vars, AsShown, NewSecret, LegacyCurrent, MutatePodTemplateSpec, Rewrites, Rewritten, Added,
      Matches, VolumeMatches, EnvMatches, EnvFromMatches, NamesObject, InScope, BoundKey
  <2> QED BY <1>0, <1>6, <2>1 DEF vars, TypeOK, CanaryInv
<1> QED BY <1>1, <1>2, <1>3, <1>4, <1>5, <1>6 DEF Next

\* So it holds for good.
LEMMA CanaryAlways == Spec => []CanaryInv
BY CanaryInit, CanaryNext, PTL DEF Spec

\* Type correctness: pod templates stay sets of references to Secrets of the
\* known forms, revisions within their bound.
THEOREM ReferencesType == Spec => []TypeOK
<1>1. CanaryInv => TypeOK
  BY DEF CanaryInv
<1> QED BY <1>1, CanaryAlways, PTL

\* What a rotation leaves in production is what its canary showed: with and
\* without a vaultRef the two copies of the rules disagree on nothing but the
\* env variables AsShown names, even when a stop in the middle of a promotion
\* has patched production before.
THEOREM CanaryShowsWhatIsPromoted == Spec => CanaryShowsPromotion
<1>1. CanaryInv /\ [Next]_vars => [current' # current => AsShown(canary, template')]_vars
  <2> SUFFICES ASSUME CanaryInv, Next, current' # current PROVE AsShown(canary, template')
    BY DEF vars
  <2>1. promoteTargetWorkload
    BY DEF Next, StartRotation, ProvisionCanary, Trip, StopWhilePromoting
  <2> QED BY <2>1 DEF promoteTargetWorkload, CanaryInv
<1> QED BY <1>1, CanaryAlways, PTL DEF Spec, CanaryShowsPromotion

-----------------------------------------------------------------------------
(* References that follow the policy.                                      *)

\* The references TargetRef leaves to the policy, told by where they are and
\* what they are called, whatever Secret they name.
Follows(r) ==
    \/ r.kind = "volume" /\ IF bind.volume THEN r.label = "bound" ELSE ~bind.env
    \/ r.kind = "env" /\ InScope(r.container) /\ (bind.env => r.label = "bound")
    \/ r.kind = "envFrom" /\ InScope(r.container) /\ ~bind.env

\* With the object's name known, a reference that follows the policy and
\* names a revision Secret is recognised again, whatever the revision.
LEMMA FollowersAreRewritten ==
    ASSUME NEW r \in Reference, bind \in Binding, HasVaultRef
    PROVE  /\ Rewrites(r, Matches(r)) => Follows(r)
           /\ r.secret.form = "revision" /\ Follows(r) => Rewrites(r, Matches(r))
<1>1. bind.env \in BOOLEAN /\ bind.volume \in BOOLEAN
  BY DEF Binding
<1> QED BY <1>1 DEF Rewrites, Follows, Matches, VolumeMatches, EnvMatches, EnvFromMatches, NamesObject

\* After a promotion, every reference to a revision Secret follows the policy
\* and names the desired revision.
LEMMA PromotedFollow ==
    ASSUME NEW refs \in SUBSET Reference, bind \in Binding, desired \in Rev, HasVaultRef,
           \A r \in refs : r.secret.form = "revision" => Follows(r),
           NEW s \in MutatePodTemplateSpec(refs), s.secret.form = "revision"
    PROVE  Follows(s) /\ s.secret.rev = desired
<1>0. NewSecret.form = "revision" /\ NewSecret.rev = desired
  BY DEF NewSecret
<1>1. CASE \E r \in refs : s = Mutated(r)
  <2>1. PICK r \in refs : s = Mutated(r)
    BY <1>1
  <2>2. CASE Rewrites(r, Matches(r))
    <3>1. s = Rewritten(r)
      BY <2>1, <2>2 DEF Mutated
    <3>2. Follows(r)
      BY <2>2, FollowersAreRewritten
    <3>3. Follows(s)
      BY <3>1, <3>2, RewrittenFacts DEF Follows
    <3> QED BY <1>0, <3>1, <3>3, RewrittenFacts
  <2>3. CASE ~Rewrites(r, Matches(r))
    <3>1. s = r
      BY <2>1, <2>3 DEF Mutated
    <3> QED BY <3>1, <2>3, FollowersAreRewritten
  <2> QED BY <2>2, <2>3
<1>2. CASE \E c \in Lacking(refs) : s = BoundEnv(c)
  <2>1. PICK c \in Lacking(refs) : s = BoundEnv(c)
    BY <1>2
  <2>2. c \in Containers /\ bind.env /\ InScope(c)
    BY DEF Lacking
  <2> QED BY <1>0, <2>1, <2>2, BoundEnvFacts DEF Follows
<1> QED BY <1>1, <1>2, MutateByReference

\* While a rotation is under way production may name its revision, the one
\* before and, after a trip in the middle of a promotion, revisions that were
\* given up: the Secrets of all of them are there, and all of these references
\* are ones the next promotion finds.
FollowInv ==
    /\ desired # None => desired \in secrets
    /\ \A r \in template : r.secret.form = "revision" =>
          Follows(r) /\ r.secret.rev \in secrets /\ (desired = None => r.secret.rev = current)

\* Initially no reference names a revision's Secret.
LEMMA FollowInit == Init => FollowInv
BY DEF Init, FollowInv

\* Every step keeps it: a promotion rewrites all references that follow, and
\* collects only revisions none of them names any more.
LEMMA FollowNext == HasVaultRef /\ CanaryInv /\ FollowInv /\ [Next]_vars => FollowInv'
<1> SUFFICES ASSUME HasVaultRef, CanaryInv, FollowInv, [Next]_vars PROVE FollowInv'
  OBVIOUS
<1>0. /\ bind \in Binding /\ template \in SUBSET Reference
      /\ canary # {} => desired \in Rev /\ desired # None
  BY DEF CanaryInv, TypeOK
<1>a. bind' = bind
  BY DEF Next, StartRotation, ProvisionCanary, Trip, promoteTargetWorkload, StopWhilePromoting, vars
<1>b. \A r : Follows(r)' <=> Follows(r)
  BY <1>a DEF Follows, InScope
<1>c. ASSUME canary # {}, template' = MutatePodTemplateSpec(template),
             NEW r \in template', r.secret.form = "revision"
      PROVE  Follows(r) /\ r.secret.rev = desired
  <2>1. \A q \in template : q.secret.form = "revision" => Follows(q)
    BY DEF FollowInv
  <2> QED BY <1>0, <1>c, <2>1, PromotedFollow
<1>1. CASE StartRotation
  BY <1>1, <1>b DEF StartRotation, FollowInv
<1>2. CASE ProvisionCanary
  BY <1>2, <1>b DEF ProvisionCanary, FollowInv
<1>3. CASE Trip
  BY <1>3, <1>b DEF Trip, FollowInv
<1>4. CASE promoteTargetWorkload
  <2>1. canary # {} /\ template' = MutatePodTemplateSpec(template)
        /\ secrets' = secrets \cap {desired, current} /\ current' = desired /\ desired' = None
    BY <1>4 DEF promoteTargetWorkload
  <2>2. desired \in secrets'
    BY <1>0, <2>1 DEF FollowInv
  <2> QED BY <2>1, <2>2, <1>b, <1>c DEF FollowInv
<1>5. CASE StopWhilePromoting
  <2>1. canary # {} /\ template' = MutatePodTemplateSpec(template) /\ desired' = desired
    BY <1>5 DEF StopWhilePromoting
  <2>2. desired \in secrets' /\ desired # None
    BY <1>0, <1>5 DEF FollowInv, StopWhilePromoting
  <2> QED BY <2>1, <2>2, <1>b, <1>c DEF FollowInv
<1>6. CASE UNCHANGED vars
  BY <1>6, <1>b DEF vars, FollowInv
<1> QED BY <1>1, <1>2, <1>3, <1>4, <1>5, <1>6 DEF Next

\* With a vaultRef, a reference that follows the policy follows it for good:
\* between rotations production names the current revision wherever it names
\* one, and at no time a Secret gcOldSecretRevisions has collected, whichever
\* rotations were tripped or stopped in between.
THEOREM ReferencesFollow ==
    ASSUME HasVaultRef
    PROVE  Spec => [](FollowersAreCurrent /\ ReferencesExist)
<1>1. FollowInv => FollowersAreCurrent /\ ReferencesExist
  BY DEF FollowInv, FollowersAreCurrent, ReferencesExist
<1>2. CanaryInv /\ FollowInv /\ [Next]_vars => FollowInv'
  BY FollowNext
<1> QED BY <1>1, <1>2, CanaryAlways, FollowInit, PTL DEF Spec
=============================================================================
