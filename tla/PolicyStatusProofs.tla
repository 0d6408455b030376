------------------------ MODULE PolicyStatusProofs ------------------------
(***************************************************************************)
(* What the operators of PolicyStatus preserve and where they lead: every  *)
(* status a branch of Reconcile computes is a status, and determineState   *)
(* finds the phase the branch meant.  The proofs about the rotations cite  *)
(* these lemmas and never look inside the condition list.                  *)
(***************************************************************************)
EXTENDS PolicyStatus, TLAPS

\* Setting and removing conditions yields a condition list.
LEMMA CondListType ==
    ASSUME NEW conds \in [CondTypes -> {"absent", "False", "True"}]
    PROVE  /\ \A c \in CondTypes, s \in {"False", "True"} :
                 /\ With(conds, c, s) \in [CondTypes -> {"absent", "False", "True"}]
                 /\ With(conds, c, s)[c] = s
                 /\ \A d \in CondTypes : d # c => With(conds, c, s)[d] = conds[d]
           /\ \A removed :
                 /\ Without(conds, removed) \in [CondTypes -> {"absent", "False", "True"}]
                 /\ \A c \in CondTypes : Without(conds, removed)[c] = IF c \in removed THEN "absent" ELSE conds[c]
  BY DEF With, Without

\* The condition types are seven different strings.
LEMMA CondNames ==
    /\ {"RevisionPrepared", "CanaryProvisioning", "Validating", "RolloutProgressing",
        "Promoting", "RolledBack", "CircuitBreakerTripped"} = CondTypes
    /\ None \notin Rev /\ Rev \subseteq Nat /\ 1 \in Rev
  BY BoundsAssumption DEF CondTypes, Phases, None, Rev

\* A merge patch of three statuses is a status: updateStatus stores no junk,
\* however stale the copy it was computed from.
LEMMA MergedType ==
    ASSUME NEW stored \in Policy, NEW base \in Policy, NEW new \in Policy
    PROVE  Merged(stored, base, new) \in Policy
  BY DEF Merged, Policy

\* A patch computed from the stored status stores exactly what was computed.
LEMMA MergedFresh ==
    ASSUME NEW stored \in Policy, NEW new \in Policy, new.threshold = stored.threshold
    PROVE  Merged(stored, stored, new) = new
  BY DEF Merged, Policy

\* A policy as created.
LEMMA NewPolicyType ==
    ASSUME NEW t \in 1..MaxThreshold
    PROVE  /\ NewPolicy(t) \in Policy
           /\ NewPolicy(t).current = None /\ NewPolicy(t).desired = None
           /\ \A c \in CondTypes : NewPolicy(t).conds[c] = "absent"
           /\ NewPolicy(t).failures = 0 /\ NewPolicy(t).threshold = t
  BY BoundsAssumption DEF NewPolicy, Policy, None

\* Case "" of Reconcile: the new rotation starts in RevisionPrepared with the
\* breaker closed, provided no RolloutProgressing condition is left over.
LEMMA StartedFacts ==
    ASSUME NEW p \in Policy, NEW rev \in Rev
    PROVE  /\ Started(p, rev) \in Policy
           /\ Started(p, rev).threshold = p.threshold
           /\ Started(p, rev).current = p.current
           /\ Started(p, rev).desired = rev
           /\ ~Halted(Started(p, rev))
           /\ Present(Started(p, rev), "RevisionPrepared")
           /\ Started(p, rev).conds["RolloutProgressing"] = p.conds["RolloutProgressing"]
           /\ p.conds["RolloutProgressing"] = "absent" => determineState(Started(p, rev)) = "RevisionPrepared"
  <1> DEFINE removed == {"CircuitBreakerTripped", "RolledBack", "Promoting", "Validating", "CanaryProvisioning"}
             cleared == Without(p.conds, removed)
             conds   == With(cleared, "RevisionPrepared", "True")
  <1>1. /\ conds \in [CondTypes -> {"absent", "False", "True"}]
        /\ \A c \in removed : conds[c] = "absent"
        /\ conds["RevisionPrepared"] = "True"
        /\ conds["RolloutProgressing"] = p.conds["RolloutProgressing"]
    <2>1. p.conds \in [CondTypes -> {"absent", "False", "True"}]
      BY DEF Policy
    <2>2. /\ cleared \in [CondTypes -> {"absent", "False", "True"}]
          /\ \A c \in CondTypes : cleared[c] = IF c \in removed THEN "absent" ELSE p.conds[c]
      BY <2>1, CondListType
    <2>3. /\ conds \in [CondTypes -> {"absent", "False", "True"}]
          /\ conds["RevisionPrepared"] = "True"
          /\ \A d \in CondTypes : d # "RevisionPrepared" => conds[d] = cleared[d]
      BY <2>2, CondListType, CondNames
    <2> HIDE DEF cleared, conds
    <2> QED BY <2>2, <2>3, CondNames
  <1> HIDE DEF conds
  <1>2. Started(p, rev) = [threshold |-> p.threshold, current |-> p.current, desired |-> rev,
                           failures |-> 0, conds |-> conds]
    BY DEF Started, Status, conds
  <1>3. QED
    BY <1>1, <1>2, CondNames, BoundsAssumption
    DEF Policy, Halted, CircuitBreakerTripped, determineState, Present

\* RevisionPrepared to CanaryProvisioning, CanaryProvisioning to Validating, and
\* for a Rollout RevisionPrepared to RolloutProgressing: the next phase is the
\* one determineState finds.
LEMMA AdvancedFacts ==
    ASSUME NEW p \in Policy, p.desired # None, ~Halted(p),
           NEW from \in {"RevisionPrepared", "CanaryProvisioning"},
           NEW to \in CondTypes,
           \/ from = "RevisionPrepared"   /\ to = "CanaryProvisioning"
           \/ from = "CanaryProvisioning" /\ to = "Validating"
           \/ from = "RevisionPrepared"   /\ to = "RolloutProgressing"
    PROVE  LET q == Advanced(p, from, to)
           IN  /\ q \in Policy
               /\ q.threshold = p.threshold
               /\ q.current = p.current /\ q.desired = p.desired
               /\ q.failures = p.failures
               /\ ~Halted(q)
               /\ ~Present(q, from)
               /\ to # "RolloutProgressing" => q.conds["RolloutProgressing"] = p.conds["RolloutProgressing"]
               /\ determineState(p) = from => determineState(q) = to
  <1> DEFINE cleared == Without(p.conds, {from})
             conds   == With(cleared, to, "True")
  <1>1. /\ conds \in [CondTypes -> {"absent", "False", "True"}]
        /\ conds[to] = "True"
        /\ conds[from] = "absent"
        /\ \A c \in CondTypes \ {from, to} : conds[c] = p.conds[c]
    <2>1. p.conds \in [CondTypes -> {"absent", "False", "True"}]
      BY DEF Policy
    <2>2. /\ cleared \in [CondTypes -> {"absent", "False", "True"}]
          /\ \A c \in CondTypes : cleared[c] = IF c \in {from} THEN "absent" ELSE p.conds[c]
      BY <2>1, CondListType
    <2>3. /\ conds \in [CondTypes -> {"absent", "False", "True"}]
          /\ conds[to] = "True"
          /\ \A d \in CondTypes : d # to => conds[d] = cleared[d]
      BY <2>2, CondListType
    <2> HIDE DEF cleared, conds
    <2> QED BY <2>2, <2>3, CondNames
  <1> HIDE DEF conds
  <1>2. Advanced(p, from, to) = [threshold |-> p.threshold, current |-> p.current, desired |-> p.desired,
                                 failures |-> p.failures, conds |-> conds]
    BY DEF Advanced, Status, conds
  <1>3. QED
    BY <1>1, <1>2, CondNames
    DEF Policy, Halted, CircuitBreakerTripped, determineState, Present

\* TripOnEntry: the breaker is open afterwards and nothing else changed.
LEMMA TrippedFacts ==
    ASSUME NEW p \in Policy
    PROVE  LET q == Tripped(p)
           IN  /\ q \in Policy
               /\ q.threshold = p.threshold
               /\ q.current = p.current /\ q.desired = p.desired
               /\ CircuitBreakerTripped(q)
               /\ \A c \in CondTypes \ {"CircuitBreakerTripped"} : q.conds[c] = p.conds[c]
               /\ q.conds["RolloutProgressing"] = p.conds["RolloutProgressing"]
  <1> DEFINE conds == With(p.conds, "CircuitBreakerTripped", "True")
  <1>1. /\ conds \in [CondTypes -> {"absent", "False", "True"}]
        /\ conds["CircuitBreakerTripped"] = "True"
        /\ \A c \in CondTypes \ {"CircuitBreakerTripped"} : conds[c] = p.conds[c]
        /\ conds["RolloutProgressing"] = p.conds["RolloutProgressing"]
    <2>1. p.conds \in [CondTypes -> {"absent", "False", "True"}]
      BY DEF Policy
    <2>2. "CircuitBreakerTripped" \in CondTypes /\ "True" \in {"False", "True"}
      BY CondNames
    <2>3. /\ conds \in [CondTypes -> {"absent", "False", "True"}]
          /\ conds["CircuitBreakerTripped"] = "True"
          /\ \A d \in CondTypes : d # "CircuitBreakerTripped" => conds[d] = p.conds[d]
      BY <2>1, <2>2, CondListType
    <2> HIDE DEF conds
    <2> QED BY <2>3, CondNames
  <1> HIDE DEF conds
  <1>2. Tripped(p) = [threshold |-> p.threshold, current |-> p.current, desired |-> p.desired,
                      failures |-> p.failures, conds |-> conds]
    BY DEF Tripped, Status, conds
  <1>3. QED
    BY <1>1, <1>2 DEF Policy, Halted, CircuitBreakerTripped

\* A failed validation, or a degraded Rollout: below the threshold the phase
\* stays what it was, at the threshold the breaker is open.
LEMMA FailedFacts ==
    ASSUME NEW p \in Policy, NEW phase \in {"Validating", "RolloutProgressing"}, InPhase(p, phase)
    PROVE  LET q == Failed(p, phase)
           IN  /\ q \in Policy
               /\ q.threshold = p.threshold
               /\ q.current = p.current /\ q.desired = p.desired
               /\ p.failures + 1 >= p.threshold => Halted(q)
               /\ p.failures + 1 < p.threshold => InPhase(q, phase)
               /\ determineState(q) = phase
               /\ Present(q, "RevisionPrepared") <=> Present(p, "RevisionPrepared")
               /\ phase = "Validating" => q.conds["RolloutProgressing"] = p.conds["RolloutProgressing"]
  <1> DEFINE conds == IF p.failures + 1 >= p.threshold
                      THEN With(p.conds, "CircuitBreakerTripped", "True")
                      ELSE With(p.conds, phase, "False")
  <1>1. /\ conds \in [CondTypes -> {"absent", "False", "True"}]
        /\ p.failures + 1 >= p.threshold =>
              /\ conds["CircuitBreakerTripped"] = "True"
              /\ \A c \in CondTypes \ {"CircuitBreakerTripped"} : conds[c] = p.conds[c]
        /\ ~(p.failures + 1 >= p.threshold) =>
              /\ conds[phase] = "False"
              /\ \A c \in CondTypes \ {phase} : conds[c] = p.conds[c]
    <2>1. p.conds \in [CondTypes -> {"absent", "False", "True"}]
      BY DEF Policy
    <2>2. CASE p.failures + 1 >= p.threshold
      BY <2>1, <2>2, CondListType, CondNames
    <2>3. CASE ~(p.failures + 1 >= p.threshold)
      BY <2>1, <2>3, CondListType, CondNames
    <2> QED BY <2>2, <2>3
  <1> HIDE DEF conds
  <1>2. Failed(p, phase) = [threshold |-> p.threshold, current |-> p.current, desired |-> p.desired,
                                   failures |-> p.failures + 1, conds |-> conds]
    BY DEF Failed, Status, conds
  <1>3. p.failures < p.threshold /\ ~CircuitBreakerTripped(p) /\ determineState(p) = phase
    BY DEF InPhase, Halted, Policy
  <1>4. p.desired # None /\ p.conds["RolledBack"] # "True"
    BY <1>3 DEF determineState
  <1>5. QED
    BY <1>1, <1>2, <1>3, <1>4, CondNames, BoundsAssumption
    DEF Policy, InPhase, Halted, CircuitBreakerTripped, determineState, Present

\* A completed rotation leaves the policy idle on the revision it promoted.
LEMMA PromotedFacts ==
    ASSUME NEW p \in Policy, NEW phase \in {"Validating", "RolloutProgressing"}
    PROVE  LET q == Promoted(p, phase)
           IN  /\ q \in Policy
               /\ q.threshold = p.threshold
               /\ q.current = p.desired /\ q.desired = None
               /\ Present(q, "RevisionPrepared") <=> Present(p, "RevisionPrepared")
               /\ q.failures = 0 /\ (CircuitBreakerTripped(q) <=> CircuitBreakerTripped(p))
               /\ p.conds["RolloutProgressing"] = "absent" => q.conds["RolloutProgressing"] = "absent"
  <1> DEFINE cleared == Without(p.conds, {phase})
             conds   == With(cleared, "Promoting", "True")
  <1>1. /\ conds \in [CondTypes -> {"absent", "False", "True"}]
        /\ p.conds["RolloutProgressing"] = "absent" => conds["RolloutProgressing"] = "absent"
        /\ conds["CircuitBreakerTripped"] = p.conds["CircuitBreakerTripped"]
        /\ conds["RevisionPrepared"] = p.conds["RevisionPrepared"]
    <2>1. p.conds \in [CondTypes -> {"absent", "False", "True"}]
      BY DEF Policy
    <2>2. /\ cleared \in [CondTypes -> {"absent", "False", "True"}]
          /\ \A c \in CondTypes : cleared[c] = IF c \in {phase} THEN "absent" ELSE p.conds[c]
      BY <2>1, CondListType
    <2> HIDE DEF cleared
    <2>3. /\ conds \in [CondTypes -> {"absent", "False", "True"}]
          /\ \A d \in CondTypes : d # "Promoting" => conds[d] = cleared[d]
      BY <2>2, CondListType, CondNames
    <2> HIDE DEF conds
    <2> QED BY <2>2, <2>3, CondNames
  <1> HIDE DEF conds
  <1>2. Promoted(p, phase) = [threshold |-> p.threshold, current |-> p.desired, desired |-> None,
                              failures |-> 0, conds |-> conds]
    BY DEF Promoted, Status, conds
  <1>3. QED
    BY <1>1, <1>2, BoundsAssumption DEF Policy, CircuitBreakerTripped, Present

\* Someone's edit of the threshold or mark of RolledBack is a policy too, and
\* the mark only adds the RolledBack phase.
LEMMA EditFacts ==
    ASSUME NEW p \in Policy
    PROVE  /\ \A t \in 1..MaxThreshold : [p EXCEPT !.threshold = t] \in Policy
           /\ LET q == [p EXCEPT !.conds = With(@, "RolledBack", "True")]
              IN  /\ q \in Policy
                  /\ q.current = p.current /\ q.desired = p.desired /\ q.failures = p.failures
                  /\ Halted(q) <=> Halted(p)
                  /\ CircuitBreakerTripped(q) <=> CircuitBreakerTripped(p)
                  /\ p.desired # None => determineState(q) = "RolledBack"
                  /\ Present(q, "RevisionPrepared") <=> Present(p, "RevisionPrepared")
                  /\ q.conds["RolloutProgressing"] = p.conds["RolloutProgressing"]
  <1> DEFINE conds == With(p.conds, "RolledBack", "True")
  <1>1. /\ conds \in [CondTypes -> {"absent", "False", "True"}]
        /\ conds["RolledBack"] = "True"
        /\ conds["CircuitBreakerTripped"] = p.conds["CircuitBreakerTripped"]
        /\ conds["RolloutProgressing"] = p.conds["RolloutProgressing"]
        /\ conds["RevisionPrepared"] = p.conds["RevisionPrepared"]
    <2>1. p.conds \in [CondTypes -> {"absent", "False", "True"}]
      BY DEF Policy
    <2>2. "RolledBack" \in CondTypes /\ "True" \in {"False", "True"}
      BY CondNames
    <2>3. /\ conds \in [CondTypes -> {"absent", "False", "True"}]
          /\ conds["RolledBack"] = "True"
          /\ \A d \in CondTypes : d # "RolledBack" => conds[d] = p.conds[d]
      BY <2>1, <2>2, CondListType
    <2> HIDE DEF conds
    <2> QED BY <2>3, CondNames
  <1> HIDE DEF conds
  <1>2. [p EXCEPT !.conds = conds] = [threshold |-> p.threshold, current |-> p.current, desired |-> p.desired,
                                      failures |-> p.failures, conds |-> conds]
    BY DEF Policy
  <1>3. \A t \in 1..MaxThreshold : [p EXCEPT !.threshold = t] \in Policy
    BY DEF Policy
  <1>4. QED
    BY <1>1, <1>2, <1>3 DEF Policy, Halted, CircuitBreakerTripped, determineState, Present, conds

-----------------------------------------------------------------------------
(* The breaker between two stored statuses.                                *)

\* Between rotations nothing is counted and the breaker is closed.
Rests(p) == p.desired = None => p.failures = 0 /\ ~CircuitBreakerTripped(p)

\* When a status keeps its revisions and a tripped breaker its state, the
\* breaker moves forward during a rotation only, and back only when the halt
\* ends.
LEMMA BreakerMoves ==
    ASSUME NEW p \in Policy, NEW q \in Policy, Rests(p), Rests(q), q.desired = p.desired,
           CircuitBreakerTripped(p) => CircuitBreakerTripped(q)
    PROVE  \/ Breaker(q) = Breaker(p)
           \/ p.desired # None /\ Breaker(p) = "closed" /\ Breaker(q) \in {"due", "open"}
           \/ p.desired # None /\ Breaker(p) = "due" /\ Breaker(q) = "open"
           \/ Breaker(p) = "due" /\ Breaker(q) = "closed" /\ Halted(p) /\ ~Halted(q)
  BY DEF Rests, Breaker, Halted, Policy
=============================================================================
