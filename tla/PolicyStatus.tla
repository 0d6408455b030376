---------------------------- MODULE PolicyStatus ----------------------------
(***************************************************************************)
(* The status of one DynamicSecretPolicy as the reconciler reads and       *)
(* writes it: the record, the phase determineState derives from it, the    *)
(* circuit breaker test, the JSON merge patch updateStatus sends, and the  *)
(* new status each branch of Reconcile computes.  No state lives here: the *)
(* modules CanaryRotation and RolloutRotation own the variables.           *)
(*                                                                         *)
(* A secret revision is a number: the hash of materializeSecretRevision    *)
(* covers the provider's version id, so every upstream write yields a new  *)
(* one, and revisions are numbered in the order the upstream wrote them.   *)
(***************************************************************************)
EXTENDS Naturals

CONSTANTS MaxRev,       \* bound: revisions the upstream writes are 1..MaxRev
          MaxThreshold  \* bound: circuitBreakerThreshold is in 1..MaxThreshold

ASSUME BoundsAssumption == /\ MaxRev \in Nat \ {0}
                           /\ MaxThreshold \in Nat \ {0}

Rev == 1..MaxRev

\* The empty string in currentRevision and desiredRevision.
None == 0

Phases == {"RevisionPrepared", "CanaryProvisioning", "Validating",
           "RolloutProgressing"}

CondTypes == Phases \cup {"Promoting", "RolledBack", "CircuitBreakerTripped"}

Policy == [threshold : 1..MaxThreshold,
           current   : Rev \cup {None},
           desired   : Rev \cup {None},
           failures  : 0..MaxThreshold,
           conds     : [CondTypes -> {"absent", "False", "True"}]]

\* A policy as created, before the operator has written its status.
NewPolicy(threshold) ==
    [threshold |-> threshold,
     current   |-> None,
     desired   |-> None,
     failures  |-> 0,
     conds     |-> [c \in CondTypes |-> "absent"]]

-----------------------------------------------------------------------------

Present(p, c) == p.conds[c] # "absent"

\* meta.SetStatusCondition and meta.RemoveStatusCondition on a condition list.
With(conds, c, status) == [conds EXCEPT ![c] = status]
Without(conds, removed) == [c \in CondTypes |-> IF c \in removed THEN "absent" ELSE conds[c]]

\* "" : no rotation in progress.  A condition counts as a phase whatever its
\* status, so Validating=False is still the Validating phase.
determineState(p) ==
    IF p.desired = None                       THEN ""
    ELSE IF p.conds["RolledBack"] = "True"    THEN "RolledBack"
    ELSE IF Present(p, "Validating")          THEN "Validating"
    ELSE IF Present(p, "RolloutProgressing")  THEN "RolloutProgressing"
    ELSE IF Present(p, "CanaryProvisioning")  THEN "CanaryProvisioning"
    ELSE IF Present(p, "RevisionPrepared")    THEN "RevisionPrepared"
    ELSE IF \E c \in {"Promoting", "CircuitBreakerTripped"} : p.conds[c] = "True"
         THEN "unhandled"
    ELSE "RevisionPrepared"

CircuitBreakerTripped(p) == p.conds["CircuitBreakerTripped"] = "True"

\* Faulty: the condition alone is forgotten once the threshold is raised.
Halted_CountOnly(p) == p.failures >= p.threshold

\* The test that halts a reconciliation.
Halted(p) == p.failures >= p.threshold \/ CircuitBreakerTripped(p)

\* The breaker as the two tests see it together.
Breaker(p) == IF CircuitBreakerTripped(p) THEN "open" ELSE IF Halted(p) THEN "due" ELSE "closed"

\* When Reconcile asks the upstream for its latest revision.
ChecksUpstream(p) == determineState(p) = "" \/ Halted(p)

\* Reconcile has work for the phase: neither checking upstream nor halted.
InPhase(p, phase) == ~Halted(p) /\ determineState(p) = phase

-----------------------------------------------------------------------------
(* The status each branch of Reconcile computes from the one it read.      *)

Status(p, current, desired, failures, conds) ==
    [threshold |-> p.threshold,
     current   |-> current,
     desired   |-> desired,
     failures  |-> failures,
     conds     |-> conds]

\* New upstream revision: the breaker reset, then case "".  RolloutProgressing
\* is not among the conditions that are cleared.
Started(p, rev) ==
    Status(p, p.current, rev, 0,
           With(Without(p.conds, {"CircuitBreakerTripped", "RolledBack", "Promoting",
                                  "Validating", "CanaryProvisioning"}),
                "RevisionPrepared", "True"))

\* From one phase to the next.
Advanced(p, from, to) ==
    Status(p, p.current, p.desired, p.failures, With(Without(p.conds, {from}), to, "True"))

Tripped(p) ==
    Status(p, p.current, p.desired, p.failures, With(p.conds, "CircuitBreakerTripped", "True"))

\* Faulty: the failure is not recorded.
Failed_NotCounted(p, phase) ==
    Status(p, p.current, p.desired, p.failures, With(p.conds, phase, "False"))

\* A failure that reaches the threshold trips the breaker and leaves the
\* phase condition as it was; one below it marks the phase False.
Failed(p, phase) ==
    Status(p, p.current, p.desired, p.failures + 1,
           IF p.failures + 1 >= p.threshold
           THEN With(p.conds, "CircuitBreakerTripped", "True")
           ELSE With(p.conds, phase, "False"))

\* The rotation is complete.
Promoted(p, phase) ==
    Status(p, p.desired, None, 0, With(Without(p.conds, {phase}), "Promoting", "True"))

\* Faulty: the new count is added to the stored one.
Merged_AddsFailures(stored, base, new) ==
    [new EXCEPT !.failures = IF new.failures # base.failures THEN stored.failures + new.failures ELSE @]

\* r.Status().Patch with client.MergeFrom(base): a field travels when it
\* differs from the copy that was read, whatever the stored object holds by
\* then; the condition list travels whole.
Merged(stored, base, new) ==
    [threshold |-> stored.threshold,
     current   |-> IF new.current  # base.current  THEN new.current  ELSE stored.current,
     desired   |-> IF new.desired  # base.desired  THEN new.desired  ELSE stored.desired,
     failures  |-> IF new.failures # base.failures THEN new.failures ELSE stored.failures,
     conds     |-> IF new.conds    # base.conds    THEN new.conds    ELSE stored.conds]
=============================================================================
