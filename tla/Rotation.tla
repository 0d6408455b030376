------------------------------ MODULE Rotation ------------------------------
(***************************************************************************)
(* What a policy promises to the people who run the workload, with the     *)
(* phases, the canary, the probes and the caches left out: one revision is *)
(* tried at a time; it is recorded as current only if it was the one being *)
(* tried; a halted policy touches nothing until a revision it has not seen *)
(* turns up.  CanaryRotation and RolloutRotation implement it; README.md   *)
(* (lines 150-200 of the repository's own) tells it in prose.              *)
(***************************************************************************)
CONSTANTS Rev,        \* revisions
          None,       \* no revision
          Promotes,   \* completing a rotation also patches the workload (the
                      \* canary path); a Rollout is patched when it begins
          Releasable  \* people may raise the threshold

VARIABLES current,  \* revision recorded as applied
          desired,  \* revision being tried, or None
          breaker,  \* "closed", "open", or "due": enough failures, not recorded
          served    \* revision the workload references

rotationVars == <<current, desired, breaker, served>>

Init ==
    /\ current = None
    /\ desired = None
    /\ breaker = "closed"
    /\ served = None

Trying == desired # None /\ breaker = "closed"

\* A revision not seen before is tried, or replaces the one that failed.
Begin ==
    /\ ~Trying
    /\ desired' \in Rev \ {current, desired}
    /\ breaker' = "closed"
    /\ UNCHANGED <<current, served>>

\* The workload is patched and the rotation is not yet recorded as complete.
Serve ==
    /\ Trying
    /\ served' = desired
    /\ UNCHANGED <<current, desired, breaker>>

Complete ==
    /\ Trying
    /\ current' = desired
    /\ desired' = None
    /\ served' = IF Promotes THEN desired ELSE served
    /\ UNCHANGED breaker

\* The breaker is due, or opens; once open only Begin closes it.
Halt ==
    /\ desired # None
    /\ \/ breaker = "closed" /\ breaker' \in {"due", "open"}
       \/ breaker = "due" /\ breaker' = "open"
    /\ UNCHANGED <<current, desired, served>>

\* A raised threshold releases a policy whose breaker is only due.
Release ==
    /\ Releasable /\ breaker = "due"
    /\ breaker' = "closed"
    /\ UNCHANGED <<current, desired, served>>

Next == Begin \/ Serve \/ Complete \/ Halt \/ Release

Spec == Init /\ [][Next]_rotationVars
=============================================================================
