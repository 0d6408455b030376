SPECIFICATION Spec
CONSTANTS
    MaxRev = 3
    Containers = {"app", "sidecar"}
    HasVaultRef = FALSE
INVARIANTS FollowersAreCurrent
CHECK_DEADLOCK FALSE
