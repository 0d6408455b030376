SPECIFICATION Spec
CONSTANTS
    MaxRev = 4
    Containers = {"app", "sidecar"}
    HasVaultRef = TRUE
INVARIANTS TypeOK FollowersAreCurrent ReferencesExist
PROPERTIES CanaryShowsPromotion
CHECK_DEADLOCK FALSE
