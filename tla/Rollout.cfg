SPECIFICATION FairSpec
CONSTANTS
    MaxRev = 3
    MaxThreshold = 2
    MaxVersions = 1
    Bad = {2}
    RolloutLags = TRUE
    Disturb = {"crash", "ignoredPatch", "gc", "edit", "rolledBack", "retry", "pause"}
INVARIANTS TypeOK StatusMatchesRollout StatusRevisionsExist
PROPERTIES FinalizedOnObservedHealth ImplementsRotation RolloutSettles
