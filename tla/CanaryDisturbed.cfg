SPECIFICATION Spec
CONSTANTS
    MaxRev = 3
    MaxThreshold = 2
    MaxVersions = 2
    Bad = {2}
    Probes = {"workload"}
    Lag = {"canary", "pods"}
    Disturb = {"crash", "cleanup", "ignoredPatch", "gc", "rolledBack"}
INVARIANTS ServedRevisionExists RevisionsInUseExist CanaryIsolated CurrentIsServed
PROPERTIES ProductionNeverGoesBack
