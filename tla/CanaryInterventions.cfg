SPECIFICATION Spec
CONSTANTS
    MaxRev = 3
    MaxThreshold = 2
    MaxVersions = 1
    Bad = {2}
    Probes = {"workload", "external"}
    Lag = {"canary", "pods"}
    Disturb = {"crash", "cleanup", "ignoredPatch", "gc", "edit", "rolledBack"}
PROPERTIES HaltProtectsProduction ImplementsRotation
