SPECIFICATION FairSpec
CONSTANTS
    MaxRev = 3
    MaxThreshold = 2
    MaxVersions = 1
    Bad = {2}
    Probes = {"workload"}
    Lag = {}
    Disturb = {"crash", "gc"}
INVARIANTS TypeOK CanaryRunsDesired 
PROPERTIES BadOnlyThroughLeftover EventuallySettled
