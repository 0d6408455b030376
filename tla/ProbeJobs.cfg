SPECIFICATION FairSpec
CONSTANTS
    Probes <- McOneJob
    MaxRev = 3
    Threshold = 2
    Faults = {"lag", "delete", "api"}
INVARIANTS TypeOK EveryJobProbeRan FailuresAreReal
PROPERTIES ValidationEnds
