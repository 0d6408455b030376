SPECIFICATION Spec
CONSTANTS
    Probes <- McTwoJobs
    MaxRev = 1
    Threshold = 2
    Faults = {"lag"}
INVARIANTS EveryJobProbeRan
