SPECIFICATION FairSpec
CONSTANTS
    MaxRev = 2
    MaxThreshold = 2
    Policies = {"db", "tls"}
    RefKind <- MCRefKind
    BadPairs <- MCBadPairs
    Applications <- MCApplications
    Disturb = {"crash", "workloadLag", "selfHeal"}
INVARIANTS TypeOK ReferencedSecretsExist EachCurrentIsServed
PROPERTIES BadOnlyWhenOverlapping AllSettle
