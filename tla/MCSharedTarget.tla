--------------------------- MODULE MCSharedTarget ---------------------------
(* Two policies of one workload, and the Applications it may belong to.    *)
EXTENDS SharedTarget

MCRefKind == [p \in Policies |-> IF p = "db" THEN "env" ELSE "volume"]
MCBadPairs == {<<"db", 2>>}

App(tracked, prefixed, rule) ==
    [tracked |-> tracked, prefixed |-> prefixed, rule |-> rule, hides |-> {}]

\* None to tell, one that is told, one named otherwise than the workload, one
\* with an item for the same kind, and one with an item for another resource.
MCApplications ==
    {App(FALSE, TRUE, "none"), App(TRUE, TRUE, "none"), App(TRUE, FALSE, "none"),
     App(TRUE, TRUE, "kind"), App(TRUE, TRUE, "resource")}
=============================================================================
