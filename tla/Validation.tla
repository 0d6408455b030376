----------------------------- MODULE Validation -----------------------------
(***************************************************************************)
(* A source, the revisions read from it, the canary's network policy and   *)
(* the verdict of the probes, for one policy, while the source is written, *)
(* the backend changes its password, moves, or stops answering lookups.    *)
(* The other modules number revisions in the order of the source's writes  *)
(* and take a probe's verdict for the truth about a revision; here both    *)
(* are examined.                                                           *)
(*                                                                         *)
(* Phases, breaker and caches are CanaryRotation's: one failed attempt     *)
(* stands for as many as the threshold asks for, and one that fails below  *)
(* it leaves everything as it is.                                          *)
(***************************************************************************)
EXTENDS ProbeExecutors, CanaryIsolation

CONSTANTS Setups,     \* name -> source, probes, network and use of the secret
          Worlds,     \* states of the backend and of what the canary serves
          MaxVersion  \* bound: writes of the source

\* Every setup: an Azure object is one entry; a probe's endpoint is empty, an
\* address, or one of the two names that are resolved, with a port or none.
\* The names resolve to addresses of hosts.
ASSUME ValidationAssumption ==
    /\ MaxVersion \in Nat \ {0}
    /\ \A s \in DOMAIN Setups :
          /\ Setups[s].type = "AzureKeyVault" =>
                \A entries \in Setups[s].contents : \A k, l \in DOMAIN entries : k = l
          /\ \A probe \in ToSet(Setups[s].probes) :
                /\ probe.type \in {"PostgreSQL", "MySQL", "HTTP", "TLS", "Job"}
                /\ probe.host \in {"", "backend", "workload"} \cup HostAddresses
                /\ probe.port \in 0..MaxPort
    /\ \A w \in Worlds : w.home \in HostAddresses
    /\ "service" \in HostAddresses /\ {"", "backend", "workload"} \cap Everywhere = {}

NoRevision == [content |-> {}, version |-> 0]
NoPolicy == {}

VARIABLES
    setup,     \* the policy and its cluster
    world,     \* [accounts, databases, requiresTLS: the backend's server;
               \*  home, lookup: its address, and whether DNS answers;
               \*  api: whether the API server answers the probe loop;
               \*  loads, trusted, valid: of the certificate the canary serves]
    source,    \* [version, entries] of the source
    secrets,   \* revision -> data of its Secret
    current,   \* status.currentRevision
    desired,   \* status.desiredRevision
    phase,     \* "idle", "prepared", "validating" or "halted"
    netpol,    \* what the canary may open, or NoPolicy
    resolved,  \* history: the backend's addresses when netpol was built
    polled     \* history: <<version, revision>> of every read of the source

rotationVars == <<secrets, current, desired, phase>>
vars == <<setup, world, source, rotationVars, netpol, resolved, polled>>

Policy == Setups[setup]
Data == secrets[desired]

TypeOK ==
    /\ setup \in DOMAIN Setups /\ world \in Worlds
    /\ source.version \in 1..MaxVersion /\ source.entries \in Policy.contents
    /\ phase \in {"idle", "prepared", "validating", "halted"}
    /\ desired = NoRevision <=> phase = "idle"
    /\ {current, desired} \subseteq DOMAIN secrets \cup {NoRevision}
    /\ netpol \subseteq Everywhere \X (1..MaxPort)
    /\ resolved \subseteq HostAddresses

Init ==
    /\ setup \in DOMAIN Setups
    /\ world \in Worlds
    /\ \E entries \in Policy.contents : source = [version |-> 1, entries |-> entries]
    /\ secrets = [r \in {} |-> NoData]
    /\ current = NoRevision /\ desired = NoRevision /\ phase = "idle"
    /\ netpol = NoPolicy /\ resolved = {}
    /\ polled = {}

-----------------------------------------------------------------------------
(* The canary and the probes.                                              *)

Resolve == [backend  |-> IF world.lookup THEN {world.home} ELSE {},
            workload |-> {"service"}]

\* External: NetworkPolicies bind where the CNI enforces them.  The standard
\* policy has no ingress rule, which denies all; whether the empty ingress
\* list of the Cilium policy does depends on Cilium.
CanaryOpens(address, port) == Policy.enforced => <<address, port>> \in netpol
CanaryAccepts == Policy.enforced => Policy.cilium /\ ~Policy.emptyDenies

\* The user the workload logs in as: read from the Secret or configured.
AppUser(data) == IF Policy.appUserKey # "" THEN At(data, Policy.appUserKey) ELSE Policy.appUser

\* The workload as deployed works with a revision: the backend accepts the
\* user and the password it reads, or it serves the certificate it reads.
Works(data) ==
    IF Policy.appKey = "tls.crt" THEN world.loads /\ "certificate" \in At(data, "tls.crt").holds
                                 ELSE <<AppUser(data), At(data, Policy.appKey)>> \in world.accounts

\* A canary becomes ready when it works and reaches its backend.
CanaryReady ==
    \/ Policy.appKey = "tls.crt"
    \/ Works(Data) /\ CanaryOpens(world.home, Policy.appPort)

\* The canary presents the certificate it reads, if it reads and loads one,
\* or one that is not in its data.
CanaryPeer ==
    [presents |-> {v.text : v \in {v \in {At(Data, "tls.crt")} : world.loads /\ "certificate" \in v.holds}},
     trusted |-> world.trusted, valid |-> world.valid, healthy |-> TRUE]

isWorkloadProbe(probe) == probe.type = "TLS" \/ probe.host = "workload"

\* Probes of the workload go to a ready canary pod.
ProbePasses(probe) ==
    /\ isWorkloadProbe(probe) => CanaryReady /\ CanaryAccepts
    /\ CASE probe.type = "PostgreSQL" -> PostgresExecute(probe, Data, world)
         [] probe.type = "MySQL"      -> MySQLExecute(probe, Data, world)
         [] probe.type = "TLS"        -> TLSExecute(probe, Data, CanaryPeer)
         [] probe.type = "HTTP"       -> HTTPExecute(probe, Data, CanaryPeer)
         [] OTHER                     -> FALSE

-----------------------------------------------------------------------------
(* Reconcile.                                                              *)

\* Read the source while idle or halted; Create keeps a Secret that exists.
materializeSecretRevision ==
    /\ phase \in {"idle", "halted"}
    /\ \E data \in FetchSecret(Policy.type, Policy.parseJSON, source.entries) :
         LET rev == Revision(data, source.version)
         IN  /\ \E stored \in SecretData(Policy.type, Policy.certificate, data) :
                    secrets' = [r \in DOMAIN secrets \cup {rev} |->
                                    IF r \in DOMAIN secrets THEN secrets[r] ELSE stored]
             /\ polled' = polled \cup {<<source.version, rev>>}
             /\ IF rev \in {current, desired}
                THEN UNCHANGED <<desired, phase>>
                ELSE desired' = rev /\ phase' = "prepared"
    /\ UNCHANGED <<setup, world, source, current, netpol, resolved>>

\* Create keeps a network policy that exists, whatever its rules.
ProvisionCanary ==
    LET probes == ToSet(Policy.probes)
    IN  /\ phase = "prepared"
        /\ phase' = "validating"
        /\ IF netpol # NoPolicy
           THEN UNCHANGED <<netpol, resolved>>
           ELSE /\ netpol' = IF Policy.cilium THEN BuildCiliumNetworkPolicy(probes, Resolve)
                                              ELSE BuildNetworkPolicy(probes, Resolve)
                /\ resolved' = Resolve.backend
        /\ UNCHANGED <<setup, world, source, secrets, current, desired, polled>>

\* The probe loop; without the revision's Secret or the canary's pods no probe
\* is run, and the error counts like that of a probe.
ProbesPass ==
    /\ world.api \/ Policy.probes = <<>>
    /\ \A i \in DOMAIN Policy.probes : ProbePasses(Policy.probes[i])

\* The network policy goes, unless the deletion fails.
CleanupCanaryResources ==
    \/ netpol' = NoPolicy /\ resolved' = {}
    \/ UNCHANGED <<netpol, resolved>>

\* Faulty: only the revision that was current is kept.
Promote_CollectsNew ==
    /\ phase = "validating"
    /\ ProbesPass
    /\ secrets' = [r \in DOMAIN secrets \cap {current} |-> secrets[r]]
    /\ CleanupCanaryResources
    /\ current' = desired /\ desired' = NoRevision /\ phase' = "idle"
    /\ UNCHANGED <<setup, world, source, polled>>

\* Promotion, and the collection of Secrets of older revisions.
Promote ==
    /\ phase = "validating"
    /\ ProbesPass
    /\ secrets' = [r \in DOMAIN secrets \cap {current, desired} |-> secrets[r]]
    /\ CleanupCanaryResources
    /\ current' = desired /\ desired' = NoRevision /\ phase' = "idle"
    /\ UNCHANGED <<setup, world, source, polled>>

\* The breaker trips.
Trip ==
    /\ phase = "validating"
    /\ ~ProbesPass
    /\ CleanupCanaryResources
    /\ phase' = "halted"
    /\ UNCHANGED <<setup, world, source, secrets, current, desired, polled>>

-----------------------------------------------------------------------------
(* The world.                                                              *)

\* A write of the source, of its data or only of its metadata.
WriteSource ==
    /\ source.version < MaxVersion
    /\ \E entries \in Policy.contents :
           source' = [version |-> source.version + 1, entries |-> entries]
    /\ UNCHANGED <<setup, world, rotationVars, netpol, resolved, polled>>

WorldChanges ==
    /\ world' \in Worlds
    /\ UNCHANGED <<setup, source, rotationVars, netpol, resolved, polled>>

Next == \/ materializeSecretRevision \/ ProvisionCanary \/ Promote \/ Trip
        \/ WriteSource \/ WorldChanges

Spec == Init /\ [][Next]_vars

-----------------------------------------------------------------------------
(* Properties.                                                             *)

\* JSON entries of the source have a key in common.
Colliding ==
    /\ Policy.type = "K8sSecret" /\ Policy.parseJSON
    /\ \E entries \in Policy.contents : \E a, b \in Merged(entries) : a # b

\* Revisions number the writes of the source: no two versions share a
\* revision, not even when an old payload is written again, and reading one
\* version again finds the same revision, so that nothing rotates by itself.
\* The exception: JSON entries with a common key, merged in random order.
RevisionsNumberWrites ==
    \A a, b \in polled : /\ a[2] = b[2] => a[1] = b[1]
                         /\ a[1] = b[1] => a[2] = b[2] \/ Colliding

\* Some probe is about the credential the workload reads: a PostgreSQL probe
\* that logs in as the user the workload does and is configured with the
\* password's key, which has a value that escaping leaves alone; an HTTP probe
\* of a workload that reads a password (one that serves a certificate may serve
\* any, for HTTP does not compare it); a TLS probe of a revision with a
\* certificate.
Tested(data) ==
    \E i \in DOMAIN Policy.probes :
        LET probe == Policy.probes[i]
        IN  \/ /\ probe.type = "PostgreSQL" /\ probe.passwordKey = Policy.appKey
               /\ Policy.appKey # "tls.crt"
               /\ Received(postgresUsername(probe, data)) = AppUser(data)
               /\ At(data, Policy.appKey) # Empty
               /\ Received(At(data, Policy.appKey)) = At(data, Policy.appKey)
            \/ probe.type = "HTTP" /\ isWorkloadProbe(probe) /\ Policy.appKey # "tls.crt"
            \/ probe.type = "TLS" /\ "certificate" \in PinnedPEM(data).holds

\* A revision is promoted only when the workload works with it, provided a
\* probe is about what the workload reads: in particular the data probed is
\* that of the desired revision, while the source has moved on.
PassesAreReal == [][current' # current /\ Tested(Data) => Works(Data)]_vars

\* The executor picks the user and the password the workload reads and sends
\* them unaltered, or compares the certificate the workload serves.
Understood(probe, data) ==
    CASE probe.type = "PostgreSQL" ->
            /\ postgresUsername(probe, data) = AppUser(data)
            /\ postgresPassword(probe, data) = At(data, Policy.appKey)
            /\ "space" \notin AppUser(data).holds \cup At(data, Policy.appKey).holds
      [] probe.type = "MySQL" ->
            /\ probe.path = ""
            /\ mysqlUsername(data) = AppUser(data)
            /\ extractSecretValue(data, MySQLPasswordNames) = At(data, Policy.appKey)
      [] probe.type = "TLS" ->
            /\ PinnedPEM(data) = At(data, "tls.crt") /\ ~StartsWithKey(PinnedPEM(data))
            /\ At(data, "thumbprint").text \in {"", At(data, "tls.crt").text}
      [] OTHER -> TRUE

\* The network keeps a probe from the canary, or the canary from its backend,
\* which moved, or was not resolved, when the policy was built.
CutOff(probe) == /\ isWorkloadProbe(probe) /\ Policy.enforced
                 /\ ~CanaryAccepts \/ world.home \notin resolved

\* A revision with which the workload works is turned down only if calls of
\* the probe loop fail, a probe logs in with other credentials than the
\* workload's (also "postgres" or "root" by default; MySQL always when keys
\* are configured) or misreads its certificate, the network policy is in the
\* way of a probe of the canary, the server insists on TLS or lacks the
\* database, or the certificate is not valid.
GoodRevisionsPass ==
    [][phase = "validating" /\ phase' = "halted" =>
         \/ ~Works(Data)
         \/ ~world.api
         \/ \E i \in DOMAIN Policy.probes :
                ~Understood(Policy.probes[i], Data) \/ CutOff(Policy.probes[i])
         \/ world.requiresTLS \/ "appdb" \notin world.databases \/ ~world.valid]_vars

\* What a probe makes the canary's egress include: its host, as it resolved
\* when the policy was built, at its ports; and, under the standard policy and
\* if there was no address, the pods of the canary's namespace at these ports.
Opened(probe, address, port) ==
    /\ probe.type # "Job"
    /\ port \in IF probe.port # 0 THEN {probe.port} ELSE defaultPorts(probe.type, probe.scheme)
    /\ \/ address \in HostAddresses /\ address = probe.host
       \/ probe.host = "workload" /\ address = "service"
       \/ probe.host = "backend" /\ address \in resolved
       \/ /\ ~Policy.cilium /\ address \in NamespacePods
          /\ probe.host = "" \/ (probe.host = "backend" /\ resolved = {})

\* The canary's egress is the cluster's DNS at its port and what single probes
\* open, address and port together: nothing else, also when a lookup fails, the
\* backend moves, or a policy is left over from an earlier rotation.
EgressConfined ==
    \A rule \in netpol :
        rule = <<"dns", 53>> \/ \E probe \in ToSet(Policy.probes) : Opened(probe, rule[1], rule[2])
=============================================================================
