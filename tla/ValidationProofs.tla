-------------------------- MODULE ValidationProofs --------------------------
(***************************************************************************)
(* Theorems about Validation, for every set of setups, contents of the     *)
(* source, backends and addresses.                                         *)
(***************************************************************************)
EXTENDS Validation, TLAPS

-----------------------------------------------------------------------------
(* The network policies.                                                   *)

\* The endpoint of a probe and what its host's name resolves to.
GoodEndpoint(probe) ==
    /\ probe.type \in {"PostgreSQL", "MySQL", "HTTP", "TLS"}
    /\ probe.host \in {"", "backend", "workload"} \cup HostAddresses
    /\ probe.port \in 0..MaxPort
GoodLookup(resolve) ==
    resolve["backend"] \subseteq HostAddresses /\ resolve["workload"] \subseteq HostAddresses

\* The ports the defaults and the DNS rule name are ports.
LEMMA PortFacts == MaxPort \in Nat /\ {53, 80, 443, 3306, 5432} \subseteq 1..MaxPort
<1>1. MaxPort \in Nat /\ 5432 <= MaxPort
  BY DEF MaxPort
<1> QED BY <1>1

\* A rule has the addresses a probe names, as they resolve, and its ports;
\* there is no address if the endpoint is empty or its name is not found.
LEMMA TargetFacts ==
    ASSUME NEW probe, GoodEndpoint(probe), NEW resolve, GoodLookup(resolve)
    PROVE  LET target == extractTargetCIDRAndPort(probe, resolve)
           IN  /\ target.cidrs \subseteq HostAddresses /\ target.ports \subseteq 1..MaxPort
               /\ target.ports = IF probe.port # 0 THEN {probe.port}
                                                  ELSE defaultPorts(probe.type, probe.scheme)
               /\ \/ probe.host \in HostAddresses /\ target.cidrs = {probe.host}
                  \/ probe.host = "" /\ target.cidrs = {}
                  \/ probe.host \in {"backend", "workload"} /\ target.cidrs = resolve[probe.host]
<1> DEFINE target == extractTargetCIDRAndPort(probe, resolve)
<1>1. target.ports = IF probe.port # 0 THEN {probe.port} ELSE defaultPorts(probe.type, probe.scheme)
  BY Zenon DEF extractTargetCIDRAndPort
<1>2. defaultPorts(probe.type, probe.scheme) \subseteq {80, 443, 3306, 5432}
  <2> DEFINE ports == [PostgreSQL |-> {5432}, MySQL |-> {3306}, HTTP |-> {80, 443}, TLS |-> {443}]
  <2>1. ports[probe.type] \subseteq {80, 443, 3306, 5432}
    <3>1. /\ ports["PostgreSQL"] = {5432} /\ ports["MySQL"] = {3306}
          /\ ports["HTTP"] = {80, 443} /\ ports["TLS"] = {443}
      OBVIOUS
    <3> HIDE DEF ports
    <3>2. ports[probe.type] \in {{5432}, {3306}, {80, 443}, {443}}
      <4>1. probe.type \in {"PostgreSQL", "MySQL", "HTTP", "TLS"}
        BY DEF GoodEndpoint
      <4>2. CASE probe.type = "PostgreSQL"
        BY <3>1, <4>2
      <4>3. CASE probe.type = "MySQL"
        BY <3>1, <4>3
      <4>4. CASE probe.type = "HTTP"
        BY <3>1, <4>4
      <4>5. CASE probe.type = "TLS"
        BY <3>1, <4>5
      <4> QED BY <4>1, <4>2, <4>3, <4>4, <4>5
    <3> QED BY <3>2
  <2>2. defaultPorts(probe.type, probe.scheme)
          = CASE probe.scheme = "https" -> {443} [] probe.scheme = "http" -> {80} [] OTHER -> ports[probe.type]
    BY Zenon DEF defaultPorts
  <2> HIDE DEF ports
  <2>3. CASE probe.scheme = "https"
    <3>1. probe.scheme # "http"
      BY <2>3
    <3>2. defaultPorts(probe.type, probe.scheme) = {443}
      BY <2>2, <2>3, <3>1, Zenon
    <3> QED BY <3>2
  <2>4. CASE probe.scheme = "http"
    <3>1. probe.scheme # "https"
      BY <2>4
    <3>2. defaultPorts(probe.type, probe.scheme) = {80}
      BY <2>2, <2>4, <3>1, Zenon
    <3> QED BY <3>2
  <2>5. CASE probe.scheme \notin {"https", "http"}
    <3>1. defaultPorts(probe.type, probe.scheme) = ports[probe.type]
      BY <2>2, <2>5, Zenon
    <3> QED BY <2>1, <3>1
  <2> QED BY <2>3, <2>4, <2>5
<1>3. target.ports \subseteq 1..MaxPort
  <2> HIDE DEF target
  <2>1. CASE probe.port # 0
    <3>1. target.ports = {probe.port}
      BY <1>1, <2>1, Zenon
    <3>2. probe.port \in 1..MaxPort
      <4>1. probe.port \in 0..MaxPort
        BY DEF GoodEndpoint
      <4>2. MaxPort \in Nat
        BY PortFacts
      <4> QED BY <2>1, <4>1, <4>2
    <3> QED BY <3>1, <3>2, Zenon
  <2>2. CASE probe.port = 0
    <3>1. target.ports = defaultPorts(probe.type, probe.scheme)
      BY <1>1, <2>2, Zenon
    <3>2. {80, 443, 3306, 5432} \subseteq 1..MaxPort
      BY PortFacts
    <3>3. target.ports \subseteq {80, 443, 3306, 5432}
      BY <1>2, <3>1
    <3> QED BY <3>2, <3>3
  <2> QED BY <2>1, <2>2
<1>4. /\ target.cidrs \subseteq HostAddresses
      /\ \/ probe.host \in HostAddresses /\ target.cidrs = {probe.host}
         \/ probe.host = "" /\ target.cidrs = {}
         \/ probe.host \in {"backend", "workload"} /\ target.cidrs = resolve[probe.host]
  <2>0. target.cidrs = CASE probe.host = ""            -> {}
                         [] probe.host \in Everywhere  -> {probe.host}
                         [] OTHER                      -> resolve[probe.host]
    BY Zenon DEF extractTargetCIDRAndPort
  <2> HIDE DEF target
  <2>1. CASE probe.host \in HostAddresses
    <3>1. probe.host \in Everywhere /\ probe.host # ""
      BY <2>1, ValidationAssumption DEF Everywhere
    <3>2. target.cidrs = {probe.host}
      BY <2>0, <3>1, Zenon
    <3> QED BY <2>1, <3>2, Zenon
  <2>2. CASE probe.host = ""
    <3>1. probe.host \notin Everywhere
      BY <2>2, ValidationAssumption
    <3>2. target.cidrs = {}
      BY <2>0, <2>2, <3>1, Zenon
    <3> QED BY <2>2, <3>2, Zenon
  <2>3. CASE probe.host \in {"backend", "workload"}
    <3>1. probe.host \notin Everywhere /\ probe.host # ""
      BY <2>3, ValidationAssumption
    <3>2. target.cidrs = resolve[probe.host]
      BY <2>0, <3>1, Zenon
    <3>3. resolve[probe.host] \subseteq HostAddresses
      BY <2>3 DEF GoodLookup
    <3> QED BY <2>3, <3>2, <3>3, Zenon
  <2>4. probe.host \in HostAddresses \cup {"", "backend", "workload"}
    BY DEF GoodEndpoint
  <2>5. probe.host \in HostAddresses \/ probe.host = "" \/ probe.host \in {"backend", "workload"}
    BY <2>4
  <2> QED BY <2>1, <2>2, <2>3, <2>5, Zenon
<1> HIDE DEF target
<1>5. target = extractTargetCIDRAndPort(probe, resolve)
  BY DEF target
<1> QED BY <1>1, <1>3, <1>4, <1>5, Zenon

\* Both policies open nothing but the cluster's DNS, hosts that probes name
\* and, for the standard one, the canary's own namespace.
LEMMA PoliciesConfined ==
    ASSUME NEW probes, \A probe \in probes : probe.type # "Job" => GoodEndpoint(probe), NEW resolve, GoodLookup(resolve)
    PROVE  /\ BuildNetworkPolicy(probes, resolve)
                \subseteq ({"dns"} \cup HostAddresses \cup NamespacePods) \X (1..MaxPort)
           /\ BuildCiliumNetworkPolicy(probes, resolve)
                \subseteq ({"dns"} \cup HostAddresses) \X (1..MaxPort)
<1>1. coreDNS \subseteq {"dns"} \X (1..MaxPort)
  BY PortFacts DEF coreDNS
<1>2. ASSUME NEW probe \in probes, probe.type # "Job"
      PROVE  /\ extractTargetCIDRAndPort(probe, resolve).cidrs \subseteq HostAddresses
             /\ extractTargetCIDRAndPort(probe, resolve).ports \subseteq 1..MaxPort
  <2>1. GoodEndpoint(probe)
    BY <1>2
  <2> QED BY <2>1, TargetFacts
<1>3. ASSUME NEW rule \in BuildNetworkPolicy(probes, resolve)
      PROVE  rule \in ({"dns"} \cup HostAddresses \cup NamespacePods) \X (1..MaxPort)
  <2>1. CASE rule \in coreDNS
    BY <1>1, <2>1
  <2>2. CASE rule \notin coreDNS
    <3>1. PICK probe \in probes :
            LET target == extractTargetCIDRAndPort(probe, resolve)
            IN  /\ probe.type # "Job"
                /\ rule \in (IF target.cidrs = {} THEN NamespacePods ELSE target.cidrs) \X target.ports
      BY <1>3, <2>2 DEF BuildNetworkPolicy
    <3> QED BY <1>2, <3>1
  <2> QED BY <2>1, <2>2
<1>4. ASSUME NEW rule \in BuildCiliumNetworkPolicy(probes, resolve)
      PROVE  rule \in ({"dns"} \cup HostAddresses) \X (1..MaxPort)
  <2>1. CASE rule \in coreDNS
    BY <1>1, <2>1
  <2>2. CASE rule \notin coreDNS
    <3>1. PICK probe \in probes :
            LET target == extractTargetCIDRAndPort(probe, resolve)
            IN  /\ probe.type # "Job"
                /\ rule \in target.cidrs \X target.ports
      BY <1>4, <2>2 DEF BuildCiliumNetworkPolicy
    <3> QED BY <1>2, <3>1
  <2> QED BY <2>1, <2>2
<1> QED BY <1>3, <1>4

\* What one probe adds to a policy that is built now.
OpensNow(probe, rule) ==
    /\ probe.type # "Job"
    /\ rule[2] \in IF probe.port # 0 THEN {probe.port} ELSE defaultPorts(probe.type, probe.scheme)
    /\ \/ rule[1] \in HostAddresses /\ rule[1] = probe.host
       \/ probe.host = "workload" /\ rule[1] = "service"
       \/ probe.host = "backend" /\ rule[1] \in Resolve["backend"]
       \/ /\ ~Policy.cilium /\ rule[1] \in NamespacePods
          /\ probe.host = "" \/ (probe.host = "backend" /\ Resolve["backend"] = {})

\* The rules of the policy built now: DNS, and what single probes add.
BuiltNow ==
    IF Policy.cilium THEN BuildCiliumNetworkPolicy(ToSet(Policy.probes), Resolve)
                     ELSE BuildNetworkPolicy(ToSet(Policy.probes), Resolve)

\* In particular those of the policy's setup, at any moment.
LEMMA SetupConfined ==
    ASSUME setup \in DOMAIN Setups, world \in Worlds
    PROVE  /\ Resolve["backend"] \subseteq HostAddresses
           /\ BuiltNow \subseteq Everywhere \X (1..MaxPort)
           /\ \A rule \in BuiltNow :
                 rule = <<"dns", 53>> \/ \E probe \in ToSet(Policy.probes) : OpensNow(probe, rule)
<1> DEFINE probes == ToSet(Policy.probes)
           Target(probe) == extractTargetCIDRAndPort(probe, Resolve)
<1>1. \A probe \in probes : probe.type # "Job" => GoodEndpoint(probe)
  BY ValidationAssumption DEF Policy, GoodEndpoint
<1>2. Resolve["backend"] \subseteq HostAddresses /\ Resolve["workload"] = {"service"} /\ "service" \in HostAddresses
  BY ValidationAssumption DEF Resolve
<1>3. GoodLookup(Resolve)
  BY <1>2 DEF GoodLookup
<1>4. BuiltNow \subseteq Everywhere \X (1..MaxPort)
  <2>1. /\ ({"dns"} \cup HostAddresses \cup NamespacePods) \subseteq Everywhere
        /\ ({"dns"} \cup HostAddresses) \subseteq Everywhere
    BY DEF Everywhere
  <2>2. /\ BuildNetworkPolicy(probes, Resolve) \subseteq ({"dns"} \cup HostAddresses \cup NamespacePods) \X (1..MaxPort)
        /\ BuildCiliumNetworkPolicy(probes, Resolve) \subseteq ({"dns"} \cup HostAddresses) \X (1..MaxPort)
    BY <1>1, <1>3, PoliciesConfined
  <2> QED BY <2>1, <2>2 DEF BuiltNow
<1>5. ASSUME NEW rule \in BuiltNow, rule \notin coreDNS
      PROVE  \E probe \in probes : OpensNow(probe, rule)
  <2>1. PICK probe \in probes :
          /\ probe.type # "Job"
          /\ \/ rule \in Target(probe).cidrs \X Target(probe).ports
             \/ /\ ~Policy.cilium /\ Target(probe).cidrs = {}
                /\ rule \in NamespacePods \X Target(probe).ports
    <3>1. CASE Policy.cilium
      BY <1>5, <3>1 DEF BuiltNow, BuildCiliumNetworkPolicy
    <3>2. CASE ~Policy.cilium
      <4>1. PICK probe \in probes :
               /\ probe.type # "Job"
               /\ rule \in (IF Target(probe).cidrs = {} THEN NamespacePods ELSE Target(probe).cidrs) \X Target(probe).ports
        BY <1>5, <3>2 DEF BuiltNow, BuildNetworkPolicy
      <4> QED BY <3>2, <4>1
    <3> QED BY <3>1, <3>2
  <2>2. /\ Target(probe).ports = IF probe.port # 0 THEN {probe.port}
                                                  ELSE defaultPorts(probe.type, probe.scheme)
        /\ \/ probe.host \in HostAddresses /\ Target(probe).cidrs = {probe.host}
           \/ probe.host = "" /\ Target(probe).cidrs = {}
           \/ probe.host \in {"backend", "workload"} /\ Target(probe).cidrs = Resolve[probe.host]
    <3>1. GoodEndpoint(probe)
      BY <1>1, <2>1
    <3> QED BY <1>3, <3>1, TargetFacts
  <2> HIDE DEF Target
  <2>3. rule[2] \in Target(probe).ports
    BY <2>1
  <2>4. \/ rule[1] \in Target(probe).cidrs
        \/ ~Policy.cilium /\ Target(probe).cidrs = {} /\ rule[1] \in NamespacePods
    BY <2>1
  <2>5. \/ rule[1] \in HostAddresses /\ rule[1] = probe.host
        \/ probe.host = "workload" /\ rule[1] = "service"
        \/ probe.host = "backend" /\ rule[1] \in Resolve["backend"]
        \/ /\ ~Policy.cilium /\ rule[1] \in NamespacePods
           /\ probe.host = "" \/ (probe.host = "backend" /\ Resolve["backend"] = {})
    <3>1. CASE probe.host \in HostAddresses /\ Target(probe).cidrs = {probe.host}
      BY <2>4, <3>1
    <3>2. CASE probe.host = "" /\ Target(probe).cidrs = {}
      BY <2>4, <3>2
    <3>3. CASE probe.host = "backend" /\ Target(probe).cidrs = Resolve["backend"]
      BY <2>4, <3>3
    <3>4. CASE probe.host = "workload" /\ Target(probe).cidrs = Resolve["workload"]
      BY <1>2, <2>4, <3>4
    <3> QED BY <2>2, <3>1, <3>2, <3>3, <3>4
  <2>6. OpensNow(probe, rule)
    BY <2>1, <2>2, <2>3, <2>5, Zenon DEF OpensNow
  <2> QED BY <2>6
<1> QED BY <1>2, <1>4, <1>5 DEF coreDNS

-----------------------------------------------------------------------------
(* Types, and what the canary may open.                                    *)

\* The revision of a read is not the absence of one.
LEMMA RevisionFacts ==
    ASSUME NEW data, NEW version
    PROVE  /\ Revision(data, version).version = version
           /\ version # 0 => Revision(data, version) # NoRevision
<1>1. Revision(data, version).version = version
  BY DEF Revision
<1>2. NoRevision.version = 0
  BY DEF NoRevision
<1> QED BY <1>1, <1>2

\* A read of the source, in pieces.
LEMMA ReadFacts ==
    ASSUME materializeSecretRevision
    PROVE  \E data \in FetchSecret(Policy.type, Policy.parseJSON, source.entries) : \E rev :
             /\ rev = Revision(data, source.version)
             /\ phase \in {"idle", "halted"}
             /\ DOMAIN secrets' = DOMAIN secrets \cup {rev}
             /\ polled' = polled \cup {<<source.version, rev>>}
             /\ \/ rev \in {current, desired} /\ desired' = desired /\ phase' = phase
                \/ desired' = rev /\ phase' = "prepared"
             /\ UNCHANGED <<setup, world, source, current, netpol, resolved>>
<1>1. PICK data \in FetchSecret(Policy.type, Policy.parseJSON, source.entries) :
        LET rev == Revision(data, source.version)
        IN  /\ \E stored \in SecretData(Policy.type, Policy.certificate, data) :
                  secrets' = [r \in DOMAIN secrets \cup {rev} |->
                                  IF r \in DOMAIN secrets THEN secrets[r] ELSE stored]
            /\ polled' = polled \cup {<<source.version, rev>>}
            /\ IF rev \in {current, desired}
               THEN UNCHANGED <<desired, phase>>
               ELSE desired' = rev /\ phase' = "prepared"
  BY DEF materializeSecretRevision
<1> DEFINE rev == Revision(data, source.version)
<1>2. /\ DOMAIN secrets' = DOMAIN secrets \cup {rev}
      /\ polled' = polled \cup {<<source.version, rev>>}
      /\ \/ rev \in {current, desired} /\ desired' = desired /\ phase' = phase
         \/ desired' = rev /\ phase' = "prepared"
  BY <1>1
<1>3. phase \in {"idle", "halted"} /\ UNCHANGED <<setup, world, source, current, netpol, resolved>>
  BY DEF materializeSecretRevision
<1> QED BY <1>2, <1>3

\* Initially nothing is materialized and no network policy exists.
LEMMA TypeInit == Init => TypeOK /\ EgressConfined
<1> SUFFICES ASSUME Init PROVE TypeOK /\ EgressConfined
  OBVIOUS
<1>1. source.version = 1 /\ source.entries \in Policy.contents
  BY DEF Init
<1>2. MaxVersion \in Nat /\ 1 <= MaxVersion
  <2>1. MaxVersion \in Nat \ {0}
    BY ValidationAssumption, Zenon
  <2> QED BY <2>1
<1>3. source.version \in 1..MaxVersion
  BY <1>1, <1>2
<1>4. netpol = {} /\ resolved = {} /\ current = NoRevision /\ desired = NoRevision /\ phase = "idle"
  BY DEF Init, NoPolicy
<1>5. setup \in DOMAIN Setups /\ world \in Worlds
  BY DEF Init
<1> QED BY <1>1, <1>3, <1>4, <1>5 DEF TypeOK, EgressConfined

\* Every step keeps types and confinement: a network policy is built from
\* probes and lookups of the admitted kinds, kept or deleted.
LEMMA TypeNext == TypeOK /\ EgressConfined /\ [Next]_vars => TypeOK' /\ EgressConfined'
<1> SUFFICES ASSUME TypeOK, EgressConfined, [Next]_vars PROVE TypeOK' /\ EgressConfined'
  OBVIOUS
<1>a. setup' = setup /\ Policy' = Policy
  BY DEF Next, materializeSecretRevision, ProvisionCanary, Promote, Trip, WriteSource, WorldChanges,
    vars, Policy
<1>b. ASSUME netpol' = {} \/ UNCHANGED <<netpol, resolved>> PROVE EgressConfined'
  BY <1>a, <1>b DEF EgressConfined, Opened
<1>1. CASE materializeSecretRevision
  <2>1. PICK data, rev :
          /\ rev = Revision(data, source.version)
          /\ phase \in {"idle", "halted"}
          /\ DOMAIN secrets' = DOMAIN secrets \cup {rev}
          /\ \/ rev \in {current, desired} /\ desired' = desired /\ phase' = phase
             \/ desired' = rev /\ phase' = "prepared"
          /\ UNCHANGED <<setup, world, source, current, netpol, resolved>>
    BY <1>1, ReadFacts
  <2>2. rev # NoRevision
    BY <2>1, RevisionFacts DEF TypeOK
  <2>3. TypeOK'
    BY <1>a, <2>1, <2>2 DEF TypeOK
  <2> QED BY <1>b, <2>1, <2>3
<1>2. CASE ProvisionCanary
  <2> DEFINE probes == ToSet(Policy.probes)
  <2>1. /\ phase = "prepared" /\ phase' = "validating"
        /\ UNCHANGED <<setup, world, source, secrets, current, desired, polled>>
    BY <1>2 DEF ProvisionCanary
  <2>2. CASE UNCHANGED <<netpol, resolved>>
    BY <1>a, <1>b, <2>1, <2>2 DEF TypeOK
  <2>3. CASE /\ netpol' = IF Policy.cilium THEN BuildCiliumNetworkPolicy(probes, Resolve)
                                           ELSE BuildNetworkPolicy(probes, Resolve)
             /\ resolved' = Resolve.backend
    <3>1. netpol' = BuiltNow /\ resolved' = Resolve["backend"]
      BY <2>3 DEF BuiltNow
    <3>2. setup \in DOMAIN Setups /\ world \in Worlds
      BY DEF TypeOK
    <3>3. TypeOK'
      BY <1>a, <2>1, <3>1, <3>2, SetupConfined DEF TypeOK
    <3>4. \A probe, rule : OpensNow(probe, rule) => Opened(probe, rule[1], rule[2])'
      BY <1>a, <3>1 DEF OpensNow, Opened
    <3>5. EgressConfined'
      BY <1>a, <3>1, <3>2, <3>4, SetupConfined DEF EgressConfined
    <3> QED BY <3>3, <3>5
  <2> QED BY <1>2, <2>2, <2>3 DEF ProvisionCanary
<1>3. CASE Promote
  <2>1. /\ phase = "validating" /\ current' = desired /\ desired' = NoRevision /\ phase' = "idle"
        /\ DOMAIN secrets' = DOMAIN secrets \cap {current, desired}
        /\ UNCHANGED <<setup, world, source>>
        /\ (netpol' = {} /\ resolved' = {}) \/ UNCHANGED <<netpol, resolved>>
    BY <1>3 DEF Promote, CleanupCanaryResources, NoPolicy
  <2>2. desired \in DOMAIN secrets'
    BY <2>1 DEF TypeOK
  <2> QED BY <1>a, <1>b, <2>1, <2>2 DEF TypeOK
<1>4. CASE Trip
  <2>1. /\ phase = "validating" /\ phase' = "halted"
        /\ UNCHANGED <<setup, world, source, secrets, current, desired>>
        /\ (netpol' = {} /\ resolved' = {}) \/ UNCHANGED <<netpol, resolved>>
    BY <1>4 DEF Trip, CleanupCanaryResources, NoPolicy
  <2> QED BY <1>a, <1>b, <2>1 DEF TypeOK
<1>5. CASE WriteSource
  <2>1. PICK entries \in Policy.contents : source' = [version |-> source.version + 1, entries |-> entries]
    BY <1>5 DEF WriteSource
  <2>2. source'.version \in 1..MaxVersion /\ source'.entries \in Policy.contents
    <3>1. source.version \in 1..MaxVersion /\ source.version < MaxVersion /\ MaxVersion \in Nat
      BY <1>5, ValidationAssumption DEF WriteSource, TypeOK
    <3>2. source'.version = source.version + 1 /\ source'.entries = entries
      BY <2>1
    <3> QED BY <3>1, <3>2
  <2> QED BY <1>5, <1>a, <1>b, <2>2 DEF WriteSource, rotationVars, TypeOK
<1>6. CASE WorldChanges
  BY <1>6, <1>a, <1>b DEF WorldChanges, rotationVars, TypeOK
<1>7. CASE UNCHANGED vars
  BY <1>7, <1>a, <1>b DEF vars, rotationVars, TypeOK
<1> QED BY <1>1, <1>2, <1>3, <1>4, <1>5, <1>6, <1>7 DEF Next

\* Type correctness: a revision is desired exactly while a rotation is under
\* way or halted, and the Secrets of the current and the desired revision are
\* there, whatever the collection of older ones removed.
THEOREM ValidationType == Spec => []TypeOK
BY TypeInit, TypeNext, PTL DEF Spec

\* However probes are configured, hosts move, lookups fail and policies are
\* left over: every rule of the canary's egress is the DNS rule or is owed to
\* one probe, address and port together.  It is the namespace's pods only under
\* the standard policy and for a probe without an address at that time.
THEOREM EgressStaysConfined == Spec => []EgressConfined
BY TypeInit, TypeNext, PTL DEF Spec

-----------------------------------------------------------------------------
(* Revisions number the writes.                                            *)

\* Unless JSON entries collide, one version of the source reads as one
\* payload.
LEMMA OnePayload ==
    ASSUME TypeOK, ~Colliding,
           NEW d \in FetchSecret(Policy.type, Policy.parseJSON, source.entries),
           NEW e \in FetchSecret(Policy.type, Policy.parseJSON, source.entries)
    PROVE  d = e
<1> DEFINE fetched == FetchSecret(Policy.type, Policy.parseJSON, source.entries)
           json == {k \in DOMAIN source.entries : source.entries[k].json}
<1>0. setup \in DOMAIN Setups /\ source.entries \in Policy.contents
  BY DEF TypeOK
<1>1. CASE Policy.type \in Providers /\ ~Policy.parseJSON
  <2>1. fetched = {[k \in DOMAIN source.entries |-> source.entries[k].value]}
    BY <1>1, Zenon DEF FetchSecret
  <2> QED BY <2>1, Zenon
<1>2. CASE Policy.type = "K8sSecret" /\ Policy.parseJSON
  <2>1. Policy.type # "AzureKeyVault"
    BY <1>2
  <2>2. fetched = Merged(source.entries)
    BY <1>2, <2>1, Zenon DEF FetchSecret
  <2> QED BY <1>0, <1>2, <2>2, Zenon DEF Colliding
<1>3. CASE Policy.type = "AzureKeyVault" /\ Policy.parseJSON
  <2>1. Policy.type # "K8sSecret"
    BY <1>3
  <2>2. fetched = {source.entries[k].object : k \in json}
    BY <1>3, <2>1, Zenon DEF FetchSecret
  <2>3. \A k, l \in DOMAIN source.entries : k = l
    BY <1>0, <1>3, ValidationAssumption, Zenon DEF Policy
  <2>4. PICK k \in json : d = source.entries[k].object
    BY <2>2, Zenon
  <2>5. PICK l \in json : e = source.entries[l].object
    BY <2>2, Zenon
  <2>6. k = l
    BY <2>3, <2>4, <2>5, Zenon
  <2> QED BY <2>4, <2>5, <2>6, Zenon
<1>4. CASE Policy.type \notin Providers
  <2>1. Policy.type # "K8sSecret" /\ Policy.type # "AzureKeyVault"
    BY <1>4 DEF Providers
  <2>2. fetched = {}
    BY <1>4, <2>1, Zenon DEF FetchSecret
  <2> QED BY <2>2, Zenon
<1> QED BY <1>1, <1>2, <1>3, <1>4, Zenon DEF Providers

\* The revisions read carry the version they were read from, no version is
\* ahead of the source's, and those of the present version are of a payload
\* that may be read again.
PolledInv ==
    /\ \A p \in polled : p[2].version = p[1] /\ p[1] \in Nat /\ p[1] <= source.version
    /\ \A p \in polled : p[1] = source.version =>
          \E data \in FetchSecret(Policy.type, Policy.parseJSON, source.entries) :
             p[2] = Revision(data, source.version)
    /\ \A p, q \in polled : p[1] = q[1] => p[2] = q[2] \/ Colliding

\* Initially nothing has been read.
LEMMA PolledInit == Init => PolledInv
BY DEF Init, PolledInv

\* Every step keeps it: a read adds a revision of the present version, a write
\* makes a version no read has seen.
LEMMA PolledNext == TypeOK /\ PolledInv /\ [Next]_vars => PolledInv'
<1> SUFFICES ASSUME TypeOK, PolledInv, [Next]_vars PROVE PolledInv'
  OBVIOUS
<1>a. Policy' = Policy /\ Colliding' = Colliding
  BY DEF Next, materializeSecretRevision, ProvisionCanary, Promote, Trip, WriteSource, WorldChanges,
    vars, Policy, Colliding
<1>v. source.version \in Nat
  BY DEF TypeOK
<1>b. ASSUME UNCHANGED <<source, polled>> PROVE PolledInv'
  BY <1>a, <1>b DEF PolledInv
<1>1. CASE materializeSecretRevision
  <2>1. PICK data \in FetchSecret(Policy.type, Policy.parseJSON, source.entries) :
          /\ polled' = polled \cup {<<source.version, Revision(data, source.version)>>}
          /\ source' = source
    BY <1>1, ReadFacts
  <2> DEFINE new == <<source.version, Revision(data, source.version)>>
  <2>2. new[1] = source.version /\ new[2] = Revision(data, source.version)
    OBVIOUS
  <2>3. polled' = polled \cup {new} /\ source' = source
    BY <2>1
  <2> HIDE DEF new
  <2>4. \A p \in polled' : p[2].version = p[1] /\ p[1] \in Nat /\ p[1] <= source'.version
    BY <1>v, <2>2, <2>3, RevisionFacts DEF PolledInv
  <2>5. ASSUME NEW p \in polled', p[1] = source'.version
        PROVE  \E d \in FetchSecret(Policy.type, Policy.parseJSON, source.entries) :
                  p[2] = Revision(d, source.version)
    BY <2>2, <2>3, <2>5 DEF PolledInv
  <2>6. ASSUME NEW p \in polled', NEW q \in polled', p[1] = q[1], ~Colliding
        PROVE  p[2] = q[2]
    <3>1. CASE p[1] = source.version
      <4>1. PICK d \in FetchSecret(Policy.type, Policy.parseJSON, source.entries) :
               p[2] = Revision(d, source.version)
        BY <2>3, <2>5, <3>1
      <4>2. PICK e \in FetchSecret(Policy.type, Policy.parseJSON, source.entries) :
               q[2] = Revision(e, source.version)
        BY <2>3, <2>5, <2>6, <3>1
      <4>3. d = e
        BY <2>6, OnePayload
      <4> QED BY <4>1, <4>2, <4>3
    <3>2. CASE p[1] # source.version
      BY <2>2, <2>3, <2>6, <3>2 DEF PolledInv
    <3> QED BY <3>1, <3>2
  <2> QED BY <1>a, <2>3, <2>4, <2>5, <2>6 DEF PolledInv
<1>2. CASE WriteSource
  <2>1. source'.version = source.version + 1 /\ polled' = polled
    BY <1>2 DEF WriteSource
  <2>2. \A p \in polled : p[1] \in Nat /\ p[1] <= source.version
    BY DEF PolledInv
  <2>3. \A p \in polled' : p[1] <= source'.version /\ p[1] # source'.version
    BY <1>v, <2>1, <2>2
  <2> QED BY <1>a, <2>1, <2>3 DEF PolledInv
<1>3. CASE ProvisionCanary \/ Promote \/ Trip \/ WorldChanges \/ UNCHANGED vars
  BY <1>3, <1>b DEF ProvisionCanary, Promote, Trip, WorldChanges, vars
<1> QED BY <1>1, <1>2, <1>3 DEF Next

\* No two writes of the source share a revision, however often a payload
\* comes back; and unless JSON entries of a Kubernetes Secret have a key in
\* common, no write ever has two, so polling alone starts no rotation.
THEOREM RevisionsAreWrites == Spec => []RevisionsNumberWrites
<1>1. PolledInv => RevisionsNumberWrites
  <2> SUFFICES ASSUME PolledInv, NEW a \in polled, NEW b \in polled
               PROVE  (a[2] = b[2] => a[1] = b[1]) /\ (a[1] = b[1] => a[2] = b[2] \/ Colliding)
    BY DEF RevisionsNumberWrites
  <2>1. a[2].version = a[1] /\ b[2].version = b[1]
    BY DEF PolledInv
  <2> QED BY <2>1 DEF PolledInv
<1> QED BY <1>1, ValidationType, PolledInit, PolledNext, PTL DEF Spec

-----------------------------------------------------------------------------
(* Passes are real.                                                        *)

\* A configured key with a value is what the PostgreSQL executor sends.
LEMMA ConfiguredKeyFirst ==
    ASSUME NEW probe, NEW data, At(data, probe.passwordKey) # Empty
    PROVE  postgresPassword(probe, data) = At(data, probe.passwordKey)
BY DEF postgresPassword, FirstOf

\* The three kinds of probe that are about what the workload reads.
LEMMA TestedFacts ==
    ASSUME NEW probe, ProbePasses(probe)
    PROVE  /\ probe.type = "PostgreSQL" =>
                 <<Received(postgresUsername(probe, Data)), Received(postgresPassword(probe, Data))>>
                   \in world.accounts
           /\ isWorkloadProbe(probe) /\ Policy.appKey # "tls.crt" => Works(Data)
           /\ probe.type = "TLS" /\ "certificate" \in PinnedPEM(Data).holds
                => PinnedPEM(Data).text \in CanaryPeer.presents
<1>1. ASSUME probe.type = "PostgreSQL" PROVE PostgresExecute(probe, Data, world)
  <2>1. probe.type \notin {"MySQL", "TLS", "HTTP"}
    BY <1>1
  <2> QED BY <1>1, <2>1, Zenon DEF ProbePasses
<1>2. ASSUME probe.type = "TLS" PROVE TLSExecute(probe, Data, CanaryPeer)
  <2>1. probe.type \notin {"PostgreSQL", "MySQL", "HTTP"}
    BY <1>2
  <2> QED BY <1>2, <2>1, Zenon DEF ProbePasses
<1>3. ASSUME isWorkloadProbe(probe), Policy.appKey # "tls.crt" PROVE Works(Data)
  BY <1>3, Zenon DEF ProbePasses, CanaryReady
<1>4. PostgresExecute(probe, Data, world) =>
        <<Received(postgresUsername(probe, Data)), Received(postgresPassword(probe, Data))>> \in world.accounts
  BY Zenon DEF PostgresExecute, Admits
<1>5. TLSExecute(probe, Data, CanaryPeer) /\ "certificate" \in PinnedPEM(Data).holds
        => PinnedPEM(Data).text \in CanaryPeer.presents
  <2> SUFFICES ASSUME TLSExecute(probe, Data, CanaryPeer), "certificate" \in PinnedPEM(Data).holds
               PROVE  PinnedPEM(Data).text \in CanaryPeer.presents
    OBVIOUS
  <2>1. PinnedPEM(Data).holds \cap {"certificate", "key"} # {}
    OBVIOUS
  <2> QED BY <2>1, Zenon DEF TLSExecute
<1> QED BY <1>1, <1>2, <1>3, <1>4, <1>5, Zenon

\* Whatever happened to the source and the backend in between, promotion
\* finds a workload that works with the desired revision, if some probe is
\* about what the workload reads.
THEOREM PromotedRevisionsWork == Spec => PassesAreReal
<1>1. [Next]_vars => [current' # current /\ Tested(Data) => Works(Data)]_vars
  <2> SUFFICES ASSUME [Next]_vars, current' # current, Tested(Data) PROVE Works(Data)
    OBVIOUS
  <2>1. Promote
    BY DEF Next, materializeSecretRevision, ProvisionCanary, Trip, WriteSource, WorldChanges,
      rotationVars, vars
  <2>2. \A i \in DOMAIN Policy.probes : ProbePasses(Policy.probes[i])
    BY <2>1 DEF Promote, ProbesPass
  <2>3. PICK i \in DOMAIN Policy.probes :
          LET probe == Policy.probes[i]
          IN  \/ /\ probe.type = "PostgreSQL" /\ probe.passwordKey = Policy.appKey
                 /\ Policy.appKey # "tls.crt"
                 /\ Received(postgresUsername(probe, Data)) = AppUser(Data)
                 /\ At(Data, Policy.appKey) # Empty
                 /\ Received(At(Data, Policy.appKey)) = At(Data, Policy.appKey)
              \/ probe.type = "HTTP" /\ isWorkloadProbe(probe) /\ Policy.appKey # "tls.crt"
              \/ probe.type = "TLS" /\ "certificate" \in PinnedPEM(Data).holds
    BY DEF Tested
  <2> DEFINE probe == Policy.probes[i]
  <2>4. ProbePasses(probe)
    BY <2>2
  <2>5. CASE /\ probe.type = "PostgreSQL" /\ probe.passwordKey = Policy.appKey
             /\ Policy.appKey # "tls.crt"
             /\ Received(postgresUsername(probe, Data)) = AppUser(Data)
             /\ At(Data, Policy.appKey) # Empty
             /\ Received(At(Data, Policy.appKey)) = At(Data, Policy.appKey)
    <3>1. postgresPassword(probe, Data) = At(Data, Policy.appKey)
      BY <2>5, ConfiguredKeyFirst
    <3>2. <<AppUser(Data), At(Data, Policy.appKey)>> \in world.accounts
      BY <2>4, <2>5, <3>1, TestedFacts
    <3> QED BY <2>5, <3>2 DEF Works
  <2>6. CASE probe.type = "HTTP" /\ isWorkloadProbe(probe) /\ Policy.appKey # "tls.crt"
    BY <2>4, <2>6, TestedFacts
  <2>7. CASE probe.type = "TLS" /\ "certificate" \in PinnedPEM(Data).holds
    <3>1. CASE Policy.appKey # "tls.crt"
      BY <2>4, <2>7, <3>1, TestedFacts DEF isWorkloadProbe
    <3>2. CASE Policy.appKey = "tls.crt"
      <4>1. PinnedPEM(Data).text \in CanaryPeer.presents
        BY <2>4, <2>7, TestedFacts
      <4>2. world.loads /\ "certificate" \in At(Data, "tls.crt").holds
        BY <4>1 DEF CanaryPeer
      <4> QED BY <3>2, <4>2 DEF Works
    <3> QED BY <3>1, <3>2
  <2> QED BY <2>3, <2>5, <2>6, <2>7
<1> QED BY <1>1, PTL DEF Spec, PassesAreReal
=============================================================================
