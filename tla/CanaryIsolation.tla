-------------------------- MODULE CanaryIsolation --------------------------
(***************************************************************************)
(* The network policies built for a canary: which addresses and ports its  *)
(* pods may open.  Host names are resolved once, when a policy is built.   *)
(* Enforcement is the CNI's, external to this repository.                  *)
(***************************************************************************)
EXTENDS Naturals

\* Addresses: those of the cluster's DNS, of the pods of the canary's
\* namespace, of hosts that probes name, and others.
CONSTANTS NamespacePods, HostAddresses, OtherAddresses

Everywhere == {"dns"} \cup NamespacePods \cup HostAddresses \cup OtherAddresses

\* TCP ports are 1..MaxPort.
MaxPort == 65535

defaultPorts(type, scheme) ==
    CASE scheme = "https" -> {443}
      [] scheme = "http"  -> {80}
      [] OTHER -> [PostgreSQL |-> {5432}, MySQL |-> {3306}, HTTP |-> {80, 443}, TLS |-> {443}][type]

\* Faulty: the port in the endpoint is not used.
extractTargetCIDRAndPort_DefaultPort(probe, resolve) ==
    [cidrs |-> CASE probe.host = ""            -> {}
                 [] probe.host \in Everywhere  -> {probe.host}
                 [] OTHER                      -> resolve[probe.host],
     ports |-> defaultPorts(probe.type, probe.scheme)]

\* resolve: what a lookup of each host name returns now, nothing on failure.
extractTargetCIDRAndPort(probe, resolve) ==
    [cidrs |-> CASE probe.host = ""            -> {}
                 [] probe.host \in Everywhere  -> {probe.host}
                 [] OTHER                      -> resolve[probe.host],
     ports |-> IF probe.port # 0 THEN {probe.port} ELSE defaultPorts(probe.type, probe.scheme)]

coreDNS == {<<"dns", 53>>}

\* Faulty: an endpoint that does not resolve gives a rule without peers,
\* which matches every destination.
BuildNetworkPolicy_EmptyTo(probes, resolve) ==
    LET Rule(probe) ==
            LET target == extractTargetCIDRAndPort(probe, resolve)
            IN  (IF target.cidrs = {} THEN Everywhere ELSE target.cidrs) \X target.ports
    IN  coreDNS \cup UNION {Rule(probe) : probe \in {p \in probes : p.type # "Job"}}

\* The egress of the standard policy.  An endpoint that does not resolve
\* falls back to a pod selector without a namespace selector: every pod of
\* the canary's own namespace.
BuildNetworkPolicy(probes, resolve) ==
    LET Rule(probe) ==
            LET target == extractTargetCIDRAndPort(probe, resolve)
            IN  (IF target.cidrs = {} THEN NamespacePods ELSE target.cidrs) \X target.ports
    IN  coreDNS \cup UNION {Rule(probe) : probe \in {p \in probes : p.type # "Job"}}

\* The egress of the Cilium policy: such an endpoint gets no rule.
BuildCiliumNetworkPolicy(probes, resolve) ==
    LET Rule(probe) ==
            LET target == extractTargetCIDRAndPort(probe, resolve)
            IN  target.cidrs \X target.ports
    IN  coreDNS \cup UNION {Rule(probe) : probe \in {p \in probes : p.type # "Job"}}
=============================================================================
