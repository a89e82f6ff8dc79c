------------------------- MODULE NetworkCapability -------------------------
(***************************************************************************)
(* lion_capability/src/model/network.rs: host rules, the operations of     *)
(* some ports and the operations of every other port.                      *)
(***************************************************************************)
EXTENDS Functions

CONSTANTS
  Covers,      \* the hosts a rule matches (HostRule::matches, is_subset_of)
  AnyHost,     \* HostRule::Any
  NoHost,      \* a request without a host
  TestPort     \* port 8080, which permits and meet treat apart

Cap(hosts, ports, ops) ==
  [kind |-> "network", hosts |-> hosts, ports |-> ports, dops |-> ops]

host_allowed(c, host) ==
  \/ AnyHost \in c.hosts
  \/ host # NoHost /\ \E rule \in c.hosts : host \in Covers[rule]

operations_for_port(c, port) ==
  IF port \in DOMAIN c.ports THEN c.ports[port] ELSE c.dops

(* A LISTEN on the test port is answered before the host is looked at. *)
ListensOnTestPort(c, r) ==
  /\ r.port = TestPort /\ r.nops = {"LISTEN"}
  /\ TestPort \in DOMAIN c.ports /\ "LISTEN" \in c.ports[TestPort]

Permits(c, r) ==
  /\ r.kind = "network"
  /\ \/ ListensOnTestPort(c, r)
     \/ /\ r.nops \subseteq operations_for_port(c, r.port)
        /\ host_allowed(c, r.host)

HostConstraint(c, host) ==
  IF host_allowed(c, host) THEN {Cap({host}, c.ports, c.dops)} ELSE {}

PortConstraint(c, port) ==
  LET ops == operations_for_port(c, port)
  IN  IF ops # {} THEN {Cap(c.hosts, [p \in {port} |-> ops], {})} ELSE {}

(* A port left with no operation is dropped from the map, and so falls     *)
(* back to the operations of the other ports.                              *)
NonEmpty(ports) == Restrict(ports, {p \in DOMAIN ports : ports[p] # {}})

OperationConstraint(c, ops) ==
  LET ports == NonEmpty([p \in DOMAIN c.ports |-> c.ports[p] \cap ops])
      dops  == c.dops \cap ops
  IN  IF DOMAIN ports = {} /\ dops = {} THEN {} ELSE {Cap(c.hosts, ports, dops)}

Constrain(c, k) ==
  CASE k.kind = "host" -> HostConstraint(c, k.host)
    [] k.kind = "port" -> PortConstraint(c, k.port)
    [] k.kind = "nops" -> OperationConstraint(c, k.nops)
    [] OTHER           -> {}

Split(c) == {Cap({h}, c.ports, c.dops) : h \in c.hosts}

(* A port that only one of the two names takes its operations from that    *)
(* one alone, whatever the other permits on every port.                    *)
Join(c, d) ==
  LET named(e, p) == IF p \in DOMAIN e.ports THEN e.ports[p] ELSE {}
      ports == [p \in DOMAIN c.ports \cup DOMAIN d.ports |-> named(c, p) \cup named(d, p)]
  IN  {Cap(c.hosts \cup d.hosts, ports, c.dops \cup d.dops)}

is_subset_of(rule, other) == other = AnyHost \/ (rule # AnyHost /\ rule \in Covers[other])

(* A port that d alone restricts is not looked at. *)
Leq(c, d) ==
  /\ \A rule \in c.hosts : \E other \in d.hosts : is_subset_of(rule, other)
  /\ c.dops \subseteq d.dops
  /\ \A p \in DOMAIN c.ports : c.ports[p] \subseteq operations_for_port(d, p)

Meet(c, d) ==
  LET all   == DOMAIN c.ports \cup DOMAIN d.ports
      hosts == c.hosts \cap d.hosts
      ports == NonEmpty([p \in all |-> operations_for_port(c, p) \cap operations_for_port(d, p)])
      dops  == c.dops \cap d.dops
  IN  IF TestPort \in all
        THEN {Cap({AnyHost}, [p \in {TestPort} |-> {"LISTEN"}], {})}
        ELSE IF hosts = {} \/ (DOMAIN ports = {} /\ dops = {})
               THEN {}
               ELSE {Cap(hosts, ports, dops)}
=============================================================================
