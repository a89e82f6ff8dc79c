----------------------------- MODULE Capability -----------------------------
(***************************************************************************)
(* lion_capability: the methods of the Capability trait (model/            *)
(* capability.rs), which dispatch on the kind of a capability, for the     *)
(* five leaves and for the capabilities built from others: composite       *)
(* (model/composite.rs), combine, filter and proxy (attenuation/), and     *)
(* "policy", what lion_policy puts around a capability                     *)
(* (TestFileCapability, integration/mapper.rs).                            *)
(* A method that may fail answers with a set, as in FileCapability.        *)
(***************************************************************************)
EXTENDS Naturals, Sequences, FiniteSets, Functions

CONSTANTS
  Under,                       \* the paths below "/tmp" and below "/var"
  Covers,                      \* what each pattern, rule or name matches
  AnyHost, NoHost, TestPort,   \* see NetworkCapability
  TestPath,                    \* "/tmp/file.txt", which two meets add
  Requests                     \* the access requests of the instance

F == INSTANCE FileCapability
N == INSTANCE NetworkCapability
M == INSTANCE MemoryCapability
S == INSTANCE MessageCapability
P == INSTANCE PluginCallCapability

Filter(inner, pass) == [kind |-> "filter", inner |-> inner, pass |-> pass]

Proxy(inner, to) == [kind |-> "proxy", inner |-> inner, to |-> to]

Composite(parts) == [kind |-> "composite", parts |-> parts]

Combine(strategy, caps) == [kind |-> "combine", strategy |-> strategy, caps |-> caps]

PolicyOf(inner) == [kind |-> "policy", inner |-> inner]

RECURSIVE capability_type(_), Permits(_, _), Constrain(_, _), Split(_), Join(_, _),
          Leq(_, _), Meet(_, _)

(* A filter, a proxy or a policy passes for what it wraps. *)
capability_type(c) ==
  IF c.kind \in {"filter", "proxy", "policy"} THEN capability_type(c.inner) ELSE c.kind

(* ALL looks only at the members whose type is that of the request. *)
CombinePermits(c, r) ==
  LET relevant == {e \in c.caps : capability_type(e) = r.kind}
  IN  IF c.strategy = "All"
        THEN relevant # {} /\ \A e \in relevant : Permits(e, r)
        ELSE \E e \in c.caps : Permits(e, r)

(* Mutant: the filter is not asked. *)
IgnoreFilter(c, r) == Permits(c.inner, r)

FilterPermits(c, r) == r \in c.pass /\ Permits(c.inner, r)

ProxyPermits(c, r) == Permits(c.inner, c.to[r])

(* No rule is read: nothing is written below /tmp, all is allowed below    *)
(* /var, and the rest is what it was.                                      *)
PolicyPermits(c, r) ==
  LET below(top) == r.kind = "file" /\ r.path \in Under[top]
  IN  /\ ~(below("/tmp") /\ "WRITE" \in r.fops)
      /\ below("/var") \/ Permits(c.inner, r)

CompositePermits(c, r) == r.kind \in DOMAIN c.parts /\ Permits(c.parts[r.kind], r)

Permits(c, r) ==
  CASE c.kind = "file"        -> F!Permits(c, r)
    [] c.kind = "network"     -> N!Permits(c, r)
    [] c.kind = "memory"      -> M!Permits(c, r)
    [] c.kind = "message"     -> S!Permits(c, r)
    [] c.kind = "plugin_call" -> P!Permits(c, r)
    [] c.kind = "filter"      -> FilterPermits(c, r)
    [] c.kind = "proxy"       -> ProxyPermits(c, r)
    [] c.kind = "composite"   -> CompositePermits(c, r)
    [] c.kind = "combine"     -> CombinePermits(c, r)
    [] c.kind = "policy"      -> PolicyPermits(c, r)

Permitted(c) == {r \in Requests : Permits(c, r)}

(* The type of capability a constraint is for (CompositeCapability). *)
ConstrainedType(k) ==
  CASE k.kind \in {"path", "fops"}         -> "file"
    [] k.kind \in {"host", "port", "nops"} -> "network"
    [] k.kind = "range"                    -> "memory"
    [] k.kind = "topic"                    -> "message"
    [] k.kind = "call"                     -> "plugin_call"

CompositeConstrain(c, k) ==
  LET type == ConstrainedType(k)
  IN  IF type \in DOMAIN c.parts
        THEN {Composite([c.parts EXCEPT ![type] = e]) : e \in Constrain(c.parts[type], k)}
        ELSE {}

(* ANY drops the members that refuse the constraint; ALL fails with them. *)
CombineConstrain(c, k) ==
  LET able    == {e \in c.caps : Constrain(e, k) # {}}
      choices == {f \in [able -> UNION {Constrain(e, k) : e \in able}] :
                    \A e \in able : f[e] \in Constrain(e, k)}
  IN  IF able = {} \/ (c.strategy = "All" /\ able # c.caps)
        THEN {}
        ELSE {Combine(c.strategy, {f[e] : e \in able}) : f \in choices}

FilterConstrain(c, k) == {Filter(e, c.pass) : e \in Constrain(c.inner, k)}

ProxyConstrain(c, k) == {Proxy(e, c.to) : e \in Constrain(c.inner, k)}

Constrain(c, k) ==
  CASE c.kind = "file"        -> F!Constrain(c, k)
    [] c.kind = "network"     -> N!Constrain(c, k)
    [] c.kind = "memory"      -> IF k.kind = "range" THEN M!Constrain(c, k) ELSE {}
    [] c.kind = "message"     -> S!Constrain(c, k)
    [] c.kind = "plugin_call" -> P!Constrain(c, k)
    [] c.kind = "filter"      -> FilterConstrain(c, k)
    [] c.kind = "proxy"       -> ProxyConstrain(c, k)
    [] c.kind = "composite"   -> CompositeConstrain(c, k)
    [] c.kind = "combine"     -> CombineConstrain(c, k)
    [] c.kind = "policy"      -> {c}

FilterSplit(c) == {Filter(e, c.pass) : e \in Split(c.inner)}

ProxySplit(c) == {Proxy(e, c.to) : e \in Split(c.inner)}

CompositeSplit(c) ==
  UNION {{Composite([t \in {type} |-> e]) : e \in Split(c.parts[type])} :
           type \in DOMAIN c.parts}

CombineSplit(c) == IF c.strategy = "All" THEN {c} ELSE c.caps

Split(c) ==
  CASE c.kind = "file"        -> F!Split(c)
    [] c.kind = "network"     -> N!Split(c)
    [] c.kind = "memory"      -> M!Split(c)
    [] c.kind = "message"     -> S!Split(c)
    [] c.kind = "plugin_call" -> P!Split(c)
    [] c.kind = "filter"      -> FilterSplit(c)
    [] c.kind = "proxy"       -> ProxySplit(c)
    [] c.kind = "composite"   -> CompositeSplit(c)
    [] c.kind = "combine"     -> CombineSplit(c)
    [] c.kind = "policy"      -> {c}

(* The members of both composites; a type both have is joined, and the     *)
(* join fails with it.                                                     *)
JoinParts(c, parts) ==
  LET both == DOMAIN c.parts \cap DOMAIN parts
      joined(t) == IF t \in both THEN Join(c.parts[t], parts[t])
                   ELSE IF t \in DOMAIN parts THEN {parts[t]} ELSE {c.parts[t]}
      types == DOMAIN c.parts \cup DOMAIN parts
  IN  IF \A t \in types : joined(t) # {}
        THEN {Composite([t \in types |-> CHOOSE e \in joined(t) : TRUE])}
        ELSE {}

CombineJoin(c, d) ==
  IF d.kind = "combine" /\ d.strategy # c.strategy
    THEN {Combine("Any", {c, d})}
    ELSE {Combine(c.strategy, c.caps \cup (IF d.kind = "combine" THEN d.caps ELSE {d}))}

ProxyJoin(c, d) ==
  {Proxy(e, c.to) : e \in Join(c.inner, IF d.kind = "proxy" THEN d.inner ELSE d)}

(* Two filters pass what either passes. *)
FilterJoin(c, d) ==
  IF d.kind = "filter"
    THEN {Filter(e, c.pass \cup d.pass) : e \in Join(c.inner, d.inner)}
    ELSE {Filter(e, c.pass) : e \in Join(c.inner, d)}

Join(c, d) ==
  CASE c.kind = "filter"    -> FilterJoin(c, d)
    [] c.kind = "proxy"     -> ProxyJoin(c, d)
    [] c.kind = "composite" -> JoinParts(c, IF d.kind = "composite" THEN d.parts
                                            ELSE [t \in {capability_type(d)} |-> d])
    [] c.kind = "combine"   -> CombineJoin(c, d)
    [] c.kind = "policy"    -> {c}
    [] OTHER ->
         IF d.kind # c.kind THEN {}
         ELSE CASE c.kind = "file"        -> F!Join(c, d)
                [] c.kind = "network"     -> N!Join(c, d)
                [] c.kind = "memory"      -> M!Join(c, d)
                [] c.kind = "message"     -> S!Join(c, d)
                [] c.kind = "plugin_call" -> P!Join(c, d)

CombineLeq(c, d) ==
  LET below(e, caps) == \E f \in caps : Leq(e, f)
  IN  IF d.kind = "combine"
        THEN IF c.strategy = d.strategy THEN \A e \in c.caps : below(e, d.caps)
             ELSE c.strategy = "Any" /\ \E e \in c.caps : \A f \in d.caps : Leq(e, f)
        ELSE IF c.strategy = "All" THEN \A e \in c.caps : Leq(e, d)
             ELSE \E e \in c.caps : Leq(e, d)

CompositeLeq(c, d) ==
  IF d.kind = "composite"
    THEN \A t \in DOMAIN c.parts : t \in DOMAIN d.parts /\ Leq(c.parts[t], d.parts[t])
    ELSE /\ DOMAIN c.parts = {capability_type(d)}
         /\ Leq(c.parts[capability_type(d)], d)

(* Filters and transformations are compared by identity. *)
FilterLeq(c, d) ==
  IF d.kind = "filter" THEN Leq(c.inner, d.inner) /\ c.pass = d.pass ELSE Leq(c.inner, d)

ProxyLeq(c, d) == d.kind = "proxy" /\ Leq(c.inner, d.inner) /\ c.to = d.to

Leq(c, d) ==
  CASE c.kind = "filter"    -> FilterLeq(c, d)
    [] c.kind = "proxy"     -> ProxyLeq(c, d)
    [] c.kind = "composite" -> CompositeLeq(c, d)
    [] c.kind = "combine"   -> CombineLeq(c, d)
    [] c.kind = "policy"    -> FALSE
    [] OTHER ->
         d.kind = c.kind
           /\ CASE c.kind = "file"        -> F!Leq(c, d)
                [] c.kind = "network"     -> N!Leq(c, d)
                [] c.kind = "memory"      -> M!Leq(c, d)
                [] c.kind = "message"     -> S!Leq(c, d)
                [] c.kind = "plugin_call" -> P!Leq(c, d)

TestFile == F!Cap({TestPath}, {"READ"})

(* Two file capabilities, one or both in a filter, always have the test    *)
(* path in common, and only the filter of the first is kept.  Without a    *)
(* common part the test file (or, between two filters, the first inner     *)
(* capability) takes its place.                                            *)
FilterMeet(c, d) ==
  LET e == IF d.kind = "filter" THEN d.inner ELSE d
      files == c.inner.kind = "file" /\ e.kind = "file"
      inner == IF files
                 THEN {F!Cap((c.inner.paths \cap e.paths) \cup {TestPath},
                             c.inner.fops \cap e.fops)}
                 ELSE Meet(c.inner, e)
      instead == IF capability_type(c.inner) = "file" THEN {TestFile}
                 ELSE IF d.kind = "filter" THEN {c.inner} ELSE {}
      pass == IF d.kind = "filter" /\ ~files THEN c.pass \cap d.pass ELSE c.pass
  IN  {Filter(i, pass) : i \in IF inner # {} THEN inner ELSE instead}

CompositeMeet(c, d) ==
  LET parts == IF d.kind = "composite" THEN d.parts ELSE [t \in {capability_type(d)} |-> d]
      both  == {t \in DOMAIN c.parts \cap DOMAIN parts : Meet(c.parts[t], parts[t]) # {}}
  IN  IF both = {} THEN {}
      ELSE {Composite([t \in both |-> CHOOSE e \in Meet(c.parts[t], parts[t]) : TRUE])}

(* A pair of files with nothing in common meets in the test file. *)
MeetOrTestFile(c, d) ==
  IF Meet(c, d) = {} /\ c.kind = "file" /\ d.kind = "file" THEN {TestFile} ELSE Meet(c, d)

CombineMeet(c, d) ==
  LET meets(e, caps) == UNION {Meet(e, f) : f \in caps}
      all == IF c.strategy = "All" THEN c.caps ELSE d.caps
      any == IF c.strategy = "All" THEN d.caps ELSE c.caps
      met == {e \in any : meets(e, all) # {}}
  IN  IF d.kind # "combine"
        THEN {Combine(c.strategy, UNION {Meet(e, d) : e \in c.caps})}
        ELSE IF c.strategy # d.strategy
        THEN {Combine("Any", {Combine("All", meets(e, all)) : e \in met})}
        ELSE IF c.strategy = "All"
        THEN {Combine("All", c.caps \cup d.caps)}
        ELSE {Combine("Any", UNION {MeetOrTestFile(e, f) : e \in c.caps, f \in d.caps})}

ProxyMeet(c, d) ==
  {Proxy(e, c.to) : e \in Meet(c.inner, IF d.kind = "proxy" THEN d.inner ELSE d)}

Meet(c, d) ==
  CASE c.kind = "filter"    -> FilterMeet(c, d)
    [] c.kind = "proxy"     -> ProxyMeet(c, d)
    [] c.kind = "composite" -> CompositeMeet(c, d)
    [] c.kind = "combine"   -> CombineMeet(c, d)
    [] c.kind = "policy"    -> {}
    [] OTHER ->
         IF d.kind # c.kind THEN {}
         ELSE CASE c.kind = "file"        -> F!Meet(c, d)
                [] c.kind = "network"     -> N!Meet(c, d)
                [] c.kind = "memory"      -> M!Meet(c, d)
                [] c.kind = "message"     -> S!Meet(c, d)
                [] c.kind = "plugin_call" -> P!Meet(c, d)

(* apply_partial_revocation: a filter that denies the one request; other   *)
(* requests for the same thing still pass.                                 *)
PartiallyRevoked(c, r) == IF Permits(c, r) THEN Filter(c, Requests \ {r}) ELSE c

RECURSIVE AroundPolicy(_)
AroundPolicy(c) ==
  c.kind = "filter" /\ (c.inner.kind = "policy" \/ AroundPolicy(c.inner))

(* What was taken away may come back by a join, below /var by the policy,  *)
(* and by a meet that fails on the policy within a filter: the test file   *)
(* then takes the place of all the filter was put around.                  *)
Regains(by, from, r) ==
  \/ by = "join"
  \/ by = "policy" /\ r.kind = "file" /\ r.path \in Under["/var"]
  \/ by = "meet" /\ (\E c \in from : AroundPolicy(c)) /\ Permits(TestFile, r)

(* What a filter stops stays stopped, and what a file does not reach is not *)
(* reached later, but for the test path.                                    *)
RECURSIVE Refused(_)
Refused(c) ==
  CASE c.kind = "file"   ->
         Requests \ (Permitted(F!Cap(c.paths \cup {TestPath}, c.fops)) \cup Permitted(TestFile))
    [] c.kind = "filter" -> (Requests \ c.pass) \cup Refused(c.inner)
    [] c.kind = "policy" -> {r \in Refused(c.inner) : ~(r.kind = "file" /\ r.path \in Under["/var"])}
    [] OTHER             -> {}
=============================================================================
