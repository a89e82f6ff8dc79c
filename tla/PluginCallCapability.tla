------------------------ MODULE PluginCallCapability ------------------------
(***************************************************************************)
(* lion_capability/src/model/plugin_call.rs: the functions that may be     *)
(* called of some plugins, and the plugins of which all may be.            *)
(***************************************************************************)
EXTENDS Functions

Cap(functions, all) == [kind |-> "plugin_call", functions |-> functions, all |-> all]

Only(plugin, function) == Cap([p \in {plugin} |-> {function}], {})

is_call_allowed(c, plugin, function) ==
  /\ plugin \in DOMAIN c.functions
  /\ plugin \in c.all \/ function \in c.functions[plugin]

Permits(c, r) == r.kind = "plugin_call" /\ is_call_allowed(c, r.plugin, r.function)

Constrain(c, k) ==
  IF k.kind = "call" /\ is_call_allowed(c, k.plugin, k.function)
    THEN {Only(k.plugin, k.function)}
    ELSE {}

Split(c) ==
  {Cap([p \in {q} |-> {}], {q}) : q \in DOMAIN c.functions \cap c.all}
    \cup UNION {{Only(q, f) : f \in c.functions[q]} : q \in DOMAIN c.functions \ c.all}

Join(c, d) ==
  LET named(e, p) == IF p \in DOMAIN e.functions THEN e.functions[p] ELSE {}
      functions == [p \in DOMAIN c.functions \cup DOMAIN d.functions |->
                      named(c, p) \cup named(d, p)]
  IN  {Cap(functions, c.all \cup d.all)}

Leq(c, d) ==
  \A p \in DOMAIN c.functions :
    /\ p \in DOMAIN d.functions
    /\ \/ p \in d.all
       \/ p \notin c.all /\ c.functions[p] \subseteq d.functions[p]

(* Where one side allows every function the other side's list is taken. *)
Meet(c, d) ==
  LET both == DOMAIN c.functions \cap DOMAIN d.functions
      common(p) == IF p \in c.all \cap d.all THEN {}
                   ELSE IF p \in c.all THEN d.functions[p]
                   ELSE IF p \in d.all THEN c.functions[p]
                   ELSE c.functions[p] \cap d.functions[p]
      kept == {p \in both : p \in c.all \cap d.all \/ common(p) # {}}
  IN  IF kept = {} THEN {} ELSE {Cap([p \in kept |-> common(p)], kept \cap c.all \cap d.all)}
=============================================================================
