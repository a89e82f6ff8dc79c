------------------------- MODULE MessageCapability -------------------------
(***************************************************************************)
(* lion_capability/src/model/message.rs: the permission of some topic      *)
(* patterns and of every other topic.  A permission is the non-empty set   *)
(* of what it allows; {} as default_permission is None.                    *)
(***************************************************************************)
EXTENDS Functions

CONSTANT Covers    \* the topics a pattern matches (topic_matches)

Cap(topics, default) == [kind |-> "message", topics |-> topics, default |-> default]

matching(c, topic) == {pattern \in DOMAIN c.topics : topic \in Covers[pattern]}

(* The permissions the first matching pattern may have: the order in which *)
(* a HashMap lists its patterns is not specified.                          *)
Applicable(c, topic) ==
  IF matching(c, topic) # {} THEN {c.topics[p] : p \in matching(c, topic)} ELSE {c.default}

(* Some order of the patterns permits the request; permits always asks for *)
(* a publication.                                                          *)
Permits(c, r) ==
  /\ r.kind = "message"
  /\ \E permission \in Applicable(c, r.topic) : "publish" \in permission

(* The constraint is a pattern too: one that is not matched takes the      *)
(* default permission, also for the topics c names.                        *)
Constrain(c, k) ==
  IF k.kind # "topic"
    THEN {}
    ELSE {Cap([p \in {k.topic} |-> permission], {}) :
            permission \in Applicable(c, k.topic) \ {{}}}

(* The default permission is in no part. *)
Split(c) == {Cap([p \in {topic} |-> c.topics[topic]], {}) : topic \in DOMAIN c.topics}

Join(c, d) ==
  LET named(e, p) == IF p \in DOMAIN e.topics THEN e.topics[p] ELSE {}
      topics == [p \in DOMAIN c.topics \cup DOMAIN d.topics |-> named(c, p) \cup named(d, p)]
  IN  {Cap(topics, c.default \cup d.default)}

(* One permission in common is enough between defaults, and between a      *)
(* topic and the other's default.                                          *)
Leq(c, d) ==
  /\ c.default = {} \/ c.default \cap d.default # {}
  /\ \A topic \in DOMAIN c.topics :
       \/ \E p \in matching(d, topic) : c.topics[topic] \subseteq d.topics[p]
       \/ c.topics[topic] \cap d.default # {}

(* A topic with no permission in common is dropped, and so falls back to   *)
(* the default of the result.                                              *)
Meet(c, d) ==
  LET own(e, p) == IF p \in DOMAIN e.topics THEN e.topics[p] ELSE e.default
      topics == [p \in DOMAIN c.topics \cup DOMAIN d.topics |-> own(c, p) \cap own(d, p)]
  IN  {Cap(Restrict(topics, {p \in DOMAIN topics : topics[p] # {}}), c.default \cap d.default)}
=============================================================================
