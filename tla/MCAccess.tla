------------------------------ MODULE MCAccess ------------------------------
(* A small instance of the capability store: two capabilities of every kind *)
(* and of the combinations, and two clients. One client also works longer  *)
(* and alone on one file capability.                                       *)
EXTENDS CapabilityStore, Capability, TLC

CONSTANTS c1, c2, absent

MCUnder == ("/tmp" :> {"/tmp/file.txt"}) @@ ("/var" :> {"/var/a"})

MCCovers == ("/var/*" :> {"/var/*", "/var/a"}) @@ ("/var/a" :> {"/var/a"})
              @@ ("/tmp/file.txt" :> {"/tmp/file.txt"})
              @@ ("any" :> {"any", "h1", "h2"}) @@ ("h1" :> {"h1"}) @@ ("h2" :> {"h2"})
              @@ ("a#" :> {"a#", "ab"}) @@ ("ab" :> {"ab"}) @@ ("#" :> {"#", "a#", "ab", "b"})

FileRequests ==
  [kind : {"file"}, path : {"/var/a", "/tmp/file.txt"}, fops : {{"READ"}, {"WRITE"}, {"EXECUTE"}}]

NetworkRequests ==
  [kind : {"network"}, host : {"h1", "h2"}, port : {"80", "8080"}, nops : {{"CONNECT"}, {"LISTEN"}}]

MemoryRequests ==
  [kind : {"memory"}, addr : 0..2, size : {1}, mops : {{"READ"}, {"WRITE"}}]
    \cup {[kind |-> "memory", addr |-> 0, size |-> 2, mops |-> {"READ"}]}

MessageRequests == [kind : {"message"}, topic : {"ab", "b"}]

CallRequests == [kind : {"plugin_call"}, plugin : {"p", "q"}, function : {"f", "g"}]

MCRequests ==
  FileRequests \cup NetworkRequests \cup MemoryRequests \cup MessageRequests \cup CallRequests

MCConstraint ==
  {[kind |-> "path", path |-> "/var/a"], [kind |-> "fops", fops |-> {"READ", "EXECUTE"}],
   [kind |-> "host", host |-> "h1"], [kind |-> "port", port |-> "80"],
   [kind |-> "nops", nops |-> {"CONNECT"}],
   [kind |-> "range", base |-> 0, size |-> 2, mops |-> {"READ"}],
   [kind |-> "topic", topic |-> "ab"], [kind |-> "topic", topic |-> "#"],
   [kind |-> "call", plugin |-> "p", function |-> "f"]}

Files == {F!Cap({"/var/*", "/tmp/file.txt"}, {"READ"}), F!Cap({"/var/a"}, {"READ", "WRITE"}),
          F!Cap({"/var/*"}, {"WRITE"})}

Networks == {N!Cap({"any"}, "80" :> {"LISTEN"}, {"CONNECT"}),
             N!Cap({"h1", "h2"}, "8080" :> {"LISTEN"}, {}),
             N!Cap({"h1"}, <<>>, {"CONNECT", "LISTEN"})}

Memories == {M!Cap({M!MemoryRange(0, 1, {"READ"}), M!MemoryRange(1, 1, {"WRITE"})}),
             M!Cap({M!MemoryRange(0, 3, {"READ", "WRITE"})}),
             M!Cap({M!MemoryRange(0, 2, {"READ"}), M!MemoryRange(1, 2, {"READ", "WRITE"})})}

Messages == {S!Cap(("ab" :> {"subscribe"}), {"publish"}), S!Cap(("a#" :> {"publish"}), {}),
             S!Cap(("ab" :> {"publish"}), {"publish", "subscribe"})}

Calls == {P!Cap(("p" :> {"f", "g"}), {}), P!Cap(("p" :> {}) @@ ("q" :> {"f"}), {"p"})}

Mixed == {Composite([t \in {"file", "plugin_call"} |->
                       IF t = "file" THEN F!Cap({"/var/*"}, {"READ"}) ELSE P!Only("p", "f")]),
          Combine("Any", {F!Cap({"/var/a"}, {"READ"}), P!Only("q", "f")}),
          Combine("All", {F!Cap({"/var/*"}, {"READ"}), F!Cap({"/var/a"}, {"READ", "WRITE"})}),
          Proxy(F!Cap({"/var/a"}, {"READ"}),
                [r \in MCRequests |-> IF r.kind = "file" THEN [r EXCEPT !.path = "/var/a"] ELSE r])}

Pairs(caps) == {{c, d} : c, d \in caps}

Lone == {F!Cap({"/tmp/file.txt"}, {"READ"})}

MCMaxCalls(grant, t) == IF grant = Lone THEN IF t = c1 THEN 6 ELSE 0 ELSE 3

MCGrants == {Lone} \cup UNION {Pairs(Files), Pairs(Networks), Pairs(Memories), Pairs(Messages),
                   Pairs(Calls), Pairs(Mixed)}
-----------------------------------------------------------------------------
(* The capabilities of which every part permits what the whole permits of   *)
(* it.  The others are read in ways that a smaller capability is not:       *)
(* memory ranges that overlap hide one another; an operation taken from a   *)
(* port, or a permission from a topic, uncovers the default; the test port  *)
(* is answered for every host.                                              *)
RECURSIVE Plain(_)
Plain(c) ==
  CASE c.kind \in {"file", "plugin_call"} -> TRUE
    [] c.kind = "network"   -> TestPort \notin DOMAIN c.ports /\ (c.dops = {} \/ c.ports = <<>>)
    [] c.kind = "memory"    -> \A r, s \in c.ranges : r = s \/ ~M!overlaps(r, s)
    [] c.kind = "message"   -> c.default = {}
    [] c.kind \in {"filter", "proxy"} -> Plain(c.inner)
    [] c.kind = "composite" -> \A t \in DOMAIN c.parts : Plain(c.parts[t])
    [] c.kind = "combine"   -> \A e \in c.caps : Plain(e)
    [] c.kind = "policy"    -> FALSE

(* Filters, proxies and combinations meet in more than the common part.     *)
Direct(c) == c.kind \notin {"filter", "proxy", "combine"}

(* A client that constrains or splits a plain capability, or meets two of   *)
(* them, holds no right that the capabilities it started from lack          *)
(* (capability.rs:172, 181, 185).                                           *)
NarrowingSound ==
  \A t \in Client :
    /\ At(t, "holding")
    /\ client[t].by \in {"constrain", "split"}
         \/ (client[t].by = "meet" /\ \A c \in client[t].from : Direct(c))
    /\ \A c \in client[t].from : Plain(c)
    => \A c \in client[t].from : Permitted(client[t].cap) \subseteq Permitted(c)

(* Join is an upper bound and leq an inclusion of rights                    *)
(* (capability.rs:173, 193), but for file operations, which leq does not    *)
(* compare, ports against a default, and ranges that touch two others.      *)
Comparable(c, d) ==
  /\ Plain(c) /\ Plain(d) /\ Direct(c) /\ Direct(d)
  /\ c.kind = d.kind
  /\ CASE c.kind = "file"    -> c.fops \subseteq d.fops
       [] c.kind = "network" -> (c.dops = {}) = (d.dops = {})
       [] c.kind = "memory"  ->
            \A r \in d.ranges : Cardinality({s \in c.ranges : M!overlaps(r, s)}) <= 1
       [] OTHER -> TRUE

OrderSound ==
  \A i, j \in DOMAIN entries :
    LET c == entries[i] d == entries[j]
    IN  Comparable(c, d) =>
          /\ \A e \in Join(c, d) : Permitted(c) \cup Permitted(d) \subseteq Permitted(e)
          /\ Leq(c, d) => Permitted(c) \subseteq Permitted(d)

(* Filters and the policy keep what was refused (RefusalsKept): asked when  *)
(* no call is under way.                                                    *)
RefusalsSound ==
  (\A t \in Client : At(t, "idle")) =>
    \A i \in DOMAIN entries : RefusalsKept(entries[i], {entries[j] : j \in DOMAIN entries})

(* The algebra keeps its promises where it makes them: what is derived is   *)
(* no more than what it is derived from, the order is the one of the rights *)
(* (capability.rs:172), and a revoked right stays revoked but where         *)
(* Regains says.                                                            *)
AlgebraSound == NarrowingSound /\ OrderSound /\ RefusalsSound
=============================================================================
