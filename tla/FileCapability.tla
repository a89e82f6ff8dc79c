--------------------------- MODULE FileCapability ---------------------------
(***************************************************************************)
(* lion_capability/src/model/file.rs: a set of path patterns and one set   *)
(* of operations for all of them.                                          *)
(*                                                                         *)
(* Every capability module defines the methods of the Capability trait     *)
(* under their own names.  A method that may fail returns the set of the   *)
(* capabilities it can answer with: the empty set is its Err, and a set of *)
(* two is a choice the code leaves to the order of a HashMap.              *)
(***************************************************************************)
CONSTANT Covers    \* the names a pattern matches (path_matches)

Cap(paths, ops) == [kind |-> "file", paths |-> paths, fops |-> ops]

path_allowed(c, path) == \E pattern \in c.paths : path \in Covers[pattern]

Permits(c, r) ==
  /\ r.kind = "file"
  /\ path_allowed(c, r.path)
  /\ r.fops \subseteq c.fops

PathConstraint(c, path) ==
  IF path_allowed(c, path) THEN {Cap({path}, c.fops)} ELSE {}

(* Mutant: the operations of the constraint replace those of c. *)
OperationReplaced(c, ops) ==
  IF ops \cap c.fops # {} THEN {Cap(c.paths, ops)} ELSE {}

OperationConstraint(c, ops) ==
  IF ops \cap c.fops # {} THEN {Cap(c.paths, ops \cap c.fops)} ELSE {}

Constrain(c, k) ==
  CASE k.kind = "path"  -> PathConstraint(c, k.path)
    [] k.kind = "fops"  -> OperationConstraint(c, k.fops)
    [] OTHER            -> {}

Split(c) == {Cap({p}, c.fops) : p \in c.paths}

(* The operations of the union apply to the paths of the union: the result *)
(* may permit more than both.                                              *)
Join(c, d) == {Cap(c.paths \cup d.paths, c.fops \cup d.fops)}

(* The code negates the bits of the intersection before it compares them   *)
(* with the bits of c, so the comparison is true of no pair whose          *)
(* operations lie within the three flags, and the test never rejects.      *)
Leq(c, d) == \A path \in c.paths : path_allowed(d, path)

(* The intersection is of the patterns, not of what they match. *)
Meet(c, d) ==
  IF c.paths \cap d.paths # {} /\ c.fops \cap d.fops # {}
    THEN {Cap(c.paths \cap d.paths, c.fops \cap d.fops)}
    ELSE {}
=============================================================================
