--------------------------- MODULE MCPersistence ---------------------------
(***************************************************************************)
(* Three nodes and the four edges of a triangle with one way back: b and d *)
(* close a cycle with the others, and two edges enter n3; e may not be     *)
(* added. Two callers and two checkpoints.                                 *)
(***************************************************************************)
EXTENDS Persistence, TLC

CONSTANTS n1, n2, n3, a, b, c, d, e, p, q

MCSource == (a :> n1) @@ (b :> n2) @@ (c :> n1) @@ (d :> n3) @@ (e :> n2)
MCTarget == (a :> n2) @@ (b :> n3) @@ (c :> n3) @@ (d :> n1) @@ (e :> n1)
MCSymmetry == Permutations({p, q})
=============================================================================
