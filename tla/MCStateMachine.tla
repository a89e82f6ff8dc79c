--------------------------- MODULE MCStateMachine ---------------------------
(***************************************************************************)
(* A small graph for StateMachine: two start nodes, a join (c) that one of *)
(* them enters through two parallel edges, and a third start node (d) that *)
(* nothing depends on, so that three nodes can be ready at once.           *)
(***************************************************************************)
EXTENDS StateMachine, TLC

CONSTANTS a, b, c, d, e1, e2, e3

MCNodeId == {a, b, c, d}
MCEdgeId == {e1, e2, e3}
MCSource == (e1 :> a) @@ (e2 :> a) @@ (e3 :> b)
MCTarget == (e1 :> c) @@ (e2 :> c) @@ (e3 :> c)
=============================================================================
