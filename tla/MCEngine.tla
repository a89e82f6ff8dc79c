------------------------------ MODULE MCEngine -----------------------------
(***************************************************************************)
(* Engine on a workflow with one start node (a) and its child (b). With    *)
(* two tasks either a is scheduled twice, or a and then b.                 *)
(***************************************************************************)
EXTENDS Engine, TLC

CONSTANTS a, b, e1, t1, t2

MCNodeId == {a, b}
MCEdgeId == {e1}
MCSource == e1 :> a
MCTarget == e1 :> b

MCTaskId == {t1, t2}
MCPriorityOf == [t \in MCTaskId |-> 1]
MCDeadlineOf == [t \in MCTaskId |-> 0]
MCCreatedAt == (t1 :> 1) @@ (t2 :> 2)
=============================================================================
