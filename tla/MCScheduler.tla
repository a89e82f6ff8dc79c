---------------------------- MODULE MCScheduler ----------------------------
(***************************************************************************)
(* Three tasks for Scheduler: t1 and t2 have one priority and different    *)
(* deadlines, t3 is more urgent.                                           *)
(***************************************************************************)
EXTENDS Scheduler, TLC

CONSTANTS t1, t2, t3

MCTaskId == {t1, t2, t3}
MCPriorityOf == (t1 :> 1) @@ (t2 :> 1) @@ (t3 :> 2)
MCDeadlineOf == (t1 :> 1) @@ (t2 :> 2) @@ (t3 :> 0)
MCCreatedAt == (t1 :> 1) @@ (t2 :> 2) @@ (t3 :> 3)
=============================================================================
