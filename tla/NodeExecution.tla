--------------------------- MODULE NodeExecution ---------------------------
(***************************************************************************)
(* What a workflow instance promises, with no mention of workers, ready    *)
(* sets, in-degrees or snapshots: every node is executed at most once,     *)
(* only after all its parents have succeeded, its outcome never changes,   *)
(* and the instance is reported complete only when every node has          *)
(* succeeded. The instance may be reset when nothing is executing.         *)
(***************************************************************************)
EXTENDS WorkflowGraph

VARIABLES
  phase,     \* phase[n]: "waiting", "executing", "succeeded" or "failed"
  reported   \* the instance is reported complete

vars == <<phase, reported>>

Phases == {"waiting", "executing", "succeeded", "failed"}

Init ==
  /\ phase = [n \in NodeId |-> "waiting"]
  /\ reported = FALSE

Begin(n) ==
  /\ phase[n] = "waiting"
  /\ \A p \in Parents(n) : phase[p] = "succeeded"
  /\ phase' = [phase EXCEPT ![n] = "executing"]
  /\ UNCHANGED reported

AllSucceeded == \A n \in NodeId : phase[n] = "succeeded"

(* The last success may, but need not, report the instance complete. *)
Succeed(n) ==
  /\ phase[n] = "executing"
  /\ phase' = [phase EXCEPT ![n] = "succeeded"]
  /\ reported' \in {reported, reported \/ AllSucceeded'}

Fail(n) ==
  /\ phase[n] = "executing"
  /\ phase' = [phase EXCEPT ![n] = "failed"]
  /\ UNCHANGED reported

Reset ==
  /\ \A n \in NodeId : phase[n] # "executing"
  /\ phase' = [n \in NodeId |-> "waiting"]
  /\ reported' = FALSE

Next ==
  \/ \E n \in NodeId : Begin(n) \/ Succeed(n) \/ Fail(n)
  \/ Reset

Spec == Init /\ [][Next]_vars
=============================================================================
