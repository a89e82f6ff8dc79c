--------------------------- MODULE WorkflowState ---------------------------
(***************************************************************************)
(* struct WorkflowState of lion_workflow/src/state/machine.rs: the state   *)
(* of one running workflow instance and the operations on it. Each         *)
(* operation runs under the instance's RwLock (write), so it is one step.  *)
(* The module has no specification of its own: StateMachine and Engine     *)
(* say who calls the operations.                                           *)
(***************************************************************************)
EXTENDS WorkflowGraph

CONSTANT ConditionResults  \* the values set_edge_condition is called with

NoCondition == "NoCondition"

ASSUME ConditionAssumption == NoCondition \notin ConditionResults

VARIABLES
  nodeStatus,      \* node_status
  nodeInDegree,    \* node_in_degree: incoming edges not yet satisfied
  nodeResults,     \* node_results: "none", "output" or "error"
  edgeConditions,  \* edge_conditions
  readyNodes,      \* ready_nodes
  isCompleted,     \* is_completed
  hasFailed        \* has_failed

stateVars == <<nodeStatus, nodeInDegree, nodeResults, edgeConditions,
               readyNodes, isCompleted, hasFailed>>

NodeStatus == {"Pending", "Ready", "Running", "Completed", "Failed", "Skipped",
               "Cancelled"}

StateTypeOK ==
  /\ nodeStatus \in [NodeId -> NodeStatus]
  /\ nodeInDegree \in [NodeId -> Nat]
  /\ nodeResults \in [NodeId -> {"none", "output", "error"}]
  /\ edgeConditions \in [EdgeId -> ConditionResults \union {NoCondition}]
  /\ readyNodes \in SUBSET NodeId
  /\ isCompleted \in BOOLEAN
  /\ hasFailed \in BOOLEAN

-----------------------------------------------------------------------------
(* WorkflowState::new *)
NewState ==
  /\ nodeStatus = [n \in NodeId |-> "Pending"]
  /\ nodeInDegree = [n \in NodeId |-> DefinedInDegree(n)]
  /\ nodeResults = [n \in NodeId |-> "none"]
  /\ edgeConditions = [e \in EdgeId |-> NoCondition]
  /\ readyNodes = {n \in NodeId : DefinedInDegree(n) = 0}
  /\ isCompleted = FALSE
  /\ hasFailed = FALSE

(* Mutant: reset forgets is_completed. *)
ResetKeepsCompleted ==
  /\ nodeStatus' = [n \in NodeId |-> "Pending"]
  /\ nodeInDegree' = [n \in NodeId |-> DefinedInDegree(n)]
  /\ nodeResults' = [n \in NodeId |-> "none"]
  /\ edgeConditions' = [e \in EdgeId |-> NoCondition]
  /\ readyNodes' = {n \in NodeId : DefinedInDegree(n) = 0}
  /\ hasFailed' = FALSE
  /\ UNCHANGED isCompleted

(* WorkflowState::reset *)
ResetState ==
  /\ nodeStatus' = [n \in NodeId |-> "Pending"]
  /\ nodeInDegree' = [n \in NodeId |-> DefinedInDegree(n)]
  /\ nodeResults' = [n \in NodeId |-> "none"]
  /\ edgeConditions' = [e \in EdgeId |-> NoCondition]
  /\ readyNodes' = {n \in NodeId : DefinedInDegree(n) = 0}
  /\ isCompleted' = FALSE
  /\ hasFailed' = FALSE

(* set_node_running: refused (NodeNotReady) unless n is in ready_nodes. *)
SetNodeRunning(n) ==
  /\ n \in readyNodes
  /\ nodeStatus' = [nodeStatus EXCEPT ![n] = "Running"]
  /\ readyNodes' = readyNodes \ {n}
  /\ UNCHANGED <<nodeInDegree, nodeResults, edgeConditions, isCompleted, hasFailed>>

(* Mutant: only Running is accepted. *)
MayFinishRunningOnly(n) == nodeStatus[n] = "Running"

(* The guard set_node_completed and set_node_failed share; otherwise they  *)
(* return InvalidTransition and change nothing.                            *)
MayFinish(n) == nodeStatus[n] \in {"Running", "Ready"}

(* Mutant: the statuses before the operation are looked at. *)
CompletionReadsOldStatus(status, failed) ==
  \/ isCompleted
  \/ ~failed /\ \A n \in NodeId : nodeStatus[n] \in {"Completed", "Failed", "Skipped"}

(* check_workflow_completion, on the statuses the operation leaves. *)
CheckCompletion(status, failed) ==
  \/ isCompleted
  \/ /\ ~failed
     /\ \A n \in NodeId : status[n] \in {"Completed", "Failed", "Skipped"}

EdgesBetween(n, m) == {e \in EdgeId : Source[e] = n /\ Target[e] = m}

(* The loop over outgoing_edges: one decrement per edge, never below zero. *)
Decremented(n, m) ==
  LET k == Cardinality(EdgesBetween(n, m))
  IN IF nodeInDegree[m] > k THEN nodeInDegree[m] - k ELSE 0

(* Mutants: every pending child becomes ready; children have to be Ready   *)
(* already.                                                                *)
EveryChildReady(n, status) ==
  {m \in NodeId : EdgesBetween(n, m) # {} /\ status[m] = "Pending"}

ReadyChildrenOnly(n, status) ==
  {m \in NodeId : /\ nodeInDegree[m] > 0
                  /\ Decremented(n, m) = 0
                  /\ status[m] = "Ready"}

(* Targets whose in-degree this completion brings to zero. *)
NewlyReady(n, status) ==
  {m \in NodeId : /\ nodeInDegree[m] > 0
                  /\ Decremented(n, m) = 0
                  /\ status[m] = "Pending"}

SetNodeCompleted(n) ==
  /\ MayFinish(n)
  /\ nodeStatus' = [nodeStatus EXCEPT ![n] = "Completed"]
  /\ nodeResults' = [nodeResults EXCEPT ![n] = "output"]
  /\ nodeInDegree' = [m \in NodeId |-> Decremented(n, m)]
  /\ readyNodes' = readyNodes \union NewlyReady(n, nodeStatus')
  /\ isCompleted' = CheckCompletion(nodeStatus', hasFailed)
  /\ UNCHANGED <<edgeConditions, hasFailed>>

SetNodeFailed(n) ==
  /\ MayFinish(n)
  /\ nodeStatus' = [nodeStatus EXCEPT ![n] = "Failed"]
  /\ nodeResults' = [nodeResults EXCEPT ![n] = "error"]
  /\ readyNodes' = readyNodes \ {n}
  /\ hasFailed' = TRUE
  /\ isCompleted' = CheckCompletion(nodeStatus', TRUE)
  /\ UNCHANGED <<nodeInDegree, edgeConditions>>

(* set_edge_condition: the result is stored; nothing reads it again. *)
SetEdgeCondition(e, result) ==
  /\ edgeConditions' = [edgeConditions EXCEPT ![e] = result]
  /\ UNCHANGED <<nodeStatus, nodeInDegree, nodeResults, readyNodes, isCompleted,
                 hasFailed>>

(* The second half of StateMachineManager::schedule_next_nodes: under the  *)
(* write lock, every node of a snapshot read earlier under the read lock   *)
(* gets status Ready, whatever its status is by now.                       *)
MarkReady(snapshot) ==
  /\ nodeStatus' = [n \in NodeId |-> IF n \in snapshot THEN "Ready" ELSE nodeStatus[n]]
  /\ UNCHANGED <<nodeInDegree, nodeResults, edgeConditions, readyNodes, isCompleted,
                 hasFailed>>
=============================================================================
