---------------------------- MODULE StateMachine ---------------------------
(***************************************************************************)
(* One workflow instance of the StateMachineManager, shared by the workers *)
(* of an executor (lion_workflow/src/state/machine.rs, and the calls made  *)
(* on it at executor.rs:346-467).                                          *)
(*                                                                         *)
(* The scheduler is left out on purpose: a worker may come with a task for *)
(* any node at any time, so tasks may be early, late, duplicated or out of *)
(* order. What is proved here therefore holds whatever the scheduler does; *)
(* Engine puts the real one back.                                          *)
(*                                                                         *)
(* schedule_next_nodes reads ready_nodes under the read lock, lets it go,  *)
(* and writes node_status under the write lock later: two steps.           *)
(***************************************************************************)
EXTENDS WorkflowState

CONSTANT Workers

VARIABLES
  activity,  \* activity[w]: what worker w is doing with the instance
  node,      \* node[w]: the node w executes, or executed last
  snapshot   \* snapshot[w]: the ready nodes w read in schedule_next_nodes

vars == <<stateVars, activity, node, snapshot>>

NoNode == "NoNode"

ASSUME NoNodeAssumption == NoNode \notin NodeId

Activities == {"idle", "executing", "finished", "scheduling"}

TypeOK ==
  /\ StateTypeOK
  /\ activity \in [Workers -> Activities]
  /\ node \in [Workers -> NodeId \union {NoNode}]
  /\ snapshot \in [Workers -> SUBSET NodeId]

(* create_instance, and workers that hold no task yet. *)
Init ==
  /\ NewState
  /\ activity = [w \in Workers |-> "idle"]
  /\ node = [w \in Workers |-> NoNode]
  /\ snapshot = [w \in Workers |-> {}]

-----------------------------------------------------------------------------
(* executor.rs:346, set_node_running accepted. When it is refused the      *)
(* worker drops the task and takes another: nothing here changes.          *)
StartNode(w, n) ==
  /\ activity[w] = "idle"
  /\ SetNodeRunning(n)
  /\ activity' = [activity EXCEPT ![w] = "executing"]
  /\ node' = [node EXCEPT ![w] = n]
  /\ UNCHANGED snapshot

(* executor.rs:429, the handler returned Ok. There is no action for the    *)
(* InvalidTransition that set_node_completed and set_node_failed may       *)
(* answer: FinishAccepted says that it never comes.                        *)
CompleteNode(w) ==
  /\ activity[w] = "executing"
  /\ SetNodeCompleted(node[w])
  /\ activity' = [activity EXCEPT ![w] = "finished"]
  /\ UNCHANGED <<node, snapshot>>

(* executor.rs:462, the handler returned Err, timed out or does not exist. *)
FailNode(w) ==
  /\ activity[w] = "executing"
  /\ SetNodeFailed(node[w])
  /\ activity' = [activity EXCEPT ![w] = "idle"]
  /\ node' = [node EXCEPT ![w] = NoNode]
  /\ UNCHANGED snapshot

(* schedule_next_nodes, up to the release of the read lock. *)
ReadReadyNodes(w) ==
  /\ activity[w] = "finished"
  /\ snapshot' = [snapshot EXCEPT ![w] = readyNodes]
  /\ activity' = [activity EXCEPT ![w] = "scheduling"]
  /\ node' = [node EXCEPT ![w] = NoNode]
  /\ UNCHANGED stateVars

(* schedule_next_nodes, under the write lock. *)
WriteReadyStatus(w) ==
  /\ activity[w] = "scheduling"
  /\ MarkReady(snapshot[w])
  /\ activity' = [activity EXCEPT ![w] = "idle"]
  /\ snapshot' = [snapshot EXCEPT ![w] = {}]
  /\ UNCHANGED node

RecordEdgeCondition ==
  /\ \E e \in EdgeId, result \in ConditionResults : SetEdgeCondition(e, result)
  /\ UNCHANGED <<activity, node, snapshot>>

(* WorkflowState::reset has no caller in the repository. It is modelled    *)
(* for a client that resets an instance no worker is using.                *)
Reset ==
  /\ \A w \in Workers : activity[w] = "idle"
  /\ ResetState
  /\ UNCHANGED <<activity, node, snapshot>>

WorkerStep(w) ==
  \/ CompleteNode(w)
  \/ FailNode(w)
  \/ ReadReadyNodes(w)
  \/ WriteReadyStatus(w)

Next ==
  \/ \E w \in Workers, n \in NodeId : StartNode(w, n)
  \/ \E w \in Workers : WorkerStep(w)
  \/ RecordEdgeCondition
  \/ Reset

(* A worker that has a node goes on with it: tokio polls the task again,   *)
(* and executor.rs:393 bounds the handler by default_timeout. Nothing      *)
(* obliges anyone to bring a task, so StartNode is not fair.               *)
Spec == Init /\ [][Next]_vars /\ \A w \in Workers : WF_vars(WorkerStep(w))

SafetySpec == Init /\ [][Next]_vars
-----------------------------------------------------------------------------
Executing == {w \in Workers : activity[w] = "executing"}

Held == {node[w] : w \in Executing}

Succeeded(n) == nodeResults[n] = "output"

UnsatisfiedEdges(n) == {e \in IncomingEdges(n) : ~Succeeded(Source[e])}

(* Two workers never execute the same node: of two tasks for one node, the *)
(* later is refused by set_node_running, in whatever order their steps and *)
(* the half-done schedule_next_nodes of others interleave.                 *)
OneWorkerPerNode ==
  \A v, w \in Executing : node[v] = node[w] => v = w

(* A node is ready, executed or finished only if every parent has          *)
(* succeeded; so nothing below a failed node ever runs.                    *)
DependencyOrder ==
  \A n \in NodeId :
    (n \in readyNodes \union Held \/ nodeResults[n] # "none")
      => \A p \in Parents(n) : Succeeded(p)

(* node_in_degree counts exactly the incoming edges whose source has not   *)
(* succeeded: no edge is counted down twice, none is forgotten.            *)
InDegreeExact ==
  \A n \in NodeId : nodeInDegree[n] = Cardinality(UnsatisfiedEdges(n))

(* ready_nodes holds every node that may run now and no other: no node is  *)
(* lost between a completion and the next set_node_running.                *)
ReadyExact ==
  readyNodes = {n \in NodeId : /\ nodeInDegree[n] = 0
                               /\ n \notin Held
                               /\ nodeResults[n] = "none"}

(* The counts and the ready list that the next set_node_running relies on.  *)
CountersExact == InDegreeExact /\ ReadyExact

(* The state machine never refuses the outcome of a node it let a worker   *)
(* start, although schedule_next_nodes overwrites statuses from a stale    *)
(* snapshot. A refusal would leave the node without a result for ever.     *)
FinishAccepted == \A w \in Executing : MayFinish(node[w])

(* is_completed is set only when every node has succeeded, and has_failed  *)
(* exactly when one has failed.                                            *)
CompletionSound ==
  /\ isCompleted => \A n \in NodeId : Succeeded(n)
  /\ hasFailed <=> \E n \in NodeId : nodeResults[n] = "error"

(* The only way to miss the completion of a workflow is a status that a    *)
(* stale schedule_next_nodes has put back to Ready.                        *)
CompletionMissedOnlyByStaleStatus ==
  (NodeId # {} /\ \A n \in NodeId : nodeStatus[n] = "Completed") => isCompleted

(* The completion that check_workflow_completion reports (machine.rs:281)  *)
(* is never early and hides no failure, and is late only by such a status. *)
CompletionExact == CompletionSound /\ CompletionMissedOnlyByStaleStatus

(* What machine.rs:247 and :306 say of check_workflow_completion: when all *)
(* nodes are done, the workflow is completed. A stale schedule_next_nodes  *)
(* breaks it.                                                              *)
CompletionDetected ==
  (\A n \in NodeId : Succeeded(n)) => isCompleted

(* A node a worker has started gets its outcome. *)
StartedNodeFinishes == \A n \in NodeId : n \in Held ~> n \notin Held

(* The instance implements the abstract promise: a node is waiting until a *)
(* worker executes it, and its result is its outcome.                      *)
PhaseOf(n) ==
  IF nodeResults[n] = "output" THEN "succeeded"
  ELSE IF nodeResults[n] = "error" THEN "failed"
  ELSE IF n \in Held THEN "executing" ELSE "waiting"

Abstract == INSTANCE NodeExecution
              WITH phase <- [n \in NodeId |-> PhaseOf(n)], reported <- isCompleted

ImplementsNodeExecution == Abstract!Spec
=============================================================================
