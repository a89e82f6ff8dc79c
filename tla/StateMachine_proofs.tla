------------------------ MODULE StateMachine_proofs ------------------------
(***************************************************************************)
(* Proofs about StateMachine, for every workflow graph, every set of       *)
(* workers and every order in which tasks are brought.                     *)
(***************************************************************************)
EXTENDS StateMachine, FiniteSetTheorems, TLAPS

-----------------------------------------------------------------------------
(* The inductive invariant. The safety properties of StateMachine are not  *)
(* inductive by themselves: that a completion finds its children Pending,  *)
(* and that a stale snapshot touches no blocked node, has to be carried    *)
(* along.                                                                  *)

(* A status says no more than the result does, and a node that waits for a *)
(* parent is Pending.                                                      *)
StatusSound ==
  \A n \in NodeId :
    /\ nodeStatus[n] = "Completed" => nodeResults[n] = "output"
    /\ nodeStatus[n] = "Failed" => nodeResults[n] = "error"
    /\ nodeStatus[n] \notin {"Skipped", "Cancelled"}
    /\ nodeInDegree[n] > 0 => nodeStatus[n] = "Pending"

(* A worker executes a node that has no result yet. *)
WorkerSound ==
  \A w \in Executing : node[w] \in NodeId /\ nodeResults[node[w]] = "none"

(* What was started has no unsatisfied edge. *)
StartedUnblocked ==
  \A n \in NodeId : n \in Held \/ nodeResults[n] # "none" => nodeInDegree[n] = 0

(* Only schedule_next_nodes holds a snapshot, and of unblocked nodes.      *)
SnapshotUnblocked ==
  \A w \in Workers :
    /\ activity[w] # "scheduling" => snapshot[w] = {}
    /\ \A n \in snapshot[w] : nodeInDegree[n] = 0

IInv ==
  /\ TypeOK
  /\ OneWorkerPerNode
  /\ InDegreeExact
  /\ ReadyExact
  /\ FinishAccepted
  /\ CompletionSound
  /\ CompletionMissedOnlyByStaleStatus
  /\ StatusSound
  /\ WorkerSound
  /\ StartedUnblocked
  /\ SnapshotUnblocked

-----------------------------------------------------------------------------
(* Node::in_degree is a natural number, and so is every count of edges.    *)
LEMMA EdgeCounts ==
  ASSUME NEW S \in SUBSET EdgeId
  PROVE  IsFiniteSet(S) /\ Cardinality(S) \in Nat /\ (Cardinality(S) = 0 <=> S = {})
BY GraphAssumption, FS_Subset, FS_CardinalityType, FS_EmptySet

(* WorkflowState::new and reset establish the invariant on the state       *)
(* variables: before anything ran, the unsatisfied edges are all incoming  *)
(* edges.                                                                  *)
LEMMA InitIInv == Init => IInv
<1> SUFFICES ASSUME Init PROVE IInv
  OBVIOUS
<1> USE DEF Init, NewState, DefinedInDegree
<1>1. Executing = {} /\ Held = {}
  BY DEF Executing, Held
<1>2. \A n \in NodeId : DefinedInDegree(n) \in Nat
  BY EdgeCounts DEF IncomingEdges
<1>3. TypeOK
  BY <1>2 DEF TypeOK, StateTypeOK, NodeStatus, Activities
<1>4. InDegreeExact
  <2>1. \A n \in NodeId : UnsatisfiedEdges(n) = IncomingEdges(n)
    BY GraphAssumption DEF UnsatisfiedEdges, IncomingEdges, Succeeded
  <2> QED BY <2>1 DEF InDegreeExact
<1>5. ReadyExact
  BY <1>1 DEF ReadyExact
<1>6. CompletionSound /\ CompletionMissedOnlyByStaleStatus
  BY DEF CompletionSound, CompletionMissedOnlyByStaleStatus
<1>7. StatusSound /\ SnapshotUnblocked
  BY DEF StatusSound, SnapshotUnblocked
<1>8. OneWorkerPerNode /\ FinishAccepted /\ WorkerSound /\ StartedUnblocked
  BY <1>1 DEF OneWorkerPerNode, FinishAccepted, WorkerSound, StartedUnblocked
<1> QED BY <1>3, <1>4, <1>5, <1>6, <1>7, <1>8 DEF IInv

-----------------------------------------------------------------------------
(* A worker that leaves its node leaves it to nobody else. *)
LEMMA ReleaseHeld ==
  ASSUME IInv, NEW w \in Executing, NEW act,
         activity' = [activity EXCEPT ![w] = act], act # "executing",
         act \in Activities, \A v \in Workers \ {w} : node'[v] = node[v]
  PROVE  Executing' = Executing \ {w} /\ Held' = Held \ {node[w]}
<1>1. Executing' = Executing \ {w}
  BY DEF IInv, TypeOK, Executing
<1>2. \A v \in Executing \ {w} : node'[v] = node[v] /\ node[v] # node[w]
  BY DEF IInv, OneWorkerPerNode, Executing
<1>3. QED
  BY <1>1, <1>2 DEF Held

(* Counting down: the edges a completion of n satisfies are exactly those  *)
(* from n, each was counted until now, and Decremented takes each once.    *)
LEMMA CountDown ==
  ASSUME IInv, NEW n \in NodeId, NEW m \in NodeId, nodeResults[n] = "none",
         nodeResults' = [nodeResults EXCEPT ![n] = "output"]
  PROVE  Decremented(n, m) = Cardinality(UnsatisfiedEdges(m)')
<1> DEFINE Old == UnsatisfiedEdges(m)
           Gone == EdgesBetween(n, m)
<1>1. Old \in SUBSET EdgeId /\ Gone \in SUBSET EdgeId
  BY DEF UnsatisfiedEdges, IncomingEdges, EdgesBetween
<1>2. Gone \subseteq Old
  BY DEF UnsatisfiedEdges, IncomingEdges, EdgesBetween, Succeeded
<1>3. UnsatisfiedEdges(m)' = Old \ Gone
  BY GraphAssumption DEF IInv, TypeOK, StateTypeOK, UnsatisfiedEdges, IncomingEdges,
     EdgesBetween, Succeeded
<1>4. Cardinality(Old \ Gone) = Cardinality(Old) - Cardinality(Gone)
  <2> HIDE DEF Old, Gone
  <2>1. IsFiniteSet(Old)
    BY <1>1, EdgeCounts
  <2>2. Cardinality(Old \ Gone) = Cardinality(Old) - Cardinality(Old \cap Gone)
    BY <2>1, FS_Difference
  <2>3. Old \cap Gone = Gone
    BY <1>2
  <2> QED
    BY <2>2, <2>3
<1>5. nodeInDegree[m] = Cardinality(Old)
  BY DEF IInv, InDegreeExact
<1>6. Cardinality(Old \ Gone) \in Nat /\ Cardinality(Old) \in Nat /\ Cardinality(Gone) \in Nat
  BY <1>1, EdgeCounts, Old \ Gone \in SUBSET EdgeId
<1> HIDE DEF Old, Gone
<1> QED
  BY <1>3, <1>4, <1>5, <1>6 DEF Decremented, Gone

-----------------------------------------------------------------------------
(* The steps that leave node_results alone keep the count of edges.        *)
LEMMA SameResultsSameCount ==
  ASSUME IInv, UNCHANGED <<nodeResults, nodeInDegree>>
  PROVE  InDegreeExact'
BY DEF IInv, InDegreeExact, UnsatisfiedEdges, Succeeded

LEMMA StartPreserves ==
  ASSUME IInv, NEW w \in Workers, NEW n \in NodeId, StartNode(w, n)
  PROVE  IInv'
<1> USE DEF StartNode, SetNodeRunning
<1>1. /\ Executing' = Executing \union {w} /\ w \notin Executing
      /\ Held' = Held \union {n} /\ n \notin Held
      /\ \A v \in Executing : node'[v] = node[v]
      /\ node'[w] = n
  <2>1. Executing' = Executing \union {w} /\ w \notin Executing
    BY DEF IInv, TypeOK, Executing, Activities
  <2>2. (\A v \in Executing : node'[v] = node[v]) /\ node'[w] = n
    BY <2>1 DEF IInv, TypeOK, Executing
  <2>3. Held' = Held \union {n}
    BY <2>1, <2>2 DEF Held
  <2>4. n \notin Held
    BY DEF IInv, ReadyExact
  <2> QED BY <2>1, <2>2, <2>3, <2>4
<1>2. nodeInDegree[n] = 0 /\ nodeResults[n] = "none"
  BY DEF IInv, ReadyExact
<1>3. TypeOK'
  BY DEF IInv, TypeOK, StateTypeOK, Activities, NodeStatus
<1>4. OneWorkerPerNode'
  BY <1>1 DEF IInv, OneWorkerPerNode, Held
<1>5. InDegreeExact'
  BY SameResultsSameCount
<1>6. ReadyExact'
  BY <1>1 DEF IInv, ReadyExact
<1>7. FinishAccepted'
  BY <1>1 DEF IInv, TypeOK, StateTypeOK, FinishAccepted, MayFinish, WorkerSound
<1>8. CompletionSound'
  BY DEF IInv, CompletionSound, Succeeded
<1>9. CompletionMissedOnlyByStaleStatus'
  BY DEF IInv, TypeOK, StateTypeOK, CompletionMissedOnlyByStaleStatus
<1>10. StatusSound'
  BY <1>2 DEF IInv, TypeOK, StateTypeOK, StatusSound
<1>11. WorkerSound' /\ StartedUnblocked'
  BY <1>1, <1>2 DEF IInv, WorkerSound, StartedUnblocked
<1>12. SnapshotUnblocked'
  BY DEF IInv, TypeOK, SnapshotUnblocked
<1> QED
  BY <1>3, <1>4, <1>5, <1>6, <1>7, <1>8, <1>9, <1>10, <1>11, <1>12 DEF IInv

LEMMA CompletePreserves ==
  ASSUME IInv, NEW w \in Workers, CompleteNode(w)
  PROVE  IInv'
<1> DEFINE n == node[w]
<1> USE DEF CompleteNode, SetNodeCompleted
<1>1. w \in Executing /\ n \in NodeId /\ nodeResults[n] = "none" /\ n \in Held
  BY DEF IInv, WorkerSound, Executing, Held
<1>2. Executing' = Executing \ {w} /\ Held' = Held \ {n}
  BY <1>1, ReleaseHeld DEF Activities
<1>3. \A m \in NodeId : Decremented(n, m) = Cardinality(UnsatisfiedEdges(m)')
  BY <1>1, CountDown
<1>4. \A m \in NodeId : /\ Decremented(n, m) \in Nat
                        /\ nodeInDegree[m] = 0 => Decremented(n, m) = 0
  <2>1. \A m \in NodeId : Decremented(n, m) \in Nat
    BY <1>3, EdgeCounts DEF UnsatisfiedEdges, IncomingEdges
  <2>2. \A m \in NodeId : Cardinality(EdgesBetween(n, m)) \in Nat
    BY EdgeCounts DEF EdgesBetween
  <2> QED BY <2>1, <2>2 DEF Decremented
<1>5. TypeOK'
  <2>1. nodeInDegree' \in [NodeId -> Nat]
    BY <1>4
  <2>2. nodeStatus' \in [NodeId -> NodeStatus] /\ nodeResults' \in [NodeId -> {"none", "output", "error"}]
    BY DEF IInv, TypeOK, StateTypeOK, NodeStatus
  <2>3. isCompleted' \in BOOLEAN /\ readyNodes' \in SUBSET NodeId
    BY DEF IInv, TypeOK, StateTypeOK, CheckCompletion, NewlyReady
  <2> QED
    BY <2>1, <2>2, <2>3 DEF IInv, TypeOK, StateTypeOK, Activities
<1>6. OneWorkerPerNode'
  BY <1>2 DEF IInv, OneWorkerPerNode
<1>7. InDegreeExact'
  BY <1>3 DEF InDegreeExact
<1>8. /\ nodeResults'[n] = "output"
      /\ \A m \in NodeId \ {n} : nodeResults'[m] = nodeResults[m] /\ nodeStatus'[m] = nodeStatus[m]
      /\ nodeStatus'[n] = "Completed"
  BY <1>1 DEF IInv, TypeOK, StateTypeOK
<1>9. ReadyExact'
  <2>1. \A m \in NodeId : m \in readyNodes' <=> m \in readyNodes \/ m \in NewlyReady(n, nodeStatus')
    OBVIOUS
  <2>2. ASSUME NEW m \in NodeId, m \in readyNodes
        PROVE  nodeInDegree'[m] = 0 /\ m \notin Held' /\ nodeResults'[m] = "none"
    BY <1>1, <1>2, <1>4, <1>8, <2>2 DEF IInv, ReadyExact
  <2>3. ASSUME NEW m \in NodeId, m \in NewlyReady(n, nodeStatus')
        PROVE  nodeInDegree'[m] = 0 /\ m \notin Held' /\ nodeResults'[m] = "none"
    <3>1. nodeInDegree[m] > 0 /\ Decremented(n, m) = 0
      BY <2>3 DEF NewlyReady
    <3>2. m \notin Held /\ nodeResults[m] = "none" /\ m # n
      BY <1>1, <3>1 DEF IInv, StartedUnblocked
    <3> QED BY <1>2, <1>8, <3>1, <3>2
  <2>4. ASSUME NEW m \in NodeId, nodeInDegree'[m] = 0, m \notin Held', nodeResults'[m] = "none"
        PROVE  m \in readyNodes \/ m \in NewlyReady(n, nodeStatus')
    <3>1. m # n /\ m \notin Held /\ nodeResults[m] = "none" /\ Decremented(n, m) = 0
      BY <1>2, <1>8, <2>4
    <3>2. CASE nodeInDegree[m] = 0
      BY <3>1, <3>2 DEF IInv, ReadyExact
    <3>3. CASE nodeInDegree[m] > 0
      BY <1>8, <3>1, <3>3 DEF IInv, StatusSound, NewlyReady
    <3> QED BY <3>2, <3>3 DEF IInv, TypeOK, StateTypeOK
  <2>5. readyNodes' \subseteq NodeId
    BY <1>5 DEF TypeOK, StateTypeOK
  <2> QED BY <2>1, <2>2, <2>3, <2>4, <2>5 DEF ReadyExact
<1>10. FinishAccepted' /\ WorkerSound'
  <2>1. \A v \in Executing \ {w} : node[v] # n
    BY <1>1 DEF IInv, OneWorkerPerNode
  <2> QED
    BY <1>2, <1>8, <2>1 DEF IInv, FinishAccepted, MayFinish, WorkerSound
<1>11. CompletionSound'
  <2>1. ASSUME isCompleted' PROVE \A m \in NodeId : nodeResults'[m] = "output"
    <3>1. CASE isCompleted
      BY <1>8, <3>1 DEF IInv, CompletionSound, Succeeded
    <3>2. CASE ~isCompleted
      <4>1. ~hasFailed /\ \A m \in NodeId : nodeStatus'[m] \in {"Completed", "Failed", "Skipped"}
        BY <2>1, <3>2 DEF CheckCompletion
      <4>2. \A m \in NodeId : nodeResults[m] # "error"
        BY <4>1 DEF IInv, CompletionSound
      <4> QED BY <1>8, <4>1, <4>2 DEF IInv, StatusSound
    <3> QED BY <3>1, <3>2
  <2>2. hasFailed' <=> \E m \in NodeId : nodeResults'[m] = "error"
    BY <1>1, <1>8 DEF IInv, CompletionSound
  <2> QED BY <2>1, <2>2 DEF CompletionSound, Succeeded
<1>12. CompletionMissedOnlyByStaleStatus'
  <2>1. ASSUME \A m \in NodeId : nodeStatus'[m] = "Completed" PROVE isCompleted'
    <3>1. \A m \in NodeId : nodeResults[m] # "error"
      BY <1>1, <1>8, <2>1 DEF IInv, StatusSound
    <3>2. ~hasFailed
      BY <3>1 DEF IInv, CompletionSound
    <3> QED BY <2>1, <3>2 DEF CheckCompletion
  <2> QED BY <2>1 DEF CompletionMissedOnlyByStaleStatus
<1>13. StatusSound'
  <2>1. nodeInDegree'[n] = 0
    BY <1>1, <1>4 DEF IInv, StartedUnblocked
  <2>2. \A m \in NodeId : nodeInDegree'[m] > 0 => nodeInDegree[m] > 0
    BY <1>4 DEF IInv, TypeOK, StateTypeOK
  <2> QED BY <1>1, <1>8, <2>1, <2>2 DEF IInv, StatusSound
<1>14. StartedUnblocked'
  BY <1>1, <1>2, <1>4, <1>8 DEF IInv, StartedUnblocked
<1>15. SnapshotUnblocked'
  BY <1>4 DEF IInv, TypeOK, SnapshotUnblocked
<1> QED
  BY <1>5, <1>6, <1>7, <1>9, <1>10, <1>11, <1>12, <1>13, <1>14, <1>15 DEF IInv

LEMMA FailPreserves ==
  ASSUME IInv, NEW w \in Workers, FailNode(w)
  PROVE  IInv'
<1> DEFINE n == node[w]
<1> USE DEF FailNode, SetNodeFailed
<1>1. w \in Executing /\ n \in NodeId /\ nodeResults[n] = "none" /\ n \in Held
  BY DEF IInv, WorkerSound, Executing, Held
<1>2. Executing' = Executing \ {w} /\ Held' = Held \ {n}
  <2>1. \A v \in Workers \ {w} : node'[v] = node[v]
    BY DEF IInv, TypeOK
  <2> QED BY <1>1, <2>1, ReleaseHeld DEF Activities
<1>3. /\ nodeResults'[n] = "error" /\ nodeStatus'[n] = "Failed"
      /\ \A m \in NodeId \ {n} : nodeResults'[m] = nodeResults[m] /\ nodeStatus'[m] = nodeStatus[m]
  BY <1>1 DEF IInv, TypeOK, StateTypeOK
<1>4. \A v \in Executing \ {w} : node'[v] = node[v] /\ node[v] # n
  BY <1>1 DEF IInv, TypeOK, OneWorkerPerNode, Executing
<1>5. TypeOK'
  BY DEF IInv, TypeOK, StateTypeOK, NodeStatus, CheckCompletion, Activities
<1>6. OneWorkerPerNode'
  BY <1>2, <1>4 DEF IInv, OneWorkerPerNode
<1>7. InDegreeExact'
  <2>1. \A e \in EdgeId : nodeResults'[Source[e]] = "output" <=> nodeResults[Source[e]] = "output"
    BY <1>1, <1>3, GraphAssumption
  <2>2. \A m \in NodeId : UnsatisfiedEdges(m)' = UnsatisfiedEdges(m)
    BY <2>1 DEF UnsatisfiedEdges, IncomingEdges, Succeeded
  <2> QED BY <2>2 DEF IInv, InDegreeExact
<1>8. ReadyExact'
  BY <1>1, <1>2, <1>3 DEF IInv, ReadyExact
<1>9. FinishAccepted' /\ WorkerSound'
  BY <1>2, <1>3, <1>4 DEF IInv, FinishAccepted, MayFinish, WorkerSound
<1>10. CompletionSound' /\ CompletionMissedOnlyByStaleStatus'
  <2>1. ~isCompleted
    BY <1>1 DEF IInv, CompletionSound, Succeeded
  <2>2. ~isCompleted'
    BY <2>1 DEF CheckCompletion
  <2> QED
    BY <1>1, <1>3, <2>2 DEF CompletionSound, CompletionMissedOnlyByStaleStatus
<1>11. StatusSound'
  BY <1>1, <1>3 DEF IInv, StatusSound, StartedUnblocked
<1>12. StartedUnblocked'
  BY <1>1, <1>2, <1>3 DEF IInv, StartedUnblocked
<1>13. SnapshotUnblocked'
  BY DEF IInv, TypeOK, SnapshotUnblocked
<1> QED
  BY <1>5, <1>6, <1>7, <1>8, <1>9, <1>10, <1>11, <1>12, <1>13 DEF IInv

-----------------------------------------------------------------------------
(* schedule_next_nodes, first half: only the snapshot changes, and a ready *)
(* node has no unsatisfied edge.                                           *)
LEMMA ReadPreserves ==
  ASSUME IInv, NEW w \in Workers, ReadReadyNodes(w)
  PROVE  IInv'
<1> USE DEF ReadReadyNodes, stateVars
<1>1. w \notin Executing
  BY DEF Executing
<1>2. Executing' = Executing /\ \A v \in Executing : node'[v] = node[v]
  BY <1>1 DEF IInv, TypeOK, Executing
<1>3. Held' = Held
  BY <1>2 DEF Held
<1>4. TypeOK'
  BY DEF IInv, TypeOK, StateTypeOK, Activities
<1>5. InDegreeExact'
  BY SameResultsSameCount
<1>6. OneWorkerPerNode' /\ FinishAccepted' /\ WorkerSound'
  BY <1>2 DEF IInv, OneWorkerPerNode, FinishAccepted, MayFinish, WorkerSound
<1>7. ReadyExact' /\ StartedUnblocked'
  BY <1>3 DEF IInv, ReadyExact, StartedUnblocked
<1>8. CompletionSound' /\ CompletionMissedOnlyByStaleStatus' /\ StatusSound'
  BY DEF IInv, CompletionSound, CompletionMissedOnlyByStaleStatus, StatusSound, Succeeded
<1>9. SnapshotUnblocked'
  BY DEF IInv, TypeOK, StateTypeOK, ReadyExact, SnapshotUnblocked
<1> QED
  BY <1>4, <1>5, <1>6, <1>7, <1>8, <1>9 DEF IInv

(* Second half: the statuses of unblocked nodes become Ready, which        *)
(* set_node_completed and set_node_failed accept as they accept Running.   *)
LEMMA WritePreserves ==
  ASSUME IInv, NEW w \in Workers, WriteReadyStatus(w)
  PROVE  IInv'
<1> USE DEF WriteReadyStatus, MarkReady
<1>1. Executing' = Executing /\ Held' = Held
  BY DEF IInv, TypeOK, Executing, Held
<1>2. \A n \in NodeId : nodeStatus'[n] = IF n \in snapshot[w] THEN "Ready" ELSE nodeStatus[n]
  OBVIOUS
<1>3. TypeOK'
  BY DEF IInv, TypeOK, StateTypeOK, NodeStatus, Activities
<1>4. InDegreeExact'
  BY SameResultsSameCount
<1>5. OneWorkerPerNode' /\ WorkerSound'
  BY <1>1 DEF IInv, OneWorkerPerNode, WorkerSound
<1>6. FinishAccepted'
  BY <1>1, <1>2 DEF IInv, FinishAccepted, MayFinish, WorkerSound
<1>7. ReadyExact' /\ StartedUnblocked'
  BY <1>1 DEF IInv, ReadyExact, StartedUnblocked
<1>8. CompletionSound'
  BY DEF IInv, CompletionSound, Succeeded
<1>9. CompletionMissedOnlyByStaleStatus'
  BY <1>2 DEF IInv, CompletionMissedOnlyByStaleStatus
<1>10. StatusSound'
  BY <1>2 DEF IInv, TypeOK, StateTypeOK, StatusSound, SnapshotUnblocked
<1>11. SnapshotUnblocked'
  BY DEF IInv, TypeOK, SnapshotUnblocked
<1> QED
  BY <1>3, <1>4, <1>5, <1>6, <1>7, <1>8, <1>9, <1>10, <1>11 DEF IInv

LEMMA EdgePreserves ==
  ASSUME IInv, RecordEdgeCondition
  PROVE  IInv'
<1> PICK e \in EdgeId, result \in ConditionResults : SetEdgeCondition(e, result)
  BY DEF RecordEdgeCondition
<1> USE DEF RecordEdgeCondition, SetEdgeCondition
<1>1. Executing' = Executing /\ Held' = Held
  BY DEF Executing, Held
<1>2. edgeConditions' \in [EdgeId -> ConditionResults \union {NoCondition}]
  BY DEF IInv, TypeOK, StateTypeOK
<1>3. TypeOK'
  BY <1>2 DEF IInv, TypeOK, StateTypeOK
<1>4. InDegreeExact'
  BY SameResultsSameCount
<1>5. OneWorkerPerNode' /\ FinishAccepted' /\ WorkerSound' /\ ReadyExact' /\ StartedUnblocked'
  BY <1>1 DEF IInv, OneWorkerPerNode, FinishAccepted, MayFinish, WorkerSound, ReadyExact, StartedUnblocked
<1>6. CompletionSound' /\ CompletionMissedOnlyByStaleStatus' /\ StatusSound' /\ SnapshotUnblocked'
  BY DEF IInv, CompletionSound, CompletionMissedOnlyByStaleStatus, StatusSound, Succeeded, SnapshotUnblocked
<1> QED
  BY <1>3, <1>4, <1>5, <1>6 DEF IInv

(* Reset brings back the state of a new instance, with idle workers. *)
LEMMA ResetPreserves ==
  ASSUME IInv, Reset
  PROVE  IInv'
<1> USE DEF Reset, ResetState, DefinedInDegree
<1>1. Executing' = {} /\ Held' = {}
  BY DEF Executing, Held
<1>2. \A n \in NodeId : DefinedInDegree(n) \in Nat
  BY EdgeCounts DEF IncomingEdges
<1>3. TypeOK'
  BY <1>2 DEF IInv, TypeOK, StateTypeOK, NodeStatus
<1>4. InDegreeExact'
  <2>1. \A n \in NodeId : UnsatisfiedEdges(n)' = IncomingEdges(n)
    BY GraphAssumption DEF UnsatisfiedEdges, IncomingEdges, Succeeded
  <2> QED BY <2>1 DEF InDegreeExact
<1>5. ReadyExact'
  BY <1>1 DEF ReadyExact
<1>6. CompletionSound' /\ CompletionMissedOnlyByStaleStatus' /\ StatusSound'
  BY DEF CompletionSound, CompletionMissedOnlyByStaleStatus, StatusSound
<1>7. SnapshotUnblocked'
  BY DEF IInv, SnapshotUnblocked
<1>8. OneWorkerPerNode' /\ FinishAccepted' /\ WorkerSound' /\ StartedUnblocked'
  BY <1>1 DEF OneWorkerPerNode, FinishAccepted, WorkerSound, StartedUnblocked
<1> QED BY <1>3, <1>4, <1>5, <1>6, <1>7, <1>8 DEF IInv

LEMMA StutterPreserves ==
  ASSUME IInv, UNCHANGED vars
  PROVE  IInv'
<1> USE DEF vars, stateVars
<1>1. Executing' = Executing /\ Held' = Held
  BY DEF Executing, Held
<1>2. TypeOK' /\ InDegreeExact'
  BY SameResultsSameCount DEF IInv, TypeOK, StateTypeOK
<1>3. OneWorkerPerNode' /\ FinishAccepted' /\ WorkerSound' /\ ReadyExact' /\ StartedUnblocked'
  BY <1>1 DEF IInv, OneWorkerPerNode, FinishAccepted, MayFinish, WorkerSound, ReadyExact, StartedUnblocked
<1>4. CompletionSound' /\ CompletionMissedOnlyByStaleStatus' /\ StatusSound' /\ SnapshotUnblocked'
  BY DEF IInv, CompletionSound, CompletionMissedOnlyByStaleStatus, StatusSound, Succeeded, SnapshotUnblocked
<1> QED BY <1>2, <1>3, <1>4 DEF IInv

LEMMA NextPreserves == IInv /\ [Next]_vars => IInv'
<1> SUFFICES ASSUME IInv, [Next]_vars PROVE IInv'
  OBVIOUS
<1>1. CASE \E w \in Workers, n \in NodeId : StartNode(w, n)
  BY <1>1, StartPreserves
<1>2. CASE \E w \in Workers : WorkerStep(w)
  BY <1>2, CompletePreserves, FailPreserves, ReadPreserves, WritePreserves DEF WorkerStep
<1>3. CASE RecordEdgeCondition
  BY <1>3, EdgePreserves
<1>4. CASE Reset
  BY <1>4, ResetPreserves
<1>5. CASE UNCHANGED vars
  BY <1>5, StutterPreserves
<1> QED BY <1>1, <1>2, <1>3, <1>4, <1>5 DEF Next

-----------------------------------------------------------------------------
(* The inductive invariant holds of every state of every instance, with no *)
(* fairness assumed: so of an instance driven by Engine, too.              *)
THEOREM SafetyInvariant == SafetySpec => []IInv
<1>1. Init => IInv
  BY InitIInv
<1>2. IInv /\ [Next]_vars => IInv'
  BY NextPreserves
<1> QED BY <1>1, <1>2, PTL DEF SafetySpec

(* The same, for the specification the runs check. *)
LEMMA InvariantHolds == Spec => []IInv
BY SafetyInvariant, PTL DEF Spec, SafetySpec

(* The state of an instance is well formed. *)
THEOREM TypeCorrect == Spec => []TypeOK
<1>1. IInv => TypeOK
  BY DEF IInv
<1> QED BY <1>1, InvariantHolds, PTL

(* No two workers ever execute the same node. *)
THEOREM MutualExclusion == Spec => []OneWorkerPerNode
<1>1. IInv => OneWorkerPerNode
  BY DEF IInv
<1> QED BY <1>1, InvariantHolds, PTL

(* In-degrees and the ready set are exact, so no completion is counted     *)
(* twice and no unblocked node is ever lost.                               *)
THEOREM CountingExact == Spec => []CountersExact
<1>1. IInv => CountersExact
  BY DEF IInv, CountersExact
<1> QED BY <1>1, InvariantHolds, PTL

(* A count of zero means that every parent has succeeded. *)
LEMMA ZeroMeansSatisfied ==
  ASSUME IInv, NEW n \in NodeId, nodeInDegree[n] = 0
  PROVE  \A p \in Parents(n) : Succeeded(p)
<1>1. UnsatisfiedEdges(n) = {}
  BY EdgeCounts DEF IInv, InDegreeExact, UnsatisfiedEdges, IncomingEdges
<1> QED BY <1>1 DEF Parents, UnsatisfiedEdges

(* Nothing is ready, executed or finished before all its parents succeeded. *)
THEOREM DependenciesRespected == Spec => []DependencyOrder
<1>1. IInv => DependencyOrder
  <2> SUFFICES ASSUME IInv, NEW n \in NodeId,
                      n \in readyNodes \union Held \/ nodeResults[n] # "none"
               PROVE  \A p \in Parents(n) : Succeeded(p)
    BY DEF DependencyOrder
  <2>1. nodeInDegree[n] = 0
    BY DEF IInv, ReadyExact, StartedUnblocked
  <2> QED BY <2>1, ZeroMeansSatisfied
<1> QED BY <1>1, InvariantHolds, PTL

(* The outcome of a started node is never refused. *)
THEOREM OutcomesAccepted == Spec => []FinishAccepted
<1>1. IInv => FinishAccepted
  BY DEF IInv
<1> QED BY <1>1, InvariantHolds, PTL

(* is_completed and has_failed never claim what did not happen, and        *)
(* completion is missed only through a status put back to Ready.           *)
THEOREM CompletionReports == Spec => []CompletionExact
<1>1. IInv => CompletionExact
  BY DEF IInv, CompletionExact
<1> QED BY <1>1, InvariantHolds, PTL

-----------------------------------------------------------------------------
(* The refinement. Phase' follows from what a step does to node_results    *)
(* and to the set of nodes workers hold.                                   *)
Phase == [n \in NodeId |-> PhaseOf(n)]

LEMMA StartBegins ==
  ASSUME IInv, NEW w \in Workers, NEW n \in NodeId, StartNode(w, n)
  PROVE  Abstract!Begin(n)
<1>1. Held' = Held \union {n} /\ n \notin Held /\ nodeResults[n] = "none"
  <2>1. Executing' = Executing \union {w} /\ w \notin Executing
    BY DEF IInv, TypeOK, Executing, Activities, StartNode
  <2>2. (\A v \in Executing : node'[v] = node[v]) /\ node'[w] = n
    BY <2>1 DEF IInv, TypeOK, Executing, StartNode
  <2>3. n \in readyNodes
    BY DEF StartNode, SetNodeRunning
  <2> QED BY <2>1, <2>2, <2>3 DEF Held, IInv, ReadyExact
<1>2. UNCHANGED <<nodeResults, isCompleted>>
  BY DEF StartNode, SetNodeRunning
<1>3. \A m \in NodeId : PhaseOf(m)' = IF m = n THEN "executing" ELSE PhaseOf(m)
  BY <1>1, <1>2 DEF PhaseOf
<1>4. PhaseOf(n) = "waiting"
  BY <1>1 DEF PhaseOf
<1>5. nodeInDegree[n] = 0
  BY DEF StartNode, SetNodeRunning, IInv, ReadyExact
<1>6. \A p \in Parents(n) : p \in NodeId /\ PhaseOf(p) = "succeeded"
  BY <1>5, ZeroMeansSatisfied, GraphAssumption DEF Parents, IncomingEdges, PhaseOf, Succeeded
<1>7. Phase' = [Phase EXCEPT ![n] = "executing"]
  BY <1>3 DEF Phase
<1> QED
  BY <1>2, <1>4, <1>6, <1>7
     DEF Abstract!Begin, Abstract!Parents, Abstract!IncomingEdges, Parents, IncomingEdges, Phase

LEMMA CompleteSucceeds ==
  ASSUME IInv, NEW w \in Workers, CompleteNode(w)
  PROVE  node[w] \in NodeId /\ Abstract!Succeed(node[w])
<1> DEFINE n == node[w]
<1>1. w \in Executing /\ n \in NodeId /\ nodeResults[n] = "none" /\ n \in Held
  BY DEF IInv, WorkerSound, Executing, Held, CompleteNode
<1>2. Held' = Held \ {n}
  BY <1>1, ReleaseHeld DEF Activities, CompleteNode
<1>3. nodeResults' = [nodeResults EXCEPT ![n] = "output"]
  BY DEF CompleteNode, SetNodeCompleted
<1>4. \A m \in NodeId : PhaseOf(m)' = IF m = n THEN "succeeded" ELSE PhaseOf(m)
  BY <1>1, <1>2, <1>3 DEF PhaseOf, IInv, TypeOK, StateTypeOK
<1>5. PhaseOf(n) = "executing"
  BY <1>1 DEF PhaseOf
<1>6. Phase' = [Phase EXCEPT ![n] = "succeeded"]
  BY <1>4 DEF Phase
<1>7. isCompleted' = isCompleted \/ isCompleted' = (isCompleted \/ Abstract!AllSucceeded')
  <2>1. isCompleted \in BOOLEAN /\ isCompleted' \in BOOLEAN
    BY CompletePreserves DEF IInv, TypeOK, StateTypeOK
  <2>2. isCompleted => isCompleted'
    BY DEF CompleteNode, SetNodeCompleted, CheckCompletion
  <2>3. isCompleted' => \A m \in NodeId : PhaseOf(m)' = "succeeded"
    BY CompletePreserves DEF IInv, CompletionSound, Succeeded, PhaseOf
  <2>4. isCompleted' => Abstract!AllSucceeded'
    BY <2>3 DEF Abstract!AllSucceeded
  <2> QED BY <2>1, <2>2, <2>4
<1> HIDE DEF n
<1> QED
  BY <1>1, <1>5, <1>6, <1>7 DEF Abstract!Succeed, Phase, n

LEMMA FailFails ==
  ASSUME IInv, NEW w \in Workers, FailNode(w)
  PROVE  node[w] \in NodeId /\ Abstract!Fail(node[w])
<1> DEFINE n == node[w]
<1>1. w \in Executing /\ n \in NodeId /\ nodeResults[n] = "none" /\ n \in Held
  BY DEF IInv, WorkerSound, Executing, Held, FailNode
<1>2. Held' = Held \ {n}
  <2>1. \A v \in Workers \ {w} : node'[v] = node[v]
    BY DEF IInv, TypeOK, FailNode
  <2> QED BY <1>1, <2>1, ReleaseHeld DEF Activities, FailNode
<1>3. nodeResults' = [nodeResults EXCEPT ![n] = "error"]
  BY DEF FailNode, SetNodeFailed
<1>4. \A m \in NodeId : PhaseOf(m)' = IF m = n THEN "failed" ELSE PhaseOf(m)
  BY <1>1, <1>2, <1>3 DEF PhaseOf, IInv, TypeOK, StateTypeOK
<1>5. PhaseOf(n) = "executing"
  BY <1>1 DEF PhaseOf
<1>6. Phase' = [Phase EXCEPT ![n] = "failed"]
  BY <1>4 DEF Phase
<1>7. UNCHANGED isCompleted
  <2>1. ~isCompleted
    BY <1>1 DEF IInv, CompletionSound, Succeeded
  <2> QED BY <2>1 DEF FailNode, SetNodeFailed, CheckCompletion, IInv, TypeOK, StateTypeOK
<1> HIDE DEF n
<1> QED
  BY <1>1, <1>5, <1>6, <1>7 DEF Abstract!Fail, Phase, n

(* The two steps of schedule_next_nodes are internal. *)
LEMMA InternalStutters ==
  ASSUME IInv, NEW w \in Workers,
         ReadReadyNodes(w) \/ WriteReadyStatus(w)
  PROVE  UNCHANGED Abstract!vars
<1>1. Held' = Held
  BY DEF IInv, TypeOK, Held, Executing, ReadReadyNodes, WriteReadyStatus
<1>2. UNCHANGED <<nodeResults, isCompleted>>
  BY DEF ReadReadyNodes, WriteReadyStatus, stateVars, MarkReady
<1>3. \A n \in NodeId : PhaseOf(n)' = PhaseOf(n)
  BY <1>1, <1>2 DEF PhaseOf
<1> QED BY <1>2, <1>3 DEF Abstract!vars

LEMMA ResetResets ==
  ASSUME IInv, Reset
  PROVE  Abstract!Reset
<1>1. Held = {} /\ Held' = {}
  BY DEF Held, Executing, Reset
<1>2. \A n \in NodeId : PhaseOf(n) # "executing" /\ PhaseOf(n)' = "waiting"
  BY <1>1 DEF PhaseOf, Reset, ResetState
<1> QED BY <1>2 DEF Abstract!Reset, Reset, ResetState

(* The state machine, shared by any number of workers that bring tasks in  *)
(* any order, implements the abstract execution of the workflow.           *)
THEOREM Refinement == Spec => ImplementsNodeExecution
<1>1. Init => Abstract!Init
  BY DEF Init, NewState, PhaseOf, Held, Executing, Abstract!Init
<1>2. IInv /\ [Next]_vars => [Abstract!Next]_(Abstract!vars)
  <2> SUFFICES ASSUME IInv, [Next]_vars PROVE [Abstract!Next]_(Abstract!vars)
    OBVIOUS
  <2>1. CASE \E w \in Workers, n \in NodeId : StartNode(w, n)
    BY <2>1, StartBegins DEF Abstract!Next
  <2>2. CASE \E w \in Workers : CompleteNode(w)
    BY <2>2, CompleteSucceeds DEF Abstract!Next
  <2>3. CASE \E w \in Workers : FailNode(w)
    BY <2>3, FailFails DEF Abstract!Next
  <2>4. CASE \E w \in Workers : ReadReadyNodes(w) \/ WriteReadyStatus(w)
    BY <2>4, InternalStutters
  <2>5. CASE RecordEdgeCondition \/ UNCHANGED vars
    <3>1. UNCHANGED <<activity, node, nodeResults, isCompleted>>
      BY <2>5 DEF RecordEdgeCondition, SetEdgeCondition, vars, stateVars
    <3>2. \A n \in NodeId : PhaseOf(n)' = PhaseOf(n)
      BY <3>1 DEF PhaseOf, Held, Executing
    <3> QED BY <3>1, <3>2 DEF Abstract!vars
  <2>6. CASE Reset
    BY <2>6, ResetResets DEF Abstract!Next
  <2> QED BY <2>1, <2>2, <2>3, <2>4, <2>5, <2>6 DEF Next, WorkerStep
<1> QED BY <1>1, <1>2, InvariantHolds, PTL DEF Spec, ImplementsNodeExecution, Abstract!Spec
=============================================================================
