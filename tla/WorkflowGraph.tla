--------------------------- MODULE WorkflowGraph ---------------------------
(***************************************************************************)
(* The immutable part of a workflow instance: the graph of the             *)
(* WorkflowDefinition it was created from (lion_workflow/src/model).       *)
(* Edges have identities of their own, so two edges may join the same pair *)
(* of nodes; Node::in_degree counts edges, not predecessors.               *)
(***************************************************************************)
EXTENDS Naturals, FiniteSets

CONSTANTS
  NodeId,   \* the nodes of the definition
  EdgeId,   \* the edges of the definition
  Source,   \* Source[e] is the node edge e leaves
  Target    \* Target[e] is the node edge e enters

ASSUME GraphAssumption ==
  /\ IsFiniteSet(NodeId)
  /\ IsFiniteSet(EdgeId)
  /\ Source \in [EdgeId -> NodeId]
  /\ Target \in [EdgeId -> NodeId]

(* WorkflowDefinition::add_edge refuses an edge that closes a cycle. *)
ASSUME NoSelfLoop == \A e \in EdgeId : Source[e] # Target[e]

OutgoingEdges(n) == {e \in EdgeId : Source[e] = n}

IncomingEdges(n) == {e \in EdgeId : Target[e] = n}

(* Node::in_degree as the definition leaves it: one per incoming edge. *)
DefinedInDegree(n) == Cardinality(IncomingEdges(n))

Parents(n) == {Source[e] : e \in IncomingEdges(n)}
=============================================================================
