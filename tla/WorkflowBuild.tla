--------------------------- MODULE WorkflowBuild ---------------------------
(***************************************************************************)
(* A WorkflowDefinition while it is being edited: add_node, add_edge,      *)
(* remove_node and remove_edge (lion_workflow/src/model/definition.rs and  *)
(* node.rs). The definition keeps the same graph several times over: the   *)
(* map of edges, the edges each node lists, the in-degree it counts, and   *)
(* the sets of start and end nodes.                                        *)
(***************************************************************************)
EXTENDS Integers, Sequences, FiniteSetsExt

CONSTANTS
  NodeId, EdgeId,
  Source, Target,     \* the nodes that edge e would join
  Boundary            \* the edges validate_edge_capabilities refuses: they join nodes
                      \* of different capabilities and have none of their own

VARIABLE definition

ASSUME BuildAssumption ==
  /\ IsFiniteSet(NodeId) /\ IsFiniteSet(EdgeId)
  /\ Source \in [EdgeId -> NodeId] /\ Target \in [EdgeId -> NodeId]
  /\ Boundary \subseteq EdgeId

(* WorkflowDefinition, with the fields of its nodes. A node that is not    *)
(* among nodes has the fields Node::new would give it.                     *)
Definitions ==
  [nodes : SUBSET NodeId, edges : SUBSET EdgeId,
   outgoing : [NodeId -> SUBSET EdgeId], incoming : [NodeId -> SUBSET EdgeId],
   inDegree : [NodeId -> Nat], status : [NodeId -> {"Pending", "Ready"}],
   start : SUBSET NodeId, end : SUBSET NodeId]

EmptyDefinition ==
  [nodes |-> {}, edges |-> {},
   outgoing |-> [n \in NodeId |-> {}], incoming |-> [n \in NodeId |-> {}],
   inDegree |-> [n \in NodeId |-> 0], status |-> [n \in NodeId |-> "Pending"],
   start |-> {}, end |-> {}]

(* The nodes an Edge connects. *)
Ends(e) == {Source[e], Target[e]}

(* add_node *)
WithNode(d, n) ==
  [d EXCEPT !.nodes = @ \union {n}, !.start = @ \union {n}, !.end = @ \union {n}]

(* add_edge up to its check for a cycle. *)
WithEdge(d, e) ==
  [d EXCEPT !.edges = @ \union {e},
            !.outgoing = [d.outgoing EXCEPT ![Source[e]] = @ \union {e}],
            !.incoming = [d.incoming EXCEPT ![Target[e]] = @ \union {e}],
            !.inDegree = [d.inDegree EXCEPT ![Target[e]] = @ + 1],
            !.start = @ \ {Target[e]},
            !.end = @ \ {Source[e]}]

Lost(links, edges, n) == links[n] \intersect edges

(* Mutant: remove_incoming_edge does not count down. *)
KeptInDegree(d, edges, n) == d.inDegree[n]

(* remove_incoming_edge, which counts down but not below 0. *)
LeftInDegree(d, edges, n) ==
  IF Cardinality(Lost(d.incoming, edges, n)) <= d.inDegree[n]
  THEN d.inDegree[n] - Cardinality(Lost(d.incoming, edges, n)) ELSE 0

(* remove_edge, once for each of the edges; decrement_in_degree makes a    *)
(* Pending node Ready when it reaches 0.                                   *)
WithoutEdges(d, edges) ==
  [d EXCEPT
     !.edges = @ \ edges,
     !.outgoing = [n \in NodeId |-> d.outgoing[n] \ edges],
     !.incoming = [n \in NodeId |-> d.incoming[n] \ edges],
     !.inDegree = [n \in NodeId |-> LeftInDegree(d, edges, n)],
     !.status = [n \in NodeId |-> IF /\ Lost(d.incoming, edges, n) # {}
                                     /\ LeftInDegree(d, edges, n) = 0
                                  THEN "Ready" ELSE d.status[n]],
     !.start = @ \union {n \in d.nodes : /\ Lost(d.incoming, edges, n) # {}
                                         /\ d.incoming[n] \subseteq edges},
     !.end = @ \union {n \in d.nodes : /\ Lost(d.outgoing, edges, n) # {}
                                       /\ d.outgoing[n] \subseteq edges}]

Touching(d, n) == {e \in d.edges : n \in Ends(e)}

(* Node::new *)
Blank(d, n) ==
  [d EXCEPT !.nodes = @ \ {n},
            !.outgoing = [d.outgoing EXCEPT ![n] = {}],
            !.incoming = [d.incoming EXCEPT ![n] = {}],
            !.inDegree = [d.inDegree EXCEPT ![n] = 0],
            !.status = [d.status EXCEPT ![n] = "Pending"]]

(* remove_node: the node goes first, so its edges find only their other end. *)
WithoutNode(d, n) ==
  LET left == WithoutEdges(Blank(d, n), Touching(d, n))
  IN  [left EXCEPT !.start = @ \ {n}, !.end = @ \ {n}]

-----------------------------------------------------------------------------
(* The two searches: has_cycle, a depth-first search, and                  *)
(* get_topological_order, which counts in-degrees down. Both go through    *)
(* HashMaps and HashSets, so in an order nobody chooses.                   *)

(* Mutant: a node stays on the stack when the search has left it. *)
Stay(search, n) == search

Pop(search, n) == [search EXCEPT !.inStack = @ \ {n}]

Searches == [visited : SUBSET NodeId, inStack : SUBSET NodeId, cycle : BOOLEAN]

(* The loop of has_cycle_dfs over the edges of a node, which ends at the    *)
(* first cycle. explore has the results of the calls it makes.             *)
Follow(explore, e, search) ==
  IF search.cycle THEN search
  ELSE IF Target[e] \notin search.visited THEN explore[<<Target[e], search>>]
  ELSE [search EXCEPT !.cycle = Target[e] \in search.inStack]

(* has_cycle_dfs from a node. *)
Visit(d, explore, n, search) ==
  LET entered == [search EXCEPT !.visited = @ \union {n}, !.inStack = @ \union {n}]
      left == FoldSet(LAMBDA e, s : Follow(explore, e, s), entered, d.outgoing[n])
  IN  IF left.cycle THEN left ELSE Pop(left, n)

Explore(d) ==
  LET explore[call \in NodeId \X Searches] == Visit(d, explore, call[1], call[2])
  IN  explore

(* has_cycle *)
SearchFindsCycle(d) ==
  LET From(n, s) == IF s.cycle \/ n \in s.visited THEN s ELSE Explore(d)[<<n, s>>]
  IN  FoldSet(From, [visited |-> {}, inStack |-> {}, cycle |-> FALSE], d.nodes).cycle

Edges(d, n, m) == {e \in d.outgoing[n] : Target[e] = m}

(* The loop of get_topological_order counts the degrees of the targets of  *)
(* n down, and a target whose degree reaches 0 joins the queue. A degree   *)
(* may go below 0: the code has usize degrees, a debug build panics there, *)
(* and a release build goes on with 2^64 - 1, which is not 0 again.        *)
CountedDown(d, degree, n) == [m \in NodeId |-> degree[m] - Cardinality(Edges(d, n, m))]

Freed(d, degree, n) == {m \in d.nodes : degree[m] > 0 /\ CountedDown(d, degree, n)[m] <= 0}

GoesBelow(d, degree, n) ==
  \E m \in d.nodes : LET left == CountedDown(d, degree, n)[m] IN left < 0 /\ left # degree[m]

NextTurn(d, queue, degree, n) ==
  <<(queue \ {n}) \union Freed(d, degree, n), CountedDown(d, degree, n)>>

Extend(d, degree, n, rest) ==
  [order |-> <<n>> \o rest.order, below |-> rest.below \/ GoesBelow(d, degree, n)]

Turns(d, orders, queue, degree) ==
  IF queue = {} THEN {[order |-> << >>, below |-> FALSE]}
  ELSE UNION {{Extend(d, degree, n, rest) : rest \in orders[NextTurn(d, queue, degree, n)]} :
                n \in queue}

(* The orders it may give, and whether a degree goes below 0 on the way.   *)
TopologicalOrders(d) ==
  LET orders[turn \in (SUBSET NodeId) \X [NodeId -> Int]] == Turns(d, orders, turn[1], turn[2])
  IN  orders[<<{n \in d.nodes : d.inDegree[n] = 0}, d.inDegree>>]

IsTopological(d, order) ==
  /\ Len(order) = Cardinality(d.nodes) /\ {order[i] : i \in 1 .. Len(order)} = d.nodes
  /\ \A i, j \in 1 .. Len(order) : Edges(d, order[j], order[i]) # {} => j < i

-----------------------------------------------------------------------------
Init == definition = EmptyDefinition

AddNode(n) ==
  /\ n \notin definition.nodes
  /\ definition' = WithNode(definition, n)

(* An edge between nodes of different capabilities needs one of its own. *)
validate_edge_capabilities(e) == e \notin Boundary

CanAddEdge(e) ==
  /\ e \notin definition.edges
  /\ Ends(e) \subseteq definition.nodes
  /\ validate_edge_capabilities(e)

AddEdge(e) ==
  /\ CanAddEdge(e)
  /\ LET more == WithEdge(definition, e)
     IN  definition' = IF SearchFindsCycle(more) THEN WithoutEdges(more, {e}) ELSE more

RemoveEdge(e) ==
  /\ e \in definition.edges
  /\ definition' = WithoutEdges(definition, {e})

RemoveNode(n) ==
  /\ n \in definition.nodes
  /\ definition' = WithoutNode(definition, n)

Next ==
  \/ \E n \in NodeId : AddNode(n) \/ RemoveNode(n)
  \/ \E e \in EdgeId : AddEdge(e) \/ RemoveEdge(e)

Spec == Init /\ [][Next]_definition

-----------------------------------------------------------------------------
(* What has_cycle is to decide: some nodes each have an edge to another of *)
(* them, or to themselves.                                                 *)
HasCycle(edges) ==
  \E nodes \in SUBSET NodeId :
    /\ nodes # {}
    /\ \A n \in nodes : \E e \in edges : Source[e] = n /\ Target[e] \in nodes

(* The lists of edges, the counts and the sets of start and end nodes all  *)
(* describe the one set of edges, after any sequence of edits.             *)
LinksExact(d) ==
  /\ \A e \in d.edges : Source[e] \in d.nodes /\ Target[e] \in d.nodes
  /\ \A n \in NodeId :
       /\ d.outgoing[n] = {e \in d.edges : Source[e] = n}
       /\ d.incoming[n] = {e \in d.edges : Target[e] = n}
       /\ d.inDegree[n] = Cardinality(d.incoming[n])

EndsExact(d) ==
  /\ d.start = {n \in d.nodes : d.incoming[n] = {}}
  /\ d.end = {n \in d.nodes : d.outgoing[n] = {}}

(* An edit that fails half-way leaves no edge behind that closes a cycle.  *)
DefinitionSound ==
  /\ definition \in Definitions
  /\ LinksExact(definition)
  /\ EndsExact(definition)
  /\ ~HasCycle(definition.edges)

(* has_cycle finds a cycle exactly when an edge that may be added closes   *)
(* one, and get_topological_order gives every node after those before it.  *)
SearchesExact ==
  /\ \A e \in EdgeId : CanAddEdge(e) =>
       LET more == WithEdge(definition, e) IN SearchFindsCycle(more) <=> HasCycle(more.edges)
  /\ \A result \in TopologicalOrders(definition) :
       IsTopological(definition, result.order) /\ ~result.below

(* An edge refused because of a cycle changes nothing, but for one thing:  *)
(* the in-degree of its target is counted up and down again, and a Pending *)
(* target that no other edge enters is left Ready, which get_ready_nodes   *)
(* does not list.                                                          *)
RefusalChangesOnlyStatus ==
  [][definition' # definition /\ definition'.edges = definition.edges =>
       \A e \in EdgeId : AddEdge(e) =>
         LET target == Target[e]
         IN  definition' = [definition EXCEPT !.status[target] =
               IF definition.incoming[target] = {} THEN "Ready" ELSE @]
    ]_definition
=============================================================================
