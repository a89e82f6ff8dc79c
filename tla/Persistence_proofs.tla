------------------------- MODULE Persistence_proofs -------------------------
(***************************************************************************)
(* The graph of a definition stays sound under every sequence of edits,    *)
(* refused ones included, and the searches for a cycle and for an order    *)
(* answer right; what save_checkpoint reported can be loaded until a prune *)
(* takes it, however many callers save, load, prune, drop their futures or *)
(* crash in between; and a load gives the definition back without its      *)
(* in-degrees.                                                             *)
(*                                                                         *)
(* The searches are recursive functions. Recursion shows that there is a   *)
(* function with the values the recursion gives, FoldExists the same of a  *)
(* fold, each from the least argument without; what the functions answer   *)
(* is shown in the same way.                                               *)
(*                                                                         *)
(* The theorems about stored definitions hold where every definition has a *)
(* serialized form (Definitions \subseteq Values), as in the run; otherwise *)
(* CheckpointTypeOK would not hold.                                        *)
(***************************************************************************)
EXTENDS Persistence, FiniteSetTheorems, SequenceTheorems, WellFoundedInduction, TLAPS

-----------------------------------------------------------------------------
(* The edits. Each keeps the lists of edges, the counts and the sets of    *)
(* start and end nodes in step with the one set of edges.                  *)
Sound(d) ==
  d \in Definitions /\ LinksExact(d) /\ EndsExact(d) /\ ~HasCycle(d.edges)

(* The sets of edges that are counted are finite.                          *)
LEMMA LinksAreFinite ==
  ASSUME NEW S \in SUBSET EdgeId
  PROVE  IsFiniteSet(S) /\ Cardinality(S) \in Nat
<1>1. IsFiniteSet(S)
  BY BuildAssumption, FS_Subset
<1> QED
  BY <1>1, FS_CardinalityType

(* WorkflowDefinition::new                                                 *)
LEMMA EmptySound == Sound(EmptyDefinition)
<1> DEFINE d == EmptyDefinition
<1>1. d \in Definitions
  BY DEF EmptyDefinition, Definitions
<1>2. LinksExact(d)
  BY FS_EmptySet DEF EmptyDefinition, LinksExact
<1>3. EndsExact(d)
  BY DEF EmptyDefinition, EndsExact
<1>4. ~HasCycle(d.edges)
  BY DEF EmptyDefinition, HasCycle
<1> QED
  BY <1>1, <1>2, <1>3, <1>4 DEF Sound

(* A node that is not there has no edges yet.                              *)
LEMMA NodeAdded ==
  ASSUME NEW d, Sound(d), NEW n \in NodeId, n \notin d.nodes
  PROVE  Sound(WithNode(d, n))
<1> DEFINE new == WithNode(d, n)
<1>1. d \in Definitions
  BY DEF Sound
<1>2. /\ new.nodes = d.nodes \union {n} /\ new.edges = d.edges
      /\ new.outgoing = d.outgoing /\ new.incoming = d.incoming
      /\ new.inDegree = d.inDegree /\ new.status = d.status
      /\ new.start = d.start \union {n} /\ new.end = d.end \union {n}
  BY <1>1 DEF WithNode, Definitions
<1>3. new \in Definitions
  BY <1>1 DEF WithNode, Definitions
<1>4. LinksExact(new)
  BY <1>1, <1>2 DEF Sound, LinksExact
<1>5. d.incoming[n] = {} /\ d.outgoing[n] = {}
  BY DEF Sound, LinksExact
<1>6. EndsExact(new)
  BY <1>2, <1>5 DEF Sound, EndsExact
<1> QED
  BY <1>2, <1>3, <1>4, <1>6 DEF Sound

(* Fewer edges close no more cycles. *)
LEMMA CyclesShrink ==
  ASSUME NEW edges, NEW fewer \in SUBSET edges, ~HasCycle(edges)
  PROVE  ~HasCycle(fewer)
BY DEF HasCycle

(* add_edge up to its check keeps everything but the absence of cycles.    *)
LEMMA EdgeAdded ==
  ASSUME NEW d, d \in Definitions, LinksExact(d), EndsExact(d), NEW e \in EdgeId,
         e \notin d.edges, Ends(e) \subseteq d.nodes
  PROVE  LET new == WithEdge(d, e)
         IN  /\ new \in Definitions /\ LinksExact(new) /\ EndsExact(new)
             /\ new.nodes = d.nodes /\ new.edges = d.edges \union {e} /\ new.status = d.status
<1> DEFINE new == WithEdge(d, e)
           s == Source[e]
           t == Target[e]
<1>0. s \in NodeId /\ t \in NodeId /\ s \in d.nodes /\ t \in d.nodes
  BY BuildAssumption DEF Ends
<1>1. /\ new.nodes = d.nodes /\ new.edges = d.edges \union {e}
      /\ new.outgoing = [d.outgoing EXCEPT ![s] = @ \union {e}]
      /\ new.incoming = [d.incoming EXCEPT ![t] = @ \union {e}]
      /\ new.inDegree = [d.inDegree EXCEPT ![t] = @ + 1] /\ new.status = d.status
      /\ new.start = d.start \ {t} /\ new.end = d.end \ {s}
  BY DEF WithEdge, Definitions
<1>2. new \in Definitions
  <2>1. [d.outgoing EXCEPT ![s] = @ \union {e}] \in [NodeId -> SUBSET EdgeId]
    BY DEF Definitions
  <2>2. [d.incoming EXCEPT ![t] = @ \union {e}] \in [NodeId -> SUBSET EdgeId]
    BY DEF Definitions
  <2>3. [d.inDegree EXCEPT ![t] = @ + 1] \in [NodeId -> Nat]
    <3>1. d.inDegree \in [NodeId -> Nat]
      BY DEF Definitions
    <3> QED
      BY <1>0, <3>1
  <2> QED
    BY <2>1, <2>2, <2>3 DEF WithEdge, Definitions
<1>3. ASSUME NEW n \in NodeId
      PROVE  /\ new.outgoing[n] = {x \in new.edges : Source[x] = n}
             /\ new.incoming[n] = {x \in new.edges : Target[x] = n}
  BY <1>1 DEF LinksExact, Definitions
<1>4. ASSUME NEW n \in NodeId
      PROVE  new.inDegree[n] = Cardinality(new.incoming[n])
  <2>1. CASE n = t
    <3>1. e \notin d.incoming[t] /\ d.incoming[t] \subseteq EdgeId
      BY <1>0 DEF LinksExact, Definitions
    <3>2. Cardinality(d.incoming[t] \union {e}) = Cardinality(d.incoming[t]) + 1
      BY <3>1, LinksAreFinite, FS_AddElement
    <3>3. d.inDegree \in [NodeId -> Nat] /\ d.incoming \in [NodeId -> SUBSET EdgeId]
      BY DEF Definitions
    <3>4. new.inDegree[t] = d.inDegree[t] + 1 /\ new.incoming[t] = d.incoming[t] \union {e}
      BY <1>0, <1>1, <3>3
    <3> QED
      BY <1>0, <2>1, <3>2, <3>4 DEF LinksExact
  <2>2. CASE n # t
    BY <1>1, <2>2 DEF LinksExact, Definitions
  <2> QED
    BY <2>1, <2>2
<1>5. \A x \in new.edges : Source[x] \in new.nodes /\ Target[x] \in new.nodes
  BY <1>0, <1>1 DEF LinksExact
<1>6. EndsExact(new)
  <2>1. /\ \A n \in NodeId : /\ new.incoming[n] = d.incoming[n] \union IF n = t THEN {e} ELSE {}
                           /\ new.outgoing[n] = d.outgoing[n] \union IF n = s THEN {e} ELSE {}
        /\ d.nodes \subseteq NodeId
    BY <1>1 DEF Definitions
  <2>2. /\ d.start = {n \in d.nodes : d.incoming[n] = {}}
        /\ d.end = {n \in d.nodes : d.outgoing[n] = {}}
    BY DEF EndsExact
  <2>3. ASSUME NEW n \in d.nodes
        PROVE  /\ n \in new.start <=> new.incoming[n] = {}
               /\ n \in new.end <=> new.outgoing[n] = {}
    <3>1. /\ n \in new.start <=> d.incoming[n] = {} /\ n # t
          /\ n \in new.end <=> d.outgoing[n] = {} /\ n # s
      BY <1>1, <2>2
    <3>2. /\ new.incoming[n] = d.incoming[n] \union IF n = t THEN {e} ELSE {}
          /\ new.outgoing[n] = d.outgoing[n] \union IF n = s THEN {e} ELSE {}
      BY <2>1
    <3> HIDE DEF new
    <3> QED
      BY <3>1, <3>2
  <2>4. new.start \subseteq d.nodes /\ new.end \subseteq d.nodes
    BY <1>1, <2>2
  <2> QED
    BY <1>1, <2>3, <2>4 DEF EndsExact
<1> QED
  BY <1>1, <1>2, <1>3, <1>4, <1>5, <1>6 DEF LinksExact

(* The in-degree after edges are counted down is the number of those left. *)
LEMMA DegreeLeft ==
  ASSUME NEW d \in Definitions, NEW edges, NEW n \in NodeId,
         d.inDegree[n] = Cardinality(d.incoming[n])
  PROVE  LeftInDegree(d, edges, n) = Cardinality(d.incoming[n] \ edges)
<1> DEFINE links == d.incoming[n]
<1>1. links \subseteq EdgeId
  BY DEF Definitions
<1>2. IsFiniteSet(links)
  BY <1>1, LinksAreFinite
<1>3. Cardinality(links \ edges) = Cardinality(links) - Cardinality(links \intersect edges)
  BY <1>2, FS_Difference
<1>4. /\ Cardinality(links \ edges) \in Nat /\ Cardinality(links) \in Nat
      /\ Cardinality(links \intersect edges) \in Nat
  BY <1>1, LinksAreFinite
<1> QED
  BY <1>3, <1>4 DEF LeftInDegree, Lost

(* What the removal of edges makes of each field.                          *)
LEMMA EdgesRemovedFields ==
  ASSUME NEW d \in Definitions, NEW edges,
         \A x \in NodeId : d.inDegree[x] = Cardinality(d.incoming[x])
  PROVE  LET new == WithoutEdges(d, edges)
         IN  /\ new \in Definitions
             /\ new.nodes = d.nodes /\ new.edges = d.edges \ edges
             /\ new.outgoing = [x \in NodeId |-> d.outgoing[x] \ edges]
             /\ new.incoming = [x \in NodeId |-> d.incoming[x] \ edges]
             /\ new.inDegree = [x \in NodeId |-> Cardinality(d.incoming[x] \ edges)]
             /\ new.start = d.start \union {x \in d.nodes : /\ d.incoming[x] \intersect edges # {}
                                                            /\ d.incoming[x] \subseteq edges}
             /\ new.end = d.end \union {x \in d.nodes : /\ d.outgoing[x] \intersect edges # {}
                                                        /\ d.outgoing[x] \subseteq edges}
<1> DEFINE new == WithoutEdges(d, edges)
           degree == [x \in NodeId |-> LeftInDegree(d, edges, x)]
           state == [x \in NodeId |-> IF /\ Lost(d.incoming, edges, x) # {}
                                         /\ LeftInDegree(d, edges, x) = 0
                                      THEN "Ready" ELSE d.status[x]]
<1>1. degree = [x \in NodeId |-> Cardinality(d.incoming[x] \ edges)]
  BY DegreeLeft
<1>2. \A x \in NodeId : /\ d.incoming[x] \ edges \subseteq EdgeId
                        /\ d.outgoing[x] \ edges \subseteq EdgeId
  BY DEF Definitions
<1>3. degree \in [NodeId -> Nat]
  BY <1>1, <1>2, LinksAreFinite
<1>4. state \in [NodeId -> {"Pending", "Ready"}]
  BY DEF Definitions
<1> HIDE DEF degree, state
<1>5. new = [d EXCEPT
     !.edges = @ \ edges,
     !.outgoing = [x \in NodeId |-> d.outgoing[x] \ edges],
     !.incoming = [x \in NodeId |-> d.incoming[x] \ edges],
     !.inDegree = degree,
     !.status = state,
     !.start = @ \union {x \in d.nodes : /\ d.incoming[x] \intersect edges # {}
                                         /\ d.incoming[x] \subseteq edges},
     !.end = @ \union {x \in d.nodes : /\ d.outgoing[x] \intersect edges # {}
                                       /\ d.outgoing[x] \subseteq edges}]
  BY DEF WithoutEdges, Lost, degree, state
<1> HIDE DEF new
<1>6. new \in Definitions
  BY <1>2, <1>3, <1>4, <1>5 DEF Definitions
<1>7. /\ new.nodes = d.nodes /\ new.edges = d.edges \ edges /\ new.inDegree = degree
      /\ new.outgoing = [x \in NodeId |-> d.outgoing[x] \ edges]
      /\ new.incoming = [x \in NodeId |-> d.incoming[x] \ edges]
  BY <1>5 DEF Definitions
<1>8. /\ new.start = d.start \union {x \in d.nodes : /\ d.incoming[x] \intersect edges # {}
                                                     /\ d.incoming[x] \subseteq edges}
      /\ new.end = d.end \union {x \in d.nodes : /\ d.outgoing[x] \intersect edges # {}
                                                 /\ d.outgoing[x] \subseteq edges}
  BY <1>5 DEF Definitions
<1> QED
  BY <1>1, <1>6, <1>7, <1>8 DEF new

(* Removing edges keeps the lists, counts and ends exact.                  *)
LEMMA EdgesRemoved ==
  ASSUME NEW d \in Definitions, LinksExact(d), EndsExact(d), NEW edges
  PROVE  LET new == WithoutEdges(d, edges)
         IN  new \in Definitions /\ LinksExact(new) /\ EndsExact(new)
<1> DEFINE new == WithoutEdges(d, edges)
<1>1. \A x \in NodeId : d.inDegree[x] = Cardinality(d.incoming[x])
  BY DEF LinksExact
<1>2. /\ new \in Definitions
      /\ new.nodes = d.nodes /\ new.edges = d.edges \ edges
      /\ new.outgoing = [x \in NodeId |-> d.outgoing[x] \ edges]
      /\ new.incoming = [x \in NodeId |-> d.incoming[x] \ edges]
      /\ new.inDegree = [x \in NodeId |-> Cardinality(d.incoming[x] \ edges)]
      /\ new.start = d.start \union {x \in d.nodes : /\ d.incoming[x] \intersect edges # {}
                                                     /\ d.incoming[x] \subseteq edges}
      /\ new.end = d.end \union {x \in d.nodes : /\ d.outgoing[x] \intersect edges # {}
                                                 /\ d.outgoing[x] \subseteq edges}
  BY <1>1, EdgesRemovedFields
<1> HIDE DEF new
<1>3. LinksExact(new)
  BY <1>2 DEF LinksExact, Definitions
<1>4. EndsExact(new)
  <2>1. \A x \in NodeId : /\ new.incoming[x] = d.incoming[x] \ edges
                          /\ new.outgoing[x] = d.outgoing[x] \ edges
    BY <1>2
  <2>2. d.nodes \subseteq NodeId
    BY DEF Definitions
  <2>3. /\ d.start = {x \in d.nodes : d.incoming[x] = {}}
        /\ d.end = {x \in d.nodes : d.outgoing[x] = {}}
    BY DEF EndsExact
  <2>4. \A x \in d.nodes : /\ x \in new.start <=> new.incoming[x] = {}
                           /\ x \in new.end <=> new.outgoing[x] = {}
    <3> SUFFICES ASSUME NEW x \in d.nodes
                 PROVE  /\ x \in new.start <=> new.incoming[x] = {}
                        /\ x \in new.end <=> new.outgoing[x] = {}
      OBVIOUS
    <3>1. /\ x \in new.start <=> \/ d.incoming[x] = {}
                                 \/ /\ d.incoming[x] \intersect edges # {}
                                    /\ d.incoming[x] \subseteq edges
          /\ x \in new.end <=> \/ d.outgoing[x] = {}
                               \/ /\ d.outgoing[x] \intersect edges # {}
                                  /\ d.outgoing[x] \subseteq edges
      BY <1>2, <2>3
    <3>2. new.incoming[x] = d.incoming[x] \ edges /\ new.outgoing[x] = d.outgoing[x] \ edges
      BY <2>1, <2>2
    <3> QED
      BY <3>1, <3>2
  <2>5. new.start \subseteq d.nodes /\ new.end \subseteq d.nodes
    BY <1>2, <2>3
  <2> QED
    BY <1>2, <2>4, <2>5 DEF EndsExact
<1> QED
  BY <1>2, <1>3, <1>4 DEF new

(* remove_node, with all edges that touch the node.                        *)
LEMMA NodeRemoved ==
  ASSUME NEW d, Sound(d), NEW n \in NodeId
  PROVE  Sound(WithoutNode(d, n))
<1> DEFINE blank == Blank(d, n)
           gone == Touching(d, n)
           left == WithoutEdges(blank, gone)
           new == WithoutNode(d, n)
<1>1. d \in Definitions /\ LinksExact(d) /\ EndsExact(d)
  BY DEF Sound
<1>2. /\ blank \in Definitions
      /\ blank.nodes = d.nodes \ {n} /\ blank.edges = d.edges
      /\ blank.outgoing = [d.outgoing EXCEPT ![n] = {}]
      /\ blank.incoming = [d.incoming EXCEPT ![n] = {}]
      /\ blank.inDegree = [d.inDegree EXCEPT ![n] = 0]
      /\ blank.start = d.start /\ blank.end = d.end
  BY <1>1 DEF Blank, Definitions
<1> HIDE DEF blank
<1>3. \A m \in NodeId : blank.inDegree[m] = Cardinality(blank.incoming[m])
  BY <1>1, <1>2, FS_EmptySet DEF LinksExact, Definitions
<1>4. /\ left \in Definitions
      /\ left.nodes = blank.nodes /\ left.edges = blank.edges \ gone
      /\ left.outgoing = [x \in NodeId |-> blank.outgoing[x] \ gone]
      /\ left.incoming = [x \in NodeId |-> blank.incoming[x] \ gone]
      /\ left.inDegree = [x \in NodeId |-> Cardinality(blank.incoming[x] \ gone)]
      /\ left.start = blank.start \union
           {x \in blank.nodes : /\ blank.incoming[x] \intersect gone # {}
                                /\ blank.incoming[x] \subseteq gone}
      /\ left.end = blank.end \union
           {x \in blank.nodes : /\ blank.outgoing[x] \intersect gone # {}
                                /\ blank.outgoing[x] \subseteq gone}
  <2> HIDE DEF gone
  <2>1. blank \in Definitions
    BY <1>2
  <2> HIDE DEF blank
  <2> QED
    BY <1>3, <2>1, EdgesRemovedFields, ZenonT(30)
<1> HIDE DEF left
<1>5. new = [left EXCEPT !.start = @ \ {n}, !.end = @ \ {n}]
  BY DEF WithoutNode, left, blank
<1> HIDE DEF new
<1>6. /\ new \in Definitions
      /\ new.nodes = left.nodes /\ new.edges = left.edges /\ new.outgoing = left.outgoing
      /\ new.incoming = left.incoming /\ new.inDegree = left.inDegree
      /\ new.start = left.start \ {n} /\ new.end = left.end \ {n}
  BY <1>4, <1>5 DEF Definitions
<1>7. gone = {e \in d.edges : Source[e] = n \/ Target[e] = n}
  BY DEF Touching, Ends
<1> HIDE DEF gone
<1>8. \A m \in NodeId : /\ new.outgoing[m] = {e \in new.edges : Source[e] = m}
                        /\ new.incoming[m] = {e \in new.edges : Target[e] = m}
  BY <1>1, <1>2, <1>4, <1>6, <1>7 DEF LinksExact, Definitions
<1>9. LinksExact(new)
  BY <1>1, <1>2, <1>4, <1>6, <1>7, <1>8 DEF LinksExact
<1>10. EndsExact(new)
  <2>1. \A m \in NodeId \ {n} : /\ blank.incoming[m] = d.incoming[m]
                                /\ blank.outgoing[m] = d.outgoing[m]
    BY <1>1, <1>2 DEF Definitions
  <2>2. d.nodes \subseteq NodeId
    BY <1>1 DEF Definitions
  <2>3. /\ d.start = {m \in d.nodes : d.incoming[m] = {}}
        /\ d.end = {m \in d.nodes : d.outgoing[m] = {}}
    BY <1>1 DEF EndsExact
  <2>4. \A m \in d.nodes \ {n} : /\ new.incoming[m] = d.incoming[m] \ gone
                                 /\ new.outgoing[m] = d.outgoing[m] \ gone
    BY <1>4, <1>6, <2>1, <2>2
  <2>5. \A m \in d.nodes \ {n} : /\ m \in new.start <=> new.incoming[m] = {}
                                 /\ m \in new.end <=> new.outgoing[m] = {}
    <3> SUFFICES ASSUME NEW m \in d.nodes \ {n}
                 PROVE  /\ m \in new.start <=> new.incoming[m] = {}
                        /\ m \in new.end <=> new.outgoing[m] = {}
      OBVIOUS
    <3>1. /\ m \in new.start <=> \/ d.incoming[m] = {}
                                 \/ /\ d.incoming[m] \intersect gone # {}
                                    /\ d.incoming[m] \subseteq gone
          /\ m \in new.end <=> \/ d.outgoing[m] = {}
                               \/ /\ d.outgoing[m] \intersect gone # {}
                                  /\ d.outgoing[m] \subseteq gone
      BY <1>2, <1>4, <1>6, <2>1, <2>2, <2>3
    <3> QED
      BY <2>4, <3>1
  <2>6. new.nodes = d.nodes \ {n} /\ new.start \subseteq new.nodes /\ new.end \subseteq new.nodes
    BY <1>2, <1>4, <1>6, <2>3
  <2> QED
    BY <2>5, <2>6 DEF EndsExact
<1>11. ~HasCycle(new.edges)
  BY <1>2, <1>4, <1>6, CyclesShrink DEF Sound
<1> QED
  BY <1>6, <1>9, <1>10, <1>11 DEF Sound, new

-----------------------------------------------------------------------------
(* Of some things that are measured, one measures least.                   *)
LEMMA LeastOf ==
  ASSUME NEW D, NEW m \in [D -> Nat], NEW B \in SUBSET D, B # {}
  PROVE  \E x \in B : \A y \in B : m[x] <= m[y]
<1> DEFINE T == {m[x] : x \in B}
<1>1. T \subseteq Nat /\ T # {}
  OBVIOUS
<1>2. PICK k \in T : \A l \in T : ~ (<<l, k>> \in OpToRel(<, Nat))
  BY <1>1, NatLessThanWellFounded, WFMin
<1>3. \A l \in T : ~(l < k)
  BY <1>1, <1>2 DEF OpToRel
<1>4. PICK x \in B : m[x] = k
  OBVIOUS
<1>5. \A y \in B : ~(m[y] < m[x])
  BY <1>3, <1>4
<1> QED
  BY <1>5

(* The functions that give each argument a value Ok has for it.            *)
Within(D, R, Ok) == {f \in [D -> R] : \A x \in D : <<x, f[x]>> \in Ok}

(* A function that is defined by recursion: F gives its values from those  *)
(* at arguments that measure less.                                         *)
Recursive(F, Fcns, D, m) ==
  /\ F \in [Fcns -> Fcns]
  /\ \A g, h \in Fcns : \A x \in D :
       (\A y \in D : m[y] < m[x] => g[y] = h[y]) => F[g][x] = F[h][x]

(* g has the values that F gives, at the arguments that measure below k.    *)
Settled(F, Fcns, D, m, k, g) ==
  g \in Fcns /\ \A x \in D : m[x] < k => F[g][x] = g[x]

LEMMA SettledBelow ==
  ASSUME NEW F, NEW Fcns, NEW D, NEW m \in [D -> Nat], Recursive(F, Fcns, D, m), Fcns # {}
  PROVE  \A k \in Nat : \E g : Settled(F, Fcns, D, m, k, g)
<1> DEFINE Bad == {k \in Nat : ~ \E g : Settled(F, Fcns, D, m, k, g)}
           id == [k \in Nat |-> k]
<1> SUFFICES ASSUME Bad # {} PROVE FALSE
  OBVIOUS
<1>1. id \in [Nat -> Nat] /\ Bad \in SUBSET Nat
  OBVIOUS
<1>2. PICK k \in Bad : \A l \in Bad : id[k] <= id[l]
  <2> HIDE DEF Bad, id
  <2> QED
    BY <1>1, LeastOf
<1>3. k # 0
  BY DEF Settled
<1>4. k - 1 \in Nat /\ ~(k <= k - 1)
  BY <1>3
<1>5. PICK g : Settled(F, Fcns, D, m, k - 1, g)
  BY <1>2, <1>4
<1>6. g \in Fcns /\ F[g] \in Fcns
  BY <1>5 DEF Settled, Recursive
<1>7. Settled(F, Fcns, D, m, k, F[g])
  <2> SUFFICES ASSUME NEW x \in D, m[x] < k PROVE F[F[g]][x] = F[g][x]
    BY <1>6 DEF Settled
  <2>1. \A y \in D : m[y] < m[x] => m[y] < k - 1
    OBVIOUS
  <2>2. \A y \in D : m[y] < m[x] => F[g][y] = g[y]
    BY <1>5, <2>1 DEF Settled
  <2> QED
    BY <1>6, <2>2 DEF Recursive
<1> QED
  BY <1>7

LEMMA SettledOnce ==
  ASSUME NEW F, NEW Fcns, NEW D, NEW m \in [D -> Nat], Recursive(F, Fcns, D, m),
         NEW k \in Nat, NEW l \in Nat, NEW g, NEW h,
         Settled(F, Fcns, D, m, k, g), Settled(F, Fcns, D, m, l, h)
  PROVE  \A x \in D : m[x] < k /\ m[x] < l => g[x] = h[x]
<1> DEFINE Bad == {x \in D : m[x] < k /\ m[x] < l /\ g[x] # h[x]}
<1> SUFFICES ASSUME Bad # {} PROVE FALSE
  OBVIOUS
<1>1. PICK x \in Bad : \A y \in Bad : m[x] <= m[y]
  <2>1. Bad \in SUBSET D
    OBVIOUS
  <2> HIDE DEF Bad
  <2> QED
    BY <2>1, LeastOf
<1>2. \A y \in D : m[y] < m[x] => m[y] < k /\ m[y] < l /\ ~(m[x] <= m[y])
  OBVIOUS
<1>3. \A y \in D : m[y] < m[x] => g[y] = h[y]
  BY <1>1, <1>2
<1>4. F[g][x] = F[h][x]
  BY <1>3 DEF Recursive, Settled
<1> QED
  BY <1>4 DEF Settled

(* There is such a function, where what F relies on can be had at each      *)
(* argument.                                                               *)
LEMMA Recursion ==
  ASSUME NEW D, NEW R, NEW Ok, NEW m \in [D -> Nat], NEW F,
         Within(D, R, Ok) # {},
         Recursive(F, Within(D, R, Ok), D, m)
  PROVE  \E f \in Within(D, R, Ok) : F[f] = f
<1> DEFINE Fcns == Within(D, R, Ok)
<1> DEFINE At(x) == CHOOSE g : Settled(F, Fcns, D, m, m[x] + 1, g)
           f == [x \in D |-> At(x)[x]]
<1>1. \A x \in D : Settled(F, Fcns, D, m, m[x] + 1, At(x))
  <2> TAKE x \in D
  <2>1. m[x] + 1 \in Nat
    OBVIOUS
  <2>2. \E g : Settled(F, Fcns, D, m, m[x] + 1, g)
    BY <2>1, SettledBelow
  <2> QED
    BY <2>2
<1> HIDE DEF At
<1>2. \A x \in D : At(x) \in Fcns
  BY <1>1 DEF Settled
<1>3. f \in Fcns
  BY <1>2 DEF Within
<1>4. ASSUME NEW x \in D, NEW y \in D, m[y] < m[x] PROVE f[y] = At(x)[y]
  <2>1. PICK k \in Nat : k = m[y] + 1
    OBVIOUS
  <2>2. PICK l \in Nat : l = m[x] + 1
    OBVIOUS
  <2>3. m[y] < k /\ m[y] < l
    BY <1>4, <2>1, <2>2
  <2>4. PICK g : g = At(y)
    OBVIOUS
  <2>5. PICK h : h = At(x)
    OBVIOUS
  <2>6. Settled(F, Fcns, D, m, k, g) /\ Settled(F, Fcns, D, m, l, h)
    BY <1>1, <2>1, <2>2, <2>4, <2>5
  <2>7. g[y] = h[y]
    BY <2>3, <2>6, SettledOnce
  <2> QED
    BY <2>4, <2>5, <2>7
<1>5. ASSUME NEW x \in D PROVE F[f][x] = f[x]
  <2>1. Settled(F, Fcns, D, m, m[x] + 1, At(x)) /\ m[x] < m[x] + 1
    BY <1>1
  <2>2. F[At(x)][x] = At(x)[x]
    BY <2>1 DEF Settled
  <2>3. F[f][x] = F[At(x)][x]
    <3> HIDE DEF f
    <3> QED
      BY <1>2, <1>3, <1>4 DEF Recursive
  <2> QED
    BY <2>2, <2>3
<1>6. F[f] \in Fcns
  BY <1>3 DEF Recursive
<1> HIDE DEF f
<1>7. F[f] = f
  BY <1>3, <1>5, <1>6 DEF Within
<1> QED
  BY <1>3, <1>7

-----------------------------------------------------------------------------
(* FoldSet over a finite set: it takes an element away at a time.          *)
Chosen(s) == CHOOSE x \in s : TRUE

LEMMA PartsAreCounted ==
  ASSUME NEW S, IsFiniteSet(S)
  PROVE  /\ [s \in SUBSET S |-> Cardinality(s)] \in [SUBSET S -> Nat]
         /\ \A s \in SUBSET S : s # {} =>
              /\ Chosen(s) \in s /\ s \ {Chosen(s)} \in SUBSET S
              /\ Cardinality(s \ {Chosen(s)}) < Cardinality(s)
<1>1. \A s \in SUBSET S : IsFiniteSet(s) /\ Cardinality(s) \in Nat
  BY FS_Subset, FS_CardinalityType
<1>2. ASSUME NEW s \in SUBSET S, s # {}
      PROVE  /\ Chosen(s) \in s /\ s \ {Chosen(s)} \in SUBSET S
             /\ Cardinality(s \ {Chosen(s)}) < Cardinality(s)
  <2>1. Chosen(s) \in s
    BY <1>2 DEF Chosen
  <2>2. Cardinality(s \ {Chosen(s)}) = Cardinality(s) - 1
    BY <1>1, <2>1, FS_RemoveElement
  <2> QED
    BY <1>1, <2>1, <2>2
<1> QED
  BY <1>1, <1>2

(* What holds of the empty set, and of a set when it holds of that set     *)
(* without its chosen element, holds of every part.                        *)
LEMMA PartByPart ==
  ASSUME NEW S, IsFiniteSet(S), NEW Good, {} \in Good,
         \A s \in SUBSET S : s # {} /\ s \ {Chosen(s)} \in Good => s \in Good
  PROVE  SUBSET S \subseteq Good
<1> DEFINE Bad == {s \in SUBSET S : s \notin Good}
           size == [s \in SUBSET S |-> Cardinality(s)]
<1> SUFFICES ASSUME Bad # {} PROVE FALSE
  OBVIOUS
<1>1. size \in [SUBSET S -> Nat] /\ Bad \in SUBSET SUBSET S
  BY PartsAreCounted
<1>2. PICK s \in Bad : \A t \in Bad : size[s] <= size[t]
  <2> HIDE DEF Bad, size
  <2> QED
    BY <1>1, LeastOf
<1>3. s # {} /\ s \in SUBSET S
  OBVIOUS
<1>4. s \ {Chosen(s)} \in SUBSET S /\ Cardinality(s \ {Chosen(s)}) < Cardinality(s)
  BY <1>3, PartsAreCounted
<1>5. s \ {Chosen(s)} \in Good
  <2>1. size[s \ {Chosen(s)}] \in Nat /\ size[s] \in Nat
    BY <1>1, <1>4
  <2>2. size[s \ {Chosen(s)}] < size[s]
    BY <1>4
  <2>3. s \ {Chosen(s)} \notin Bad
    <3> HIDE DEF size, Bad
    <3> QED
      BY <1>2, <2>1, <2>2
  <2> QED
    BY <1>4, <2>3
<1> QED
  BY <1>3, <1>5

(* The fold that the definition of FoldSet chooses exists.                 *)
Foldable(S, R, base, op) == IsFiniteSet(S) /\ base \in R /\ op \in [S \X R -> R]

IsFold(S, R, base, op, iter) ==
  /\ iter \in [SUBSET S -> R]
  /\ iter[{}] = base
  /\ \A s \in SUBSET S : s # {} => iter[s] = op[<<Chosen(s), iter[s \ {Chosen(s)}]>>]

LEMMA FoldExists ==
  ASSUME NEW S, NEW R, NEW base, NEW op, Foldable(S, R, base, op)
  PROVE  \E iter : IsFold(S, R, base, op, iter)
<1>0. IsFiniteSet(S) /\ base \in R /\ op \in [S \X R -> R]
  BY DEF Foldable
<1> DEFINE size == [s \in SUBSET S |-> Cardinality(s)]
           Ok == (SUBSET S) \X R
           Fcns == Within(SUBSET S, R, Ok)
           G(g) == [s \in SUBSET S |->
                      IF s = {} THEN base ELSE op[<<Chosen(s), g[s \ {Chosen(s)}]>>]]
           F == [g \in Fcns |-> G(g)]
<1>1. Fcns = [SUBSET S -> R]
  BY DEF Within
<1>2. [s \in SUBSET S |-> base] \in Fcns
  BY <1>0, <1>1
<1>3. ASSUME NEW g \in Fcns, NEW s \in SUBSET S, s # {}
      PROVE  Chosen(s) \in S /\ g[s \ {Chosen(s)}] \in R
  <2>1. Chosen(s) \in s /\ s \ {Chosen(s)} \in SUBSET S
    BY <1>0, <1>3, PartsAreCounted
  <2>2. g \in [SUBSET S -> R]
    BY <1>1
  <2> HIDE DEF Fcns
  <2> QED
    BY <2>1, <2>2
<1>4. \A g \in Fcns : F[g] \in Fcns
  BY <1>0, <1>1, <1>3
<1>5. size \in [SUBSET S -> Nat]
  BY <1>0, PartsAreCounted
<1>6. ASSUME NEW g \in Fcns, NEW h \in Fcns, NEW s \in SUBSET S,
             \A t \in SUBSET S : size[t] < size[s] => g[t] = h[t]
      PROVE  F[g][s] = F[h][s]
  <2>1. CASE s = {}
    BY <2>1
  <2>2. CASE s # {}
    <3>1. s \ {Chosen(s)} \in SUBSET S /\ Cardinality(s \ {Chosen(s)}) < Cardinality(s)
      BY <1>0, <2>2, PartsAreCounted
    <3>2. size[s \ {Chosen(s)}] < size[s]
      BY <3>1
    <3>3. g[s \ {Chosen(s)}] = h[s \ {Chosen(s)}]
      BY <1>6, <3>1, <3>2
    <3> QED
      BY <2>2, <3>3
  <2> QED
    BY <2>1, <2>2
<1>7. Recursive(F, Fcns, SUBSET S, size)
  <2>1. F \in [Fcns -> Fcns]
    BY <1>4
  <2> HIDE DEF F, Fcns, size
  <2> QED
    BY <1>6, <2>1 DEF Recursive
<1>8. \E f \in Fcns : F[f] = f
  <2>1. PICK D : D = SUBSET S
    OBVIOUS
  <2>2. PICK m \in [D -> Nat] : m = size
    BY <1>5, <2>1
  <2>3. PICK H : H = F
    OBVIOUS
  <2>4. PICK K : K = Ok
    OBVIOUS
  <2>5. Within(D, R, K) # {} /\ Recursive(H, Within(D, R, K), D, m) /\ Fcns = Within(D, R, K)
    <3> HIDE DEF F, size, Ok
    <3> QED
      BY <1>2, <1>7, <2>1, <2>2, <2>3, <2>4
  <2>6. \E f \in Within(D, R, K) : H[f] = f
    BY <2>5, Recursion
  <2> QED
    <3> HIDE DEF F, Ok, Fcns
    <3> QED
      BY <2>3, <2>5, <2>6
<1>9. PICK f \in Fcns : F[f] = f
  <2> HIDE DEF F, Fcns
  <2> QED
    BY <1>8
<1> QED
  BY <1>1, <1>9 DEF IsFold
-----------------------------------------------------------------------------
(* has_cycle_dfs as its caller sees it: it only adds to what was visited.  *)
Calls == NodeId \X Searches

Grown(s) == {r \in Searches : s.visited \subseteq r.visited}

Growing == {p \in Calls \X Searches : p[1][2].visited \subseteq p[2].visited}

Explores == Within(Calls, Searches, Growing)

Entered(n, s) == [s EXCEPT !.visited = @ \union {n}, !.inStack = @ \union {n}]

LEMMA CallGrows ==
  ASSUME NEW g \in Explores, NEW n \in NodeId, NEW s \in Searches
  PROVE  g[<<n, s>>] \in Searches /\ s.visited \subseteq g[<<n, s>>].visited
<1> DEFINE c == <<n, s>>
<1>1. c \in Calls /\ c[2] = s
  BY DEF Calls
<1>2. g \in [Calls -> Searches] /\ <<c, g[c]>> \in Growing
  BY <1>1 DEF Explores, Within
<1>3. g[c] \in Searches
  BY <1>1, <1>2
<1>4. c[2].visited \subseteq g[c].visited
  BY <1>2 DEF Growing
<1> QED
  BY <1>1, <1>3, <1>4

LEMMA FollowGrows ==
  ASSUME NEW g \in Explores, NEW e \in EdgeId, NEW s \in Searches
  PROVE  Follow(g, e, s) \in Grown(s)
<1>1. Target[e] \in NodeId
  BY BuildAssumption
<1>2. g[<<Target[e], s>>] \in Searches /\ s.visited \subseteq g[<<Target[e], s>>].visited
  BY <1>1, CallGrows
<1>3. [s EXCEPT !.cycle = Target[e] \in s.inStack] \in Grown(s)
  <2>1. PICK b \in BOOLEAN : b <=> Target[e] \in s.inStack
    <3>1. CASE Target[e] \in s.inStack
      BY <3>1
    <3>2. CASE Target[e] \notin s.inStack
      BY <3>2
    <3> QED
      BY <3>1, <3>2
  <2>2. [s EXCEPT !.cycle = b] \in Grown(s)
    BY DEF Searches, Grown
  <2> QED
    BY <2>1, <2>2
<1> QED
  BY <1>2, <1>3 DEF Follow, Grown

LEMMA EnteredGrows ==
  ASSUME NEW n \in NodeId, NEW s \in Searches
  PROVE  /\ Entered(n, s) \in Searches
         /\ Entered(n, s).visited = s.visited \union {n}
         /\ Entered(n, s).inStack = s.inStack \union {n}
         /\ Entered(n, s).cycle = s.cycle
BY DEF Entered, Searches

(* The loop of has_cycle_dfs, after each part of the edges of n.           *)
Loops(d, g, n, s, iter) ==
  /\ iter \in [SUBSET d.outgoing[n] -> Grown(Entered(n, s))]
  /\ iter[{}] = Entered(n, s)
  /\ \A t \in SUBSET d.outgoing[n] : t # {} =>
       iter[t] = Follow(g, Chosen(t), iter[t \ {Chosen(t)}])

Left(search, n) == IF search.cycle THEN search ELSE Pop(search, n)

LEMMA VisitFolds ==
  ASSUME NEW d \in Definitions, NEW g \in Explores, NEW n \in NodeId, NEW s \in Searches
  PROVE  \E iter : Loops(d, g, n, s, iter) /\ Visit(d, g, n, s) = Left(iter[d.outgoing[n]], n)
<1>1. PICK S \in SUBSET EdgeId : S = d.outgoing[n]
  BY DEF Definitions
<1>2. IsFiniteSet(S)
  BY BuildAssumption, FS_Subset
<1>3. PICK base \in Searches : base = Entered(n, s)
  BY EnteredGrows
<1>0. PICK R : R = Grown(base)
  OBVIOUS
<1>4. base \in R
  BY <1>0 DEF Grown
<1>5. ASSUME NEW e \in S, NEW r \in R PROVE Follow(g, e, r) \in R
  <2>1. r \in Searches /\ e \in EdgeId
    BY <1>0 DEF Grown
  <2>2. Follow(g, e, r) \in Grown(r)
    BY <2>1, FollowGrows
  <2> QED
    BY <1>0, <2>2 DEF Grown
<1>6. PICK op \in [S \X R -> R] : op = [p \in S \X R |-> Follow(g, p[1], p[2])]
  BY <1>5
<1>7. PICK f : IsFold(S, R, base, op, f)
  <2>1. Foldable(S, R, base, op)
    BY <1>2, <1>4 DEF Foldable
  <2> QED
    BY <2>1, FoldExists
<1>8. f = [t \in SUBSET S |-> IF t = {} THEN base ELSE Follow(g, Chosen(t), f[t \ {Chosen(t)}])]
  <2>1. ASSUME NEW t \in SUBSET S, t # {}
        PROVE  op[<<Chosen(t), f[t \ {Chosen(t)}]>>] = Follow(g, Chosen(t), f[t \ {Chosen(t)}])
    <3>1. Chosen(t) \in S /\ t \ {Chosen(t)} \in SUBSET S
      BY <1>2, <2>1, PartsAreCounted
    <3>2. f[t \ {Chosen(t)}] \in R
      BY <1>7, <3>1 DEF IsFold
    <3> QED
      BY <1>6, <3>1, <3>2
  <2> QED
    BY <1>7, <2>1 DEF IsFold
<1> DEFINE Iterates(it) ==
      it = [t \in SUBSET S |-> IF t = {} THEN base ELSE Follow(g, Chosen(t), it[t \ {Chosen(t)}])]
           iter == CHOOSE it : Iterates(it)
<1>9. Iterates(iter)
  BY <1>8
<1>10. Visit(d, g, n, s) = IF iter[S].cycle THEN iter[S] ELSE Pop(iter[S], n)
  BY <1>1, <1>3 DEF Visit, FoldSet, MapThenFoldSet, Chosen, Entered
<1> HIDE DEF iter
<1>11. iter[{}] = base
  BY <1>9
<1>12. ASSUME NEW t \in SUBSET S, t # {} PROVE iter[t] = Follow(g, Chosen(t), iter[t \ {Chosen(t)}])
  BY <1>9, <1>12
<1>13. \A t \in SUBSET S : iter[t] \in R
  <2> DEFINE Good == {t \in SUBSET S : iter[t] \in R}
  <2>1. {} \in Good
    BY <1>4, <1>11
  <2>2. ASSUME NEW t \in SUBSET S, t # {}, t \ {Chosen(t)} \in Good PROVE t \in Good
    <3>1. Chosen(t) \in S
      BY <1>2, <2>2, PartsAreCounted
    <3>2. iter[t \ {Chosen(t)}] \in R
      BY <2>2
    <3> QED
      BY <1>5, <1>12, <2>2, <3>1, <3>2
  <2>3. SUBSET S \subseteq Good
    <3> HIDE DEF Good
    <3> QED
      BY <1>2, <2>1, <2>2, PartByPart
  <2> QED
    BY <2>3
<1>14. iter \in [SUBSET S -> R]
  BY <1>9, <1>13
<1> HIDE DEF Iterates
<1> QED
  BY <1>0, <1>1, <1>3, <1>10, <1>11, <1>12, <1>14 DEF Loops, Left

-----------------------------------------------------------------------------
(* Every call that has_cycle_dfs makes has fewer nodes left to visit, or   *)
(* as many when the caller's own node was visited before.                  *)
Unvisited(s) == Cardinality(NodeId \ s.visited)

CallSize == [c \in Calls |-> 2 * Unvisited(c[2]) + (IF c[1] \in c[2].visited THEN 1 ELSE 0)]

LEMMA CallSizes ==
  /\ CallSize \in [Calls -> Nat]
  /\ \A n \in NodeId, s \in Searches, m \in NodeId :
       \A r \in Grown(Entered(n, s)) : m \notin r.visited => CallSize[<<m, r>>] < CallSize[<<n, s>>]
<1>1. \A s : IsFiniteSet(NodeId \ s.visited) /\ Unvisited(s) \in Nat
  BY BuildAssumption, FS_Difference, FS_CardinalityType DEF Unvisited
<1>2. CallSize \in [Calls -> Nat]
  <2>1. \A c \in Calls : 2 * Unvisited(c[2]) + (IF c[1] \in c[2].visited THEN 1 ELSE 0) \in Nat
    <3> TAKE c \in Calls
    <3>1. PICK k \in Nat : k = Unvisited(c[2])
      BY <1>1
    <3> QED
      BY <3>1
  <2> QED
    BY <2>1 DEF CallSize
<1>3. ASSUME NEW n \in NodeId, NEW s \in Searches, NEW m \in NodeId,
             NEW r \in Grown(Entered(n, s)), m \notin r.visited
      PROVE  CallSize[<<m, r>>] < CallSize[<<n, s>>]
  <2>1. /\ r \in Searches /\ <<m, r>> \in Calls /\ <<n, s>> \in Calls
        /\ s.visited \subseteq r.visited /\ n \in r.visited
    BY EnteredGrows DEF Grown, Calls
  <2>2. PICK k \in Nat : k = Unvisited(s)
    BY <1>1
  <2>3. PICK l \in Nat : l = Unvisited(r)
    BY <1>1
  <2>4. NodeId \ r.visited \subseteq NodeId \ s.visited
    BY <2>1
  <2>5. CallSize[<<m, r>>] = 2 * l
    BY <1>3, <2>1, <2>3 DEF CallSize
  <2>6. CASE n \in s.visited
    <3>1. CallSize[<<n, s>>] = 2 * k + 1
      BY <2>1, <2>2, <2>6 DEF CallSize
    <3>2. l <= k
      BY <1>1, <2>2, <2>3, <2>4, FS_Subset DEF Unvisited
    <3> QED
      BY <2>5, <3>1, <3>2
  <2>7. CASE n \notin s.visited
    <3>1. CallSize[<<n, s>>] = 2 * k
      BY <2>1, <2>2, <2>7 DEF CallSize
    <3>2. n \in (NodeId \ s.visited) \ (NodeId \ r.visited)
      BY <2>1, <2>7
    <3>3. l <= k /\ (l = k => NodeId \ r.visited = NodeId \ s.visited)
      BY <1>1, <2>2, <2>3, <2>4, FS_Subset DEF Unvisited
    <3>4. l < k
      BY <3>2, <3>3
    <3> QED
      BY <2>5, <3>1, <3>4
  <2> QED
    BY <2>6, <2>7
<1> QED
  BY <1>2, <1>3

(* What a visit does depends on these calls alone.                         *)
LEMMA VisitAgrees ==
  ASSUME NEW d \in Definitions, NEW g, NEW h \in Explores, NEW n \in NodeId, NEW s \in Searches,
         \A c \in Calls : CallSize[c] < CallSize[<<n, s>>] => g[c] = h[c]
  PROVE  Visit(d, g, n, s) = Visit(d, h, n, s)
<1>1. PICK S \in SUBSET EdgeId : S = d.outgoing[n]
  BY DEF Definitions
<1>2. IsFiniteSet(S)
  BY BuildAssumption, FS_Subset
<1>3. PICK base \in Searches : base = Entered(n, s)
  BY EnteredGrows
<1>4. PICK f \in [SUBSET S -> Grown(base)] :
        /\ f[{}] = base
        /\ \A t \in SUBSET S : t # {} => f[t] = Follow(h, Chosen(t), f[t \ {Chosen(t)}])
        /\ Visit(d, h, n, s) = Left(f[S], n)
  <2>1. PICK f : Loops(d, h, n, s, f) /\ Visit(d, h, n, s) = Left(f[d.outgoing[n]], n)
    BY VisitFolds
  <2> QED
    BY <1>1, <1>3, <2>1 DEF Loops
<1>5. ASSUME NEW t \in SUBSET S, t # {}
      PROVE  Follow(g, Chosen(t), f[t \ {Chosen(t)}]) = f[t]
  <2>1. Chosen(t) \in S /\ t \ {Chosen(t)} \in SUBSET S
    BY <1>2, <1>5, PartsAreCounted
  <2>2. PICK r \in Grown(base) : r = f[t \ {Chosen(t)}]
    BY <2>1
  <2>3. PICK m \in NodeId : m = Target[Chosen(t)]
    BY <2>1, BuildAssumption
  <2>4. r \in Searches /\ <<m, r>> \in Calls
    BY DEF Grown, Calls
  <2>5. m \notin r.visited => g[<<m, r>>] = h[<<m, r>>]
    BY <1>3, <2>4, CallSizes
  <2>6. Follow(g, Chosen(t), r) = Follow(h, Chosen(t), r)
    BY <2>3, <2>5 DEF Follow
  <2> QED
    BY <1>4, <1>5, <2>2, <2>6
<1> DEFINE Iterates(it) ==
      it = [t \in SUBSET S |-> IF t = {} THEN base ELSE Follow(g, Chosen(t), it[t \ {Chosen(t)}])]
           iter == CHOOSE it : Iterates(it)
<1>6. Iterates(f)
  BY <1>4, <1>5
<1>7. Iterates(iter)
  BY <1>6
<1>8. Visit(d, g, n, s) = Left(iter[S], n)
  BY <1>1, <1>3 DEF Visit, FoldSet, MapThenFoldSet, Chosen, Entered, Left
<1> HIDE DEF iter
<1>9. /\ iter[{}] = base
      /\ \A t \in SUBSET S : t # {} => iter[t] = Follow(g, Chosen(t), iter[t \ {Chosen(t)}])
  BY <1>7
<1> HIDE DEF Iterates
<1>10. iter[S] = f[S]
  <2> DEFINE Good == {t \in SUBSET S : iter[t] = f[t]}
  <2>1. {} \in Good
    BY <1>4, <1>9
  <2>2. ASSUME NEW t \in SUBSET S, t # {}, t \ {Chosen(t)} \in Good PROVE t \in Good
    BY <1>5, <1>9, <2>2
  <2>3. SUBSET S \subseteq Good
    <3> HIDE DEF Good
    <3> QED
      BY <1>2, <2>1, <2>2, PartByPart
  <2> QED
    BY <2>3
<1> QED
  BY <1>4, <1>8, <1>10

LEMMA VisitGrows ==
  ASSUME NEW d \in Definitions, NEW g \in Explores, NEW n \in NodeId, NEW s \in Searches
  PROVE  Visit(d, g, n, s) \in Searches /\ s.visited \subseteq Visit(d, g, n, s).visited
<1>1. PICK S \in SUBSET EdgeId : S = d.outgoing[n]
  BY DEF Definitions
<1>2. PICK f : Loops(d, g, n, s, f) /\ Visit(d, g, n, s) = Left(f[d.outgoing[n]], n)
  BY VisitFolds
<1>3. PICK r \in Grown(Entered(n, s)) : r = f[S]
  BY <1>1, <1>2 DEF Loops
<1>4. r \in Searches /\ s.visited \subseteq r.visited
  BY EnteredGrows DEF Grown
<1>5. Pop(r, n) \in Searches /\ Pop(r, n).visited = r.visited
  BY <1>4 DEF Pop, Searches
<1> QED
  BY <1>1, <1>2, <1>3, <1>4, <1>5 DEF Left

(* has_cycle_dfs computes something: the search ends.                      *)
LEMMA ExploreVisits ==
  ASSUME NEW d \in Definitions
  PROVE  /\ Explore(d) \in Explores
         /\ \A n \in NodeId, s \in Searches : Explore(d)[<<n, s>>] = Visit(d, Explore(d), n, s)
<1> DEFINE G(g) == [c \in Calls |-> Visit(d, g, c[1], c[2])]
<1>1. PICK F : F = [g \in Explores |-> G(g)]
  OBVIOUS
<1>2. \A c \in Calls : c[1] \in NodeId /\ c[2] \in Searches /\ c = <<c[1], c[2]>>
  BY DEF Calls
<1>3. ASSUME NEW g \in Explores PROVE G(g) \in Explores
  <2>1. ASSUME NEW c \in Calls PROVE G(g)[c] \in Searches /\ <<c, G(g)[c]>> \in Growing
    <3>1. Visit(d, g, c[1], c[2]) \in Searches /\ c[2].visited \subseteq Visit(d, g, c[1], c[2]).visited
      BY <1>2, VisitGrows
    <3> QED
      BY <3>1 DEF Growing
  <2> QED
    BY <2>1 DEF Explores, Within
<1>4. ASSUME NEW g, NEW h \in Explores, NEW c \in Calls,
             \A b \in Calls : CallSize[b] < CallSize[c] => g[b] = h[b]
      PROVE  G(g)[c] = G(h)[c]
  <2>1. Visit(d, g, c[1], c[2]) = Visit(d, h, c[1], c[2])
    BY <1>2, <1>4, VisitAgrees
  <2> QED
    BY <2>1
<1>5. CallSize \in [Calls -> Nat]
  BY CallSizes
<1> HIDE DEF G
<1>6. Recursive(F, Within(Calls, Searches, Growing), Calls, CallSize)
  BY <1>1, <1>3, <1>4 DEF Recursive, Explores
<1>7. Within(Calls, Searches, Growing) # {}
  <2>1. [c \in Calls |-> c[2]] \in Explores
    BY <1>2 DEF Explores, Within, Growing
  <2> QED
    BY <2>1 DEF Explores
<1>8. PICK f \in Explores : F[f] = f
  BY <1>5, <1>6, <1>7, Recursion DEF Explores
<1>9. f = G(f)
  BY <1>1, <1>8
<1>10. Explore(d) = G(Explore(d))
  <2>1. Explore(d) = CHOOSE e : e = G(e)
    BY DEF Explore, G, Calls
  <2> QED
    BY <1>9, <2>1
<1>11. PICK e : e = Explore(d)
  OBVIOUS
<1>12. e = f
  <2> DEFINE Bad == {c \in Calls : e[c] # f[c]}
  <2>1. Bad = {}
    <3> SUFFICES ASSUME Bad # {} PROVE FALSE
      OBVIOUS
    <3>1. PICK c \in Bad : \A b \in Bad : CallSize[c] <= CallSize[b]
      <4>1. Bad \in SUBSET Calls
        OBVIOUS
      <4> HIDE DEF Bad
      <4> QED
        BY <1>5, <4>1, LeastOf
    <3>2. \A b \in Calls : CallSize[b] < CallSize[c] => e[b] = f[b]
      BY <1>5, <3>1
    <3>3. G(e)[c] = G(f)[c]
      BY <1>4, <3>2
    <3> QED
      BY <1>9, <1>10, <1>11, <3>3
  <2>2. DOMAIN e = Calls /\ e = [c \in DOMAIN e |-> e[c]]
    BY <1>10, <1>11 DEF G
  <2>3. DOMAIN f = Calls /\ f = [c \in DOMAIN f |-> f[c]]
    BY <1>9 DEF G
  <2> QED
    BY <2>1, <2>2, <2>3
<1>13. \A c \in Calls : f[c] = Visit(d, f, c[1], c[2])
  BY <1>9 DEF G
<1> QED
  <2>1. ASSUME NEW n \in NodeId, NEW s \in Searches PROVE f[<<n, s>>] = Visit(d, f, n, s)
    <3>1. <<n, s>> \in Calls
      BY DEF Calls
    <3>2. f[<<n, s>>] = Visit(d, f, <<n, s>>[1], <<n, s>>[2])
      BY <1>13, <3>1
    <3> QED
      BY <3>2
  <2> QED
    BY <1>11, <1>12, <2>1

-----------------------------------------------------------------------------
(* has_cycle. The nodes the search has left are explored: no edge leads    *)
(* out of them, and any of them that are not all on a cycle are ended by   *)
(* one that no edge leaves.                                                *)
Explored(d, left) ==
  /\ \A e \in d.edges : Source[e] \in left => Target[e] \in left
  /\ \A nodes \in SUBSET left : nodes # {} =>
       \E n \in nodes : \A e \in d.edges : Source[e] = n => Target[e] \notin nodes

Finished(s) == s.visited \ s.inStack

(* Where has_cycle_dfs is called for n: each node on the stack has an edge *)
(* to another one on it, or to n.                                          *)
Called(d, n, s) ==
  /\ ~s.cycle /\ n \notin s.visited /\ s.inStack \subseteq s.visited
  /\ \A m \in s.inStack : \E e \in d.edges : Source[e] = m /\ Target[e] \in s.inStack \union {n}
  /\ Explored(d, Finished(s))

(* What it returns.                                                        *)
Returns(d, n, s, r) ==
  /\ r \in Searches
  /\ r.cycle => HasCycle(d.edges)
  /\ ~r.cycle => /\ r.inStack = s.inStack /\ s.visited \union {n} \subseteq r.visited
                 /\ Explored(d, Finished(r))

(* Where it is after the edges t of n.                                     *)
Looping(d, n, s, t, r) ==
  /\ r \in Searches
  /\ r.cycle => HasCycle(d.edges)
  /\ ~r.cycle => /\ r.inStack = s.inStack \union {n} /\ s.visited \union {n} \subseteq r.visited
                 /\ Explored(d, Finished(r))
                 /\ \A e \in t : Target[e] \in Finished(r)

LEMMA FollowLoops ==
  ASSUME NEW d \in Definitions, LinksExact(d), NEW n \in NodeId, NEW s \in Searches,
         Called(d, n, s), NEW t \in SUBSET d.outgoing[n], NEW r, Looping(d, n, s, t, r),
         NEW e \in d.outgoing[n], NEW g,
         Called(d, Target[e], r) => Returns(d, Target[e], r, g[<<Target[e], r>>])
  PROVE  Looping(d, n, s, t \union {e}, Follow(g, e, r))
<1>1. e \in d.edges /\ Source[e] = n
  BY DEF LinksExact
<1>2. PICK T \in NodeId : T = Target[e]
  BY BuildAssumption DEF Definitions
<1>3. CASE r.cycle
  BY <1>3 DEF Follow, Looping
<1>4. CASE ~r.cycle
  <2>1. /\ r \in Searches /\ r.inStack = s.inStack \union {n} /\ s.visited \union {n} \subseteq r.visited
        /\ Explored(d, Finished(r)) /\ \A f \in t : Target[f] \in Finished(r)
    BY <1>4 DEF Looping
  <2>2. r.inStack \subseteq r.visited
    BY <2>1 DEF Called
  <2>3. \A m \in r.inStack : \E f \in d.edges : Source[f] = m /\ Target[f] \in r.inStack \union {T}
    BY <1>1, <1>2, <2>1 DEF Called
  <2>4. CASE T \notin r.visited
    <3>1. Called(d, T, r)
      BY <1>4, <2>1, <2>2, <2>3, <2>4 DEF Called
    <3>2. PICK q : q = g[<<T, r>>]
      OBVIOUS
    <3>3. Returns(d, T, r, q) /\ Follow(g, e, r) = q
      BY <1>2, <1>4, <2>4, <3>1, <3>2 DEF Follow
    <3>4. CASE q.cycle
      BY <3>3, <3>4 DEF Returns, Looping
    <3>5. CASE ~q.cycle
      <4>1. /\ q \in Searches /\ q.inStack = r.inStack /\ r.visited \union {T} \subseteq q.visited
            /\ Explored(d, Finished(q))
        BY <3>3, <3>5 DEF Returns
      <4>2. T \in Finished(q) /\ Finished(r) \subseteq Finished(q)
        BY <2>2, <2>4, <4>1 DEF Finished
      <4>3. \A f \in t \union {e} : Target[f] \in Finished(q)
        BY <1>2, <2>1, <4>2
      <4> QED
        BY <2>1, <3>3, <3>5, <4>1, <4>3 DEF Looping
    <3> QED
      BY <3>4, <3>5
  <2>5. CASE T \in r.inStack
    <3>1. T \in r.visited
      BY <2>2, <2>5
    <3>2. Follow(g, e, r) = [r EXCEPT !.cycle = TRUE]
      BY <1>2, <1>4, <2>5, <3>1 DEF Follow
    <3>3. PICK q : q = [r EXCEPT !.cycle = TRUE]
      OBVIOUS
    <3>4. q \in Searches /\ q.cycle = TRUE
      BY <2>1, <3>3 DEF Searches
    <3>5. HasCycle(d.edges)
      <4>1. r.inStack \in SUBSET NodeId /\ r.inStack # {}
        BY <2>1 DEF Searches
      <4>2. \A m \in r.inStack : \E f \in d.edges : Source[f] = m /\ Target[f] \in r.inStack
        BY <2>3, <2>5
      <4> QED
        BY <4>1, <4>2 DEF HasCycle
    <3> QED
      BY <3>2, <3>3, <3>4, <3>5 DEF Looping
  <2>6. CASE T \in r.visited /\ T \notin r.inStack
    <3>0. (T \in r.inStack) = FALSE
      BY <2>6
    <3>1. Follow(g, e, r) = [r EXCEPT !.cycle = FALSE]
      <4>1. Follow(g, e, r) = [r EXCEPT !.cycle = T \in r.inStack]
        BY <1>2, <1>4, <2>6 DEF Follow
      <4> QED
        BY <3>0, <4>1, Zenon
    <3>2. [r EXCEPT !.cycle = FALSE] = r
      BY <1>4, <2>1 DEF Searches
    <3>3. T \in Finished(r)
      BY <2>6 DEF Finished
    <3>4. \A f \in t \union {e} : Target[f] \in Finished(r)
      BY <1>2, <2>1, <3>3
    <3> QED
      BY <1>4, <2>1, <3>1, <3>2, <3>4 DEF Looping
  <2> QED
    BY <2>4, <2>5, <2>6
<1> QED
  BY <1>3, <1>4

(* A node whose edges all lead to explored nodes is explored.              *)
LEMMA OneMoreExplored ==
  ASSUME NEW d \in Definitions, LinksExact(d), NEW left, Explored(d, left),
         NEW n \in NodeId, n \notin left, \A e \in d.outgoing[n] : Target[e] \in left
  PROVE  Explored(d, left \union {n})
<1>1. \A e \in d.edges : Source[e] = n => Target[e] \in left
  BY DEF LinksExact
<1>2. \A e \in d.edges : Source[e] \in left \union {n} => Target[e] \in left \union {n}
  BY <1>1 DEF Explored
<1>3. ASSUME NEW nodes \in SUBSET (left \union {n}), nodes # {}
      PROVE  \E m \in nodes : \A e \in d.edges : Source[e] = m => Target[e] \notin nodes
  <2> DEFINE old == nodes \ {n}
  <2>1. CASE old = {}
    <3>1. nodes = {n}
      BY <1>3, <2>1
    <3> QED
      BY <1>1, <3>1
  <2>2. CASE old # {}
    <3>1. PICK m \in old : \A e \in d.edges : Source[e] = m => Target[e] \notin old
      BY <2>2 DEF Explored
    <3>2. ASSUME NEW e \in d.edges, Source[e] = m PROVE Target[e] \notin nodes
      <4>1. Target[e] \in left
        BY <3>2 DEF Explored
      <4> QED
        BY <3>1, <3>2, <4>1
    <3> QED
      BY <3>2
  <2> QED
    BY <2>1, <2>2
<1> QED
  BY <1>2, <1>3 DEF Explored

LEMMA LoopReturns ==
  ASSUME NEW d \in Definitions, LinksExact(d), NEW n \in NodeId, NEW s \in Searches,
         Called(d, n, s), NEW r, Looping(d, n, s, d.outgoing[n], r)
  PROVE  Returns(d, n, s, Left(r, n))
<1>1. CASE r.cycle
  BY <1>1 DEF Looping, Returns, Left
<1>2. CASE ~r.cycle
  <2>1. /\ r \in Searches /\ r.inStack = s.inStack \union {n} /\ s.visited \union {n} \subseteq r.visited
        /\ Explored(d, Finished(r)) /\ \A e \in d.outgoing[n] : Target[e] \in Finished(r)
    BY <1>2 DEF Looping
  <2>2. PICK q : q = Pop(r, n)
    OBVIOUS
  <2>3. /\ q \in Searches /\ q.visited = r.visited /\ q.inStack = r.inStack \ {n} /\ q.cycle = r.cycle
    BY <2>1, <2>2 DEF Pop, Searches
  <2>4. q.inStack = s.inStack
    BY <2>1, <2>3 DEF Called
  <2>5. Finished(q) = Finished(r) \union {n} /\ n \notin Finished(r)
    BY <2>1, <2>3 DEF Finished
  <2>6. Explored(d, Finished(q))
    BY <2>1, <2>5, OneMoreExplored
  <2> QED
    BY <1>2, <2>1, <2>2, <2>3, <2>4, <2>6 DEF Returns, Left
<1> QED
  BY <1>1, <1>2

(* has_cycle_dfs, by the number of nodes that are left.                    *)
LEMMA ExploreReturns ==
  ASSUME NEW d \in Definitions, LinksExact(d), NEW n \in NodeId, NEW s \in Searches, Called(d, n, s)
  PROVE  Returns(d, n, s, Explore(d)[<<n, s>>])
<1> DEFINE Bad == {c \in Calls : Called(d, c[1], c[2]) /\ ~Returns(d, c[1], c[2], Explore(d)[c])}
<1>1. <<n, s>> \in Calls
  BY DEF Calls
<1>2. Bad = {}
  <2> SUFFICES ASSUME Bad # {} PROVE FALSE
    OBVIOUS
  <2>1. PICK c \in Bad : \A b \in Bad : CallSize[c] <= CallSize[b]
    <3>1. Bad \in SUBSET Calls
      OBVIOUS
    <3> HIDE DEF Bad
    <3> QED
      BY <3>1, CallSizes, LeastOf
  <2>2. PICK g \in Explores : g = Explore(d)
    BY ExploreVisits
  <2>3. PICK m \in NodeId : m = c[1]
    BY DEF Calls
  <2>4. PICK u \in Searches : u = c[2]
    BY DEF Calls
  <2>5. c = <<m, u>> /\ Called(d, m, u) /\ ~Returns(d, m, u, g[c])
    BY <2>2, <2>3, <2>4 DEF Calls
  <2>6. g[c] = Visit(d, g, m, u)
    BY <2>2, <2>5, ExploreVisits
  <2>7. PICK f : Loops(d, g, m, u, f) /\ Visit(d, g, m, u) = Left(f[d.outgoing[m]], m)
    BY VisitFolds
  <2>8. PICK S \in SUBSET EdgeId : S = d.outgoing[m]
    BY DEF Definitions
  <2>9. IsFiniteSet(S)
    BY BuildAssumption, FS_Subset
  <2>10. ASSUME NEW x \in NodeId, NEW r \in Grown(Entered(m, u)), Called(d, x, r)
         PROVE  Returns(d, x, r, g[<<x, r>>])
    <3>1. r \in Searches /\ x \notin r.visited /\ <<x, r>> \in Calls
      BY <2>10 DEF Called, Grown, Calls
    <3>2. CallSize[<<x, r>>] < CallSize[c] /\ CallSize[<<x, r>>] \in Nat /\ CallSize[c] \in Nat
      BY <2>5, <3>1, CallSizes
    <3>3. <<x, r>> \notin Bad
      BY <2>1, <3>2
    <3> QED
      BY <2>2, <2>10, <3>1, <3>3
  <2> DEFINE Good == {t \in SUBSET S : Looping(d, m, u, t, f[t])}
  <2>11. {} \in Good
    <3>1. f[{}] = Entered(m, u)
      BY <2>7 DEF Loops
    <3>2. PICK v : v = Entered(m, u)
      OBVIOUS
    <3>3. /\ v \in Searches /\ v.visited = u.visited \union {m} /\ v.inStack = u.inStack \union {m}
          /\ v.cycle = u.cycle
      BY <3>2, EnteredGrows
    <3>4. Finished(v) = Finished(u)
      BY <2>5, <3>3 DEF Finished, Called
    <3>5. Looping(d, m, u, {}, v)
      BY <2>5, <3>3, <3>4 DEF Looping, Called
    <3> QED
      BY <3>1, <3>2, <3>5
  <2>12. ASSUME NEW t \in SUBSET S, t # {}, t \ {Chosen(t)} \in Good PROVE t \in Good
    <3>1. Chosen(t) \in t /\ t \ {Chosen(t)} \in SUBSET S
      BY <2>9, <2>12, PartsAreCounted
    <3>2. PICK e \in S : e = Chosen(t)
      BY <3>1
    <3>3. PICK o \in SUBSET S : o = t \ {e}
      BY <3>1, <3>2
    <3>4. PICK r \in Grown(Entered(m, u)) : r = f[o]
      BY <2>7, <2>8, <3>3 DEF Loops
    <3>5. Looping(d, m, u, o, r)
      BY <2>12, <3>2, <3>3, <3>4
    <3>6. Target[e] \in NodeId
      BY BuildAssumption
    <3>7. Looping(d, m, u, o \union {e}, Follow(g, e, r))
      BY <2>5, <2>8, <2>10, <3>5, <3>6, FollowLoops
    <3>8. f[t] = Follow(g, e, r)
      BY <2>7, <2>8, <2>12, <3>2, <3>3, <3>4 DEF Loops
    <3>9. o \union {e} = t
      BY <3>1, <3>2, <3>3
    <3> QED
      BY <3>7, <3>8, <3>9
  <2>13. SUBSET S \subseteq Good
    <3> HIDE DEF Good
    <3> QED
      BY <2>9, <2>11, <2>12, PartByPart
  <2>14. Looping(d, m, u, d.outgoing[m], f[d.outgoing[m]])
    BY <2>8, <2>13
  <2>15. Returns(d, m, u, g[c])
    BY <2>5, <2>6, <2>7, <2>14, LoopReturns
  <2> QED
    BY <2>5, <2>15
<1>3. <<n, s>> \notin Bad
  BY <1>2
<1> QED
  BY <1>1, <1>3

-----------------------------------------------------------------------------
(* has_cycle after the nodes t.                                            *)
SearchFrom(d, n, s) == IF s.cycle \/ n \in s.visited THEN s ELSE Explore(d)[<<n, s>>]

NotStarted == [visited |-> {}, inStack |-> {}, cycle |-> FALSE]

Searched(d, t, s) ==
  /\ s \in Searches
  /\ s.cycle => HasCycle(d.edges)
  /\ ~s.cycle => s.inStack = {} /\ t \subseteq s.visited /\ Explored(d, s.visited)

LEMMA FromSearches ==
  ASSUME NEW d \in Definitions, LinksExact(d), NEW n \in NodeId, NEW t, NEW s, Searched(d, t, s)
  PROVE  Searched(d, t \union {n}, SearchFrom(d, n, s))
<1>1. CASE s.cycle
  BY <1>1 DEF SearchFrom, Searched
<1>2. CASE ~s.cycle /\ n \in s.visited
  BY <1>2 DEF SearchFrom, Searched
<1>3. CASE ~s.cycle /\ n \notin s.visited
  <2>1. s \in Searches /\ s.inStack = {} /\ t \subseteq s.visited /\ Explored(d, s.visited)
    BY <1>3 DEF Searched
  <2>2. Finished(s) = s.visited
    BY <2>1 DEF Finished
  <2>3. Called(d, n, s)
    BY <1>3, <2>1, <2>2 DEF Called
  <2>4. PICK r : r = Explore(d)[<<n, s>>]
    OBVIOUS
  <2>5. Returns(d, n, s, r) /\ SearchFrom(d, n, s) = r
    BY <1>3, <2>1, <2>3, <2>4, ExploreReturns DEF SearchFrom
  <2>6. ~r.cycle => Finished(r) = r.visited
    BY <2>1, <2>5 DEF Returns, Finished
  <2> QED
    BY <2>1, <2>5, <2>6 DEF Returns, Searched
<1> QED
  BY <1>1, <1>2, <1>3

LEMMA SearchFolds ==
  ASSUME NEW d \in Definitions, LinksExact(d)
  PROVE  \E s : Searched(d, d.nodes, s) /\ SearchFindsCycle(d) = s.cycle
<1>1. PICK S \in SUBSET NodeId : S = d.nodes
  BY DEF Definitions
<1>2. IsFiniteSet(S)
  BY BuildAssumption, FS_Subset
<1>3. PICK R : R = {s \in Searches : \E t : Searched(d, t, s)}
  OBVIOUS
<1>4. Searched(d, {}, NotStarted) /\ NotStarted \in R
  <2>1. Searched(d, {}, NotStarted)
    BY DEF Searched, NotStarted, Searches, Explored
  <2> QED
    BY <1>3, <2>1 DEF Searched
<1>5. ASSUME NEW n \in S, NEW s \in R PROVE SearchFrom(d, n, s) \in R
  <2>1. PICK t : Searched(d, t, s)
    BY <1>3
  <2>2. Searched(d, t \union {n}, SearchFrom(d, n, s))
    BY <2>1, FromSearches
  <2> QED
    BY <1>3, <2>2 DEF Searched
<1>6. PICK op \in [S \X R -> R] : op = [p \in S \X R |-> SearchFrom(d, p[1], p[2])]
  BY <1>5
<1>7. PICK f : IsFold(S, R, NotStarted, op, f)
  <2>1. Foldable(S, R, NotStarted, op)
    BY <1>2, <1>4 DEF Foldable
  <2> QED
    BY <2>1, FoldExists
<1>8. f = [t \in SUBSET S |-> IF t = {} THEN NotStarted ELSE SearchFrom(d, Chosen(t), f[t \ {Chosen(t)}])]
  <2>1. ASSUME NEW t \in SUBSET S, t # {}
        PROVE  op[<<Chosen(t), f[t \ {Chosen(t)}]>>] = SearchFrom(d, Chosen(t), f[t \ {Chosen(t)}])
    <3>1. Chosen(t) \in S /\ t \ {Chosen(t)} \in SUBSET S
      BY <1>2, <2>1, PartsAreCounted
    <3>2. f[t \ {Chosen(t)}] \in R
      BY <1>7, <3>1 DEF IsFold
    <3> QED
      BY <1>6, <3>1, <3>2
  <2> QED
    BY <1>7, <2>1 DEF IsFold
<1> DEFINE Iterates(it) ==
      it = [t \in SUBSET S |-> IF t = {} THEN NotStarted ELSE SearchFrom(d, Chosen(t), it[t \ {Chosen(t)}])]
           iter == CHOOSE it : Iterates(it)
<1>9. Iterates(iter)
  BY <1>8
<1>10. SearchFindsCycle(d) = iter[S].cycle
  BY <1>1 DEF SearchFindsCycle, SearchFrom, NotStarted, FoldSet, MapThenFoldSet, Chosen
<1> HIDE DEF iter
<1>11. /\ iter[{}] = NotStarted
       /\ \A t \in SUBSET S : t # {} => iter[t] = SearchFrom(d, Chosen(t), iter[t \ {Chosen(t)}])
  BY <1>9
<1> HIDE DEF Iterates
<1> DEFINE Good == {t \in SUBSET S : Searched(d, t, iter[t])}
<1>12. {} \in Good
  BY <1>4, <1>11
<1>13. ASSUME NEW t \in SUBSET S, t # {}, t \ {Chosen(t)} \in Good PROVE t \in Good
  <2>1. Chosen(t) \in t /\ t \ {Chosen(t)} \in SUBSET S
    BY <1>2, <1>13, PartsAreCounted
  <2>2. PICK n \in NodeId : n = Chosen(t)
    BY <2>1
  <2>3. PICK o : o = t \ {n}
    OBVIOUS
  <2>4. Searched(d, o \union {n}, SearchFrom(d, n, iter[o]))
    BY <1>13, <2>2, <2>3, FromSearches
  <2>5. o \union {n} = t /\ iter[t] = SearchFrom(d, n, iter[o])
    BY <1>11, <1>13, <2>1, <2>2, <2>3
  <2> QED
    BY <2>4, <2>5
<1>14. SUBSET S \subseteq Good
  <2> HIDE DEF Good
  <2> QED
    BY <1>2, <1>12, <1>13, PartByPart
<1>15. Searched(d, d.nodes, iter[S])
  BY <1>1, <1>14
<1> QED
  BY <1>10, <1>15

(* The depth-first search decides whether the edges have a cycle, in       *)
(* whatever order the nodes and the edges come.                            *)
LEMMA SearchIsRight ==
  ASSUME NEW d \in Definitions, LinksExact(d)
  PROVE  SearchFindsCycle(d) <=> HasCycle(d.edges)
<1>1. PICK s : Searched(d, d.nodes, s) /\ SearchFindsCycle(d) = s.cycle
  BY SearchFolds
<1>2. s \in Searches /\ s.cycle \in BOOLEAN
  BY <1>1 DEF Searched, Searches
<1>3. CASE s.cycle
  BY <1>1, <1>3 DEF Searched
<1>4. CASE ~s.cycle
  <2>1. d.nodes \subseteq s.visited /\ Explored(d, s.visited)
    BY <1>1, <1>4 DEF Searched
  <2>2. ASSUME NEW nodes \in SUBSET NodeId, nodes # {},
               \A n \in nodes : \E e \in d.edges : Source[e] = n /\ Target[e] \in nodes
        PROVE  FALSE
    <3>1. nodes \subseteq d.nodes
      BY <2>2 DEF LinksExact
    <3> QED
      BY <2>1, <2>2, <3>1 DEF Explored
  <2>3. ~HasCycle(d.edges)
    BY <2>2 DEF HasCycle
  <2> QED
    BY <1>1, <1>4, <2>3
<1> QED
  BY <1>3, <1>4

-----------------------------------------------------------------------------
(* get_topological_order. Each turn of its loop takes a node from the      *)
(* queue and puts only nodes there whose degrees were still counted.       *)
TurnsAt == (SUBSET NodeId) \X [NodeId -> Int]

Results == [order : Seq(NodeId), below : BOOLEAN]

Counted(degree) == {m \in NodeId : degree[m] > 0}

TurnSize == [c \in TurnsAt |-> Cardinality(c[1]) + Cardinality(Counted(c[2]))]

LEMMA EdgesCounted ==
  ASSUME NEW d \in Definitions, NEW n \in NodeId, NEW m \in NodeId
  PROVE  /\ Edges(d, n, m) \in SUBSET EdgeId /\ IsFiniteSet(Edges(d, n, m))
         /\ Cardinality(Edges(d, n, m)) \in Nat
         /\ Cardinality(Edges(d, n, m)) = 0 <=> Edges(d, n, m) = {}
<1>1. Edges(d, n, m) \in SUBSET EdgeId
  BY DEF Edges, Definitions
<1>2. IsFiniteSet(Edges(d, n, m))
  BY <1>1, BuildAssumption, FS_Subset
<1> QED
  BY <1>1, <1>2, FS_CardinalityType, FS_EmptySet

LEMMA TurnSizes ==
  /\ TurnSize \in [TurnsAt -> Nat]
  /\ \A d \in Definitions, queue \in SUBSET NodeId, degree \in [NodeId -> Int] : \A n \in queue :
       /\ NextTurn(d, queue, degree, n) \in TurnsAt
       /\ TurnSize[NextTurn(d, queue, degree, n)] < TurnSize[<<queue, degree>>]
<1>1. \A S \in SUBSET NodeId : IsFiniteSet(S) /\ Cardinality(S) \in Nat
  BY BuildAssumption, FS_Subset, FS_CardinalityType
<1>2. TurnSize \in [TurnsAt -> Nat]
  <2>1. ASSUME NEW c \in TurnsAt PROVE Cardinality(c[1]) + Cardinality(Counted(c[2])) \in Nat
    <3>1. c[1] \in SUBSET NodeId /\ Counted(c[2]) \in SUBSET NodeId
      BY DEF TurnsAt, Counted
    <3>2. PICK k \in Nat : k = Cardinality(c[1])
      BY <1>1, <3>1
    <3>3. PICK l \in Nat : l = Cardinality(Counted(c[2]))
      BY <1>1, <3>1
    <3> QED
      BY <3>2, <3>3
  <2> QED
    BY <2>1 DEF TurnSize
<1>3. ASSUME NEW d \in Definitions, NEW queue \in SUBSET NodeId, NEW degree \in [NodeId -> Int],
             NEW n \in queue
      PROVE  /\ NextTurn(d, queue, degree, n) \in TurnsAt
             /\ TurnSize[NextTurn(d, queue, degree, n)] < TurnSize[<<queue, degree>>]
  <2>1. PICK left : left = CountedDown(d, degree, n)
    OBVIOUS
  <2>2. left \in [NodeId -> Int] /\ \A m \in NodeId : left[m] <= degree[m]
    <3>1. ASSUME NEW m \in NodeId
          PROVE  /\ degree[m] - Cardinality(Edges(d, n, m)) \in Int
                 /\ degree[m] - Cardinality(Edges(d, n, m)) <= degree[m]
      <4>1. PICK k \in Nat : k = Cardinality(Edges(d, n, m))
        BY EdgesCounted
      <4> QED
        BY <4>1
    <3> QED
      BY <2>1, <3>1 DEF CountedDown
  <2>3. PICK freed : freed = Freed(d, degree, n)
    OBVIOUS
  <2>4. freed \in SUBSET NodeId /\ \A m \in freed : degree[m] > 0 /\ left[m] <= 0
    BY <2>1, <2>3 DEF Freed, Definitions
  <2>5. PICK new : new = (queue \ {n}) \union freed
    OBVIOUS
  <2>6. /\ new \in SUBSET NodeId /\ <<new, left>> \in TurnsAt
        /\ NextTurn(d, queue, degree, n) = <<new, left>>
    BY <2>1, <2>2, <2>3, <2>4, <2>5 DEF NextTurn, TurnsAt
  <2>7. PICK before : before = Counted(degree)
    OBVIOUS
  <2>8. PICK after : after = Counted(left)
    OBVIOUS
  <2>9. /\ before \in SUBSET NodeId /\ after \in SUBSET NodeId
        /\ freed \subseteq before /\ after \subseteq before \ freed
    BY <2>2, <2>4, <2>7, <2>8 DEF Counted
  <2>10. Cardinality(new) <= Cardinality(queue) - 1 + Cardinality(freed)
    <3>1. /\ IsFiniteSet(queue) /\ IsFiniteSet(queue \ {n}) /\ IsFiniteSet(freed)
          /\ IsFiniteSet((queue \ {n}) \intersect freed)
      BY <1>1, <2>4
    <3>2. Cardinality(queue \ {n}) = Cardinality(queue) - 1
      BY <3>1, FS_RemoveElement
    <3>3. Cardinality(new) = Cardinality(queue \ {n}) + Cardinality(freed)
                             - Cardinality((queue \ {n}) \intersect freed)
      BY <2>5, <3>1, FS_Union
    <3>4. /\ Cardinality(queue) \in Nat /\ Cardinality(queue \ {n}) \in Nat /\ Cardinality(freed) \in Nat
          /\ Cardinality((queue \ {n}) \intersect freed) \in Nat /\ Cardinality(new) \in Nat
      BY <1>1, <2>4, <2>6
    <3> QED
      BY <3>2, <3>3, <3>4
  <2>11. Cardinality(after) <= Cardinality(before) - Cardinality(freed)
    <3>1. IsFiniteSet(before) /\ IsFiniteSet(before \ freed) /\ IsFiniteSet(freed)
      BY <1>1, <2>4, <2>9
    <3>2. Cardinality(after) <= Cardinality(before \ freed)
      BY <2>9, <3>1, FS_Subset
    <3>3. Cardinality(before \ freed) = Cardinality(before) - Cardinality(before \intersect freed)
      BY <3>1, FS_Difference
    <3>4. before \intersect freed = freed
      BY <2>9
    <3> QED
      BY <3>2, <3>3, <3>4
  <2>12. PICK a \in Nat, b \in Nat, c \in Nat, e \in Nat, f \in Nat :
           /\ a = Cardinality(new) /\ b = Cardinality(queue) /\ c = Cardinality(freed)
           /\ e = Cardinality(after) /\ f = Cardinality(before)
    BY <1>1, <2>4, <2>6, <2>9
  <2>13. a <= b - 1 + c /\ e <= f - c
    BY <2>10, <2>11, <2>12
  <2>14. a + e < b + f
    BY <2>13
  <2>15. TurnSize[<<new, left>>] = a + e
    BY <2>6, <2>8, <2>12 DEF TurnSize
  <2>16. <<queue, degree>> \in TurnsAt
    BY DEF TurnsAt
  <2>17. TurnSize[<<queue, degree>>] = b + f
    BY <2>7, <2>12, <2>16 DEF TurnSize
  <2> QED
    BY <2>6, <2>14, <2>15, <2>17
<1> QED
  BY <1>2, <1>3

LEMMA OneMore ==
  ASSUME NEW n \in NodeId, NEW rest \in Seq(NodeId)
  PROVE  /\ <<n>> \o rest \in Seq(NodeId)
         /\ Len(<<n>> \o rest) = Len(rest) + 1
         /\ (<<n>> \o rest)[1] = n
         /\ \A i \in 1 .. Len(rest) : (<<n>> \o rest)[i + 1] = rest[i]
<1>1. <<n>> \in Seq(NodeId) /\ Len(<<n>>) = 1 /\ <<n>>[1] = n
  OBVIOUS
<1> QED
  BY <1>1, ConcatProperties

LEMMA TurnsAre ==
  ASSUME NEW d, NEW g, NEW queue, NEW degree, queue # {}, NEW r
  PROVE  r \in Turns(d, g, queue, degree) <=>
           \E n \in queue : \E rest \in g[NextTurn(d, queue, degree, n)] : r = Extend(d, degree, n, rest)
BY DEF Turns

LEMMA TurnsResult ==
  ASSUME NEW d \in Definitions, NEW g \in [TurnsAt -> SUBSET Results],
         NEW queue \in SUBSET NodeId, NEW degree \in [NodeId -> Int]
  PROVE  Turns(d, g, queue, degree) \in SUBSET Results
<1>1. CASE queue = {}
  <2>1. [order |-> << >>, below |-> FALSE] \in Results
    BY DEF Results
  <2> QED
    BY <1>1, <2>1 DEF Turns
<1>2. CASE queue # {}
  <2>1. ASSUME NEW n \in queue, NEW rest \in g[NextTurn(d, queue, degree, n)]
        PROVE  Extend(d, degree, n, rest) \in Results
    <3>1. NextTurn(d, queue, degree, n) \in TurnsAt
      BY TurnSizes
    <3>2. rest \in Results
      BY <3>1
    <3>3. <<n>> \o rest.order \in Seq(NodeId)
      BY <3>2, OneMore DEF Results
    <3>4. PICK b \in BOOLEAN : b = (rest.below \/ GoesBelow(d, degree, n))
      OBVIOUS
    <3>5. [order |-> <<n>> \o rest.order, below |-> b] \in Results
      BY <3>3 DEF Results
    <3> QED
      BY <3>4, <3>5 DEF Extend
  <2>2. ASSUME NEW r \in Turns(d, g, queue, degree) PROVE r \in Results
    BY <1>2, <2>1, TurnsAre
  <2> QED
    BY <2>2
<1> QED
  BY <1>1, <1>2

(* The orders that the loop may give, from each turn on.                   *)
OrdersFrom(d) ==
  CHOOSE orders : orders = [turn \in TurnsAt |-> Turns(d, orders, turn[1], turn[2])]

LEMMA LoopEnds ==
  ASSUME NEW d \in Definitions
  PROVE  /\ OrdersFrom(d) \in [TurnsAt -> SUBSET Results]
         /\ \A queue \in SUBSET NodeId, degree \in [NodeId -> Int] :
              OrdersFrom(d)[<<queue, degree>>] = Turns(d, OrdersFrom(d), queue, degree)
<1> DEFINE G(g) == [c \in TurnsAt |-> Turns(d, g, c[1], c[2])]
<1>0. PICK Fcns : Fcns = Within(TurnsAt, SUBSET Results, TurnsAt \X SUBSET Results)
  OBVIOUS
<1>1. PICK F : F = [g \in Fcns |-> G(g)]
  OBVIOUS
<1>2. \A c \in TurnsAt : c[1] \in SUBSET NodeId /\ c[2] \in [NodeId -> Int] /\ c = <<c[1], c[2]>>
  BY DEF TurnsAt
<1>3. Fcns = [TurnsAt -> SUBSET Results]
  BY <1>0 DEF Within
<1>4. ASSUME NEW g \in Fcns PROVE G(g) \in Fcns
  <2>1. ASSUME NEW c \in TurnsAt PROVE Turns(d, g, c[1], c[2]) \in SUBSET Results
    BY <1>2, <1>3, TurnsResult
  <2> QED
    BY <1>3, <2>1
<1>5. ASSUME NEW g, NEW h, NEW c \in TurnsAt,
             \A b \in TurnsAt : TurnSize[b] < TurnSize[c] => g[b] = h[b]
      PROVE  G(g)[c] = G(h)[c]
  <2>1. PICK queue \in SUBSET NodeId : queue = c[1]
    BY <1>2
  <2>2. PICK degree \in [NodeId -> Int] : degree = c[2]
    BY <1>2
  <2>3. c = <<queue, degree>>
    BY <1>2, <2>1, <2>2
  <2>4. \A n \in queue : g[NextTurn(d, queue, degree, n)] = h[NextTurn(d, queue, degree, n)]
    BY <1>5, <2>3, TurnSizes
  <2>5. Turns(d, g, queue, degree) = Turns(d, h, queue, degree)
    <3>1. CASE queue = {}
      BY <3>1 DEF Turns
    <3>2. CASE queue # {}
      <4>1. \A r : r \in Turns(d, g, queue, degree) <=> r \in Turns(d, h, queue, degree)
        BY <2>4, <3>2, TurnsAre
      <4> QED
        BY <3>2, <4>1 DEF Turns
    <3> QED
      BY <3>1, <3>2
  <2> QED
    BY <2>1, <2>2, <2>5
<1>6. TurnSize \in [TurnsAt -> Nat]
  BY TurnSizes
<1> HIDE DEF G
<1>7. Recursive(F, Fcns, TurnsAt, TurnSize)
  <2>1. \A g \in Fcns : F[g] = G(g)
    BY <1>1
  <2>2. F \in [Fcns -> Fcns]
    BY <1>1, <1>4
  <2>3. ASSUME NEW g \in Fcns, NEW h \in Fcns, NEW c \in TurnsAt,
               \A b \in TurnsAt : TurnSize[b] < TurnSize[c] => g[b] = h[b]
        PROVE  F[g][c] = F[h][c]
    <3>1. G(g)[c] = G(h)[c]
      BY <1>5, <2>3
    <3> QED
      BY <2>1, <3>1
  <2> QED
    BY <2>2, <2>3 DEF Recursive
<1>8. Fcns # {}
  <2>1. [c \in TurnsAt |-> {}] \in Fcns
    BY <1>3
  <2> QED
    BY <2>1
<1>9. PICK f \in Fcns : F[f] = f
  <2>1. PICK D : D = TurnsAt
    OBVIOUS
  <2>2. PICK R : R = SUBSET Results
    OBVIOUS
  <2>3. PICK Ok : Ok = TurnsAt \X SUBSET Results
    OBVIOUS
  <2>4. PICK m \in [D -> Nat] : m = TurnSize
    BY <1>6, <2>1
  <2>5. Within(D, R, Ok) # {} /\ Recursive(F, Within(D, R, Ok), D, m) /\ Fcns = Within(D, R, Ok)
    BY <1>0, <1>7, <1>8, <2>1, <2>2, <2>3, <2>4
  <2> QED
    BY <2>5, Recursion
<1>10. f = G(f)
  BY <1>1, <1>9
<1>11. PICK e : e = OrdersFrom(d)
  OBVIOUS
<1>12. e = G(e)
  <2>1. OrdersFrom(d) = CHOOSE o : o = G(o)
    BY DEF OrdersFrom, G
  <2> QED
    BY <1>10, <1>11, <2>1
<1>13. e = f
  <2> DEFINE Bad == {c \in TurnsAt : e[c] # f[c]}
  <2>1. Bad = {}
    <3> SUFFICES ASSUME Bad # {} PROVE FALSE
      OBVIOUS
    <3>1. PICK c \in Bad : \A b \in Bad : TurnSize[c] <= TurnSize[b]
      <4>1. Bad \in SUBSET TurnsAt
        OBVIOUS
      <4> HIDE DEF Bad
      <4> QED
        BY <1>6, <4>1, LeastOf
    <3>2. \A b \in TurnsAt : TurnSize[b] < TurnSize[c] => e[b] = f[b]
      BY <1>6, <3>1
    <3>3. G(e)[c] = G(f)[c]
      BY <1>5, <3>2
    <3> QED
      BY <1>10, <1>12, <3>3
  <2>2. DOMAIN e = TurnsAt /\ e = [c \in DOMAIN e |-> e[c]]
    BY <1>12 DEF G
  <2>3. DOMAIN f = TurnsAt /\ f = [c \in DOMAIN f |-> f[c]]
    BY <1>10 DEF G
  <2> QED
    BY <2>1, <2>2, <2>3
<1>14. ASSUME NEW queue \in SUBSET NodeId, NEW degree \in [NodeId -> Int]
       PROVE  e[<<queue, degree>>] = Turns(d, e, queue, degree)
  <2>1. <<queue, degree>> \in TurnsAt
    BY DEF TurnsAt
  <2>2. e[<<queue, degree>>] = Turns(d, e, <<queue, degree>>[1], <<queue, degree>>[2])
    BY <1>12, <2>1 DEF G
  <2> QED
    BY <2>2
<1> QED
  BY <1>3, <1>11, <1>13, <1>14

LEMMA OrdersOfDefinition ==
  ASSUME NEW d \in Definitions
  PROVE  TopologicalOrders(d) = OrdersFrom(d)[<<{n \in d.nodes : d.inDegree[n] = 0}, d.inDegree>>]
BY DEF TopologicalOrders, OrdersFrom, TurnsAt

-----------------------------------------------------------------------------
(* In a definition that was edited: the degrees count the edges from nodes *)
(* that are not done, and the queue holds the nodes that are next.         *)
Entering(d, done, m) == {e \in d.edges : Target[e] = m /\ Source[e] \notin done}

Counting(d, done, queue, degree) ==
  /\ done \subseteq d.nodes /\ degree \in [NodeId -> Int]
  /\ \A m \in NodeId : degree[m] = Cardinality(Entering(d, done, m))
  /\ \A m \in done : degree[m] = 0
  /\ queue = {m \in d.nodes \ done : degree[m] = 0}

Enumerates(d, nodes, order) ==
  /\ Len(order) = Cardinality(nodes) /\ {order[i] : i \in 1 .. Len(order)} = nodes
  /\ \A i, j \in 1 .. Len(order) : Edges(d, order[j], order[i]) # {} => j < i

LEMMA EnteringCounted ==
  ASSUME NEW d \in Definitions, NEW done, NEW m
  PROVE  /\ IsFiniteSet(Entering(d, done, m)) /\ Cardinality(Entering(d, done, m)) \in Nat
         /\ Cardinality(Entering(d, done, m)) = 0 <=> Entering(d, done, m) = {}
<1>1. Entering(d, done, m) \in SUBSET EdgeId
  BY DEF Entering, Definitions
<1>2. IsFiniteSet(Entering(d, done, m))
  BY <1>1, BuildAssumption, FS_Subset
<1> QED
  BY <1>2, FS_CardinalityType, FS_EmptySet

LEMMA CountingGoesOn ==
  ASSUME NEW d \in Definitions, LinksExact(d), NEW done, NEW queue, NEW degree,
         Counting(d, done, queue, degree), NEW n \in queue
  PROVE  /\ Counting(d, done \union {n}, (queue \ {n}) \union Freed(d, degree, n),
                     CountedDown(d, degree, n))
         /\ ~GoesBelow(d, degree, n)
<1>1. /\ n \in d.nodes /\ n \notin done /\ n \in NodeId /\ degree[n] = 0
      /\ degree \in [NodeId -> Int] /\ done \subseteq d.nodes /\ d.nodes \subseteq NodeId
  BY DEF Counting, Definitions
<1>2. PICK left : left = CountedDown(d, degree, n)
  OBVIOUS
<1>3. ASSUME NEW m \in NodeId
      PROVE  /\ left[m] = Cardinality(Entering(d, done \union {n}, m)) /\ left[m] \in Nat
             /\ degree[m] \in Nat /\ left[m] <= degree[m]
  <2>1. /\ IsFiniteSet(Entering(d, done, m)) /\ Cardinality(Entering(d, done, m)) \in Nat
        /\ IsFiniteSet(Entering(d, done \union {n}, m))
        /\ Cardinality(Entering(d, done \union {n}, m)) \in Nat
        /\ IsFiniteSet(Edges(d, n, m)) /\ Cardinality(Edges(d, n, m)) \in Nat
    BY <1>1, EnteringCounted, EdgesCounted
  <2>2. Edges(d, n, m) = {e \in d.edges : Source[e] = n /\ Target[e] = m}
    BY <1>1 DEF Edges, LinksExact
  <2>3. /\ Entering(d, done, m) \intersect Edges(d, n, m) = Edges(d, n, m)
        /\ Entering(d, done \union {n}, m) = Entering(d, done, m) \ Edges(d, n, m)
    BY <1>1, <2>2 DEF Entering
  <2>4. Cardinality(Entering(d, done \union {n}, m))
          = Cardinality(Entering(d, done, m)) - Cardinality(Edges(d, n, m))
    BY <2>1, <2>3, FS_Difference
  <2>5. degree[m] = Cardinality(Entering(d, done, m))
    BY DEF Counting
  <2>6. left[m] = degree[m] - Cardinality(Edges(d, n, m))
    BY <1>2 DEF CountedDown
  <2> QED
    BY <2>1, <2>4, <2>5, <2>6
<1>4. left \in [NodeId -> Int]
  BY <1>2, <1>3 DEF CountedDown
<1>5. \A m \in done \union {n} : left[m] = 0
  <2>1. \A m \in done \union {n} : degree[m] = 0 /\ m \in NodeId
    BY <1>1 DEF Counting
  <2> QED
    BY <1>3, <2>1
<1>6. (queue \ {n}) \union Freed(d, degree, n) = {m \in d.nodes \ (done \union {n}) : left[m] = 0}
  <2>1. queue = {m \in d.nodes \ done : degree[m] = 0}
    BY DEF Counting
  <2>2. Freed(d, degree, n) = {m \in d.nodes : degree[m] > 0 /\ left[m] <= 0}
    BY <1>2 DEF Freed
  <2>3. ASSUME NEW m \in d.nodes
        PROVE  m \in (queue \ {n}) \union Freed(d, degree, n) <=> m \notin done \union {n} /\ left[m] = 0
    <3>1. m \in done => degree[m] = 0
      BY DEF Counting
    <3>2. degree[m] \in Nat /\ left[m] \in Nat /\ left[m] <= degree[m]
      BY <1>1, <1>3
    <3>3. CASE degree[m] = 0
      <4>1. left[m] = 0 /\ m \notin Freed(d, degree, n)
        BY <2>2, <3>2, <3>3
      <4> QED
        BY <2>1, <3>3, <4>1
    <3>4. CASE degree[m] # 0
      <4>1. degree[m] > 0 /\ m \notin done /\ m # n /\ m \notin queue
        BY <1>1, <2>1, <3>1, <3>2, <3>4
      <4>2. left[m] <= 0 <=> left[m] = 0
        BY <3>2
      <4> QED
        BY <2>2, <4>1, <4>2
    <3> QED
      BY <3>3, <3>4
  <2> QED
    BY <2>1, <2>2, <2>3
<1>7. ~GoesBelow(d, degree, n)
  <2>1. \A m \in d.nodes : ~(left[m] < 0)
    BY <1>1, <1>3
  <2> QED
    BY <1>2, <2>1 DEF GoesBelow
<1>8. done \union {n} \subseteq d.nodes
  BY <1>1
<1> QED
  BY <1>2, <1>3, <1>4, <1>5, <1>6, <1>7, <1>8 DEF Counting

(* Nodes that each have an edge from another of them have a cycle: among    *)
(* the smallest such set, the node that no edge of the set leaves is one   *)
(* too many.                                                               *)
LEMMA BackwardIsForward ==
  ASSUME NEW d \in Definitions, ~HasCycle(d.edges), NEW nodes \in SUBSET NodeId,
         \A m \in nodes : \E e \in d.edges : Target[e] = m /\ Source[e] \in nodes
  PROVE  nodes = {}
<1> DEFINE Bad == {S \in SUBSET NodeId :
                     S # {} /\ \A m \in S : \E e \in d.edges : Target[e] = m /\ Source[e] \in S}
           size == [S \in SUBSET NodeId |-> Cardinality(S)]
<1> SUFFICES ASSUME Bad # {} PROVE FALSE
  OBVIOUS
<1>1. \A S \in SUBSET NodeId : IsFiniteSet(S) /\ Cardinality(S) \in Nat
  BY BuildAssumption, FS_Subset, FS_CardinalityType
<1>2. size \in [SUBSET NodeId -> Nat] /\ Bad \in SUBSET SUBSET NodeId
  BY <1>1
<1>3. PICK S \in Bad : \A T \in Bad : size[S] <= size[T]
  <2> HIDE DEF Bad, size
  <2> QED
    BY <1>2, LeastOf
<1>4. S \in SUBSET NodeId /\ S # {} /\ \A m \in S : \E e \in d.edges : Target[e] = m /\ Source[e] \in S
  OBVIOUS
<1>5. PICK t \in S : \A e \in d.edges : ~(Source[e] = t /\ Target[e] \in S)
  BY <1>4 DEF HasCycle
<1>6. PICK T : T = S \ {t}
  OBVIOUS
<1>7. \A m \in S : \E e \in d.edges : Target[e] = m /\ Source[e] \in T
  BY <1>4, <1>5, <1>6
<1>8. T \in Bad
  BY <1>4, <1>6, <1>7
<1>9. size[T] < size[S]
  <2>1. Cardinality(T) = Cardinality(S) - 1
    BY <1>1, <1>4, <1>6, FS_RemoveElement
  <2>2. Cardinality(S) \in Nat /\ Cardinality(T) \in Nat /\ T \in SUBSET NodeId
    BY <1>1, <1>4, <1>6
  <2> QED
    BY <1>4, <2>1, <2>2
<1>10. size[T] \in Nat /\ size[S] \in Nat
  BY <1>1, <1>4, <1>6
<1> HIDE DEF Bad, size
<1> QED
  BY <1>3, <1>8, <1>9, <1>10

LEMMA CountingEnds ==
  ASSUME NEW d \in Definitions, LinksExact(d), ~HasCycle(d.edges), NEW done, NEW degree,
         Counting(d, done, {}, degree)
  PROVE  d.nodes \ done = {}
<1>1. d.nodes \ done \in SUBSET NodeId
  BY DEF Definitions
<1>2. ASSUME NEW m \in d.nodes \ done
      PROVE  \E e \in d.edges : Target[e] = m /\ Source[e] \in d.nodes \ done
  <2>1. m \in NodeId /\ degree[m] # 0 /\ degree[m] = Cardinality(Entering(d, done, m))
    BY <1>1 DEF Counting
  <2>2. Entering(d, done, m) # {}
    BY <2>1, EnteringCounted
  <2> QED
    BY <2>2 DEF Entering, LinksExact
<1> QED
  BY <1>1, <1>2, BackwardIsForward

(* A node that no edge of the others enters may come before them.          *)
LEMMA FirstOfOrder ==
  ASSUME NEW d \in Definitions, NEW nodes \in SUBSET NodeId, NEW n \in nodes,
         NEW rest \in Seq(NodeId), Enumerates(d, nodes \ {n}, rest),
         \A m \in nodes : Edges(d, m, n) = {}
  PROVE  Enumerates(d, nodes, <<n>> \o rest)
<1>1. PICK order : order = <<n>> \o rest
  OBVIOUS
<1>2. PICK k \in Nat : k = Len(rest)
  OBVIOUS
<1>3. /\ order \in Seq(NodeId) /\ Len(order) = k + 1 /\ order[1] = n
      /\ \A i \in 1 .. k : order[i + 1] = rest[i]
  BY <1>1, <1>2, OneMore
<1>4. Len(order) = Cardinality(nodes)
  <2>1. IsFiniteSet(nodes) /\ Cardinality(nodes) \in Nat
    BY BuildAssumption, FS_Subset, FS_CardinalityType
  <2>2. Cardinality(nodes \ {n}) = Cardinality(nodes) - 1
    BY <2>1, FS_RemoveElement
  <2> QED
    BY <1>2, <1>3, <2>1, <2>2 DEF Enumerates
<1>5. ASSUME NEW i \in 1 .. k + 1, i # 1 PROVE i - 1 \in 1 .. k /\ order[i] = rest[i - 1]
  <2>1. i - 1 \in 1 .. k /\ (i - 1) + 1 = i
    BY <1>5
  <2> QED
    BY <1>3, <2>1
<1>6. {rest[i] : i \in 1 .. k} = nodes \ {n}
  BY <1>2 DEF Enumerates
<1>7. {order[i] : i \in 1 .. k + 1} = nodes
  <2>1. \A i \in 1 .. k + 1 : order[i] \in nodes
    BY <1>3, <1>5, <1>6
  <2>2. ASSUME NEW m \in nodes PROVE \E i \in 1 .. k + 1 : order[i] = m
    <3>1. CASE m = n
      <4>1. 1 \in 1 .. k + 1
        OBVIOUS
      <4> QED
        BY <1>3, <3>1, <4>1
    <3>2. CASE m # n
      <4>1. PICK i \in 1 .. k : rest[i] = m
        BY <1>6, <3>2
      <4>2. i + 1 \in 1 .. k + 1
        OBVIOUS
      <4> QED
        BY <1>3, <4>1, <4>2
    <3> QED
      BY <3>1, <3>2
  <2> QED
    BY <2>1, <2>2
<1>8. ASSUME NEW i \in 1 .. k + 1, NEW j \in 1 .. k + 1, Edges(d, order[j], order[i]) # {}
      PROVE  j < i
  <2>1. i # 1
    <3>1. order[j] \in nodes
      BY <1>7
    <3> QED
      BY <1>3, <1>8, <3>1
  <2>2. CASE j = 1
    BY <2>1, <2>2
  <2>3. CASE j # 1
    <3>1. /\ i - 1 \in 1 .. k /\ j - 1 \in 1 .. k
          /\ Edges(d, rest[j - 1], rest[i - 1]) # {}
      BY <1>5, <1>8, <2>1, <2>3
    <3>2. j - 1 < i - 1
      BY <1>2, <3>1 DEF Enumerates
    <3> QED
      BY <3>2
  <2> QED
    BY <2>2, <2>3
<1>9. \A i, j \in 1 .. k + 1 : Edges(d, order[j], order[i]) # {} => j < i
  BY <1>8
<1>10. \A i, j \in 1 .. Len(order) : Edges(d, order[j], order[i]) # {} => j < i
  BY <1>3, <1>9
<1>11. {order[i] : i \in 1 .. Len(order)} = nodes
  BY <1>3, <1>7
<1> QED
  BY <1>1, <1>4, <1>10, <1>11 DEF Enumerates

(* Whatever order the queue is emptied in, from every turn on.             *)
RightFrom(d, done, r) == r \in Results /\ Enumerates(d, d.nodes \ done, r.order) /\ ~r.below

LEMMA OrdersRight ==
  ASSUME NEW d \in Definitions, LinksExact(d), ~HasCycle(d.edges)
  PROVE  \A r \in TopologicalOrders(d) : IsTopological(d, r.order) /\ ~r.below
<1>1. PICK O \in [TurnsAt -> SUBSET Results] : O = OrdersFrom(d)
  BY LoopEnds
<1> DEFINE Bad == {c \in TurnsAt : \E done : /\ Counting(d, done, c[1], c[2])
                                          /\ \E r \in O[c] : ~RightFrom(d, done, r)}
<1>2. Bad = {}
  <2> SUFFICES ASSUME Bad # {} PROVE FALSE
    OBVIOUS
  <2>1. PICK c \in Bad : \A b \in Bad : TurnSize[c] <= TurnSize[b]
    <3>1. Bad \in SUBSET TurnsAt
      OBVIOUS
    <3> HIDE DEF Bad
    <3> QED
      BY <3>1, TurnSizes, LeastOf
  <2>2. PICK queue \in SUBSET NodeId : queue = c[1]
    BY DEF TurnsAt
  <2>3. PICK degree \in [NodeId -> Int] : degree = c[2]
    BY DEF TurnsAt
  <2>4. c = <<queue, degree>> /\ c \in TurnsAt
    BY <2>2, <2>3 DEF TurnsAt
  <2>5. PICK done : /\ Counting(d, done, queue, degree)
                    /\ \E r \in O[c] : ~RightFrom(d, done, r)
    BY <2>2, <2>3
  <2>6. PICK r \in O[c] : ~RightFrom(d, done, r)
    BY <2>5
  <2>7. O[c] = Turns(d, O, queue, degree) /\ r \in Results
    BY <1>1, <2>4, LoopEnds
  <2>8. CASE queue = {}
    <3>1. d.nodes \ done = {}
      BY <2>5, <2>8, CountingEnds
    <3>2. r = [order |-> << >>, below |-> FALSE]
      BY <2>6, <2>7, <2>8 DEF Turns
    <3>3. Enumerates(d, {}, << >>)
      BY FS_EmptySet DEF Enumerates
    <3> QED
      BY <2>6, <2>7, <3>1, <3>2, <3>3 DEF RightFrom
  <2>9. CASE queue # {}
    <3>1. PICK n \in queue : \E rest \in O[NextTurn(d, queue, degree, n)] : r = Extend(d, degree, n, rest)
      BY <2>6, <2>7, <2>9, TurnsAre
    <3>2. PICK rest \in O[NextTurn(d, queue, degree, n)] : r = Extend(d, degree, n, rest)
      BY <3>1
    <3>3. PICK b \in TurnsAt : b = NextTurn(d, queue, degree, n)
      BY TurnSizes
    <3>4. TurnSize[b] < TurnSize[c] /\ TurnSize[b] \in Nat /\ TurnSize[c] \in Nat
      BY <2>4, <3>3, TurnSizes
    <3>5. b \notin Bad
      BY <2>1, <3>4
    <3>6. PICK new : new = done \union {n}
      OBVIOUS
    <3>7. Counting(d, new, b[1], b[2]) /\ ~GoesBelow(d, degree, n)
      BY <2>5, <3>3, <3>6, CountingGoesOn DEF NextTurn
    <3>8. RightFrom(d, new, rest)
      BY <3>2, <3>3, <3>5, <3>7
    <3>9. rest \in Results /\ rest.order \in Seq(NodeId)
      BY <3>8 DEF RightFrom, Results
    <3>10. r.order = <<n>> \o rest.order /\ ~r.below
      BY <3>2, <3>7, <3>8 DEF Extend, RightFrom
    <3>11. PICK nodes \in SUBSET NodeId : nodes = d.nodes \ done
      BY DEF Definitions
    <3>12. n \in nodes /\ d.nodes \ new = nodes \ {n}
      BY <2>5, <3>6, <3>11 DEF Counting
    <3>13. ASSUME NEW m \in nodes PROVE Edges(d, m, n) = {}
      <4>1. degree[n] = 0 /\ degree[n] = Cardinality(Entering(d, done, n))
        BY <2>5, <3>11, <3>12 DEF Counting
      <4>2. Entering(d, done, n) = {}
        BY <4>1, EnteringCounted
      <4>3. Edges(d, m, n) \subseteq Entering(d, done, n)
        BY <3>11, <3>13 DEF Edges, Entering, LinksExact
      <4> QED
        BY <4>2, <4>3
    <3>14. Enumerates(d, nodes \ {n}, rest.order)
      BY <3>8, <3>12 DEF RightFrom
    <3>15. Enumerates(d, nodes, <<n>> \o rest.order)
      BY <3>9, <3>12, <3>13, <3>14, FirstOfOrder
    <3> QED
      BY <2>6, <2>7, <3>10, <3>11, <3>15 DEF RightFrom
  <2> QED
    BY <2>8, <2>9
<1>3. PICK queue : queue = {n \in d.nodes : d.inDegree[n] = 0}
  OBVIOUS
<1>4. Counting(d, {}, queue, d.inDegree)
  <2>1. \A m \in NodeId : d.incoming[m] = Entering(d, {}, m)
    BY DEF LinksExact, Entering
  <2>2. \A m \in NodeId : d.inDegree[m] = Cardinality(d.incoming[m])
    BY DEF LinksExact
  <2>3. \A m \in NodeId : d.inDegree[m] = Cardinality(Entering(d, {}, m))
    BY <2>1, <2>2
  <2>4. d.inDegree \in [NodeId -> Int]
    BY DEF Definitions
  <2> QED
    BY <1>3, <2>3, <2>4 DEF Counting
<1>5. <<queue, d.inDegree>> \in TurnsAt
  BY <1>3 DEF TurnsAt, Definitions
<1>6. PICK c \in TurnsAt : c = <<queue, d.inDegree>>
  BY <1>5
<1>7. c[1] = queue /\ c[2] = d.inDegree
  BY <1>6
<1>8. \A r \in O[c] : RightFrom(d, {}, r)
  BY <1>2, <1>4, <1>7
<1>9. TopologicalOrders(d) = O[c]
  BY <1>1, <1>3, <1>6, OrdersOfDefinition
<1>10. d.nodes \ {} = d.nodes
  OBVIOUS
<1>11. \A r \in O[c] : Enumerates(d, d.nodes, r.order) /\ ~r.below
  BY <1>8, <1>10 DEF RightFrom
<1> QED
  BY <1>9, <1>11 DEF Enumerates, IsTopological

(* In a definition that was loaded all degrees are 0 before they are        *)
(* counted down: every node is in the queue from the start, and the first  *)
(* edge takes a degree below 0.                                            *)
Negative(degree) == \A m \in NodeId : degree[m] <= 0

Leads(d, n) == \E m \in d.nodes : Edges(d, n, m) # {}

LEMMA NegativeGoesOn ==
  ASSUME NEW d \in Definitions, NEW degree \in [NodeId -> Int], Negative(degree), NEW n \in NodeId
  PROVE  /\ Negative(CountedDown(d, degree, n)) /\ Freed(d, degree, n) = {}
         /\ GoesBelow(d, degree, n) <=> Leads(d, n)
<1>1. PICK left : left = CountedDown(d, degree, n)
  OBVIOUS
<1>2. ASSUME NEW m \in NodeId
      PROVE  /\ degree[m] <= 0 /\ ~(degree[m] > 0) /\ left[m] <= 0
             /\ left[m] < 0 /\ left[m] # degree[m] <=> Edges(d, n, m) # {}
  <2>1. PICK k \in Nat : k = Cardinality(Edges(d, n, m))
    BY EdgesCounted
  <2>2. k = 0 <=> Edges(d, n, m) = {}
    BY <2>1, EdgesCounted
  <2>3. PICK a \in Int : a = degree[m]
    OBVIOUS
  <2>4. a <= 0
    BY <2>3 DEF Negative
  <2>5. left[m] = a - k
    BY <1>1, <2>1, <2>3 DEF CountedDown
  <2>6. a - k <= 0 /\ (a - k < 0 /\ a - k # a <=> k # 0) /\ ~(a > 0)
    BY <2>4
  <2> QED
    BY <2>2, <2>3, <2>4, <2>5, <2>6
<1>3. d.nodes \subseteq NodeId
  BY DEF Definitions
<1>4. Freed(d, degree, n) = {}
  BY <1>2, <1>3 DEF Freed
<1>5. GoesBelow(d, degree, n) <=> Leads(d, n)
  BY <1>1, <1>2, <1>3 DEF GoesBelow, Leads
<1> QED
  BY <1>1, <1>2, <1>4, <1>5 DEF Negative

LEMMA LoadedOrders ==
  ASSUME NEW d \in Definitions, d.inDegree = [n \in NodeId |-> 0]
  PROVE  \A r \in TopologicalOrders(d) : r.below <=> \E n \in d.nodes : Leads(d, n)
<1>1. PICK O \in [TurnsAt -> SUBSET Results] : O = OrdersFrom(d)
  BY LoopEnds
<1> DEFINE Bad == {c \in TurnsAt : /\ Negative(c[2])
                                  /\ \E r \in O[c] : ~(r.below <=> \E n \in c[1] : Leads(d, n))}
<1>2. Bad = {}
  <2> SUFFICES ASSUME Bad # {} PROVE FALSE
    OBVIOUS
  <2>1. PICK c \in Bad : \A b \in Bad : TurnSize[c] <= TurnSize[b]
    <3>1. Bad \in SUBSET TurnsAt
      OBVIOUS
    <3> HIDE DEF Bad
    <3> QED
      BY <3>1, TurnSizes, LeastOf
  <2>2. PICK queue \in SUBSET NodeId : queue = c[1]
    BY DEF TurnsAt
  <2>3. PICK degree \in [NodeId -> Int] : degree = c[2]
    BY DEF TurnsAt
  <2>4. c = <<queue, degree>> /\ c \in TurnsAt /\ Negative(degree)
    BY <2>2, <2>3 DEF TurnsAt
  <2>5. PICK r \in O[c] : ~(r.below <=> \E n \in queue : Leads(d, n))
    BY <2>2
  <2>6. O[c] = Turns(d, O, queue, degree) /\ r \in Results
    BY <1>1, <2>4, LoopEnds
  <2>7. CASE queue = {}
    <3>1. r = [order |-> << >>, below |-> FALSE]
      BY <2>5, <2>6, <2>7 DEF Turns
    <3> QED
      BY <2>5, <2>7, <3>1
  <2>8. CASE queue # {}
    <3>1. PICK n \in queue : \E rest \in O[NextTurn(d, queue, degree, n)] : r = Extend(d, degree, n, rest)
      BY <2>5, <2>6, <2>8, TurnsAre
    <3>2. PICK rest \in O[NextTurn(d, queue, degree, n)] : r = Extend(d, degree, n, rest)
      BY <3>1
    <3>3. PICK b \in TurnsAt : b = NextTurn(d, queue, degree, n)
      BY TurnSizes
    <3>4. TurnSize[b] < TurnSize[c] /\ TurnSize[b] \in Nat /\ TurnSize[c] \in Nat
      BY <2>4, <3>3, TurnSizes
    <3>5. b \notin Bad
      BY <2>1, <3>4
    <3>6. /\ Negative(b[2]) /\ b[1] = queue \ {n}
          /\ GoesBelow(d, degree, n) <=> Leads(d, n)
      BY <2>4, <3>3, NegativeGoesOn DEF NextTurn
    <3>7. rest.below <=> \E m \in queue \ {n} : Leads(d, m)
      BY <3>2, <3>3, <3>5, <3>6
    <3>8. r.below <=> rest.below \/ GoesBelow(d, degree, n)
      BY <3>2 DEF Extend
    <3> QED
      BY <2>5, <3>6, <3>7, <3>8
  <2> QED
    BY <2>7, <2>8
<1>3. {n \in d.nodes : d.inDegree[n] = 0} = d.nodes
  BY DEF Definitions
<1>4. PICK c \in TurnsAt : c = <<d.nodes, d.inDegree>>
  <2>1. d.nodes \in SUBSET NodeId /\ d.inDegree \in [NodeId -> Int]
    BY DEF Definitions
  <2> QED
    BY <2>1 DEF TurnsAt
<1>5. c[1] = d.nodes /\ Negative(c[2])
  BY <1>4 DEF Negative
<1>6. \A r \in O[c] : r.below <=> \E n \in d.nodes : Leads(d, n)
  BY <1>2, <1>5
<1> QED
  BY <1>1, <1>3, <1>4, <1>6, OrdersOfDefinition

-----------------------------------------------------------------------------
(* add_edge, whether its check finds a cycle or not.                       *)
LEMMA EdgeAddedOrRefused ==
  ASSUME NEW e \in EdgeId, Sound(definition), AddEdge(e)
  PROVE  Sound(definition')
<1> DEFINE new == WithEdge(definition, e)
<1>1. /\ definition \in Definitions /\ LinksExact(definition) /\ EndsExact(definition)
      /\ ~HasCycle(definition.edges)
  BY DEF Sound
<1>2. e \notin definition.edges /\ Ends(e) \subseteq definition.nodes
  BY DEF AddEdge, CanAddEdge
<1>3. /\ new \in Definitions /\ LinksExact(new) /\ EndsExact(new)
      /\ new.edges = definition.edges \union {e}
  BY <1>1, <1>2, EdgeAdded
<1>4. SearchFindsCycle(new) <=> HasCycle(new.edges)
  BY <1>3, SearchIsRight
<1>5. definition' = IF SearchFindsCycle(new) THEN WithoutEdges(new, {e}) ELSE new
  BY DEF AddEdge
<1> HIDE DEF new
<1>6. CASE SearchFindsCycle(new)
  <2>1. definition' = WithoutEdges(new, {e})
    BY <1>5, <1>6
  <2>2. definition' \in Definitions /\ LinksExact(definition') /\ EndsExact(definition')
    BY <1>3, <2>1, EdgesRemoved
  <2>3. definition'.edges = definition.edges
    <3>1. \A n \in NodeId : new.inDegree[n] = Cardinality(new.incoming[n])
      BY <1>3 DEF LinksExact
    <3>2. definition'.edges = new.edges \ {e}
      BY <1>3, <2>1, <3>1, EdgesRemovedFields
    <3> QED
      BY <1>2, <1>3, <3>2
  <2> QED
    BY <1>1, <2>2, <2>3 DEF Sound
<1>7. CASE ~SearchFindsCycle(new)
  BY <1>3, <1>4, <1>5, <1>7 DEF Sound
<1> QED
  BY <1>6, <1>7

(* Every edit keeps the definition sound.                                  *)
LEMMA EditKeeps ==
  ASSUME Sound(definition), Next
  PROVE  Sound(definition')
<1>1. ASSUME NEW n \in NodeId, AddNode(n)
      PROVE  Sound(definition')
  BY <1>1, NodeAdded DEF AddNode
<1>2. ASSUME NEW n \in NodeId, RemoveNode(n)
      PROVE  Sound(definition')
  BY <1>2, NodeRemoved DEF RemoveNode
<1>3. ASSUME NEW e \in EdgeId, RemoveEdge(e)
      PROVE  Sound(definition')
  <2>1. /\ definition \in Definitions /\ LinksExact(definition) /\ EndsExact(definition)
        /\ ~HasCycle(definition.edges)
    BY DEF Sound
  <2>2. definition' = WithoutEdges(definition, {e})
    BY <1>3 DEF RemoveEdge
  <2>3. \A n \in NodeId : definition.inDegree[n] = Cardinality(definition.incoming[n])
    BY <2>1 DEF LinksExact
  <2>4. definition'.edges = definition.edges \ {e}
    BY <2>1, <2>2, <2>3, EdgesRemovedFields
  <2>5. ~HasCycle(definition'.edges)
    BY <2>1, <2>4, CyclesShrink
  <2>6. definition' \in Definitions /\ LinksExact(definition') /\ EndsExact(definition')
    BY <2>1, <2>2, EdgesRemoved
  <2> QED
    BY <2>5, <2>6 DEF Sound
<1> QED
  BY <1>1, <1>2, <1>3, EdgeAddedOrRefused DEF Next

(* Two definitions with the same fields are one.                           *)
LEMMA SameFields ==
  ASSUME NEW d1 \in Definitions, NEW d2 \in Definitions,
         d1.nodes = d2.nodes, d1.edges = d2.edges, d1.outgoing = d2.outgoing,
         d1.incoming = d2.incoming, d1.inDegree = d2.inDegree, d1.status = d2.status,
         d1.start = d2.start, d1.end = d2.end
  PROVE  d1 = d2
BY DEF Definitions

(* A refused edge leaves no trace but the status of its target.            *)
LEMMA RefusedEdge ==
  ASSUME NEW e \in EdgeId, Sound(definition), AddEdge(e), definition'.edges = definition.edges
  PROVE  definition' = [definition EXCEPT !.status[Target[e]] =
           IF definition.incoming[Target[e]] = {} THEN "Ready" ELSE @]
<1> DEFINE d == definition
           t == Target[e]
           more == WithEdge(d, e)
           new == WithoutEdges(more, {e})
           status == [d.status EXCEPT ![t] = IF d.incoming[t] = {} THEN "Ready" ELSE @]
           kept == [d EXCEPT !.status = status]
<1>1. d \in Definitions /\ LinksExact(d) /\ EndsExact(d)
  BY DEF Sound
<1>2. e \notin d.edges /\ Source[e] \in d.nodes /\ t \in d.nodes /\ d.nodes \subseteq NodeId
  BY <1>1 DEF AddEdge, CanAddEdge, Ends, Definitions
<1>3. /\ more.nodes = d.nodes /\ more.edges = d.edges \union {e}
      /\ more.outgoing = [d.outgoing EXCEPT ![Source[e]] = @ \union {e}]
      /\ more.incoming = [d.incoming EXCEPT ![t] = @ \union {e}]
      /\ more.status = d.status
      /\ more.start = d.start \ {t} /\ more.end = d.end \ {Source[e]}
  BY <1>1 DEF WithEdge, Definitions
<1>4. more \in Definitions /\ LinksExact(more) /\ EndsExact(more)
  BY <1>1, <1>2, EdgeAdded DEF Ends
<1>5. definition' = new
  BY <1>2, <1>3 DEF AddEdge
<1> HIDE DEF more
<1>6. \A n \in NodeId : more.inDegree[n] = Cardinality(more.incoming[n])
  BY <1>4 DEF LinksExact
<1>7. /\ new \in Definitions
      /\ new.nodes = more.nodes /\ new.edges = more.edges \ {e}
      /\ new.outgoing = [x \in NodeId |-> more.outgoing[x] \ {e}]
      /\ new.incoming = [x \in NodeId |-> more.incoming[x] \ {e}]
      /\ new.inDegree = [x \in NodeId |-> Cardinality(more.incoming[x] \ {e})]
      /\ new.start = more.start \union {x \in more.nodes : /\ more.incoming[x] \intersect {e} # {}
                                                          /\ more.incoming[x] \subseteq {e}}
      /\ new.end = more.end \union {x \in more.nodes : /\ more.outgoing[x] \intersect {e} # {}
                                                      /\ more.outgoing[x] \subseteq {e}}
  BY <1>4, <1>6, EdgesRemovedFields
<1> HIDE DEF new
<1>8. \A n \in NodeId : e \notin d.incoming[n] /\ e \notin d.outgoing[n]
  BY <1>1, <1>2 DEF LinksExact
<1>9. \A n \in NodeId : /\ more.incoming[n] \ {e} = d.incoming[n]
                        /\ more.outgoing[n] \ {e} = d.outgoing[n]
  BY <1>1, <1>2, <1>3, <1>8 DEF Definitions
<1>10. new.incoming = d.incoming /\ new.outgoing = d.outgoing
  BY <1>1, <1>7, <1>9 DEF Definitions
<1>11. new.inDegree = d.inDegree
  BY <1>1, <1>7, <1>9 DEF Definitions, LinksExact
<1>12. new.nodes = d.nodes /\ new.edges = d.edges
  BY <1>2, <1>3, <1>7
<1>13. /\ LinksExact(new) /\ EndsExact(new)
  BY <1>4, EdgesRemoved DEF new
<1>14. new.start = d.start /\ new.end = d.end
  BY <1>1, <1>10, <1>12, <1>13 DEF EndsExact
<1>15. new.status = status
  <2>1. new.status = [n \in NodeId |-> IF /\ Lost(more.incoming, {e}, n) # {}
                                         /\ LeftInDegree(more, {e}, n) = 0
                                      THEN "Ready" ELSE more.status[n]]
    BY <1>4 DEF WithoutEdges, Definitions, new
  <2>2. \A n \in NodeId : LeftInDegree(more, {e}, n) = Cardinality(d.incoming[n])
    BY <1>4, <1>6, <1>9, DegreeLeft
  <2>3. \A n \in NodeId : Cardinality(d.incoming[n]) = 0 <=> d.incoming[n] = {}
    BY <1>1, LinksAreFinite, FS_EmptySet DEF Definitions
  <2>4. \A n \in NodeId : Lost(more.incoming, {e}, n) # {} <=> n = t
    BY <1>1, <1>2, <1>3, <1>8 DEF Lost, Definitions
  <2>5. d.status \in [NodeId -> {"Pending", "Ready"}]
    BY <1>1 DEF Definitions
  <2>6. \A n \in NodeId :
           new.status[n] = IF n = t /\ d.incoming[t] = {} THEN "Ready" ELSE d.status[n]
    <3> SUFFICES ASSUME NEW n \in NodeId
                 PROVE  new.status[n] = IF n = t /\ d.incoming[t] = {} THEN "Ready" ELSE d.status[n]
      OBVIOUS
    <3>1. LeftInDegree(more, {e}, n) = 0 <=> d.incoming[n] = {}
      BY <2>2, <2>3
    <3>2. Lost(more.incoming, {e}, n) # {} <=> n = t
      BY <2>4
    <3> QED
      BY <1>3, <2>1, <3>1, <3>2
  <2> QED
    BY <1>2, <2>1, <2>5, <2>6
<1>16. status \in [NodeId -> {"Pending", "Ready"}]
  BY <1>1 DEF Definitions
<1>17. /\ kept \in Definitions
       /\ kept.nodes = d.nodes /\ kept.edges = d.edges /\ kept.outgoing = d.outgoing
       /\ kept.incoming = d.incoming /\ kept.inDegree = d.inDegree /\ kept.status = status
       /\ kept.start = d.start /\ kept.end = d.end
  <2> HIDE DEF status
  <2> QED
    BY <1>1, <1>16 DEF Definitions
<1> HIDE DEF kept
<1>18. new = kept
  BY <1>7, <1>10, <1>11, <1>12, <1>14, <1>15, <1>17, SameFields
<1>19. kept = [d EXCEPT !.status[t] = IF d.incoming[t] = {} THEN "Ready" ELSE @]
  BY DEF kept
<1> QED
  BY <1>5, <1>18, <1>19

-----------------------------------------------------------------------------
(* The checkpoints.                                                        *)
Saving(c) == caller[c].pc \in {"data", "tempMeta", "meta", "rename"}

Pruning(c) == caller[c].pc \in {"delete", "deleteMeta"}

(* One save at a time, and of the newest checkpoint. *)
SavesExclude ==
  /\ \A i \in Ids : saved[i] # Absent => i <= begun
  /\ \A c \in Callers : Saving(c) =>
       /\ caller[c].kind = "save" /\ lock = c /\ begun > 0 /\ caller[c].id = begun
       /\ caller[c].value \in Values /\ saved[begun] = Absent

(* What a save has stored so far. Only a prune takes any of it away. *)
SavesProgress ==
  \A c \in Callers :
    /\ caller[c].pc = "tempMeta" => InFiles
    /\ caller[c].pc = "meta" => temp[begun] = IF InFiles THEN Metadata ELSE caller[c].value
    /\ caller[c].pc = "rename" =>
         /\ temp[begun] = IF InFiles THEN Absent ELSE caller[c].value
         /\ meta[begun] = Metadata \/ begun \in dropped

ListsAreStored ==
  /\ \A i \in Ids : meta[i] \in {Metadata, Absent} /\ (meta[i] # Absent => i <= begun)
  /\ \A c \in Callers :
       /\ caller[c].todo \subseteq 1 .. begun /\ caller[c].found \subseteq 1 .. begun
       /\ \A i \in caller[c].found : meta[i] = Metadata \/ i \in dropped
       /\ caller[c].pc = "load" => caller[c].kind = "load" /\ caller[c].id \in caller[c].found
       /\ Pruning(c) => caller[c].todo # {}
       /\ caller[c].pc = "deleteMeta" => Newest(caller[c].todo) \in dropped

Doomed(i) == i \in dropped \/ \E c \in Callers : Pruning(c) /\ i \in caller[c].todo

PrunesSpareTheNewest ==
  KeepCount > 0 =>
    /\ \A i \in Ids : Doomed(i) => i < begun
    /\ (\E i \in Ids : saved[i] # Absent) =>
         \E i \in Ids : meta[i] = Metadata /\ \A j \in Ids : Doomed(j) => j < i

CheckpointInv ==
  /\ CheckpointTypeOK /\ SavesExclude /\ SavesProgress /\ ListsAreStored
  /\ SavedIsLoadable /\ PrunesSpareTheNewest

SavedIsDefinition ==
  /\ ~built => begun = 0
  /\ \A i \in Ids : data[i] # Absent => built /\ data[i] = Serialized(definition)
  /\ \A c \in Callers : Saving(c) => built /\ caller[c].value = Serialized(definition)

CacheIsDefinition ==
  /\ cache # Absent => built /\ cache = IF loaded THEN Serialized(definition) ELSE definition
  /\ loaded => cache # Absent
  /\ instance # Absent => cache # Absent /\ instance = ReadyNodes(cache)

(* The manager that has the definition itself has nothing to load. *)
OriginalIsNotLoaded ==
  cache # Absent /\ ~loaded =>
    \A c \in Callers : caller[c].kind = "load" => caller[c].todo = {} /\ caller[c].found = {}

IInv == /\ DefinitionSound /\ CheckpointInv
        /\ SavedIsDefinition /\ CacheIsDefinition /\ OriginalIsNotLoaded

-----------------------------------------------------------------------------
(* A set of checkpoints has a newest.                                      *)
LEMMA NewestIsLast ==
  ASSUME NEW S \in SUBSET Ids, S # {}
  PROVE  Newest(S) \in S /\ \A j \in S : j <= Newest(S)
<1> DEFINE T == {MaxSaves - i : i \in S}
<1>1. MaxSaves \in Nat /\ S \subseteq Nat /\ \A i \in S : i <= MaxSaves
  BY CheckpointAssumption DEF Ids
<1>2. T \subseteq Nat /\ T # {}
  <2>1. \A i \in S : MaxSaves - i \in Nat
    BY <1>1
  <2> QED
    BY <2>1
<1>3. PICK x \in T : \A y \in T : ~ (<<y, x>> \in OpToRel(<, Nat))
  BY <1>2, NatLessThanWellFounded, WFMin
<1>4. \A y \in T : ~(y < x)
  BY <1>2, <1>3 DEF OpToRel
<1>5. \E i \in S : \A j \in S : j <= i
  <2>1. PICK i \in S : x = MaxSaves - i
    OBVIOUS
  <2>2. \A j \in S : ~(MaxSaves - j < MaxSaves - i)
    BY <1>4, <2>1
  <2> QED
    BY <1>1, <2>2
<1> QED
  BY <1>5 DEF Newest

(* A storage without checkpoints and calls.                                *)
LEMMA InitCheckpoint == CheckpointInit => CheckpointInv
<1> SUFFICES ASSUME CheckpointInit PROVE CheckpointInv
  OBVIOUS
<1> USE CheckpointAssumption DEF CheckpointInit, NoStore, Returned
<1>1. CheckpointTypeOK
  BY DEF CheckpointTypeOK, CallerState, Content
<1>2. \A c \in Callers : /\ caller[c].pc = "idle" /\ caller[c].todo = {} /\ caller[c].found = {}
  OBVIOUS
<1>3. SavesExclude /\ SavesProgress
  BY <1>2 DEF SavesExclude, SavesProgress, Saving
<1>4. ListsAreStored
  BY <1>2 DEF ListsAreStored, Pruning
<1>5. SavedIsLoadable /\ PrunesSpareTheNewest
  BY <1>2 DEF SavedIsLoadable, PrunesSpareTheNewest, Doomed, Pruning
<1> QED
  BY <1>1, <1>3, <1>4, <1>5 DEF CheckpointInv

(* A step by which c goes to s leaves the others where they are. *)
LEMMA OneGoes ==
  ASSUME CheckpointTypeOK, NEW c \in Callers, NEW s \in CallerState, Goes(c, s)
  PROVE  /\ caller' \in [Callers -> CallerState]
         /\ caller'[c] = s
         /\ \A d \in Callers \ {c} : caller'[d] = caller[d]
BY DEF CheckpointTypeOK, Goes

(* What a call may do that only reads: it reads what is there, it has found *)
(* what it goes on with, and what it will delete is older than something    *)
(* it found.                                                               *)
Reads(c, s) ==
  /\ s \in CallerState
  /\ s.pc \in {"idle", "failed", "read", "load", "delete"}
  /\ s.todo \subseteq 1 .. begun /\ s.found \subseteq 1 .. begun
  /\ \A i \in s.found : meta[i] = Metadata \/ i \in dropped
  /\ s.pc = "load" => s.kind = "load" /\ s.id \in s.found
  /\ s.pc = "delete" =>
       s.todo # {} /\ (KeepCount > 0 => \E k \in s.found : \A i \in s.todo : i < k)

(* A call that goes to such a state keeps the invariant.                   *)
LEMMA ReadKeeps ==
  ASSUME CheckpointInv, NEW c \in Callers, NEW s, Reads(c, s), Goes(c, s),
         UNCHANGED <<backend, storeVars, begun, saved, dropped>>,
         \/ ~Saving(c) /\ lock' = lock
         \/ lock' = IF lock = c THEN Absent ELSE lock
  PROVE  CheckpointInv'
<1>1. /\ CheckpointTypeOK /\ SavesExclude /\ SavesProgress /\ ListsAreStored
      /\ SavedIsLoadable /\ PrunesSpareTheNewest
  BY DEF CheckpointInv
<1>2. /\ temp' = temp /\ meta' = meta /\ data' = data /\ begun' = begun /\ saved' = saved
      /\ dropped' = dropped /\ backend' = backend
  BY DEF storeVars
<1>3. /\ caller' \in [Callers -> CallerState] /\ caller'[c] = s
      /\ \A d \in Callers \ {c} : caller'[d] = caller[d]
  BY <1>1, OneGoes DEF Reads
<1>4. CheckpointTypeOK'
  BY <1>1, <1>2, <1>3 DEF CheckpointTypeOK
<1>5. \A d \in Callers : Saving(d)' => d # c /\ Saving(d) /\ caller'[d] = caller[d]
  BY <1>3 DEF Saving, Reads
<1>6. SavesExclude'
  BY <1>1, <1>2, <1>5 DEF SavesExclude
<1>7. SavesProgress'
  BY <1>1, <1>2, <1>3, <1>5 DEF SavesProgress, Saving, InFiles, Reads
<1>8. ListsAreStored'
  BY <1>1, <1>2, <1>3 DEF ListsAreStored, Pruning, Reads
<1>9. SavedIsLoadable'
  BY <1>1, <1>2 DEF SavedIsLoadable
<1>10. PrunesSpareTheNewest'
  <2> SUFFICES ASSUME KeepCount > 0
               PROVE  /\ \A i \in Ids : Doomed(i)' => i < begun
                      /\ (\E i \in Ids : saved[i] # Absent) =>
                           \E i \in Ids : meta[i] = Metadata /\ \A j \in Ids : Doomed(j)' => j < i
    BY <1>2 DEF PrunesSpareTheNewest
  <2>0. begun \in Nat /\ begun \in 0 .. MaxSaves /\ MaxSaves \in Nat
    BY <1>1, CheckpointAssumption DEF CheckpointTypeOK
  <2>1. /\ \A i \in Ids : Doomed(i) => i < begun
        /\ (\E i \in Ids : saved[i] # Absent) =>
             \E i \in Ids : meta[i] = Metadata /\ \A j \in Ids : Doomed(j) => j < i
    BY <1>1 DEF PrunesSpareTheNewest
  <2>2. \A i \in Ids : Doomed(i)' => Doomed(i) \/ (s.pc = "delete" /\ i \in s.todo)
    BY <1>2, <1>3 DEF Doomed, Pruning, Reads
  <2>3. CASE s.pc # "delete"
    BY <2>1, <2>2, <2>3
  <2>4. CASE s.pc = "delete"
    <3>1. PICK k \in s.found : \A i \in s.todo : i < k
      BY <2>4 DEF Reads
    <3>2. k \in Ids /\ k <= begun /\ (meta[k] = Metadata \/ Doomed(k))
      BY <2>0 DEF Reads, Ids, Doomed
    <3>3. \A i \in Ids : Doomed(i)' => i < begun
      BY <2>0, <2>1, <2>2, <3>1, <3>2 DEF Ids
    <3>4. ASSUME \E i \in Ids : saved[i] # Absent
          PROVE  \E i \in Ids : meta[i] = Metadata /\ \A j \in Ids : Doomed(j)' => j < i
      <4>1. PICK m \in Ids : meta[m] = Metadata /\ \A j \in Ids : Doomed(j) => j < m
        BY <2>1, <3>4
      <4>2. CASE k <= m
        BY <2>2, <3>1, <3>2, <4>1, <4>2, CheckpointAssumption DEF Ids
      <4>3. CASE ~(k <= m)
        <5>1. ~Doomed(k) /\ meta[k] = Metadata
          BY <3>2, <4>1, <4>3, CheckpointAssumption DEF Ids
        <5>2. \A j \in Ids : Doomed(j)' => j < k
          BY <2>2, <3>1, <3>2, <4>1, <4>3, CheckpointAssumption DEF Ids
        <5> QED
          BY <3>2, <5>1, <5>2
      <4> QED
        BY <4>2, <4>3
    <3> QED
      BY <3>3, <3>4
  <2> QED
    BY <2>3, <2>4
<1> QED
  BY <1>4, <1>6, <1>7, <1>8, <1>9, <1>10 DEF CheckpointInv

(* The calls that list, read and load, and the ends of calls.              *)
LEMMA ReadersKeep ==
  ASSUME CheckpointInv, NEW c \in Callers,
         \/ \E kind \in {"load", "prune"} : BeginList(c, kind)
         \/ \E i \in Ids : ReadMetadata(c, i)
         \/ PickLatest(c) \/ LoadFails(c) \/ LoadReturns(c) \/ PickOldest(c) \/ Abandon(c)
  PROVE  CheckpointInv'
<1>0. /\ caller \in [Callers -> CallerState] /\ begun \in 0 .. MaxSaves /\ MaxSaves \in Nat
      /\ KeepCount \in Nat /\ caller[c] \in CallerState
      /\ ListsAreStored
  BY CheckpointAssumption DEF CheckpointInv, CheckpointTypeOK
<1>1. Reads(c, Returned) /\ Reads(c, [Returned EXCEPT !.pc = "failed", !.kind = caller[c].kind])
  BY <1>0 DEF Reads, Returned, CallerState
<1>2. ASSUME NEW kind \in {"load", "prune"}, BeginList(c, kind)
      PROVE  CheckpointInv'
  <2> DEFINE s == [Returned EXCEPT !.pc = "read", !.kind = kind, !.todo = Listed]
  <2>1. Listed \subseteq Ids /\ Listed \subseteq 1 .. begun
    BY <1>0 DEF Listed, Ids, ListsAreStored
  <2>2. Reads(c, s)
    BY <1>0, <2>1 DEF Reads, Returned, CallerState
  <2> QED
    BY <1>2, <2>2, ReadKeeps DEF BeginList, Saving
<1>3. ASSUME NEW i \in Ids, ReadMetadata(c, i)
      PROVE  CheckpointInv'
  <2> DEFINE s == [caller[c] EXCEPT !.todo = caller[c].todo \ {i},
                                    !.found = caller[c].found \union {i}]
  <2>1. CASE meta[i] = Absent
    BY <1>1, <1>3, <2>1, ReadKeeps DEF ReadMetadata, Fails, Saving
  <2>2. CASE meta[i] # Absent
    <3>1. meta[i] = Metadata /\ i \in 1 .. begun /\ caller[c].pc = "read"
      BY <1>0, <1>3, <2>2 DEF ReadMetadata, ListsAreStored
    <3>2. /\ caller[c].todo \subseteq 1 .. begun /\ caller[c].found \subseteq 1 .. begun
          /\ \A k \in caller[c].found : meta[k] = Metadata \/ k \in dropped
      BY <1>0 DEF ListsAreStored
    <3>3. s \in CallerState
      BY <1>0, <1>3 DEF CallerState
    <3>4. /\ s.pc = "read" /\ s.todo = caller[c].todo \ {i}
          /\ s.found = caller[c].found \union {i}
      BY <1>0, <3>1 DEF CallerState
    <3> HIDE DEF s
    <3>5. Reads(c, s)
      BY <3>1, <3>2, <3>3, <3>4 DEF Reads
    <3>6. Goes(c, s)
      BY <1>3, <2>2 DEF ReadMetadata, s
    <3> QED
      BY <1>3, <3>1, <3>5, <3>6, ReadKeeps DEF ReadMetadata, Saving
  <2> QED
    BY <2>1, <2>2
<1>4. CASE PickLatest(c)
  <2> DEFINE s == [caller[c] EXCEPT !.pc = "load", !.id = Newest(caller[c].found)]
  <2>1. CASE caller[c].found = {}
    BY <1>1, <1>4, <2>1, ReadKeeps DEF PickLatest, Saving
  <2>2. CASE caller[c].found # {}
    <3>1. caller[c].found \subseteq Ids
      BY <1>0 DEF CallerState
    <3>2. Newest(caller[c].found) \in caller[c].found
      BY <2>2, <3>1, NewestIsLast
    <3>3. s \in CallerState
      BY <1>0, <3>1, <3>2 DEF CallerState
    <3>4. /\ s.pc = "load" /\ s.id = Newest(caller[c].found) /\ s.kind = "load"
          /\ s.todo = caller[c].todo /\ s.found = caller[c].found
      BY <1>0, <1>4 DEF CallerState, PickLatest
    <3>5. Goes(c, s)
      BY <1>4, <2>2 DEF PickLatest
    <3> HIDE DEF s
    <3>6. Reads(c, s)
      BY <1>0, <3>2, <3>3, <3>4 DEF Reads, ListsAreStored
    <3> QED
      BY <1>4, <3>5, <3>6, ReadKeeps DEF PickLatest, Saving
  <2> QED
    BY <2>1, <2>2
<1>5. CASE LoadFails(c) \/ LoadReturns(c)
  BY <1>1, <1>5, ReadKeeps DEF LoadFails, LoadReturns, Loads, Fails, Saving
<1>6. CASE PickOldest(c)
  <2> DEFINE found == caller[c].found
             old == found \ Kept(found)
             s == [caller[c] EXCEPT !.pc = "delete", !.todo = old]
  <2>1. CASE old = {}
    BY <1>1, <1>6, <2>1, ReadKeeps DEF PickOldest, Saving
  <2>2. CASE old # {}
    <3>1. found \subseteq Ids /\ found \subseteq 1 .. begun
      BY <1>0 DEF CallerState, ListsAreStored
    <3>2. Newest(found) \in found /\ \A j \in found : j <= Newest(found)
      BY <2>2, <3>1, NewestIsLast
    <3>3. ASSUME KeepCount > 0
          PROVE  \A i \in old : i < Newest(found)
      <4>1. {j \in found : j > Newest(found)} = {}
        BY <1>0, <3>1, <3>2 DEF Ids
      <4>2. Newest(found) \in Kept(found)
        BY <3>2, <3>3, <4>1, FS_EmptySet DEF Kept
      <4> QED
        BY <1>0, <3>1, <3>2, <4>2 DEF Ids
    <3>4. s \in CallerState
      BY <1>0, <3>1 DEF CallerState
    <3>5. s.pc = "delete" /\ s.todo = old /\ s.found = found
      BY <1>0 DEF CallerState
    <3>6. Goes(c, s)
      BY <1>6, <2>2 DEF PickOldest
    <3>7. \A i \in found : meta[i] = Metadata \/ i \in dropped
      BY <1>0 DEF ListsAreStored
    <3>8. old \subseteq 1 .. begun
      BY <3>1
    <3> HIDE DEF s, old, found
    <3>9. Reads(c, s)
      BY <2>2, <3>1, <3>2, <3>3, <3>4, <3>5, <3>7, <3>8 DEF Reads
    <3> QED
      BY <1>6, <3>6, <3>9, ReadKeeps DEF PickOldest, Saving
  <2> QED
    BY <2>1, <2>2
<1>7. CASE Abandon(c)
  BY <1>1, <1>7, ReadKeeps DEF Abandon
<1> QED
  BY <1>2, <1>3, <1>4, <1>5, <1>6, <1>7

(* At most one caller is saving, and it is saving the newest checkpoint.    *)
LEMMA SaverAlone ==
  ASSUME CheckpointInv, NEW c \in Callers, Saving(c)
  PROVE  /\ begun \in Ids /\ begun \in Nat /\ caller[c].id = begun /\ saved[begun] = Absent
         /\ caller[c].value \in Values /\ lock = c /\ caller[c] \in CallerState
         /\ caller[c].kind = "save"
         /\ \A d \in Callers \ {c} : ~Saving(d)
<1>1. CheckpointTypeOK /\ SavesExclude
  BY DEF CheckpointInv
<1> QED
  BY <1>1, CheckpointAssumption DEF SavesExclude, CheckpointTypeOK, Ids

(* A save that goes from one store to the next. What it may store is its    *)
(* own checkpoint, and the metadata only while nobody is told of it.       *)
LEMMA SaveGoesOn ==
  ASSUME CheckpointInv, NEW c \in Callers, Saving(c), NEW pc \in {"tempMeta", "meta", "rename"},
         Goes(c, [caller[c] EXCEPT !.pc = pc]),
         UNCHANGED <<backend, data, begun, lock, saved, dropped>>,
         temp' \in [Ids -> Content],
         meta' = meta \/ meta' = [meta EXCEPT ![begun] = Metadata],
         pc = "tempMeta" => InFiles,
         pc = "meta" => temp'[begun] = IF InFiles THEN Metadata ELSE caller[c].value,
         pc = "rename" => /\ temp'[begun] = IF InFiles THEN Absent ELSE caller[c].value
                          /\ meta'[begun] = Metadata
  PROVE  CheckpointInv'
<1>1. /\ CheckpointTypeOK /\ SavesExclude /\ SavesProgress /\ ListsAreStored
      /\ SavedIsLoadable /\ PrunesSpareTheNewest
  BY DEF CheckpointInv
<1>2. /\ begun \in Ids /\ begun \in Nat /\ caller[c].id = begun /\ saved[begun] = Absent
      /\ caller[c].value \in Values /\ lock = c /\ caller[c] \in CallerState
      /\ caller[c].kind = "save"
      /\ \A d \in Callers \ {c} : ~Saving(d)
  BY SaverAlone
<1> DEFINE s == [caller[c] EXCEPT !.pc = pc]
<1>3. /\ s \in CallerState /\ s.pc = pc /\ s.id = caller[c].id /\ s.value = caller[c].value
      /\ s.todo = caller[c].todo /\ s.found = caller[c].found /\ s.kind = caller[c].kind
  BY <1>2 DEF CallerState
<1> HIDE DEF s
<1>4. /\ caller' \in [Callers -> CallerState] /\ caller'[c] = s
      /\ \A d \in Callers \ {c} : caller'[d] = caller[d]
  BY <1>1, <1>3, OneGoes DEF s
<1>5. /\ meta \in [Ids -> Content] /\ meta' \in [Ids -> Content]
      /\ \A i \in Ids : meta'[i] = meta[i] \/ (i = begun /\ meta'[i] = Metadata)
  <2>1. meta \in [Ids -> Content] /\ Metadata \in Content
    BY <1>1 DEF CheckpointTypeOK, Content
  <2>2. CASE meta' = meta
    BY <2>1, <2>2
  <2>3. CASE meta' = [meta EXCEPT ![begun] = Metadata]
    BY <1>2, <2>1, <2>3
  <2> QED
    BY <2>2, <2>3
<1>6. CheckpointTypeOK'
  BY <1>1, <1>4, <1>5 DEF CheckpointTypeOK
<1>7. \A d \in Callers : Saving(d)' => d = c
  BY <1>2, <1>4 DEF Saving
<1>8. SavesExclude'
  BY <1>1, <1>2, <1>3, <1>4, <1>7 DEF SavesExclude
<1>9. SavesProgress'
  BY <1>3, <1>4, <1>7 DEF SavesProgress, Saving, InFiles
<1>10. ~Pruning(c) /\ ~Pruning(c)' /\ caller[c].pc # "load"
  BY <1>3, <1>4 DEF Saving, Pruning
<1>11. ListsAreStored'
  <2>1. \A i \in Ids : meta'[i] \in {Metadata, Absent} /\ (meta'[i] # Absent => i <= begun)
    BY <1>1, <1>2, <1>5, CheckpointAssumption DEF ListsAreStored
  <2>2. \A d \in Callers : \A i \in caller[d].found : meta'[i] = Metadata \/ i \in dropped
    <3>1. \A d \in Callers : caller[d].found \subseteq Ids
      BY <1>1 DEF CheckpointTypeOK, CallerState
    <3> QED
      BY <1>1, <1>5, <3>1 DEF ListsAreStored
  <2>3. \A d \in Callers : /\ caller'[d].todo = caller[d].todo /\ caller'[d].found = caller[d].found
                           /\ d = c \/ caller'[d] = caller[d]
    BY <1>3, <1>4
  <2> QED
    BY <1>1, <1>3, <1>4, <1>10, <2>1, <2>2, <2>3 DEF ListsAreStored, Pruning
<1>12. SavedIsLoadable'
  BY <1>1, <1>2, <1>5 DEF SavedIsLoadable
<1>13. PrunesSpareTheNewest'
  <2>1. \A i \in Ids : Doomed(i)' => Doomed(i)
    BY <1>4, <1>10 DEF Doomed, Pruning
  <2> QED
    BY <1>1, <1>5, <2>1 DEF PrunesSpareTheNewest
<1> QED
  BY <1>6, <1>8, <1>9, <1>11, <1>12, <1>13 DEF CheckpointInv

(* The three stores of a save.                                             *)
LEMMA SavesKeep ==
  ASSUME CheckpointInv, NEW c \in Callers, StoreData(c) \/ StoreTempMetadata(c) \/ StoreMetadata(c)
  PROVE  CheckpointInv'
<1>1. /\ CheckpointTypeOK /\ SavesProgress
  BY DEF CheckpointInv
<1>2. Saving(c)
  BY DEF StoreData, StoreTempMetadata, StoreMetadata, Saving
<1>3. /\ begun \in Ids /\ begun \in Nat /\ caller[c].id = begun /\ saved[begun] = Absent
      /\ caller[c].value \in Values /\ lock = c /\ caller[c] \in CallerState
      /\ \A d \in Callers \ {c} : ~Saving(d)
  BY <1>2, SaverAlone
<1>4. temp \in [Ids -> Content] /\ meta \in [Ids -> Content]
      /\ Values \subseteq Content /\ Metadata \in Content /\ Absent \in Content
  BY <1>1 DEF CheckpointTypeOK, Content
<1>5. CASE StoreData(c)
  <2>1. temp' = [temp EXCEPT ![begun] = caller[c].value] /\ meta' = meta
    BY <1>3, <1>5 DEF StoreData
  <2>2. temp' \in [Ids -> Content] /\ temp'[begun] = caller[c].value
    BY <1>3, <1>4, <2>1
  <2>3. Goes(c, [caller[c] EXCEPT !.pc = IF InFiles THEN "tempMeta" ELSE "meta"])
        /\ UNCHANGED <<backend, data, begun, lock, saved, dropped>>
    BY <1>5 DEF StoreData
  <2>4. CASE InFiles
    BY <1>2, <2>1, <2>2, <2>3, <2>4, SaveGoesOn
  <2>5. CASE ~InFiles
    BY <1>2, <2>1, <2>2, <2>3, <2>5, SaveGoesOn
  <2> QED
    BY <2>4, <2>5
<1>6. CASE StoreTempMetadata(c)
  <2>1. temp' = [temp EXCEPT ![begun] = Metadata] /\ meta' = meta /\ InFiles
    BY <1>1, <1>3, <1>6 DEF StoreTempMetadata, SavesProgress
  <2>2. temp' \in [Ids -> Content] /\ temp'[begun] = Metadata
    BY <1>3, <1>4, <2>1
  <2>3. Goes(c, [caller[c] EXCEPT !.pc = "meta"])
        /\ UNCHANGED <<backend, data, begun, lock, saved, dropped>>
    BY <1>6 DEF StoreTempMetadata
  <2> QED
    BY <1>2, <2>1, <2>2, <2>3, SaveGoesOn
<1>7. CASE StoreMetadata(c)
  <2>1. temp[begun] = IF InFiles THEN Metadata ELSE caller[c].value
    BY <1>1, <1>7 DEF StoreMetadata, SavesProgress
  <2>2. meta' = [meta EXCEPT ![begun] = Metadata]
        /\ temp' = IF InFiles THEN [temp EXCEPT ![begun] = Absent] ELSE temp
    BY <1>3, <1>7, <2>1 DEF StoreMetadata, RenameTempFile, StoreInMemory
  <2>3. /\ temp' \in [Ids -> Content] /\ meta'[begun] = Metadata
        /\ temp'[begun] = IF InFiles THEN Absent ELSE caller[c].value
    BY <1>3, <1>4, <2>1, <2>2
  <2>4. Goes(c, [caller[c] EXCEPT !.pc = "rename"])
        /\ UNCHANGED <<backend, data, begun, lock, saved, dropped>>
    BY <1>7 DEF StoreMetadata
  <2> QED
    BY <1>2, <2>2, <2>3, <2>4, SaveGoesOn
<1> QED
  BY <1>5, <1>6, <1>7

(* A new save is of a checkpoint newer than all there are.                 *)
LEMMA BeginKeeps ==
  ASSUME CheckpointInv, NEW c \in Callers, NEW value \in Values, BeginSave(c, value)
  PROVE  CheckpointInv'
<1> DEFINE s == [Returned EXCEPT !.pc = "data", !.id = begun + 1, !.value = value]
<1>1. /\ CheckpointTypeOK /\ SavesExclude /\ SavesProgress /\ ListsAreStored
      /\ SavedIsLoadable /\ PrunesSpareTheNewest
  BY DEF CheckpointInv
<1>2. /\ caller[c].pc = "idle" /\ lock = Absent /\ begun < MaxSaves
      /\ lock' = c /\ begun' = begun + 1 /\ Goes(c, s)
      /\ UNCHANGED <<backend, temp, meta, data, saved, dropped>>
  BY DEF BeginSave, storeVars
<1>3. begun \in Nat /\ begun + 1 \in Ids /\ begun + 1 \in 0 .. MaxSaves
  BY <1>1, <1>2, CheckpointAssumption DEF CheckpointTypeOK, Ids
<1>4. /\ s \in CallerState /\ s.pc = "data" /\ s.id = begun + 1 /\ s.value = value
      /\ s.kind = "save" /\ s.todo = {} /\ s.found = {}
  BY <1>3 DEF Returned, CallerState
<1> HIDE DEF s
<1>5. /\ caller' \in [Callers -> CallerState] /\ caller'[c] = s
      /\ \A d \in Callers \ {c} : caller'[d] = caller[d]
  BY <1>1, <1>2, <1>4, OneGoes
<1>6. CheckpointTypeOK'
  BY <1>1, <1>2, <1>3, <1>5 DEF CheckpointTypeOK
<1>7. \A d \in Callers : Saving(d)' => d = c
  <2>1. \A d \in Callers : ~Saving(d)
    BY <1>1, <1>2, CheckpointAssumption DEF SavesExclude
  <2> QED
    BY <1>5, <2>1 DEF Saving
<1>8. \A i \in Ids : saved[i] # Absent => i <= begun
  BY <1>1 DEF SavesExclude
<1>9. SavesExclude'
  <2>1. saved[begun + 1] = Absent
    BY <1>3, <1>8
  <2> QED
    BY <1>2, <1>3, <1>4, <1>5, <1>7, <1>8, <2>1 DEF SavesExclude, Ids
<1>10. SavesProgress'
  BY <1>4, <1>5, <1>7 DEF SavesProgress, Saving
<1>11. ListsAreStored'
  <2>1. \A i \in Ids : meta[i] \in {Metadata, Absent} /\ (meta[i] # Absent => i <= begun + 1)
    BY <1>1, <1>3 DEF ListsAreStored, Ids
  <2>2. 1 .. begun \subseteq 1 .. begun + 1
    BY <1>3
  <2> QED
    BY <1>1, <1>2, <1>4, <1>5, <2>1, <2>2 DEF ListsAreStored, Pruning
<1>12. SavedIsLoadable'
  BY <1>1, <1>2 DEF SavedIsLoadable
<1>13. PrunesSpareTheNewest'
  <2>1. \A i \in Ids : Doomed(i)' => Doomed(i)
    BY <1>2, <1>4, <1>5 DEF Doomed, Pruning
  <2>2. \A i \in Ids : i < begun => i < begun + 1
    BY <1>3 DEF Ids
  <2> QED
    BY <1>1, <1>2, <2>1, <2>2 DEF PrunesSpareTheNewest
<1> QED
  BY <1>6, <1>9, <1>10, <1>11, <1>12, <1>13 DEF CheckpointInv

(* The save ends: with FileStorage in an error, because its metadata took   *)
(* the place of its data.                                                  *)
LEMMA RenameKeeps ==
  ASSUME CheckpointInv, NEW c \in Callers, Rename(c)
  PROVE  CheckpointInv'
<1>1. /\ CheckpointTypeOK /\ SavesExclude /\ SavesProgress /\ ListsAreStored
      /\ SavedIsLoadable /\ PrunesSpareTheNewest
  BY DEF CheckpointInv
<1>2. Saving(c) /\ caller[c].pc = "rename"
  BY DEF Rename, Saving
<1>3. /\ begun \in Ids /\ begun \in Nat /\ caller[c].id = begun /\ saved[begun] = Absent
      /\ caller[c].value \in Values /\ lock = c /\ caller[c] \in CallerState
      /\ \A d \in Callers \ {c} : ~Saving(d)
  BY <1>2, SaverAlone
<1>4. /\ temp[begun] = IF InFiles THEN Absent ELSE caller[c].value
      /\ meta[begun] = Metadata \/ begun \in dropped
  BY <1>1, <1>2 DEF SavesProgress
<1>5. lock' = Absent /\ UNCHANGED <<backend, meta, begun, dropped>>
  BY DEF Rename
<1>6. CASE temp[begun] = Absent /\ Fails(c) /\ UNCHANGED <<data, temp, saved>>
  <2>1. Reads(c, [Returned EXCEPT !.pc = "failed", !.kind = caller[c].kind])
    BY <1>3 DEF Reads, Returned, CallerState
  <2> QED
    BY <1>3, <1>5, <1>6, <2>1, ReadKeeps DEF Fails, storeVars
<1>7. CASE /\ RenameKey(begun) /\ Goes(c, Returned)
           /\ saved' = [saved EXCEPT ![begun] = caller[c].value]
  <2> DEFINE value == caller[c].value
  <2>1. /\ temp[begun] = value /\ data' = [data EXCEPT ![begun] = value]
        /\ temp' = [temp EXCEPT ![begun] = Absent]
    BY <1>4, <1>7 DEF RenameKey
  <2>2. /\ temp \in [Ids -> Content] /\ data \in [Ids -> Content]
        /\ saved \in [Ids -> Values \union {Absent}]
    BY <1>1 DEF CheckpointTypeOK
  <2>3. /\ Returned \in CallerState /\ Returned.pc = "idle"
        /\ Returned.todo = {} /\ Returned.found = {}
    BY DEF Returned, CallerState
  <2>4. /\ caller' \in [Callers -> CallerState] /\ caller'[c] = Returned
        /\ \A d \in Callers \ {c} : caller'[d] = caller[d]
    BY <1>1, <1>7, <2>3, OneGoes
  <2>5. CheckpointTypeOK'
    <3>1. /\ temp' \in [Ids -> Content] /\ data' \in [Ids -> Content]
          /\ saved' \in [Ids -> Values \union {Absent}]
      BY <1>3, <1>7, <2>1, <2>2 DEF Content
    <3> QED
      BY <1>1, <1>5, <2>4, <3>1 DEF CheckpointTypeOK
  <2>6. \A d \in Callers : ~Saving(d)'
    BY <1>3, <2>3, <2>4 DEF Saving
  <2>7. SavesExclude'
    <3>1. \A i \in Ids : saved[i] # Absent => i <= begun
      BY <1>1 DEF SavesExclude
    <3>2. \A i \in Ids : saved'[i] # Absent => i <= begun
      BY <1>3, <1>7, <2>2, <3>1
    <3> QED
      BY <1>5, <2>6, <3>2 DEF SavesExclude
  <2>8. SavesProgress'
    BY <2>6 DEF SavesProgress, Saving
  <2>9. ListsAreStored'
    BY <1>1, <1>5, <2>3, <2>4 DEF ListsAreStored, Pruning
  <2>10. SavedIsLoadable'
    <3>1. data'[begun] = value /\ saved'[begun] = value
      BY <1>3, <1>7, <2>1, <2>2
    <3>2. \A i \in Ids \ {begun} : data'[i] = data[i] /\ saved'[i] = saved[i]
      BY <1>7, <2>1, <2>2
    <3> QED
      BY <1>1, <1>4, <1>5, <3>1, <3>2 DEF SavedIsLoadable
  <2>11. PrunesSpareTheNewest'
    <3> SUFFICES ASSUME KeepCount > 0
                 PROVE  /\ \A i \in Ids : Doomed(i)' => i < begun
                        /\ \E i \in Ids : meta[i] = Metadata /\ \A j \in Ids : Doomed(j)' => j < i
      BY <1>5 DEF PrunesSpareTheNewest
    <3>1. \A i \in Ids : Doomed(i) => i < begun
      BY <1>1 DEF PrunesSpareTheNewest
    <3>2. \A i \in Ids : Doomed(i)' => Doomed(i)
      BY <1>5, <2>3, <2>4 DEF Doomed, Pruning
    <3>3. meta[begun] = Metadata
      BY <1>3, <1>4, <3>1 DEF Doomed
    <3> QED
      BY <1>3, <3>1, <3>2, <3>3
  <2> QED
    BY <2>5, <2>7, <2>8, <2>9, <2>10, <2>11 DEF CheckpointInv
<1> QED
  BY <1>3, <1>6, <1>7 DEF Rename

(* A prune takes away only what is doomed already.                         *)
LEMMA DeleteKeeps ==
  ASSUME CheckpointInv, NEW c \in Callers, Delete(c) \/ DeleteMetadata(c)
  PROVE  CheckpointInv'
<1> DEFINE i == Newest(caller[c].todo)
<1>1. /\ CheckpointTypeOK /\ SavesExclude /\ SavesProgress /\ ListsAreStored
      /\ SavedIsLoadable /\ PrunesSpareTheNewest
  BY DEF CheckpointInv
<1>2. Pruning(c) /\ ~Saving(c) /\ caller[c] \in CallerState
  BY <1>1 DEF Delete, DeleteMetadata, Pruning, Saving, CheckpointTypeOK
<1>3. /\ caller[c].todo \subseteq Ids /\ caller[c].found \subseteq Ids
      /\ caller[c].todo \subseteq 1 .. begun /\ caller[c].found \subseteq 1 .. begun
      /\ \A k \in caller[c].found : meta[k] = Metadata \/ k \in dropped
  BY <1>1, <1>2 DEF ListsAreStored, CallerState
<1>4. i \in caller[c].todo /\ i \in Ids
  BY <1>1, <1>2, <1>3, NewestIsLast DEF ListsAreStored
<1>5. /\ meta \in [Ids -> Content] /\ data \in [Ids -> Content] /\ Absent \in Content
      /\ dropped \subseteq Ids
  BY <1>1 DEF CheckpointTypeOK, Content
<1>6. UNCHANGED <<backend, temp, begun, lock, saved>>
  BY DEF Delete, DeleteMetadata
<1>7. PICK s \in CallerState :
        /\ Goes(c, s)
        /\ s.todo \subseteq caller[c].todo /\ s.found \subseteq caller[c].found
        /\ \/ /\ Delete(c) /\ s.pc = "deleteMeta" /\ s.todo = caller[c].todo
           \/ /\ DeleteMetadata(c) /\ s.pc \in {"idle", "delete"}
              /\ s.pc = "delete" => s.todo # {}
  <2>1. CASE Delete(c)
    <3> DEFINE s == [caller[c] EXCEPT !.pc = "deleteMeta"]
    <3>1. /\ s \in CallerState /\ s.pc = "deleteMeta" /\ s.todo = caller[c].todo
          /\ s.found = caller[c].found
      BY <1>2 DEF CallerState
    <3> QED
      BY <2>1, <3>1 DEF Delete
  <2>2. CASE DeleteMetadata(c) /\ caller[c].todo = {i}
    <3>1. /\ Returned \in CallerState /\ Returned.pc = "idle" /\ Returned.todo = {}
          /\ Returned.found = {}
      BY DEF Returned, CallerState
    <3> QED
      BY <2>2, <3>1 DEF DeleteMetadata
  <2>3. CASE DeleteMetadata(c) /\ caller[c].todo # {i}
    <3> DEFINE s == [caller[c] EXCEPT !.pc = "delete", !.todo = caller[c].todo \ {i}]
    <3>1. /\ s \in CallerState /\ s.pc = "delete" /\ s.todo = caller[c].todo \ {i}
          /\ s.found = caller[c].found
      BY <1>2, <1>3 DEF CallerState
    <3>2. Goes(c, s)
      BY <2>3 DEF DeleteMetadata
    <3>3. s.todo # {}
      BY <1>4, <2>3, <3>1
    <3> HIDE DEF s
    <3> QED
      BY <2>3, <3>1, <3>2, <3>3
  <2> QED
    BY <2>1, <2>2, <2>3
<1>8. /\ caller' \in [Callers -> CallerState] /\ caller'[c] = s
      /\ \A d \in Callers \ {c} : caller'[d] = caller[d]
  BY <1>1, <1>7, OneGoes
<1>9. /\ dropped' \subseteq Ids /\ meta' \in [Ids -> Content] /\ data' \in [Ids -> Content]
      /\ i \in dropped' /\ dropped' \subseteq dropped \union {i} /\ dropped \subseteq dropped'
      /\ \A k \in Ids : k # i => meta'[k] = meta[k] /\ data'[k] = data[k]
      /\ meta'[i] \in {meta[i], Absent}
      /\ Delete(c) => meta' = meta
  <2>1. CASE Delete(c)
    BY <1>4, <1>5, <2>1 DEF Delete, DeleteKey
  <2>2. CASE DeleteMetadata(c)
    <3>1. i \in dropped
      BY <1>1, <2>2 DEF DeleteMetadata, ListsAreStored
    <3> QED
      BY <1>4, <1>5, <2>2, <3>1 DEF DeleteMetadata, DeleteKey, Delete
  <2> QED
    BY <2>1, <2>2
<1> HIDE DEF i
<1>10. CheckpointTypeOK'
  BY <1>1, <1>6, <1>8, <1>9 DEF CheckpointTypeOK
<1>11. \A d \in Callers : Saving(d)' => Saving(d) /\ caller'[d] = caller[d]
  BY <1>7, <1>8 DEF Saving
<1>12. SavesExclude'
  BY <1>1, <1>6, <1>11 DEF SavesExclude
<1>13. SavesProgress'
  <2>1. \A d \in Callers : Saving(d) => begun \in Ids
    BY SaverAlone
  <2> QED
    BY <1>1, <1>6, <1>7, <1>8, <1>9, <1>11, <2>1 DEF SavesProgress, Saving, InFiles
<1>14. ListsAreStored'
  <2>1. \A k \in Ids : meta'[k] \in {Metadata, Absent} /\ (meta'[k] # Absent => k <= begun)
    BY <1>1, <1>4, <1>9 DEF ListsAreStored
  <2>2. \A d \in Callers : caller[d].found \subseteq Ids
    BY <1>1 DEF CheckpointTypeOK, CallerState
  <2>3. ASSUME NEW k \in Ids, meta[k] = Metadata \/ k \in dropped
        PROVE  meta'[k] = Metadata \/ k \in dropped'
    BY <1>9, <2>3
  <2>4. ASSUME NEW d \in Callers, d # c
        PROVE  /\ caller'[d].todo \subseteq 1 .. begun /\ caller'[d].found \subseteq 1 .. begun
               /\ \A k \in caller'[d].found : meta'[k] = Metadata \/ k \in dropped'
               /\ caller'[d].pc = "load" =>
                    caller'[d].kind = "load" /\ caller'[d].id \in caller'[d].found
               /\ Pruning(d)' => caller'[d].todo # {}
               /\ caller'[d].pc = "deleteMeta" => Newest(caller'[d].todo) \in dropped'
    BY <1>1, <1>8, <1>9, <2>2, <2>3, <2>4 DEF ListsAreStored, Pruning
  <2>5. /\ s.todo \subseteq 1 .. begun /\ s.found \subseteq 1 .. begun
        /\ \A k \in s.found : meta'[k] = Metadata \/ k \in dropped'
        /\ s.pc # "load"
        /\ s.pc \in {"delete", "deleteMeta"} => s.todo # {}
        /\ s.pc = "deleteMeta" => Newest(s.todo) \in dropped'
    BY <1>3, <1>4, <1>7, <1>9, <2>3 DEF i
  <2> QED
    BY <1>6, <1>8, <2>1, <2>4, <2>5 DEF ListsAreStored, Pruning
<1>15. SavedIsLoadable'
  BY <1>1, <1>6, <1>9 DEF SavedIsLoadable
<1>16. PrunesSpareTheNewest'
  <2> SUFFICES ASSUME KeepCount > 0
               PROVE  /\ \A k \in Ids : Doomed(k)' => k < begun
                      /\ (\E k \in Ids : saved[k] # Absent) =>
                           \E k \in Ids : meta'[k] = Metadata /\ \A j \in Ids : Doomed(j)' => j < k
    BY <1>6 DEF PrunesSpareTheNewest
  <2>1. /\ \A k \in Ids : Doomed(k) => k < begun
        /\ (\E k \in Ids : saved[k] # Absent) =>
             \E k \in Ids : meta[k] = Metadata /\ \A j \in Ids : Doomed(j) => j < k
    BY <1>1 DEF PrunesSpareTheNewest
  <2>2. \A k \in Ids : Doomed(k)' => Doomed(k)
    BY <1>2, <1>4, <1>7, <1>8, <1>9 DEF Doomed, Pruning
  <2>3. Doomed(i)
    BY <1>2, <1>4 DEF Doomed
  <2>4. \A k \in Ids : ~(k < k)
    BY CheckpointAssumption DEF Ids
  <2> QED
    BY <1>4, <1>9, <2>1, <2>2, <2>3, <2>4
<1> QED
  BY <1>10, <1>12, <1>13, <1>14, <1>15, <1>16 DEF CheckpointInv

(* A crash loses what is in memory, and no call goes on.                   *)
LEMMA CrashKeeps ==
  ASSUME CheckpointInv, Crash
  PROVE  CheckpointInv'
<1>1. /\ CheckpointTypeOK /\ SavesExclude /\ ListsAreStored
      /\ SavedIsLoadable /\ PrunesSpareTheNewest
  BY DEF CheckpointInv
<1>2. /\ \A c \in Callers : caller'[c] = Returned
      /\ Returned \in CallerState /\ Returned.pc = "idle"
      /\ Returned.todo = {} /\ Returned.found = {}
  BY DEF Crash, Returned, CallerState
<1>3. /\ lock' = Absent /\ UNCHANGED <<backend, begun, dropped>>
      /\ caller' = [c \in Callers |-> Returned]
  BY DEF Crash
<1>4. \/ UNCHANGED <<temp, meta, data, saved>>
      \/ /\ temp' = NoStore /\ meta' = NoStore /\ data' = NoStore /\ saved' = NoStore
  BY DEF Crash, storeVars
<1>5. NoStore \in [Ids -> Content] /\ NoStore \in [Ids -> Values \union {Absent}]
      /\ \A i \in Ids : NoStore[i] = Absent
  BY DEF NoStore, Content
<1>6. CheckpointTypeOK'
  BY <1>1, <1>2, <1>3, <1>4, <1>5 DEF CheckpointTypeOK
<1>7. \A c \in Callers : ~Saving(c)' /\ ~Pruning(c)'
  BY <1>2 DEF Saving, Pruning
<1>8. SavesExclude' /\ SavesProgress'
  BY <1>1, <1>3, <1>4, <1>5, <1>7 DEF SavesExclude, SavesProgress, Saving
<1>9. ListsAreStored'
  BY <1>1, <1>2, <1>3, <1>4, <1>5, <1>7 DEF ListsAreStored, Pruning
<1>10. SavedIsLoadable'
  BY <1>1, <1>3, <1>4, <1>5 DEF SavedIsLoadable
<1>11. PrunesSpareTheNewest'
  <2>1. \A i \in Ids : Doomed(i)' => Doomed(i)
    BY <1>3, <1>7 DEF Doomed
  <2> QED
    BY <1>1, <1>3, <1>4, <1>5, <2>1 DEF PrunesSpareTheNewest
<1> QED
  BY <1>6, <1>8, <1>9, <1>10, <1>11 DEF CheckpointInv

(* Steps of the builder and the manager that touch no checkpoint.          *)
LEMMA CheckpointsRest ==
  ASSUME CheckpointInv, UNCHANGED checkpointVars
  PROVE  CheckpointInv'
BY DEF CheckpointInv, checkpointVars, storeVars, CheckpointTypeOK, SavesExclude, SavesProgress,
       ListsAreStored, SavedIsLoadable, PrunesSpareTheNewest, Doomed, Saving, Pruning, InFiles

(* A load that fails does so on a checkpoint that was not, or is no longer, *)
(* whole.                                                                  *)
LEMMA FailingLoad ==
  ASSUME CheckpointInv, NEW c \in Callers, caller[c].kind = "load", caller[c].pc # "failed",
         LoadFails(c) \/ \E i \in Ids : ReadMetadata(c, i) /\ meta[i] = Absent
  PROVE  LET read == IF caller[c].pc = "load" THEN {caller[c].id} ELSE caller[c].todo
         IN  \E i \in read : i \in dropped \/ saved[i] = Absent
<1>1. /\ CheckpointTypeOK /\ ListsAreStored /\ SavedIsLoadable
  BY DEF CheckpointInv
<1>2. Absent # Metadata /\ caller[c] \in CallerState
      /\ saved \in [Ids -> Values \union {Absent}]
  BY <1>1, CheckpointAssumption DEF CheckpointTypeOK
<1>3. CASE LoadFails(c)
  <2> DEFINE i == caller[c].id
  <2>1. caller[c].pc = "load" /\ i \in Ids /\ ~(meta[i] = Metadata /\ data[i] \in Values)
    BY <1>1, <1>2, <1>3 DEF LoadFails, Loads, ListsAreStored, CallerState
  <2>2. i \in dropped \/ saved[i] = Absent
    BY <1>1, <1>2, <2>1 DEF SavedIsLoadable
  <2> QED
    BY <2>1, <2>2
<1>4. ASSUME NEW i \in Ids, ReadMetadata(c, i), meta[i] = Absent
      PROVE  \E k \in caller[c].todo : k \in dropped \/ saved[k] = Absent
  BY <1>1, <1>2, <1>4 DEF ReadMetadata, SavedIsLoadable
<1> QED
  BY <1>3, <1>4 DEF ReadMetadata

-----------------------------------------------------------------------------
(* to_json gives every definition the same degrees, so doing it again      *)
(* changes nothing, and every node of the result is ready.                 *)
LEMMA SerializedDefinition ==
  ASSUME NEW d \in Definitions
  PROVE  /\ Serialized(d) \in Definitions /\ Serialized(Serialized(d)) = Serialized(d)
         /\ Serialized(d).nodes = d.nodes
         /\ ReadyNodes(Serialized(d)) = d.nodes
<1>1. /\ Serialized(d) \in Definitions /\ Serialized(d).nodes = d.nodes
      /\ Serialized(d).inDegree = [n \in NodeId |-> 0] /\ d.nodes \subseteq NodeId
  BY DEF Serialized, Definitions
<1>2. Serialized(Serialized(d)) = Serialized(d)
  BY DEF Serialized, Definitions
<1> QED
  BY <1>1, <1>2 DEF ReadyNodes

(* A new instance of a definition starts at its start nodes.               *)
LEMMA InstanceOfDefinition ==
  ASSUME Sound(definition)
  PROVE  ReadyNodes(definition) = definition.start
<1>1. definition \in Definitions /\ LinksExact(definition) /\ EndsExact(definition)
  BY DEF Sound
<1>2. definition.nodes \subseteq NodeId
  BY <1>1 DEF Definitions
<1>3. \A n \in NodeId : definition.inDegree[n] = 0 <=> definition.incoming[n] = {}
  <2>1. ASSUME NEW n \in NodeId
        PROVE  /\ definition.inDegree[n] = Cardinality(definition.incoming[n])
               /\ definition.incoming[n] \subseteq EdgeId
    BY <1>1 DEF LinksExact, Definitions
  <2> QED
    BY <2>1, LinksAreFinite, FS_EmptySet
<1> QED
  BY <1>1, <1>2, <1>3 DEF ReadyNodes, EndsExact

(* The steps of a call after its first.                                    *)
CallStep(c) == SaveStep(c) \/ ReadStep(c) \/ LoadReturns(c) \/ Abandon(c)

(* Every step that is not the beginning of a save keeps the invariant.     *)
LEMMA CallsKeep ==
  ASSUME CheckpointInv,
         \/ \E c \in Callers : CallStep(c) \/ \E kind \in {"load", "prune"} : BeginList(c, kind)
         \/ Crash \/ UNCHANGED checkpointVars
  PROVE  CheckpointInv'
BY ReadersKeep, SavesKeep, RenameKeeps, DeleteKeeps, CrashKeeps, CheckpointsRest
   DEF CallStep, SaveStep, ReadStep

(* Such a step stores nothing but what is being saved.                     *)
LEMMA CallsStore ==
  ASSUME CheckpointInv,
         \/ \E c \in Callers : CallStep(c) \/ \E kind \in {"load", "prune"} : BeginList(c, kind)
         \/ Crash \/ UNCHANGED checkpointVars
  PROVE  /\ begun' = begun
         /\ \A i \in Ids : \/ data'[i] \in {Absent, data[i]}
                           \/ \E c \in Callers : Saving(c) /\ data'[i] = caller[c].value
         /\ \A c \in Callers : Saving(c)' => Saving(c) /\ caller'[c].value = caller[c].value
<1>1. CheckpointTypeOK /\ caller \in [Callers -> CallerState] /\ data \in [Ids -> Content]
  BY DEF CheckpointInv, CheckpointTypeOK
<1>2. ASSUME NEW c \in Callers, StoreData(c) \/ StoreTempMetadata(c) \/ StoreMetadata(c)
      PROVE  /\ begun' = begun /\ data' = data
             /\ \A d \in Callers : Saving(d)' => Saving(d) /\ caller'[d].value = caller[d].value
  <2>1. PICK pc \in {"tempMeta", "meta", "rename"} : Goes(c, [caller[c] EXCEPT !.pc = pc])
    BY <1>2 DEF StoreData, StoreTempMetadata, StoreMetadata
  <2>2. caller[c] \in CallerState /\ Saving(c)
    BY <1>1, <1>2 DEF StoreData, StoreTempMetadata, StoreMetadata, Saving
  <2>3. [caller[c] EXCEPT !.pc = pc].value = caller[c].value
    BY <2>2 DEF CallerState
  <2> QED
    BY <1>1, <1>2, <2>1, <2>2, <2>3
       DEF StoreData, StoreTempMetadata, StoreMetadata, Goes, Saving
<1>3. ASSUME NEW c \in Callers, NEW s, Goes(c, s),
             s.pc \notin {"data", "tempMeta", "meta", "rename"}
      PROVE  \A d \in Callers : Saving(d)' => Saving(d) /\ caller'[d] = caller[d]
  BY <1>1, <1>3 DEF Goes, Saving
<1>4. ASSUME NEW c \in Callers, Rename(c)
      PROVE  /\ begun' = begun
             /\ \A i \in Ids : \/ data'[i] = data[i]
                               \/ \E d \in Callers : Saving(d) /\ data'[i] = caller[d].value
             /\ \A d \in Callers : Saving(d)' => Saving(d) /\ caller'[d] = caller[d]
  <2>1. Saving(c) /\ begun' = begun
    BY <1>4 DEF Rename, Saving
  <2>2. caller[c].id = begun /\ begun \in Ids
    BY <2>1, SaverAlone
  <2>3. temp[begun] \in {Absent, caller[c].value}
    BY <1>4 DEF Rename, CheckpointInv, SavesProgress
  <2>4. \A i \in Ids : data'[i] = data[i] \/ data'[i] = caller[c].value
    BY <1>1, <1>4, <2>2, <2>3 DEF Rename, RenameKey
  <2>5. \A d \in Callers : Saving(d)' => Saving(d) /\ caller'[d] = caller[d]
    BY <1>3, <1>4 DEF Rename, Fails, Returned
  <2> QED
    BY <2>1, <2>4, <2>5
<1>5. ASSUME NEW c \in Callers,
             ReadStep(c) \/ LoadReturns(c) \/ Abandon(c)
               \/ \E kind \in {"load", "prune"} : BeginList(c, kind)
      PROVE  \A d \in Callers : Saving(d)' => Saving(d) /\ caller'[d] = caller[d]
  <2>0. caller[c] \in CallerState
    BY <1>1
  <2>1. CASE \E i \in Ids : ReadMetadata(c, i)
    <3>1. PICK i \in Ids : ReadMetadata(c, i)
      BY <2>1
    <3> DEFINE s == [caller[c] EXCEPT !.todo = caller[c].todo \ {i},
                                      !.found = caller[c].found \union {i}]
    <3>2. s.pc = "read"
      BY <2>0, <3>1 DEF ReadMetadata, CallerState
    <3>3. Goes(c, s) \/ Fails(c)
      BY <3>1 DEF ReadMetadata
    <3> HIDE DEF s
    <3> QED
      BY <1>3, <3>2, <3>3 DEF Fails, Returned
  <2>2. CASE PickLatest(c) \/ PickOldest(c)
    <3> DEFINE s == [caller[c] EXCEPT !.pc = "load", !.id = Newest(caller[c].found)]
               t == [caller[c] EXCEPT !.pc = "delete",
                                      !.todo = caller[c].found \ Kept(caller[c].found)]
    <3>1. s.pc = "load" /\ t.pc = "delete" /\ Returned.pc = "idle"
      BY <2>0 DEF CallerState, Returned
    <3>2. Goes(c, s) \/ Goes(c, t) \/ Goes(c, Returned)
      BY <2>2 DEF PickLatest, PickOldest
    <3> HIDE DEF s, t
    <3> QED
      BY <1>3, <3>1, <3>2
  <2>3. CASE LoadFails(c) \/ LoadReturns(c) \/ Abandon(c)
    BY <1>3, <2>3 DEF LoadFails, LoadReturns, Abandon, Fails, Returned
  <2>4. CASE Delete(c)
    <3> DEFINE s == [caller[c] EXCEPT !.pc = "deleteMeta"]
    <3>1. s.pc = "deleteMeta" /\ Goes(c, s)
      BY <2>0, <2>4 DEF CallerState, Delete
    <3> HIDE DEF s
    <3> QED
      BY <1>3, <3>1
  <2>5. CASE DeleteMetadata(c)
    <3> DEFINE s == [caller[c] EXCEPT !.pc = "delete",
                                      !.todo = caller[c].todo \ {Newest(caller[c].todo)}]
    <3>1. s.pc = "delete" /\ Returned.pc = "idle"
      BY <2>0 DEF CallerState, Returned
    <3>2. Goes(c, s) \/ Goes(c, Returned)
      BY <2>5 DEF DeleteMetadata
    <3> HIDE DEF s
    <3> QED
      BY <1>3, <3>1, <3>2
  <2>6. ASSUME NEW kind \in {"load", "prune"}, BeginList(c, kind)
        PROVE  \A d \in Callers : Saving(d)' => Saving(d) /\ caller'[d] = caller[d]
    BY <1>3, <2>6 DEF BeginList, Returned
  <2> QED
    BY <1>5, <2>1, <2>2, <2>3, <2>4, <2>5, <2>6 DEF ReadStep
<1>6. ASSUME NEW c \in Callers,
             ReadStep(c) \/ LoadReturns(c) \/ Abandon(c)
               \/ \E kind \in {"load", "prune"} : BeginList(c, kind)
      PROVE  begun' = begun /\ \A i \in Ids : data'[i] \in {Absent, data[i]}
  BY <1>1, <1>6 DEF ReadStep, ReadMetadata, PickLatest, LoadFails, LoadReturns, PickOldest, Delete,
                    DeleteMetadata, DeleteKey, Abandon, BeginList, storeVars
<1>7. CASE Crash
  <2>1. begun' = begun /\ \A i \in Ids : data'[i] \in {Absent, data[i]}
    BY <1>7 DEF Crash, storeVars, NoStore
  <2>2. \A d \in Callers : ~Saving(d)'
    BY <1>7 DEF Crash, Saving, Returned
  <2> QED
    BY <2>1, <2>2
<1>8. CASE UNCHANGED checkpointVars
  BY <1>8 DEF checkpointVars, storeVars, Saving
<1> QED
  BY <1>2, <1>4, <1>5, <1>6, <1>7, <1>8 DEF CallStep, SaveStep

(* No call becomes a load, and no load finds what it has not listed.       *)
LEMMA LoadsRest ==
  ASSUME CheckpointInv,
         \/ \E c \in Callers : CallStep(c) \/ BeginList(c, "prune")
         \/ \E c \in Callers, value \in Values : BeginSave(c, value)
         \/ Crash \/ UNCHANGED checkpointVars
  PROVE  \A c \in Callers :
           caller'[c].kind = "load" /\ ~(caller'[c].todo = {} /\ caller'[c].found = {})
             => caller[c].kind = "load" /\ ~(caller[c].todo = {} /\ caller[c].found = {})
<1>1. caller \in [Callers -> CallerState]
  BY DEF CheckpointInv, CheckpointTypeOK
<1> DEFINE Found(s) == s.kind = "load" /\ ~(s.todo = {} /\ s.found = {})
<1>2. ASSUME NEW c \in Callers, NEW s, Goes(c, s), Found(s) => Found(caller[c])
      PROVE  \A d \in Callers : Found(caller'[d]) => Found(caller[d])
  BY <1>1, <1>2 DEF Goes
<1>3. ASSUME NEW c \in Callers, CallStep(c) \/ BeginList(c, "prune")
                                  \/ \E value \in Values : BeginSave(c, value)
      PROVE  \A d \in Callers : Found(caller'[d]) => Found(caller[d])
  <2>0. caller[c] \in CallerState /\ CheckpointTypeOK /\ ListsAreStored
    BY <1>1 DEF CheckpointInv
  <2>1. CASE StoreData(c) \/ StoreTempMetadata(c) \/ StoreMetadata(c)
    <3>1. PICK pc \in {"tempMeta", "meta", "rename"} : Goes(c, [caller[c] EXCEPT !.pc = pc])
      BY <2>1 DEF StoreData, StoreTempMetadata, StoreMetadata
    <3> DEFINE s == [caller[c] EXCEPT !.pc = pc]
    <3>2. s.kind = caller[c].kind /\ s.todo = caller[c].todo /\ s.found = caller[c].found
      BY <2>0 DEF CallerState
    <3>3. Goes(c, s)
      BY <3>1
    <3> HIDE DEF s
    <3> QED
      BY <1>2, <3>2, <3>3
  <2>2. Found(Returned) = FALSE
        /\ Found([Returned EXCEPT !.pc = "failed", !.kind = caller[c].kind]) = FALSE
    BY DEF Returned
  <2>3. CASE Rename(c) \/ LoadFails(c) \/ LoadReturns(c) \/ Abandon(c)
    <3>1. Goes(c, Returned) \/ Fails(c)
      BY <2>3 DEF Rename, LoadFails, LoadReturns, Abandon
    <3> QED
      BY <1>2, <2>2, <3>1 DEF Fails
  <2>4. CASE \E i \in Ids : ReadMetadata(c, i)
    <3>1. PICK i \in Ids : ReadMetadata(c, i)
      BY <2>4
    <3> DEFINE s == [caller[c] EXCEPT !.todo = caller[c].todo \ {i},
                                      !.found = caller[c].found \union {i}]
    <3>2. s.kind = caller[c].kind /\ i \in caller[c].todo
      BY <2>0, <3>1 DEF ReadMetadata, CallerState
    <3>3. Goes(c, s) \/ Fails(c)
      BY <3>1 DEF ReadMetadata
    <3> HIDE DEF s
    <3>4. CASE Fails(c)
      BY <1>2, <2>2, <3>4 DEF Fails
    <3>5. CASE Goes(c, s)
      BY <1>2, <3>2, <3>5
    <3> QED
      BY <3>3, <3>4, <3>5
  <2>5. CASE PickLatest(c)
    <3> DEFINE s == [caller[c] EXCEPT !.pc = "load", !.id = Newest(caller[c].found)]
    <3>1. s.kind = caller[c].kind /\ s.todo = caller[c].todo /\ s.found = caller[c].found
      BY <2>0 DEF CallerState
    <3>2. Goes(c, s) \/ Goes(c, Returned)
      BY <2>5 DEF PickLatest
    <3> HIDE DEF s
    <3>3. CASE Goes(c, Returned)
      BY <1>2, <2>2, <3>3
    <3>4. CASE Goes(c, s)
      BY <1>2, <3>1, <3>4
    <3> QED
      BY <3>2, <3>3, <3>4
  <2>6. CASE PickOldest(c)
    <3> DEFINE s == [caller[c] EXCEPT !.pc = "delete",
                                      !.todo = caller[c].found \ Kept(caller[c].found)]
    <3>1. s.kind = "prune"
      BY <2>0, <2>6 DEF CallerState, PickOldest
    <3>2. Goes(c, s) \/ Goes(c, Returned)
      BY <2>6 DEF PickOldest
    <3> HIDE DEF s
    <3>3. CASE Goes(c, Returned)
      BY <1>2, <2>2, <3>3
    <3>4. CASE Goes(c, s)
      BY <1>2, <3>1, <3>4
    <3> QED
      BY <3>2, <3>3, <3>4
  <2>7. CASE Delete(c)
    <3> DEFINE s == [caller[c] EXCEPT !.pc = "deleteMeta"]
    <3>1. s.kind = caller[c].kind /\ s.todo = caller[c].todo /\ s.found = caller[c].found
      BY <2>0 DEF CallerState
    <3>2. Goes(c, s)
      BY <2>7 DEF Delete
    <3> HIDE DEF s
    <3> QED
      BY <1>2, <3>1, <3>2
  <2>8. CASE DeleteMetadata(c)
    <3> DEFINE s == [caller[c] EXCEPT !.pc = "delete",
                                      !.todo = caller[c].todo \ {Newest(caller[c].todo)}]
    <3>1. s.kind = caller[c].kind /\ caller[c].todo # {}
      BY <2>0, <2>8 DEF CallerState, DeleteMetadata, ListsAreStored, Pruning
    <3>2. Goes(c, s) \/ Goes(c, Returned)
      BY <2>8 DEF DeleteMetadata
    <3> HIDE DEF s
    <3>3. CASE Goes(c, Returned)
      BY <1>2, <2>2, <3>3
    <3>4. CASE Goes(c, s)
      BY <1>2, <3>1, <3>4
    <3> QED
      BY <3>2, <3>3, <3>4
  <2>9. CASE BeginList(c, "prune")
    <3> DEFINE s == [Returned EXCEPT !.pc = "read", !.kind = "prune", !.todo = Listed]
    <3>1. s.kind = "prune" /\ Goes(c, s)
      BY <2>9 DEF BeginList, Returned
    <3> HIDE DEF s
    <3> QED
      BY <1>2, <3>1
  <2>10. ASSUME NEW value \in Values, BeginSave(c, value)
         PROVE  \A d \in Callers : Found(caller'[d]) => Found(caller[d])
    <3> DEFINE s == [Returned EXCEPT !.pc = "data", !.id = begun + 1, !.value = value]
    <3>1. s.kind = "save" /\ Goes(c, s)
      BY <2>10 DEF BeginSave, Returned
    <3> HIDE DEF s
    <3> QED
      BY <1>2, <3>1
  <2> QED
    BY <1>3, <2>1, <2>3, <2>4, <2>5, <2>6, <2>7, <2>8, <2>9, <2>10 DEF CallStep, SaveStep, ReadStep
<1>4. CASE Crash
  BY <1>4 DEF Crash, Returned
<1>5. CASE UNCHANGED checkpointVars
  BY <1>5 DEF checkpointVars
<1> QED
  BY <1>2, <1>3, <1>4, <1>5

-----------------------------------------------------------------------------
(* What is stored, or about to be, stays what the definition serializes to: *)
(* nobody edits the definition any more.                                   *)
LEMMA SavedStays ==
  ASSUME CheckpointInv, SavedIsDefinition, definition' = definition, built' = built,
         \/ \E c \in Callers : CallStep(c) \/ \E kind \in {"load", "prune"} : BeginList(c, kind)
         \/ Crash \/ UNCHANGED checkpointVars
  PROVE  SavedIsDefinition'
<1>1. /\ begun' = begun
      /\ \A i \in Ids : \/ data'[i] \in {Absent, data[i]}
                        \/ \E c \in Callers : Saving(c) /\ data'[i] = caller[c].value
      /\ \A c \in Callers : Saving(c)' => Saving(c) /\ caller'[c].value = caller[c].value
  BY CallsStore
<1> QED
  BY <1>1 DEF SavedIsDefinition

(* save_checkpoint of a value, or its refusal.                             *)
LEMMA SaveStored ==
  ASSUME CheckpointInv, NEW c \in Callers, NEW value \in Values, Save(c, value)
  PROVE  /\ CheckpointInv' /\ data' = data
         /\ \A d \in Callers : Saving(d)' =>
              \/ Saving(d) /\ caller'[d].value = caller[d].value
              \/ caller'[d].value = value
         /\ \A d \in Callers :
              caller'[d].kind = "load" /\ ~(caller'[d].todo = {} /\ caller'[d].found = {})
                => caller[d].kind = "load" /\ ~(caller[d].todo = {} /\ caller[d].found = {})
<1>1. caller \in [Callers -> CallerState]
  BY DEF CheckpointInv, CheckpointTypeOK
<1>2. CASE BeginSave(c, value)
  <2> DEFINE s == [Returned EXCEPT !.pc = "data", !.id = begun + 1, !.value = value]
  <2>1. s.value = value /\ Goes(c, s)
    BY <1>2 DEF BeginSave, Returned
  <2> HIDE DEF s
  <2>2. \A d \in Callers : caller'[d] = IF d = c THEN s ELSE caller[d]
    BY <1>1, <2>1 DEF Goes
  <2>3. \A d \in Callers : Saving(d)' =>
          \/ Saving(d) /\ caller'[d].value = caller[d].value
          \/ caller'[d].value = value
    BY <2>1, <2>2 DEF Saving
  <2>4. data' = data
    BY <1>2 DEF BeginSave, storeVars
  <2> QED
    BY <1>2, <2>3, <2>4, BeginKeeps, LoadsRest
<1>3. CASE UNCHANGED checkpointVars
  <2>1. data' = data /\ caller' = caller
    BY <1>3 DEF checkpointVars, storeVars
  <2> QED
    BY <1>3, <2>1, CheckpointsRest DEF Saving
<1> QED
  BY <1>2, <1>3 DEF Save

(* The initial state.                                                      *)
LEMMA InitIInv == PersistenceInit => IInv
<1> SUFFICES ASSUME PersistenceInit PROVE IInv
  OBVIOUS
<1>1. DefinitionSound
  BY EmptySound DEF PersistenceInit, Init, DefinitionSound, Sound
<1>2. CheckpointInv
  BY InitCheckpoint DEF PersistenceInit
<1>3. begun = 0 /\ (\A i \in Ids : data[i] = Absent) /\ \A c \in Callers : ~Saving(c)
  BY DEF PersistenceInit, CheckpointInit, NoStore, Saving, Returned
<1>4. SavedIsDefinition
  BY <1>3 DEF SavedIsDefinition
<1>5. CacheIsDefinition /\ OriginalIsNotLoaded
  BY DEF PersistenceInit, CacheIsDefinition, OriginalIsNotLoaded
<1> QED
  BY <1>1, <1>2, <1>4, <1>5 DEF IInv

(* A builder has nothing stored yet that its edits could contradict.       *)
LEMMA EditStep ==
  ASSUME IInv, Edit
  PROVE  IInv'
<1>1. /\ ~built /\ Next /\ UNCHANGED checkpointVars
      /\ built' = built /\ cache' = cache /\ loaded' = loaded /\ instance' = instance
      /\ data' = data /\ begun' = begun /\ caller' = caller
  BY DEF Edit, checkpointVars, storeVars, managerVars
<1>2. DefinitionSound'
  <2>1. Sound(definition)
    BY DEF IInv, DefinitionSound, Sound
  <2>2. Sound(definition')
    BY <1>1, <2>1, EditKeeps
  <2> QED
    BY <2>2 DEF DefinitionSound, Sound
<1>3. CheckpointInv'
  BY <1>1, CheckpointsRest DEF IInv
<1>4. begun = 0 /\ (\A i \in Ids : data[i] = Absent) /\ \A c \in Callers : ~Saving(c)
  BY <1>1 DEF IInv, SavedIsDefinition
<1>5. SavedIsDefinition'
  BY <1>1, <1>4 DEF SavedIsDefinition, Saving
<1>6. cache = Absent /\ ~loaded /\ instance = Absent
  BY <1>1 DEF IInv, CacheIsDefinition
<1>7. CacheIsDefinition' /\ OriginalIsNotLoaded'
  BY <1>1, <1>6 DEF CacheIsDefinition, OriginalIsNotLoaded
<1> QED
  BY <1>2, <1>3, <1>5, <1>7 DEF IInv

(* Whatever is saved is the one definition, serialized.                    *)
LEMMA SavingStep ==
  ASSUME Definitions \subseteq Values, IInv, NEW c \in Callers,
         CreateInstance(c) \/ CreateFromLoaded(c) \/ CheckpointInstance(c)
  PROVE  IInv'
<1>1. /\ definition \in Definitions /\ CheckpointInv /\ SavedIsDefinition
      /\ CacheIsDefinition /\ OriginalIsNotLoaded /\ definition' = definition
  BY DEF IInv, DefinitionSound, CreateInstance, CreateFromLoaded, CheckpointInstance
<1>2. /\ Serialized(definition) \in Values
      /\ Serialized(Serialized(definition)) = Serialized(definition)
  BY <1>1, SerializedDefinition
<1>3. DefinitionSound'
  BY <1>1 DEF IInv, DefinitionSound
<1>4. built' /\ (~CreateInstance(c) => built)
  BY <1>1 DEF CreateInstance, CreateFromLoaded, CheckpointInstance, CacheIsDefinition, managerVars
<1>5. Save(c, Serialized(definition))
  <2>1. CASE CreateInstance(c)
    BY <2>1 DEF CreateInstance
  <2>2. CASE CreateFromLoaded(c)
    <3>1. Save(c, Serialized(cache)) /\ cache = Serialized(definition)
      BY <1>1, <2>2 DEF CreateFromLoaded, CacheIsDefinition
    <3> QED
      BY <1>2, <3>1
  <2>3. CASE CheckpointInstance(c)
    <3>1. Save(c, Serialized(cache)) /\ cache \in {definition, Serialized(definition)}
      BY <1>1, <2>3 DEF CheckpointInstance, CacheIsDefinition
    <3> QED
      BY <1>2, <3>1
  <2> QED
    BY <2>1, <2>2, <2>3
<1>6. /\ CheckpointInv' /\ data' = data
      /\ \A d \in Callers : Saving(d)' =>
           \/ Saving(d) /\ caller'[d].value = caller[d].value
           \/ caller'[d].value = Serialized(definition)
      /\ \A d \in Callers :
           caller'[d].kind = "load" /\ ~(caller'[d].todo = {} /\ caller'[d].found = {})
             => caller[d].kind = "load" /\ ~(caller[d].todo = {} /\ caller[d].found = {})
  BY <1>1, <1>2, <1>5, SaveStored
<1>7. SavedIsDefinition'
  BY <1>1, <1>4, <1>6 DEF SavedIsDefinition
<1>8. CASE CreateInstance(c)
  <2>1. ~built /\ cache' = definition /\ ~loaded' /\ instance' = ReadyNodes(definition)
    BY <1>8 DEF CreateInstance
  <2>2. CacheIsDefinition'
    <3>1. definition # Absent
      BY <1>1, CheckpointAssumption
    <3> QED
      BY <1>1, <1>4, <2>1, <3>1 DEF CacheIsDefinition, ReadyNodes
  <2>3. \A d \in Callers : caller[d].todo = {} /\ caller[d].found = {}
    <3>1. begun = 0 /\ ListsAreStored
      BY <1>1, <2>1 DEF SavedIsDefinition, CheckpointInv
    <3> QED
      BY <3>1 DEF ListsAreStored
  <2>4. OriginalIsNotLoaded'
    BY <1>6, <2>3 DEF OriginalIsNotLoaded
  <2> QED
    BY <1>3, <1>6, <1>7, <2>2, <2>4 DEF IInv
<1>9. CASE CreateFromLoaded(c) \/ CheckpointInstance(c)
  <2>1. /\ built' = built /\ cache' = cache /\ loaded' = loaded
        /\ instance' = instance \/ (loaded /\ instance' = ReadyNodes(cache))
    BY <1>9 DEF CreateFromLoaded, CheckpointInstance, managerVars
  <2>2. CacheIsDefinition'
    BY <1>1, <2>1 DEF CacheIsDefinition, ReadyNodes
  <2>3. OriginalIsNotLoaded'
    BY <1>1, <1>6, <2>1 DEF OriginalIsNotLoaded
  <2> QED
    BY <1>3, <1>6, <1>7, <2>2, <2>3 DEF IInv
<1> QED
  BY <1>8, <1>9

(* A load gives the definition back without its degrees. The manager that  *)
(* has the definition itself gets none back, because it does not ask.      *)
LEMMA LoadedStep ==
  ASSUME IInv, NEW c \in Callers, DefinitionLoaded(c)
  PROVE  IInv'
<1> DEFINE i == caller[c].id
<1>1. /\ CheckpointInv /\ SavedIsDefinition /\ CacheIsDefinition /\ OriginalIsNotLoaded
      /\ LoadReturns(c) /\ Loads(c, i) /\ cache' = data[i] /\ loaded' = TRUE
      /\ definition' = definition /\ built' = built /\ instance' = instance
  BY DEF IInv, DefinitionLoaded, LoadReturns
<1>2. DefinitionSound'
  BY <1>1 DEF IInv, DefinitionSound
<1>3. CheckpointInv'
  BY <1>1, CallsKeep DEF CallStep
<1>4. SavedIsDefinition'
  BY <1>1, SavedStays DEF CallStep
<1>5. i \in Ids /\ caller[c].kind = "load" /\ i \in caller[c].found
  BY <1>1 DEF Loads, CheckpointInv, ListsAreStored, CheckpointTypeOK, CallerState
<1>6. cache' # Absent /\ built /\ cache' = Serialized(definition)
  BY <1>1, <1>5, CheckpointAssumption DEF Loads, SavedIsDefinition
<1>7. cache # Absent => loaded
  BY <1>1, <1>5 DEF OriginalIsNotLoaded
<1>8. instance # Absent => instance = ReadyNodes(Serialized(definition))
  BY <1>1, <1>7 DEF CacheIsDefinition
<1>9. CacheIsDefinition'
  BY <1>1, <1>6, <1>8 DEF CacheIsDefinition, ReadyNodes
<1>10. OriginalIsNotLoaded'
  BY <1>1 DEF OriginalIsNotLoaded
<1> QED
  BY <1>2, <1>3, <1>4, <1>9, <1>10 DEF IInv

(* The steps of calls, with the manager and the definition as they are.    *)
LEMMA CallsStep ==
  ASSUME IInv, definition' = definition, UNCHANGED managerVars,
         \/ \E c \in Callers : CallStep(c) \/ BeginList(c, "prune")
         \/ \E c \in Callers : BeginList(c, "load") /\ cache = Absent
         \/ UNCHANGED checkpointVars
  PROVE  IInv'
<1>1. /\ CheckpointInv /\ SavedIsDefinition /\ CacheIsDefinition /\ OriginalIsNotLoaded
      /\ built' = built /\ cache' = cache /\ loaded' = loaded /\ instance' = instance
  BY DEF IInv, managerVars
<1>2. DefinitionSound' /\ CacheIsDefinition'
  BY <1>1 DEF IInv, DefinitionSound, CacheIsDefinition, ReadyNodes
<1>3. CheckpointInv' /\ SavedIsDefinition'
  BY <1>1, CallsKeep, SavedStays
<1>4. OriginalIsNotLoaded'
  <2>1. CASE cache = Absent
    BY <1>1, <2>1 DEF OriginalIsNotLoaded
  <2>2. CASE cache # Absent
    <3>1. \A c \in Callers :
            caller'[c].kind = "load" /\ ~(caller'[c].todo = {} /\ caller'[c].found = {})
              => caller[c].kind = "load" /\ ~(caller[c].todo = {} /\ caller[c].found = {})
      BY <1>1, <2>2, LoadsRest
    <3> QED
      BY <1>1, <3>1 DEF OriginalIsNotLoaded
  <2> QED
    BY <2>1, <2>2
<1> QED
  BY <1>2, <1>3, <1>4 DEF IInv

(* A new manager, in this process or after a crash.                        *)
LEMMA RestartStep ==
  ASSUME IInv, Restart, Crash \/ UNCHANGED checkpointVars
  PROVE  IInv'
<1>1. /\ CheckpointInv /\ SavedIsDefinition /\ built' = built /\ definition' = definition
      /\ cache' = Absent /\ loaded' = FALSE /\ instance' = Absent
  BY DEF IInv, Restart
<1>2. CheckpointInv' /\ SavedIsDefinition'
  BY <1>1, CallsKeep, SavedStays
<1>3. DefinitionSound' /\ CacheIsDefinition' /\ OriginalIsNotLoaded'
  BY <1>1 DEF IInv, DefinitionSound, CacheIsDefinition, OriginalIsNotLoaded
<1> QED
  BY <1>2, <1>3 DEF IInv

(* All steps.                                                              *)
LEMMA StepIInv ==
  ASSUME Definitions \subseteq Values, IInv, [PersistenceNext]_vars
  PROVE  IInv'
<1>1. ASSUME NEW c \in Callers, LoadDefinition(c)
      PROVE  IInv'
  BY <1>1, CallsStep DEF LoadDefinition
<1>2. ASSUME NEW c \in Callers, Prune(c)
      PROVE  IInv'
  BY <1>2, CallsStep DEF Prune
<1>3. ASSUME NEW c \in Callers,
             (SaveStep(c) \/ ReadStep(c) \/ Abandon(c)) /\ UNCHANGED <<definition, managerVars>>
      PROVE  IInv'
  <2>1. CallStep(c) /\ definition' = definition /\ UNCHANGED managerVars
    BY <1>3 DEF CallStep
  <2> QED
    BY <2>1, CallsStep
<1>4. CASE ProcessCrash \/ NewManager
  BY <1>4, RestartStep DEF ProcessCrash, NewManager
<1>5. CASE UNCHANGED vars
  BY <1>5, CallsStep DEF vars
<1> QED
  BY <1>1, <1>2, <1>3, <1>4, <1>5, EditStep, SavingStep, LoadedStep DEF PersistenceNext

(* No other step fails a load.                                             *)
LEMMA OnlyLoadsFail ==
  ASSUME CheckpointInv, PersistenceNext, NEW c \in Callers,
         caller[c].kind = "load", caller[c].pc # "failed", caller'[c].pc = "failed"
  PROVE  LoadFails(c) \/ \E i \in Ids : ReadMetadata(c, i) /\ meta[i] = Absent
<1>1. CheckpointTypeOK /\ SavesExclude /\ caller \in [Callers -> CallerState]
  BY DEF CheckpointInv, CheckpointTypeOK
<1>2. ASSUME NEW d \in Callers, NEW s, Goes(d, s), s.pc # "failed"
      PROVE  FALSE
  BY <1>1, <1>2 DEF Goes
<1>3. ASSUME NEW d \in Callers, NEW s, Goes(d, s)
      PROVE  d = c
  BY <1>1, <1>3 DEF Goes
<1>4. ASSUME NEW d \in Callers, Goes(d, Returned)
      PROVE  FALSE
  BY <1>2, <1>4 DEF Returned
<1>5. ASSUME NEW d \in Callers, NEW value, BeginSave(d, value)
      PROVE  FALSE
  <2> DEFINE s == [Returned EXCEPT !.pc = "data", !.id = begun + 1, !.value = value]
  <2>1. s.pc = "data" /\ Goes(d, s)
    BY <1>5 DEF BeginSave, Returned
  <2> HIDE DEF s
  <2> QED
    BY <1>2, <2>1
<1>6. ASSUME NEW d \in Callers, NEW kind, BeginList(d, kind)
      PROVE  FALSE
  <2> DEFINE s == [Returned EXCEPT !.pc = "read", !.kind = kind, !.todo = Listed]
  <2>1. s.pc = "read" /\ Goes(d, s)
    BY <1>6 DEF BeginList, Returned
  <2> HIDE DEF s
  <2> QED
    BY <1>2, <2>1
<1>7. caller' # caller
  OBVIOUS
<1>8. ASSUME NEW d \in Callers, CreateInstance(d) \/ CreateFromLoaded(d) \/ CheckpointInstance(d)
      PROVE  FALSE
  <2>1. PICK value : Save(d, value)
    BY <1>8 DEF CreateInstance, CreateFromLoaded, CheckpointInstance
  <2> QED
    BY <1>5, <1>7, <2>1 DEF Save, checkpointVars
<1>9. ASSUME NEW d \in Callers,
             LoadDefinition(d) \/ Prune(d) \/ DefinitionLoaded(d) \/ Abandon(d)
      PROVE  FALSE
  BY <1>4, <1>6, <1>9 DEF LoadDefinition, Prune, DefinitionLoaded, LoadReturns, Abandon
<1>10. ASSUME NEW d \in Callers, StoreData(d) \/ StoreTempMetadata(d) \/ StoreMetadata(d)
       PROVE  FALSE
  <2>1. PICK pc \in {"tempMeta", "meta", "rename"} : Goes(d, [caller[d] EXCEPT !.pc = pc])
    BY <1>10 DEF StoreData, StoreTempMetadata, StoreMetadata
  <2> DEFINE s == [caller[d] EXCEPT !.pc = pc]
  <2>2. s.pc = pc /\ Goes(d, s)
    BY <1>1, <2>1 DEF CallerState
  <2> HIDE DEF s
  <2> QED
    BY <1>2, <2>2
<1>11. ASSUME NEW d \in Callers, Rename(d)
       PROVE  FALSE
  <2>1. Goes(d, Returned) \/ Fails(d)
    BY <1>11 DEF Rename
  <2>2. d = c
    BY <1>3, <2>1 DEF Fails
  <2>3. caller[d].kind = "save"
    BY <1>1, <1>11 DEF Rename, SavesExclude, Saving
  <2> QED
    BY <2>2, <2>3
<1>12. ASSUME NEW d \in Callers, PickLatest(d) \/ PickOldest(d) \/ Delete(d) \/ DeleteMetadata(d)
       PROVE  FALSE
  <2>0. caller[d] \in CallerState
    BY <1>1
  <2>1. ASSUME NEW id, Goes(d, [caller[d] EXCEPT !.pc = "load", !.id = id])
        PROVE  FALSE
    <3> DEFINE s == [caller[d] EXCEPT !.pc = "load", !.id = id]
    <3>1. s.pc = "load" /\ Goes(d, s)
      BY <2>0, <2>1 DEF CallerState
    <3> HIDE DEF s
    <3> QED
      BY <1>2, <3>1
  <2>2. ASSUME NEW todo, Goes(d, [caller[d] EXCEPT !.pc = "delete", !.todo = todo])
        PROVE  FALSE
    <3> DEFINE s == [caller[d] EXCEPT !.pc = "delete", !.todo = todo]
    <3>1. s.pc = "delete" /\ Goes(d, s)
      BY <2>0, <2>2 DEF CallerState
    <3> HIDE DEF s
    <3> QED
      BY <1>2, <3>1
  <2>3. ASSUME Goes(d, [caller[d] EXCEPT !.pc = "deleteMeta"])
        PROVE  FALSE
    <3> DEFINE s == [caller[d] EXCEPT !.pc = "deleteMeta"]
    <3>1. s.pc = "deleteMeta" /\ Goes(d, s)
      BY <2>0, <2>3 DEF CallerState
    <3> HIDE DEF s
    <3> QED
      BY <1>2, <3>1
  <2> DEFINE old == caller[d].found \ Kept(caller[d].found)
             left == caller[d].todo \ {Newest(caller[d].todo)}
             latest == [caller[d] EXCEPT !.pc = "load", !.id = Newest(caller[d].found)]
             oldest == [caller[d] EXCEPT !.pc = "delete", !.todo = old]
             next == [caller[d] EXCEPT !.pc = "delete", !.todo = left]
  <2>4. /\ PickLatest(d) => Goes(d, Returned) \/ Goes(d, latest)
        /\ PickOldest(d) => Goes(d, Returned) \/ Goes(d, oldest)
        /\ DeleteMetadata(d) => Goes(d, Returned) \/ Goes(d, next)
    BY DEF PickLatest, PickOldest, DeleteMetadata
  <2>5. Delete(d) => Goes(d, [caller[d] EXCEPT !.pc = "deleteMeta"])
    BY DEF Delete
  <2>6. ~Goes(d, latest) /\ ~Goes(d, oldest) /\ ~Goes(d, next)
    <3> HIDE DEF old, left
    <3> QED
      BY <2>1, <2>2
  <2> HIDE DEF latest, oldest, next
  <2> QED
    BY <1>4, <1>12, <2>3, <2>4, <2>5, <2>6
<1>13. ASSUME NEW d \in Callers, NEW i \in Ids, ReadMetadata(d, i)
       PROVE  d = c /\ meta[i] = Absent
  <2> DEFINE s == [caller[d] EXCEPT !.todo = caller[d].todo \ {i},
                                    !.found = caller[d].found \union {i}]
  <2>1. s.pc = "read"
    BY <1>1, <1>13 DEF ReadMetadata, CallerState
  <2>2. IF meta[i] = Absent THEN Fails(d) ELSE Goes(d, s)
    BY <1>13 DEF ReadMetadata
  <2> HIDE DEF s
  <2> QED
    BY <1>2, <1>3, <2>1, <2>2 DEF Fails
<1>14. ASSUME NEW d \in Callers, LoadFails(d)
       PROVE  d = c
  BY <1>3, <1>14 DEF LoadFails, Fails
<1>15. ~Crash
  BY DEF Crash, Returned
<1>16. ~(Edit \/ NewManager)
  BY <1>7 DEF Edit, NewManager, checkpointVars
<1>17. PICK d \in Callers : SaveStep(d) \/ ReadStep(d)
  BY <1>8, <1>9, <1>15, <1>16 DEF PersistenceNext, ProcessCrash
<1> QED
  BY <1>10, <1>11, <1>12, <1>13, <1>14, <1>17 DEF SaveStep, ReadStep

-----------------------------------------------------------------------------
(* The inductive invariant. Saves exclude each other and save the newest   *)
(* checkpoint; what one has stored so far only a prune takes away; a prune *)
(* spares something newer than all it deletes; what is stored is the       *)
(* definition as it was given away, and so is what is in the cache.        *)
THEOREM PersistenceInvariant ==
  ASSUME Definitions \subseteq Values
  PROVE  PersistenceSpec => []IInv
<1>1. PersistenceInit => IInv
  BY InitIInv
<1>2. IInv /\ [PersistenceNext]_vars => IInv'
  BY StepIInv
<1> QED
  BY <1>1, <1>2, PTL DEF PersistenceSpec

(* After any sequence of edits, refused edges and removals of nodes with   *)
(* all their edges included, the map of edges, the edges each node lists,  *)
(* the in-degrees and the sets of start and end nodes describe one graph   *)
(* without cycles (definition.rs, add_node to remove_edge).                *)
THEOREM DefinitionStaysSound ==
  ASSUME Definitions \subseteq Values
  PROVE  PersistenceSpec => []DefinitionSound
<1>1. IInv => DefinitionSound
  BY DEF IInv
<1> QED
  BY <1>1, PersistenceInvariant, PTL

(* After every edit has_cycle finds a cycle exactly when the edge that may  *)
(* be added closes one, and get_topological_order gives every node after   *)
(* those before it and never counts a degree below 0, in whatever order    *)
(* their loops go; in a definition that was loaded it does, as soon as     *)
(* there is an edge (definition.rs, has_cycle, get_topological_order).      *)
THEOREM EditsStaySound ==
  ASSUME Definitions \subseteq Values
  PROVE  PersistenceSpec => []EditsSound
<1>1. IInv => EditsSound
  <2> SUFFICES ASSUME IInv PROVE EditsSound
    OBVIOUS
  <2>1. /\ DefinitionSound /\ definition \in Definitions /\ LinksExact(definition)
        /\ EndsExact(definition) /\ ~HasCycle(definition.edges)
    BY DEF IInv, DefinitionSound
  <2>2. SearchesExact
    <3>1. ASSUME NEW e \in EdgeId, CanAddEdge(e)
          PROVE  SearchFindsCycle(WithEdge(definition, e)) <=> HasCycle(WithEdge(definition, e).edges)
      <4>1. PICK more : more = WithEdge(definition, e)
        OBVIOUS
      <4>2. more \in Definitions /\ LinksExact(more)
        BY <2>1, <3>1, <4>1, EdgeAdded DEF CanAddEdge
      <4> QED
        BY <4>1, <4>2, SearchIsRight
    <3>2. \A result \in TopologicalOrders(definition) :
            IsTopological(definition, result.order) /\ ~result.below
      BY <2>1, OrdersRight
    <3> QED
      BY <3>1, <3>2 DEF SearchesExact
  <2>3. ASSUME loaded, NEW result \in TopologicalOrders(cache)
        PROVE  result.below <=> cache.edges # {}
    <3>1. cache = Serialized(definition)
      BY <2>3 DEF IInv, CacheIsDefinition
    <3>2. /\ cache \in Definitions /\ cache.inDegree = [n \in NodeId |-> 0]
          /\ cache.nodes = definition.nodes /\ cache.edges = definition.edges
          /\ cache.outgoing = definition.outgoing
      BY <2>1, <3>1, SerializedDefinition DEF Serialized, Definitions
    <3>3. result.below <=> \E n \in cache.nodes : Leads(cache, n)
      BY <2>3, <3>2, LoadedOrders
    <3>4. ASSUME NEW e \in cache.edges PROVE \E n \in cache.nodes : Leads(cache, n)
      <4>1. /\ Source[e] \in cache.nodes /\ Target[e] \in cache.nodes /\ Source[e] \in NodeId
            /\ e \in cache.outgoing[Source[e]]
        BY <2>1, <3>2 DEF LinksExact, Definitions
      <4>2. e \in Edges(cache, Source[e], Target[e])
        BY <4>1 DEF Edges
      <4> QED
        BY <4>1, <4>2 DEF Leads
    <3>5. ASSUME NEW n \in cache.nodes, Leads(cache, n) PROVE cache.edges # {}
      BY <2>1, <3>2, <3>5 DEF Leads, Edges, LinksExact, Definitions
    <3> QED
      BY <3>3, <3>4, <3>5
  <2> QED
    BY <2>1, <2>2, <2>3 DEF EditsSound
<1> QED
  BY <1>1, PersistenceInvariant, PTL

(* A checkpoint that save_checkpoint reported can be loaded until a prune  *)
(* has begun to delete it; and when checkpoints are kept and one was saved *)
(* there is metadata newer than all that was deleted, of a checkpoint that *)
(* may be unfinished: through crashes, dropped futures and concurrent      *)
(* calls (checkpoint.rs).                                                  *)
THEOREM CheckpointsStayKept ==
  ASSUME Definitions \subseteq Values
  PROVE  PersistenceSpec => []CheckpointsKept
<1>1. IInv => CheckpointsKept
  <2> SUFFICES ASSUME IInv PROVE CheckpointsKept
    OBVIOUS
  <2>1. CheckpointTypeOK /\ SavedIsLoadable /\ PrunesSpareTheNewest
    BY DEF IInv, CheckpointInv
  <2>2. NewestIsKept
    <3> SUFFICES ASSUME KeepCount > 0, \E i \in Ids : saved[i] # Absent
                 PROVE  \E i \in Ids \ dropped : meta[i] = Metadata /\ \A j \in dropped : j < i
      BY DEF NewestIsKept
    <3>1. PICK i \in Ids : meta[i] = Metadata /\ \A j \in Ids : Doomed(j) => j < i
      BY <2>1 DEF PrunesSpareTheNewest
    <3>2. dropped \subseteq Ids /\ \A j \in dropped : Doomed(j)
      BY <2>1 DEF CheckpointTypeOK, Doomed
    <3>3. i \notin dropped
      <4>1. ~(i < i)
        BY CheckpointAssumption DEF Ids
      <4> QED
        BY <3>1, <3>2, <4>1
    <3> QED
      BY <3>1, <3>2, <3>3
  <2> QED
    BY <2>1, <2>2 DEF CheckpointsKept
<1> QED
  BY <1>1, PersistenceInvariant, PTL

(* add_edge with a cycle takes back all it did but the status of the       *)
(* target (definition.rs, add_edge).                                       *)
THEOREM RefusedEditsLeaveTheGraph ==
  ASSUME Definitions \subseteq Values
  PROVE  PersistenceSpec => RefusalChangesOnlyStatus
<1> DEFINE Refusal ==
      definition' # definition /\ definition'.edges = definition.edges =>
        \A e \in EdgeId : AddEdge(e) =>
          LET target == Target[e]
          IN  definition' = [definition EXCEPT !.status[target] =
                IF definition.incoming[target] = {} THEN "Ready" ELSE @]
<1>1. IInv => [Refusal]_definition
  <2> SUFFICES ASSUME IInv, definition'.edges = definition.edges, NEW e \in EdgeId, AddEdge(e)
               PROVE  definition' = [definition EXCEPT !.status[Target[e]] =
                        IF definition.incoming[Target[e]] = {} THEN "Ready" ELSE @]
    OBVIOUS
  <2>1. Sound(definition)
    BY DEF IInv, DefinitionSound, Sound
  <2> QED
    BY <2>1, RefusedEdge
<1> QED
  BY <1>1, PersistenceInvariant, PTL DEF RefusalChangesOnlyStatus

(* A load gives back the definition that was saved, less its degrees and   *)
(* statuses; an instance of it starts at every node at once, one of an     *)
(* edited definition at its start nodes; and a load fails only on a        *)
(* checkpoint that a prune deletes or that no save finished                *)
(* (load_definition, load_latest_checkpoint).                              *)
THEOREM LoadsAreSound ==
  ASSUME Definitions \subseteq Values
  PROVE  PersistenceSpec => LoadSound
<1> DEFINE Failure ==
      \A c \in Callers :
        caller[c].kind = "load" /\ caller[c].pc # "failed" /\ caller'[c].pc = "failed"
          => LET read == IF caller[c].pc = "load" THEN {caller[c].id} ELSE caller[c].todo
             IN  \E i \in read : i \in dropped \/ saved[i] = Absent
<1>1. IInv => LoadedIsSaved /\ InstanceStart
  <2>0. IInv => LoadedIsSaved
    BY DEF IInv, CacheIsDefinition, LoadedIsSaved
  <2> SUFFICES ASSUME IInv, instance # Absent
               PROVE  instance = IF loaded THEN cache.nodes ELSE cache.start
    BY <2>0 DEF InstanceStart
  <2>1. /\ cache # Absent /\ instance = ReadyNodes(cache)
        /\ cache = IF loaded THEN Serialized(definition) ELSE definition
        /\ Sound(definition) /\ definition \in Definitions
    BY DEF IInv, CacheIsDefinition, DefinitionSound, Sound
  <2> QED
    BY <2>1, SerializedDefinition, InstanceOfDefinition
<1>2. IInv /\ [PersistenceNext]_vars => [Failure]_checkpointVars
  <2> SUFFICES ASSUME IInv, PersistenceNext, NEW c \in Callers,
                      caller[c].kind = "load", caller[c].pc # "failed", caller'[c].pc = "failed"
               PROVE  LET read == IF caller[c].pc = "load" THEN {caller[c].id} ELSE caller[c].todo
                      IN  \E i \in read : i \in dropped \/ saved[i] = Absent
    BY DEF vars, checkpointVars
  <2>1. CheckpointInv
    BY DEF IInv
  <2>2. LoadFails(c) \/ \E i \in Ids : ReadMetadata(c, i) /\ meta[i] = Absent
    BY <2>1, OnlyLoadsFail
  <2> QED
    BY <2>1, <2>2, FailingLoad
<1> QED
  BY <1>1, <1>2, PersistenceInvariant, PTL DEF PersistenceSpec, LoadSound, LoadFailsOnUnfinished

=============================================================================
