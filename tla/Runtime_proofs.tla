---------------------------- MODULE Runtime_proofs ----------------------------
(***************************************************************************)
(* For any number of tasks, plugins, workflows, capabilities and rights.   *)
(*                                                                         *)
(* The managers share the tasks and nothing else, so the invariant of the  *)
(* runtime is a conjunction of one part for each, and a step of one        *)
(* manager leaves the parts of the others alone: its task is at a place    *)
(* of its own before and after (Aside).                                    *)
(*                                                                         *)
(* Capabilities: the invariant says how an entry relates to its parent and *)
(* the index to the entries; that revoke_capability takes whole subtrees   *)
(* keeps it.  To reach the root from a capability one needs that its       *)
(* ancestors do not run in a circle (Grounded), so that a set of them      *)
(* closed under parents holds one without a parent.                        *)
(* Plugins: who works on a plugin holds a read guard of the map that has   *)
(* it, so a write is alone; and the registry is one step ahead of the map. *)
(* Shutdown: there is one request, and permits and running components add  *)
(* up to those that registered, while none has told twice that it stopped. *)
(***************************************************************************)
EXTENDS Runtime, FiniteSetTheorems, SequenceTheorems, TLAPS

CapabilityInv ==
  CapabilityTypeOK /\ LinksMutual /\ Grounded /\ DerivedBelowParent /\ IndexExact

LEMMA InitCapabilityInv == CapabilityInit => CapabilityInv
<1> SUFFICES ASSUME CapabilityInit PROVE CapabilityInv
  OBVIOUS
<1> USE DEF CapabilityInit, Issued
<1>1. CapabilityTypeOK
  BY DEF CapabilityTypeOK
<1>2. LinksMutual /\ Grounded /\ DerivedBelowParent /\ IndexExact
  BY DEF LinksMutual, Grounded, DerivedBelowParent, IndexExact
<1> QED BY <1>1, <1>2 DEF CapabilityInv

-----------------------------------------------------------------------------
(* A new entry: without a parent, or below a valid one. *)
Admissible(e) ==
  /\ e \in Entry /\ e.valid /\ e.children = {}
  /\ \/ e.parent = None
     \/ /\ e.parent \in Issued /\ capabilities[e.parent].valid
        /\ e.object = capabilities[e.parent].object
        /\ e.rights \subseteq capabilities[e.parent].rights

(* What an entry added below another leaves of the entries. *)
Effect(c, e) ==
  /\ c \notin Issued /\ Issued' = Issued \cup {c}
  /\ capabilities'[c] = e
  /\ \A d \in Issued :
       /\ capabilities'[d].subject = capabilities[d].subject
       /\ capabilities'[d].object = capabilities[d].object
       /\ capabilities'[d].rights = capabilities[d].rights
       /\ capabilities'[d].valid = capabilities[d].valid
       /\ capabilities'[d].parent = capabilities[d].parent
       /\ capabilities'[d].children =
            IF d = e.parent THEN capabilities[d].children \cup {c}
            ELSE capabilities[d].children
       /\ capabilities'[d] \in Entry
  /\ capabilities' = [d \in Issued' |-> capabilities'[d]]

LEMMA IssueEffect ==
  ASSUME CapabilityInv, NEW c \in CapId, NEW e, Admissible(e), Issue(c, e)
  PROVE  Effect(c, e)
<1> USE DEF Effect
<1>1. c \notin Issued /\ Issued' = Issued \cup {c} /\ capabilities'[c] = e
  BY DEF Issue, Issued
<1>2. capabilities' = [d \in Issued' |-> capabilities'[d]]
  BY DEF Issue, Issued
<1>3. ASSUME NEW d \in Issued
      PROVE  /\ capabilities[d] \in Entry
             /\ capabilities'[d] = IF d = e.parent THEN WithChild(capabilities[d], c)
                                   ELSE capabilities[d]
  BY <1>1 DEF Issue, Issued, CapabilityInv, CapabilityTypeOK
<1>4. ASSUME NEW d \in Issued
      PROVE  /\ WithChild(capabilities[d], c) \in Entry
             /\ WithChild(capabilities[d], c).subject = capabilities[d].subject
             /\ WithChild(capabilities[d], c).object = capabilities[d].object
             /\ WithChild(capabilities[d], c).rights = capabilities[d].rights
             /\ WithChild(capabilities[d], c).valid = capabilities[d].valid
             /\ WithChild(capabilities[d], c).parent = capabilities[d].parent
             /\ WithChild(capabilities[d], c).children = capabilities[d].children \cup {c}
  BY <1>3 DEF WithChild, Entry
<1> QED BY <1>1, <1>2, <1>3, <1>4

LEMMA IssueKeeps ==
  ASSUME CapabilityInv, NEW c \in CapId, NEW e, Admissible(e), Issue(c, e)
  PROVE  CapabilityInv'
<1> USE NoneIsNoId
<1>0. Effect(c, e)
  BY IssueEffect
<1>1. /\ Issued \subseteq CapId /\ capabilities \in [Issued -> Entry]
      /\ subject_index \in [Subject -> SUBSET CapId]
      /\ e \in Entry /\ e.subject \in Subject
  BY DEF CapabilityInv, CapabilityTypeOK, Admissible, Entry
<1>2. subject_index' = [subject_index EXCEPT ![e.subject] = subject_index[e.subject] \cup {c}]
  BY DEF Issue
<1>3. CapabilityTypeOK'
  <2>1. \A d \in Issued' : capabilities'[d] \in Entry
    BY <1>0, <1>1 DEF Effect
  <2>2. capabilities' \in [Issued' -> Entry]
    BY <1>0, <2>1 DEF Effect
  <2>3. subject_index' \in [Subject -> SUBSET CapId]
    BY <1>1, <1>2
  <2> QED BY <1>0, <1>1, <2>2, <2>3 DEF CapabilityTypeOK, Effect
<1>10. c \notin Issued /\ Issued' = Issued \cup {c} /\ capabilities'[c] = e
  BY <1>0 DEF Effect
<1>11. ASSUME NEW d \in Issued
      PROVE  /\ capabilities'[d].subject = capabilities[d].subject
             /\ capabilities'[d].object = capabilities[d].object
             /\ capabilities'[d].rights = capabilities[d].rights
             /\ capabilities'[d].valid = capabilities[d].valid
             /\ capabilities'[d].parent = capabilities[d].parent
             /\ capabilities'[d].children =
                  IF d = e.parent THEN capabilities[d].children \cup {c}
                  ELSE capabilities[d].children
  BY <1>0 DEF Effect
<1>4. \A d \in Issued : capabilities[d].parent # c /\ c \notin capabilities[d].children
  BY <1>10, <1>11, <1>1 DEF CapabilityInv, DerivedBelowParent, LinksMutual
<1>5. LinksMutual'
  <2> SUFFICES ASSUME NEW a \in CapId, NEW d \in CapId
               PROVE  a \in Issued' /\ d \in capabilities'[a].children
                        <=> d \in Issued' /\ capabilities'[d].parent = a
    BY DEF LinksMutual
  <2>1. a \in Issued /\ d \in capabilities[a].children
          <=> d \in Issued /\ capabilities[d].parent = a
    BY DEF CapabilityInv, LinksMutual
  <2>2. e.children = {} /\ e.parent \in Issued \cup {None}
    BY DEF Admissible
  <2>3. a \in Issued => (d \in capabilities'[a].children <=>
                             d \in capabilities[a].children \/ (a = e.parent /\ d = c))
    <3>1. CASE a \in Issued /\ a = e.parent
      <4>1. capabilities'[a].children = capabilities[a].children \cup {c}
        BY <1>11, <3>1
      <4> QED BY <3>1, <4>1
    <3>2. CASE a \in Issued /\ a # e.parent
      <4>1. capabilities'[a].children = capabilities[a].children
        BY <1>11, <3>2
      <4> QED BY <3>2, <4>1
    <3> QED BY <3>1, <3>2
  <2>4. CASE a = c
    <3>1. d \notin capabilities'[a].children
      BY <1>10, <2>2, <2>4
    <3>2. d \in Issued => capabilities'[d].parent # c
      BY <1>11, <1>4
    <3>3. d = c => capabilities'[d].parent # c
      BY <1>10, <2>2
    <3> QED BY <1>10, <2>4, <3>1, <3>2, <3>3
  <2>5. CASE a # c /\ d = c
    <3>1. d \in Issued' /\ capabilities'[d].parent = e.parent
      BY <1>10, <2>5
    <3>2. a \in Issued => d \notin capabilities[a].children
      BY <1>4, <2>5
    <3>3. a \in Issued' <=> a \in Issued
      BY <1>10, <2>5
    <3>4. a = e.parent => a \in Issued
      BY <2>2
    <3> QED BY <2>3, <2>5, <3>1, <3>2, <3>3, <3>4
  <2>6. CASE a # c /\ d # c
    <3>1. (a \in Issued' <=> a \in Issued) /\ (d \in Issued' <=> d \in Issued)
      BY <1>10, <2>6
    <3>2. d \in Issued => capabilities'[d].parent = capabilities[d].parent
      BY <1>11
    <3> QED BY <2>1, <2>3, <2>6, <3>1, <3>2
  <2> QED BY <2>4, <2>5, <2>6
<1>6. Grounded'
  <2> SUFFICES ASSUME NEW S \in SUBSET Issued', S # {}
               PROVE  \E d \in S : capabilities'[d].parent \notin S
    BY DEF Grounded
  <2>1. CASE S = {c}
    BY <1>10, <1>11, <1>1, <2>1 DEF Admissible
  <2>2. CASE S \ {c} # {}
    <3>1. PICK d \in S \ {c} : capabilities[d].parent \notin S \ {c}
      BY <1>10, <1>11, <2>2 DEF CapabilityInv, Grounded
    <3> QED BY <1>10, <1>11, <3>1, <1>4
  <2> QED BY <2>1, <2>2
<1>7. DerivedBelowParent'
  <2> SUFFICES ASSUME NEW d \in Issued', capabilities'[d].parent # None
               PROVE  LET p == capabilities'[d].parent
                      IN  /\ p \in Issued'
                          /\ capabilities'[d].object = capabilities'[p].object
                          /\ capabilities'[d].rights \subseteq capabilities'[p].rights
                          /\ capabilities'[d].valid => capabilities'[p].valid
    BY DEF DerivedBelowParent
  <2>1. CASE d = c
    BY <1>10, <1>11, <2>1 DEF Admissible
  <2>2. CASE d # c
    <3>1. d \in Issued /\ capabilities'[d].parent = capabilities[d].parent
      BY <1>10, <1>11, <2>2
    <3>2. LET p == capabilities[d].parent
          IN  /\ p \in Issued
              /\ capabilities[d].object = capabilities[p].object
              /\ capabilities[d].rights \subseteq capabilities[p].rights
              /\ capabilities[d].valid => capabilities[p].valid
      BY <3>1 DEF CapabilityInv, DerivedBelowParent
    <3> DEFINE p == capabilities[d].parent
    <3>3. /\ capabilities'[d].object = capabilities[d].object
          /\ capabilities'[d].rights = capabilities[d].rights
          /\ capabilities'[d].valid = capabilities[d].valid
      BY <1>11, <3>1
    <3>4. /\ p \in Issued /\ p \in Issued'
          /\ capabilities'[p].object = capabilities[p].object
          /\ capabilities'[p].rights = capabilities[p].rights
          /\ capabilities'[p].valid = capabilities[p].valid
      BY <1>10, <1>11, <3>2
    <3> QED BY <3>1, <3>2, <3>3, <3>4
  <2> QED BY <2>1, <2>2
<1>8. IndexExact'
  <2> SUFFICES ASSUME NEW s \in Subject, NEW d \in CapId
               PROVE  d \in subject_index'[s] <=>
                        d \in Issued' /\ capabilities'[d].valid /\ capabilities'[d].subject = s
    BY DEF IndexExact
  <2>1. d \in subject_index[s] <=>
          d \in Issued /\ capabilities[d].valid /\ capabilities[d].subject = s
    BY DEF CapabilityInv, IndexExact
  <2>2. subject_index'[s] = IF s = e.subject THEN subject_index[s] \cup {c} ELSE subject_index[s]
    BY <1>1, <1>2
  <2>3. e.valid
    BY DEF Admissible
  <2>4. CASE d = c
    BY <1>10, <1>11, <2>1, <2>2, <2>3, <2>4
  <2>5. CASE d # c
    <3>1. d \in Issued' <=> d \in Issued
      BY <1>10, <2>5
    <3>2. d \in subject_index'[s] <=> d \in subject_index[s]
      BY <2>2, <2>5
    <3>3. CASE d \in Issued
      BY <1>11, <2>1, <3>1, <3>2, <3>3
    <3>4. CASE d \notin Issued
      BY <2>1, <3>1, <3>2, <3>4
    <3> QED BY <3>3, <3>4
  <2> QED BY <2>4, <2>5
<1> QED BY <1>3, <1>5, <1>6, <1>7, <1>8 DEF CapabilityInv

-----------------------------------------------------------------------------
(* Descendants(c) holds c and, with a capability, its children. *)
LEMMA DescendantsClosed ==
  ASSUME CapabilityInv, NEW c \in CapId
  PROVE  c \in Descendants(c) /\ Closed(Descendants(c))
<1>1. c \in Descendants(c)
  BY DEF Descendants
<1>2. ASSUME NEW d \in Descendants(c), d \in Issued, NEW k \in capabilities[d].children
      PROVE  k \in Descendants(c)
  <2>1. k \in CapId
    BY <1>2 DEF CapabilityInv, CapabilityTypeOK, Entry
  <2>2. ASSUME NEW S \in SUBSET CapId, c \in S, Closed(S)
        PROVE  k \in S
    <3>1. d \in S
      BY <2>2 DEF Descendants
    <3> QED BY <1>2, <2>2, <3>1 DEF Closed
  <2> QED BY <2>1, <2>2 DEF Descendants
<1> QED BY <1>1, <1>2 DEF Closed

LEMMA RevokeKeeps ==
  ASSUME CapabilityInv, NEW c \in CapId, revoke_capability(c)
  PROVE  CapabilityInv'
<1> DEFINE D == Descendants(c)
<1>1. /\ Issued \subseteq CapId /\ capabilities \in [Issued -> Entry]
      /\ subject_index \in [Subject -> SUBSET CapId]
  BY DEF CapabilityInv, CapabilityTypeOK
<1>2. Issued' = Issued
  BY DEF revoke_capability, Issued
<1>3. ASSUME NEW d \in Issued
      PROVE  capabilities'[d] = IF d \in D THEN [capabilities[d] EXCEPT !.valid = FALSE]
                                ELSE capabilities[d]
  BY DEF revoke_capability
<1>4. ASSUME NEW d \in Issued
      PROVE  /\ capabilities'[d] \in Entry
             /\ capabilities'[d].subject = capabilities[d].subject
             /\ capabilities'[d].object = capabilities[d].object
             /\ capabilities'[d].rights = capabilities[d].rights
             /\ capabilities'[d].parent = capabilities[d].parent
             /\ capabilities'[d].children = capabilities[d].children
             /\ capabilities'[d].valid <=> capabilities[d].valid /\ d \notin D
  <2>1. capabilities[d] \in Entry
    BY <1>1
  <2>2. CASE d \in D
    <3>1. capabilities'[d] = [capabilities[d] EXCEPT !.valid = FALSE]
      BY <1>3, <2>2
    <3> QED BY <2>1, <2>2, <3>1 DEF Entry
  <2>3. CASE d \notin D
    <3>1. capabilities'[d] = capabilities[d]
      BY <1>3, <2>3
    <3> QED BY <2>1, <2>3, <3>1
  <2> QED BY <2>2, <2>3
<1>5. ASSUME NEW s \in Subject
      PROVE  subject_index'[s] = subject_index[s] \ D
  BY DEF revoke_capability
<1>6. CapabilityTypeOK'
  <2>1. capabilities' \in [Issued' -> Entry]
    BY <1>2, <1>4 DEF revoke_capability
  <2>2. subject_index' \in [Subject -> SUBSET CapId]
    BY <1>1 DEF revoke_capability
  <2> QED BY <1>1, <1>2, <2>1, <2>2 DEF CapabilityTypeOK
<1>7. LinksMutual'
  BY <1>2, <1>4 DEF CapabilityInv, LinksMutual
<1>8. Grounded'
  BY <1>2, <1>4 DEF CapabilityInv, Grounded
<1>9. DerivedBelowParent'
  <2> SUFFICES ASSUME NEW d \in Issued, capabilities'[d].parent # None
               PROVE  LET p == capabilities'[d].parent
                      IN  /\ p \in Issued
                          /\ capabilities'[d].object = capabilities'[p].object
                          /\ capabilities'[d].rights \subseteq capabilities'[p].rights
                          /\ capabilities'[d].valid => capabilities'[p].valid
    BY <1>2 DEF DerivedBelowParent
  <2> DEFINE p == capabilities[d].parent
  <2>1. p = capabilities'[d].parent /\ p # None
    BY <1>4
  <2>2. /\ p \in Issued
        /\ capabilities[d].object = capabilities[p].object
        /\ capabilities[d].rights \subseteq capabilities[p].rights
        /\ capabilities[d].valid => capabilities[p].valid
    BY <2>1 DEF CapabilityInv, DerivedBelowParent
  <2>3. p \in D => d \in D
    <3>1. d \in capabilities[p].children
      BY <1>1, <2>2 DEF CapabilityInv, LinksMutual
    <3>2. Closed(D)
      BY DescendantsClosed
    <3> QED BY <2>2, <3>1, <3>2 DEF Closed
  <2>4. /\ capabilities'[d].object = capabilities'[p].object
        /\ capabilities'[d].rights \subseteq capabilities'[p].rights
    BY <1>4, <2>2
  <2>5. capabilities'[d].valid => capabilities'[p].valid
    BY <1>4, <2>2, <2>3
  <2> QED BY <2>1, <2>2, <2>4, <2>5
<1>10. IndexExact'
  <2> SUFFICES ASSUME NEW s \in Subject, NEW d \in CapId
               PROVE  d \in subject_index'[s] <=>
                        d \in Issued /\ capabilities'[d].valid /\ capabilities'[d].subject = s
    BY <1>2 DEF IndexExact
  <2>1. d \in subject_index[s] <=>
          d \in Issued /\ capabilities[d].valid /\ capabilities[d].subject = s
    BY DEF CapabilityInv, IndexExact
  <2>2. d \in subject_index'[s] <=> d \in subject_index[s] /\ d \notin D
    BY <1>5
  <2> QED BY <1>4, <2>1, <2>2
<1> QED BY <1>6, <1>7, <1>8, <1>9, <1>10 DEF CapabilityInv

LEMMA CapabilityStepKeeps == CapabilityInv /\ [CapabilityNext]_capabilityVars => CapabilityInv'
<1> SUFFICES ASSUME CapabilityInv, [CapabilityNext]_capabilityVars PROVE CapabilityInv'
  OBVIOUS
<1>1. ASSUME NEW c \in CapId, NEW s \in Subject, NEW o \in Object, NEW rights \in SUBSET Right,
             grant_capability(c, s, o, rights)
      PROVE  CapabilityInv'
  <2>1. Admissible(NewEntry(s, o, rights, None))
    BY DEF Admissible, NewEntry, Entry
  <2> QED BY <1>1, <2>1, IssueKeeps DEF grant_capability
<1>2. ASSUME NEW c \in CapId, NEW parent \in CapId, NEW s \in Subject,
             NEW rights \in SUBSET Right,
             attenuate_capability(c, parent, s, rights)
      PROVE  CapabilityInv'
  <2>1. /\ parent \in Issued /\ capabilities[parent].valid
        /\ rights \subseteq capabilities[parent].rights
        /\ capabilities[parent].object \in Object
    BY <1>2 DEF attenuate_capability, CapabilityInv, CapabilityTypeOK, Entry
  <2>2. Admissible(NewEntry(s, capabilities[parent].object, rights, parent))
    BY <2>1 DEF Admissible, NewEntry, Entry
  <2> QED BY <1>2, <2>2, IssueKeeps DEF attenuate_capability
<1>3. ASSUME NEW c \in CapId, revoke_capability(c)
      PROVE  CapabilityInv'
  BY <1>3, RevokeKeeps
<1>4. CASE UNCHANGED capabilityVars
  BY <1>4 DEF capabilityVars, CapabilityInv, CapabilityTypeOK, LinksMutual, Grounded,
              DerivedBelowParent, IndexExact, Issued
<1> QED BY <1>1, <1>2, <1>3, <1>4 DEF CapabilityNext

(* Derivation, revocation and the index keep in step (manager.rs:116 to    *)
(* 253): a derived capability has no more than its parent and is valid     *)
(* only with it, for any number of capabilities.                           *)
THEOREM CapabilityInvariant == CapabilitySpec => []CapabilityInv
<1> QED BY InitCapabilityInv, CapabilityStepKeeps, PTL DEF CapabilitySpec

-----------------------------------------------------------------------------
(* From a capability that allows something up to one that was granted. *)
LEMMA RootExists == CapabilityInv => RightsComeFromGrants
<1> SUFFICES ASSUME CapabilityInv, NEW s \in Subject, NEW o \in Object, NEW right \in Right,
                    has_capability(s, o, right)
             PROVE  \E root, c \in Issued :
                      /\ capabilities[root].parent = None /\ capabilities[root].valid
                      /\ capabilities[root].object = o /\ right \in capabilities[root].rights
                      /\ c \in Descendants(root) /\ capabilities[c].subject = s
  BY DEF RightsComeFromGrants
<1>1. PICK c \in subject_index[s] \cap Issued :
        capabilities[c].valid /\ capabilities[c].object = o /\ right \in capabilities[c].rights
  BY DEF has_capability
<1>2. c \in CapId /\ capabilities[c].subject = s /\ Issued \subseteq CapId
  BY <1>1 DEF CapabilityInv, CapabilityTypeOK, IndexExact
<1> DEFINE Above == {x \in Issued : /\ capabilities[x].valid /\ capabilities[x].object = o
                                    /\ right \in capabilities[x].rights
                                    /\ c \in Descendants(x)}
<1>3. c \in Above
  BY <1>1, <1>2, DescendantsClosed
<1>4. ASSUME NEW x \in Above, capabilities[x].parent # None
      PROVE  capabilities[x].parent \in Above
  <2> DEFINE p == capabilities[x].parent
  <2>1. /\ p \in Issued /\ p \in CapId /\ x \in CapId
        /\ capabilities[x].object = capabilities[p].object
        /\ capabilities[x].rights \subseteq capabilities[p].rights
        /\ capabilities[p].valid
    BY <1>2, <1>4 DEF CapabilityInv, DerivedBelowParent
  <2>2. x \in capabilities[p].children
    BY <2>1 DEF CapabilityInv, LinksMutual
  <2>3. ASSUME NEW S \in SUBSET CapId, p \in S, Closed(S)
        PROVE  c \in S
    <3>1. x \in S
      BY <2>1, <2>2, <2>3 DEF Closed
    <3>2. c \in Descendants(x)
      OBVIOUS
    <3> QED BY <2>3, <3>1, <3>2 DEF Descendants
  <2>4. c \in Descendants(p)
    BY <1>2, <2>3 DEF Descendants
  <2> QED BY <2>1, <2>4
<1>5. PICK root \in Above : capabilities[root].parent \notin Above
  <2>1. Above \in SUBSET Issued /\ Above # {}
    BY <1>3
  <2> QED BY <2>1 DEF CapabilityInv, Grounded
<1>6. capabilities[root].parent = None
  BY <1>4, <1>5
<1> QED BY <1>1, <1>2, <1>5, <1>6

(* Whatever a subject may do goes back to a granted capability that is not *)
(* revoked (manager.rs:161), whatever was derived in between and by whom.  *)
THEOREM Grounding == CapabilitySpec => []RightsComeFromGrants
<1> QED BY CapabilityInvariant, RootExists, PTL

-----------------------------------------------------------------------------
(* Where a call can be, and with what. Only a removal takes a plugin out of *)
(* the registry, and only the calls that hold a read guard of the map set  *)
(* states.                                                                 *)
Todo == Seq(PluginStates)

ShutdownPcs == {"handle", "hears", "deaf", "stopping", "count", "send", "await"}

HandlePcs == {"handle", "hears", "deaf", "stopping"}

ShutdownState ==
  [pc : HandlePcs, id : Nat] \cup [pc : {"count"}] \cup [pc : {"send", "await"}, n : Nat]

WorkflowState ==
  [pc : {"found"}, change : Changes, w : Workflow, left : SUBSET Workflow]
    \cup [pc : {"cancelling"}, left : SUBSET Workflow]

Registering == [pc : {"register", "listed", "insert"}, p : Plugin]

Operating ==
  [pc : {"guard", "set", "meta"}, op : Guarded, p : Plugin, todo : Todo]
    \cup [pc : {"start"}, op : {"start"}, p : Plugin, todo : Todo]
    \cup [pc : {"unload"}, op : {"unload", "remove"}, p : Plugin, todo : Todo]
    \cup [pc : {"grant"}, op : {"grant"}, p : Plugin, todo : Todo]

Removing ==
  [pc : {"remove", "regain", "unregister", "named", "unlisted", "drop"},
   op : {"remove"}, p : Plugin, todo : Todo]

StoppingAll ==
  [pc : {"guard", "next"}, op : {"shutdown"}, todo : Todo, left : SUBSET Plugin]
    \cup [pc : {"set", "meta", "next"}, op : {"shutdown"}, p : Plugin, todo : Todo,
          left : SUBSET Plugin]

PluginCallState == Registering \cup Operating \cup Removing \cup StoppingAll

CallState == {Idle} \cup ShutdownState \cup WorkflowState \cup PluginCallState

CallersTyped == caller \in [Caller -> CallState]

PluginsTyped ==
  /\ registered \subseteq Plugin /\ plugins \in [Plugin -> PluginEntry \cup {Absent}]
  /\ readers \in [Caller -> Nat]

-----------------------------------------------------------------------------
(* A task that sets states, or lists what it will stop, holds a read guard *)
(* of the map, and what it works on is in the map.                         *)
Holds(c) == c.pc \in {"start", "unload", "grant", "remove", "regain", "set", "meta", "next"}

Present(p) == plugins[p] \in PluginEntry

Provided(c, guards) ==
  Holds(c) => /\ guards > 0
              /\ c.pc # "next" => Present(c.p)
              /\ c.pc = "meta" => c.todo # <<>>
              /\ c.op = "shutdown" => \A p \in c.left : Present(p)

GuardsHeld == \A t \in Caller : Provided(caller[t], readers[t])

(* A call that has changed the registry but not yet the map.               *)
Registers(c, p) == c.pc \in {"listed", "insert"} /\ c.p = p

Removes(c, p) == c.pc \in {"unlisted", "drop"} /\ c.p = p

Pending(c, p) == Registers(c, p) \/ Removes(c, p)

(* When one such call is under way, the registry is as the map will be.    *)
RegistryAhead ==
  \A p \in Plugin \ raced :
    /\ (\A t \in Caller : ~Pending(caller[t], p)) => (p \in registered <=> Known(p))
    /\ \A t \in Caller :
         Pending(caller[t], p) /\ (\A u \in Caller \ {t} : ~Pending(caller[u], p)) =>
           (p \in registered <=> Registers(caller[t], p))

Noting(p) == \E t \in Caller : caller[t].pc = "meta" /\ caller[t].p = p

Follows(e) == e.state \in {"Created", e.meta}

MetaFollows == \A p \in Plugin : Known(p) /\ ~Noting(p) => Follows(plugins[p])

PluginInv == PluginsTyped /\ GuardsHeld /\ RegistryAhead /\ MetaFollows

(* The steps of a task: from its state to s, and the other tasks stay.     *)
LEMMA Moves ==
  ASSUME caller \in [Caller -> CallState], NEW t \in Caller, NEW s \in CallState,
         caller' = [caller EXCEPT ![t] = s]
  PROVE  /\ caller' \in [Caller -> CallState] /\ caller'[t] = s
         /\ \A u \in Caller \ {t} : caller'[u] = caller[u]
OBVIOUS

LEMMA Shapes ==
  ASSUME NEW c \in CallState
  PROVE  /\ c.pc \in {"register", "listed", "insert"} => c \in Registering
         /\ c.pc \in {"remove", "regain", "unregister", "named", "unlisted", "drop"}
              => c \in Removing
         /\ c.pc \in {"start", "unload", "grant"} => c \in Operating
         /\ c.pc \in {"guard", "set", "meta"} => c \in Operating \cup StoppingAll
         /\ c.pc = "next" => c \in StoppingAll
         /\ c.pc \in {"found", "cancelling"} => c \in WorkflowState
         /\ c.pc \in ShutdownPcs => c \in ShutdownState
<1>1. CASE c = Idle
  BY <1>1 DEF Idle, ShutdownPcs
<1>2. CASE c \in ShutdownState
  <2>1. CASE c \in [pc : HandlePcs, id : Nat]
    <3>1. c.pc \in HandlePcs
      BY <2>1
    <3> QED
      BY <1>2, <3>1 DEF ShutdownPcs, HandlePcs
  <2>2. CASE c \in [pc : {"count"}]
    BY <1>2, <2>2 DEF ShutdownPcs
  <2>3. CASE c \in [pc : {"send", "await"}, n : Nat]
    <3>1. c.pc \in {"send", "await"}
      BY <2>3
    <3> QED
      BY <1>2, <3>1 DEF ShutdownPcs
  <2> QED
    BY <1>2, <2>1, <2>2, <2>3 DEF ShutdownState
<1>3. CASE c \in WorkflowState
  BY <1>3 DEF WorkflowState, ShutdownPcs
<1>4. CASE c \in Registering
  BY <1>4 DEF Registering, ShutdownPcs
<1>5. CASE c \in Operating
  <2>1. c.pc \in {"start", "unload", "grant", "guard", "set", "meta"}
    BY <1>5 DEF Operating
  <2> QED
    BY <1>5, <2>1 DEF ShutdownPcs
<1>6. CASE c \in Removing
  BY <1>6 DEF Removing, ShutdownPcs
<1>7. CASE c \in StoppingAll
  <2>1. c.pc \in {"guard", "set", "meta", "next"}
    BY <1>7 DEF StoppingAll
  <2> QED
    BY <1>7, <2>1 DEF ShutdownPcs
<1> QED
  BY <1>1, <1>2, <1>3, <1>4, <1>5, <1>6, <1>7 DEF CallState, PluginCallState

(* Where a call on one plugin can be, by what it does.                     *)
Suits(pc, op) ==
  \/ pc \in {"guard", "set", "meta"}
  \/ pc \in {"start", "grant"} /\ op = pc
  \/ pc = "unload" /\ op \in {"unload", "remove"}
  \/ /\ pc \in {"remove", "regain", "unregister", "named", "unlisted", "drop"}
     /\ op = "remove"

OnOne(c) ==
  \/ c.pc \in {"start", "unload", "grant", "remove", "regain", "unregister", "named",
               "unlisted", "drop"}
  \/ c.pc \in {"guard", "set", "meta"} /\ c.op # "shutdown"

LEMMA Fits ==
  ASSUME NEW op \in Guarded, NEW p \in Plugin, NEW todo \in Todo, NEW pc, Suits(pc, op)
  PROVE  [pc |-> pc, op |-> op, p |-> p, todo |-> todo] \in CallState
<1> DEFINE s == [pc |-> pc, op |-> op, p |-> p, todo |-> todo]
<1>1. s \in Operating \/ s \in Removing
  BY DEF Operating, Removing, Suits
<1> HIDE DEF s
<1> QED
  BY <1>1 DEF CallState, PluginCallState, s

LEMMA OpFields ==
  ASSUME NEW c \in CallState, OnOne(c)
  PROVE  /\ c.op \in Guarded /\ c.p \in Plugin /\ c.todo \in Todo /\ Suits(c.pc, c.op)
         /\ c = [pc |-> c.pc, op |-> c.op, p |-> c.p, todo |-> c.todo]
<1>1. \/ c \in Operating /\ c.pc \in {"guard", "set", "meta", "start", "unload", "grant"}
      \/ c \in Removing /\ c.pc \notin {"guard", "set", "meta", "start", "unload", "grant"}
      \/ c \in StoppingAll /\ c.op # "shutdown"
  <2>1. CASE c.pc \in {"guard", "set", "meta"} /\ c.op # "shutdown"
    BY <2>1, Shapes
  <2>2. CASE c.pc \in {"start", "unload", "grant"}
    BY <2>2, Shapes
  <2>3. CASE c.pc \in {"remove", "regain", "unregister", "named", "unlisted", "drop"}
    BY <2>3, Shapes
  <2> QED
    BY <2>1, <2>2, <2>3 DEF OnOne
<1>2. ~(c \in StoppingAll /\ c.op # "shutdown")
  BY DEF StoppingAll
<1>3. CASE c \in Operating /\ c.pc \in {"guard", "set", "meta", "start", "unload", "grant"}
  BY <1>3 DEF Operating, Guarded, Suits
<1>4. CASE c \in Removing /\ c.pc \notin {"guard", "set", "meta", "start", "unload", "grant"}
  BY <1>4 DEF Removing, Guarded, Suits
<1> QED
  BY <1>1, <1>2, <1>3, <1>4

LEMMA RegisterFields ==
  ASSUME NEW c \in CallState, c.pc \in {"register", "listed", "insert"}
  PROVE  c.p \in Plugin /\ c = [pc |-> c.pc, p |-> c.p]
<1>1. c \in Registering
  BY Shapes
<1> QED
  BY <1>1 DEF Registering

OnAll(c) == c.pc = "next" \/ (c.pc \in {"guard", "set", "meta"} /\ c.op = "shutdown")

LEMMA StopFields ==
  ASSUME NEW c \in CallState, OnAll(c)
  PROVE  /\ c.todo \in Todo /\ c.left \subseteq Plugin /\ c.op = "shutdown"
         /\ \/ /\ c.pc \in {"guard", "next"}
               /\ c = [pc |-> c.pc, op |-> c.op, todo |-> c.todo, left |-> c.left]
            \/ /\ c.pc \in {"set", "meta", "next"} /\ c.p \in Plugin
               /\ c = [pc |-> c.pc, op |-> c.op, p |-> c.p, todo |-> c.todo, left |-> c.left]
<1>1. c \in StoppingAll
  <2>1. ~(c \in Operating /\ c.op = "shutdown")
    BY DEF Operating, Guarded
  <2> QED
    BY <2>1, Shapes DEF OnAll
<1> QED
  BY <1>1 DEF StoppingAll, OnAll

(* Where a call stands in the registry and the map.                        *)
SameStanding(c, s) ==
  /\ c.pc \in {"listed", "insert"} <=> s.pc \in {"listed", "insert"}
  /\ c.pc \in {"unlisted", "drop"} <=> s.pc \in {"unlisted", "drop"}
  /\ c.pc \in {"listed", "insert", "unlisted", "drop"} => s.p = c.p
  /\ c.pc # "meta" /\ s.pc # "meta"

(* A step that changes neither the registry nor the map.                   *)
LEMMA SteadyKeeps ==
  ASSUME CallersTyped, PluginInv, NEW t \in Caller, NEW s \in CallState,
         caller' = [caller EXCEPT ![t] = s], UNCHANGED <<registered, plugins, raced>>,
         NEW n \in Nat, readers' = [readers EXCEPT ![t] = n], Provided(s, n),
         SameStanding(caller[t], s)
  PROVE  CallersTyped' /\ PluginInv'
<1>1. /\ caller' \in [Caller -> CallState] /\ caller'[t] = s
      /\ \A u \in Caller \ {t} : caller'[u] = caller[u]
  BY Moves DEF CallersTyped
<1>2. PluginsTyped /\ GuardsHeld /\ RegistryAhead /\ MetaFollows
  BY DEF PluginInv
<1>3. PluginsTyped' /\ readers'[t] = n /\ \A u \in Caller \ {t} : readers'[u] = readers[u]
  BY <1>2 DEF PluginsTyped
<1>4. GuardsHeld'
  <2>1. ASSUME NEW u \in Caller
        PROVE  Provided(caller'[u], readers'[u])
    BY <1>1, <1>2, <1>3 DEF GuardsHeld
  <2> QED
    BY <2>1 DEF GuardsHeld, Provided, Present
<1>5. \A u \in Caller, p \in Plugin : /\ Registers(caller'[u], p) <=> Registers(caller[u], p)
                                      /\ Pending(caller'[u], p) <=> Pending(caller[u], p)
  BY <1>1 DEF SameStanding, Registers, Removes, Pending
<1>6. RegistryAhead'
  <2>1. ASSUME NEW p \in Plugin, p \notin raced, \A u \in Caller : ~Pending(caller'[u], p)
        PROVE  p \in registered <=> Known(p)
    BY <1>2, <1>5, <2>1 DEF RegistryAhead
  <2>2. ASSUME NEW p \in Plugin, p \notin raced, NEW u \in Caller, Pending(caller'[u], p),
               \A v \in Caller \ {u} : ~Pending(caller'[v], p)
        PROVE  p \in registered <=> Registers(caller'[u], p)
    <3>1. Pending(caller[u], p) /\ \A v \in Caller \ {u} : ~Pending(caller[v], p)
      BY <1>5, <2>2
    <3>2. p \in registered <=> Registers(caller[u], p)
      BY <1>2, <2>2, <3>1 DEF RegistryAhead
    <3> QED
      BY <1>5, <3>2
  <2> QED
    BY <2>1, <2>2 DEF RegistryAhead, Known, Pending, Registers, Removes
<1>7. MetaFollows'
  <2>1. \A p \in Plugin : Noting(p)' <=> Noting(p)
    BY <1>1 DEF Noting, SameStanding
  <2> QED
    BY <1>2, <2>1 DEF MetaFollows, Known
<1> QED
  BY <1>1, <1>3, <1>4, <1>6, <1>7 DEF CallersTyped, PluginInv

(* No call of another manager, and no return, is about a plugin.           *)
LEMMA OthersKeep ==
  ASSUME CallersTyped, PluginInv, NEW t \in Caller,
         NEW s \in {Idle} \cup WorkflowState \cup ShutdownState,
         caller' = [caller EXCEPT ![t] = s], UNCHANGED pluginVars,
         caller[t] \in {Idle} \cup WorkflowState \cup ShutdownState
  PROVE  CallersTyped' /\ PluginInv'
<1>1. ASSUME NEW c \in {Idle} \cup WorkflowState \cup ShutdownState
      PROVE  c.pc \in {"idle", "found", "cancelling"} \cup ShutdownPcs /\ c \in CallState
  <2>1. c \in CallState
    BY DEF CallState
  <2>2. c \in ShutdownState => c.pc \in ShutdownPcs
    BY DEF ShutdownState, HandlePcs, ShutdownPcs
  <2>3. c \in {Idle} \cup WorkflowState => c.pc \in {"idle", "found", "cancelling"}
    BY DEF Idle, WorkflowState
  <2> QED
    BY <2>1, <2>2, <2>3
<1>2. UNCHANGED <<registered, plugins, raced>> /\ readers' = readers
  BY DEF pluginVars
<1>3. readers' = [readers EXCEPT ![t] = readers[t]] /\ readers[t] \in Nat
  BY <1>2 DEF PluginInv, PluginsTyped
<1>4. Provided(s, readers[t]) /\ SameStanding(caller[t], s)
  BY <1>1 DEF Provided, Holds, SameStanding, ShutdownPcs
<1> QED
  BY <1>1, <1>2, <1>3, <1>4, SteadyKeeps

(* Steps of the other managers start and end outside, and so do those that *)
(* begin and end a call: the shutdown manager's tasks are not disturbed.   *)
Aside(t) ==
  /\ caller[t].pc \notin ShutdownPcs /\ caller'[t].pc \notin ShutdownPcs
  /\ \A u \in Caller \ {t} : caller'[u] = caller[u]


(* A call that goes on, or returns, without a change to registry or map.   *)
LEMMA GoesOn ==
  ASSUME CallersTyped, PluginInv, NEW t \in Caller, NEW s \in CallState,
         caller[t].pc \notin ShutdownPcs, s.pc \notin ShutdownPcs,
         caller' = [caller EXCEPT ![t] = s], UNCHANGED <<registered, plugins, raced>>,
         NEW n \in Nat, readers' = [readers EXCEPT ![t] = n], Provided(s, n),
         SameStanding(caller[t], s)
  PROVE  CallersTyped' /\ PluginInv' /\ Aside(t)
<1>1. caller'[t] = s /\ \A u \in Caller \ {t} : caller'[u] = caller[u]
  BY Moves DEF CallersTyped
<1> QED
  BY <1>1, SteadyKeeps DEF Aside

LEMMA Readers ==
  ASSUME PluginInv, NEW t \in Caller
  PROVE  /\ readers[t] \in Nat /\ readers[t] + 1 \in Nat /\ readers[t] + 1 > 0
         /\ UNCHANGED readers => readers' = [readers EXCEPT ![t] = readers[t]]
         /\ Provided(caller[t], readers[t])
         /\ \A p \in Plugin : Known(p) => Present(p)
BY DEF PluginInv, PluginsTyped, GuardsHeld, Known, Present

LEMMA ReturnKeeps ==
  ASSUME CallersTyped, PluginInv, NEW t \in Caller,
         caller[t].pc \notin ShutdownPcs \cup {"listed", "insert", "unlisted", "drop", "meta"},
         caller' = [caller EXCEPT ![t] = Idle], UNCHANGED <<registered, plugins, raced>>,
         NEW n \in Nat, readers' = [readers EXCEPT ![t] = n]
  PROVE  CallersTyped' /\ PluginInv' /\ Aside(t)
<1>1. Idle \in CallState /\ Idle.pc = "idle"
  BY DEF CallState, Idle
<1>2. Provided(Idle, n) /\ SameStanding(caller[t], Idle) /\ Idle.pc \notin ShutdownPcs
  BY <1>1 DEF Provided, Holds, SameStanding, ShutdownPcs
<1> QED
  BY <1>1, <1>2, GoesOn

(* What a step makes of the record of a call.                              *)
Moved(c, pc) == [c EXCEPT !.pc = pc]

MovedTo(c, pc, todo) == [c EXCEPT !.pc = pc, !.todo = todo]

LEMMA OperationFields ==
  ASSUME NEW c, NEW pc, NEW op, NEW p, NEW todo, NEW new, NEW more,
         c = [pc |-> pc, op |-> op, p |-> p, todo |-> todo]
  PROVE  /\ Moved(c, new) = [pc |-> new, op |-> op, p |-> p, todo |-> todo]
         /\ MovedTo(c, new, more) = [pc |-> new, op |-> op, p |-> p, todo |-> more]
<1>1. Moved(c, new) = [pc |-> new, op |-> op, p |-> p, todo |-> todo]
  BY DEF Moved
<1>2. MovedTo(c, new, more) = [Moved(c, new) EXCEPT !.todo = more]
  BY DEF Moved, MovedTo
<1>3. [Moved(c, new) EXCEPT !.todo = more] = [pc |-> new, op |-> op, p |-> p, todo |-> more]
  BY <1>1
<1> QED
  BY <1>1, <1>2, <1>3

LEMMA OperationMoves ==
  ASSUME NEW c \in CallState, OnOne(c), NEW pc, Suits(pc, c.op), NEW todo \in Todo
  PROVE  /\ c.op # "shutdown" /\ c.p \in Plugin
         /\ Moved(c, pc) \in CallState /\ Moved(c, pc).pc = pc /\ Moved(c, pc).op = c.op
         /\ Moved(c, pc).p = c.p
         /\ MovedTo(c, pc, todo) \in CallState /\ MovedTo(c, pc, todo).pc = pc
         /\ MovedTo(c, pc, todo).op = c.op /\ MovedTo(c, pc, todo).p = c.p
<1>1. /\ c.op \in Guarded /\ c.p \in Plugin /\ c.todo \in Todo
      /\ c = [pc |-> c.pc, op |-> c.op, p |-> c.p, todo |-> c.todo]
  BY OpFields
<1>2. Moved(c, pc) = [pc |-> pc, op |-> c.op, p |-> c.p, todo |-> c.todo]
  BY <1>1, OperationFields
<1>3. MovedTo(c, pc, todo) = [pc |-> pc, op |-> c.op, p |-> c.p, todo |-> todo]
  BY <1>1, OperationFields
<1>4. c.op # "shutdown"
  BY <1>1 DEF Guarded
<1> QED
  BY <1>1, <1>2, <1>3, <1>4, Fits

(* The same for the call that stops all plugins.                           *)
LEMMA StopMoves ==
  ASSUME NEW c \in CallState, OnAll(c), c.pc \in {"set", "meta"},
         NEW pc \in {"set", "meta", "next"}, NEW todo \in Todo
  PROVE  /\ Moved(c, pc) \in CallState /\ Moved(c, pc).pc = pc /\ Moved(c, pc).op = "shutdown"
         /\ Moved(c, pc).p = c.p /\ Moved(c, pc).left = c.left
         /\ MovedTo(c, pc, todo) \in CallState /\ MovedTo(c, pc, todo).pc = pc
         /\ MovedTo(c, pc, todo).op = "shutdown" /\ MovedTo(c, pc, todo).p = c.p
         /\ MovedTo(c, pc, todo).left = c.left
<1> DEFINE S == [pc : {"set", "meta", "next"}, op : {"shutdown"}, p : Plugin, todo : Todo,
                 left : SUBSET Plugin]
<1>1. c \in S
  BY StopFields
<1>2. /\ Moved(c, pc) \in S /\ Moved(c, pc).pc = pc /\ Moved(c, pc).p = c.p
      /\ Moved(c, pc).left = c.left /\ Moved(c, pc).op = "shutdown"
  BY <1>1 DEF Moved
<1>3. /\ MovedTo(c, pc, todo) \in S /\ MovedTo(c, pc, todo).pc = pc
      /\ MovedTo(c, pc, todo).p = c.p /\ MovedTo(c, pc, todo).left = c.left
      /\ MovedTo(c, pc, todo).op = "shutdown"
  BY <1>1 DEF MovedTo
<1>4. S \subseteq CallState
  BY DEF StoppingAll, PluginCallState, CallState
<1> QED
  BY <1>2, <1>3, <1>4

(* register_plugin, up to its turn at the map's lock.                      *)
LEMMA RegistrationKeeps ==
  ASSUME CallersTyped, PluginInv, NEW t \in Caller,
         RegisterPlugin(t) \/ (AskForWrite(t) /\ At(t, "listed"))
  PROVE  CallersTyped' /\ PluginInv' /\ Aside(t)
<1>1. caller[t] \in CallState /\ UNCHANGED <<registered, plugins, raced>> /\ readers' = readers
  BY DEF CallersTyped, RegisterPlugin, AskForWrite, pluginVars
<1>2. PICK p \in Plugin, pc \in {"register", "insert"} :
        /\ caller' = [caller EXCEPT ![t] = [pc |-> pc, p |-> p]]
        /\ \/ caller[t].pc = "idle" /\ pc = "register"
           \/ caller[t].pc = "listed" /\ pc = "insert" /\ caller[t].p = p
  <2>1. CASE RegisterPlugin(t)
    BY <2>1 DEF RegisterPlugin, Call, At
  <2>2. CASE AskForWrite(t) /\ At(t, "listed")
    <3>1. caller[t].p \in Plugin /\ caller[t] = [pc |-> "listed", p |-> caller[t].p]
      BY <1>1, <2>2, RegisterFields DEF At
    <3>2. [caller[t] EXCEPT !.pc = "insert"] = [pc |-> "insert", p |-> caller[t].p]
      BY <3>1
    <3> QED
      BY <2>2, <3>1, <3>2 DEF AskForWrite, At, GotoPc, Goto
  <2> QED
    BY <2>1, <2>2
<1> DEFINE s == [pc |-> pc, p |-> p]
<1>3. s \in CallState /\ s.pc = pc /\ s.p = p
  BY DEF CallState, PluginCallState, Registering
<1>4. caller' = [caller EXCEPT ![t] = s]
  BY <1>2
<1> HIDE DEF s
<1>5. /\ Provided(s, readers[t]) /\ SameStanding(caller[t], s)
      /\ caller[t].pc \notin ShutdownPcs /\ s.pc \notin ShutdownPcs
  BY <1>2, <1>3 DEF Provided, Holds, SameStanding, ShutdownPcs
<1> QED
  BY <1>1, <1>3, <1>4, <1>5, GoesOn, Readers

LEMMA BeginKeeps ==
  ASSUME CallersTyped, PluginInv, NEW t \in Caller, BeginCall(t) \/ BeginShutdown(t)
  PROVE  CallersTyped' /\ PluginInv' /\ Aside(t)
<1>1. UNCHANGED <<registered, plugins, raced>> /\ readers' = readers /\ caller[t].pc = "idle"
  BY DEF BeginCall, BeginShutdown, Call, At
<1>2. <<>> \in Todo
  BY DEF Todo
<1>3. PICK s \in CallState : s.pc = "guard" /\ caller' = [caller EXCEPT ![t] = s]
  <2>1. CASE BeginCall(t)
    <3>1. PICK op \in Guarded, p \in Plugin :
            caller' = [caller EXCEPT ![t] = [pc |-> "guard", op |-> op, p |-> p, todo |-> <<>>]]
      BY <2>1 DEF BeginCall, Call
    <3>2. [pc |-> "guard", op |-> op, p |-> p, todo |-> <<>>] \in CallState
      BY <1>2, Fits DEF Suits
    <3> QED
      BY <3>1, <3>2
  <2>2. CASE BeginShutdown(t)
    <3>1. [pc |-> "guard", op |-> "shutdown", todo |-> <<>>, left |-> {}] \in CallState
      BY <1>2 DEF StoppingAll, PluginCallState, CallState
    <3> QED
      BY <2>2, <3>1 DEF BeginShutdown, Call
  <2> QED
    BY <2>1, <2>2
<1>4. /\ Provided(s, readers[t]) /\ SameStanding(caller[t], s)
      /\ caller[t].pc \notin ShutdownPcs /\ s.pc \notin ShutdownPcs
  BY <1>1, <1>3 DEF Provided, Holds, SameStanding, ShutdownPcs
<1> QED
  BY <1>1, <1>3, <1>4, GoesOn, Readers

LEMMA EnterKeeps ==
  ASSUME CallersTyped, PluginInv, NEW t \in Caller, Enter(t)
  PROVE  CallersTyped' /\ PluginInv' /\ Aside(t)
<1> DEFINE c == caller[t]
<1>1. /\ c \in CallState /\ c.pc = "guard" /\ UNCHANGED <<registered, plugins, raced>>
      /\ c.pc \notin ShutdownPcs
  BY DEF CallersTyped, Enter, At, ShutdownPcs
<1>2. CASE c.op = "shutdown"
  <2> DEFINE s == [c EXCEPT !.pc = "next", !.left = {p \in Plugin : Known(p)}]
  <2>1. /\ c.todo \in Todo /\ c = [pc |-> c.pc, op |-> c.op, todo |-> c.todo, left |-> c.left]
        /\ c.left \subseteq Plugin
    BY <1>1, <1>2, StopFields DEF OnAll
  <2>2. c \in [pc : {"guard", "next"}, op : {"shutdown"}, todo : Todo, left : SUBSET Plugin]
    BY <1>1, <1>2, <2>1
  <2>3. /\ s \in [pc : {"guard", "next"}, op : {"shutdown"}, todo : Todo, left : SUBSET Plugin]
        /\ s.pc = "next" /\ s.op = "shutdown" /\ s.left = {p \in Plugin : Known(p)}
    <3> DEFINE left == {p \in Plugin : Known(p)}
    <3>1. left \in SUBSET Plugin
      OBVIOUS
    <3> HIDE DEF left
    <3> QED
      BY <2>2, <3>1
  <2>4. caller' = [caller EXCEPT ![t] = s] /\ readers' = [readers EXCEPT ![t] = readers[t] + 1]
    BY <1>2 DEF Enter, Goto, Lock
  <2> HIDE DEF s
  <2>5. s \in CallState
    BY <2>3 DEF StoppingAll, PluginCallState, CallState
  <2>6. Provided(s, readers[t] + 1) /\ SameStanding(c, s) /\ s.pc \notin ShutdownPcs
    BY <1>1, <2>3, Readers DEF Provided, Holds, SameStanding, ShutdownPcs
  <2> QED
    BY <1>1, <2>4, <2>5, <2>6, GoesOn, Readers
<1>3. CASE c.op # "shutdown"
  <2>1. OnOne(c) /\ c.op \in Guarded /\ c.p \in Plugin
    BY <1>1, <1>3, OpFields DEF OnOne
  <2>2. CASE Known(c.p)
    <3>1. Present(c.p) /\ readers' = [readers EXCEPT ![t] = readers[t] + 1]
      BY <1>3, <2>1, <2>2, Readers DEF Enter, Lock
    <3>2. PICK s \in CallState : /\ caller' = [caller EXCEPT ![t] = s]
                                 /\ s.pc \in {"set", "start", "unload", "remove", "grant"}
                                 /\ s.op = c.op /\ s.p = c.p
      <4>1. CASE c.op \in DOMAIN OnEntry
        <5>1. OnEntry[c.op] \in Todo
          <6>1. /\ OnEntry.load = <<"Ready">> /\ OnEntry.initialize = <<"Ready">>
                /\ OnEntry.pause = <<"Paused">> /\ OnEntry.stop = <<"Ready">>
                /\ c.op \in {"load", "initialize", "pause", "stop"}
            BY <4>1 DEF OnEntry
          <6>2. <<"Ready">> \in Todo /\ <<"Paused">> \in Todo
            BY DEF Todo, PluginStates
          <6> QED
            BY <6>1, <6>2
        <5>2. caller' = [caller EXCEPT ![t] = MovedTo(c, "set", OnEntry[c.op])]
          BY <1>3, <2>2, <4>1 DEF Enter, Set, Goto, MovedTo
        <5>3. Suits("set", c.op)
          BY DEF Suits
        <5>4. /\ MovedTo(c, "set", OnEntry[c.op]) \in CallState
              /\ MovedTo(c, "set", OnEntry[c.op]).pc = "set"
              /\ MovedTo(c, "set", OnEntry[c.op]).op = c.op
              /\ MovedTo(c, "set", OnEntry[c.op]).p = c.p
          BY <1>1, <2>1, <5>1, <5>3, OperationMoves
        <5> QED
          BY <5>2, <5>4
      <4>2. CASE c.op \notin DOMAIN OnEntry
        <5>1. c.op \in {"start", "unload", "remove", "grant"}
          BY <2>1, <4>2 DEF OnEntry, Guarded
        <5>2. caller' = [caller EXCEPT ![t] = Moved(c, c.op)]
          BY <1>3, <2>2, <4>2 DEF Enter, GotoPc, Goto, Moved
        <5>3. Suits(c.op, c.op)
          BY <5>1 DEF Suits
        <5>4. <<>> \in Todo
          BY DEF Todo
        <5>5. /\ Moved(c, c.op) \in CallState /\ Moved(c, c.op).pc = c.op
              /\ Moved(c, c.op).op = c.op /\ Moved(c, c.op).p = c.p
          BY <1>1, <2>1, <5>3, <5>4, OperationMoves
        <5> QED
          BY <5>1, <5>2, <5>5
      <4> QED
        BY <4>1, <4>2
    <3>3. /\ Provided(s, readers[t] + 1) /\ SameStanding(c, s) /\ s.pc \notin ShutdownPcs
      BY <1>1, <1>3, <3>1, <3>2, Readers DEF Provided, Holds, SameStanding, ShutdownPcs
    <3> QED
      BY <1>1, <3>1, <3>2, <3>3, GoesOn, Readers
  <2>3. CASE ~Known(c.p)
    <3>1. readers' = readers
      BY <1>3, <2>3 DEF Enter
    <3>2. CASE c.op = "remove"
      <4>1. caller' = [caller EXCEPT ![t] = Moved(c, "unregister")]
        BY <1>3, <2>3, <3>2 DEF Enter, GotoPc, Goto, Moved
      <4>2. Suits("unregister", c.op) /\ <<>> \in Todo
        BY <3>2 DEF Suits, Todo
      <4>3. Moved(c, "unregister") \in CallState /\ Moved(c, "unregister").pc = "unregister"
        BY <1>1, <2>1, <4>2, OperationMoves
      <4>4. /\ Provided(Moved(c, "unregister"), readers[t])
            /\ SameStanding(c, Moved(c, "unregister"))
            /\ Moved(c, "unregister").pc \notin ShutdownPcs
        BY <1>1, <4>3 DEF Provided, Holds, SameStanding, ShutdownPcs
      <4> QED
        BY <1>1, <3>1, <4>1, <4>3, <4>4, GoesOn, Readers
    <3>3. CASE c.op # "remove"
      <4>1. caller' = [caller EXCEPT ![t] = Idle]
        BY <1>3, <2>3, <3>3 DEF Enter, Return, Goto
      <4> QED
        BY <1>1, <3>1, <4>1, ReturnKeeps, Readers
    <3> QED
      BY <3>2, <3>3
  <2> QED
    BY <2>2, <2>3
<1> QED
  BY <1>2, <1>3

(* A call on one plugin that goes on outside registry and map.             *)
LEMMA OperationKeeps ==
  ASSUME CallersTyped, PluginInv, NEW t \in Caller, OnOne(caller[t]), caller[t].pc # "meta",
         NEW s \in CallState, caller' = [caller EXCEPT ![t] = s],
         s.op # "shutdown", s.p = caller[t].p,
         s.pc \notin {"meta", "listed", "insert", "next"}, s.pc \notin ShutdownPcs,
         s.pc \in {"unlisted", "drop"} <=> caller[t].pc \in {"unlisted", "drop"},
         UNCHANGED <<registered, plugins, raced>>,
         NEW n \in Nat, readers' = [readers EXCEPT ![t] = n],
         s.pc \in {"start", "unload", "grant", "remove", "regain", "set"}
           => n > 0 /\ Present(caller[t].p)
  PROVE  CallersTyped' /\ PluginInv' /\ Aside(t)
<1>1. Provided(s, n)
  BY DEF Provided, Holds
<1>2. SameStanding(caller[t], s)
  BY DEF SameStanding, OnOne
<1>3. caller[t].pc \notin ShutdownPcs
  BY DEF OnOne, ShutdownPcs
<1> QED
  BY <1>1, <1>2, <1>3, GoesOn

LEMMA LifecycleKeeps ==
  ASSUME CallersTyped, PluginInv, NEW t \in Caller, Start(t) \/ Unload(t)
  PROVE  CallersTyped' /\ PluginInv' /\ Aside(t)
<1> DEFINE c == caller[t]
<1>1. /\ UNCHANGED <<registered, plugins, raced>> /\ readers' = readers
      /\ c \in CallState /\ c.pc \in {"start", "unload"}
  BY DEF Start, Unload, At, pluginVars, CallersTyped
<1>2. PICK todo \in Todo : caller' = [caller EXCEPT ![t] = MovedTo(c, "set", todo)]
  <2>1. /\ <<"Ready", "Running">> \in Todo /\ <<"Running">> \in Todo
        /\ <<"Ready", "Terminated">> \in Todo /\ <<"Terminated">> \in Todo
    BY DEF Todo, PluginStates
  <2> QED
    BY <2>1 DEF Start, Unload, Set, Goto, MovedTo
<1>3. OnOne(c) /\ Suits("set", c.op) /\ readers[t] > 0 /\ Present(c.p)
  BY <1>1, Readers DEF OnOne, Suits, Provided, Holds
<1>4. PICK s \in CallState : /\ caller' = [caller EXCEPT ![t] = s]
                             /\ s.pc = "set" /\ s.op # "shutdown" /\ s.p = c.p
  <2>1. /\ MovedTo(c, "set", todo) \in CallState /\ MovedTo(c, "set", todo).pc = "set"
        /\ MovedTo(c, "set", todo).op # "shutdown" /\ MovedTo(c, "set", todo).p = c.p
    BY <1>1, <1>3, OperationMoves
  <2> QED
    BY <1>2, <2>1
<1> QED
  BY <1>1, <1>3, <1>4, OperationKeeps, Readers DEF ShutdownPcs

LEMMA RemovalKeeps ==
  ASSUME CallersTyped, PluginInv, NEW t \in Caller,
         \/ RemoveLoaded(t) \/ EnterAgain(t) \/ FindName(t)
         \/ AskForWrite(t) /\ At(t, "unlisted")
  PROVE  CallersTyped' /\ PluginInv' /\ Aside(t)
<1> DEFINE c == caller[t]
<1>1. /\ UNCHANGED <<registered, plugins, raced>> /\ c \in CallState
      /\ c.pc \in {"remove", "regain", "unregister", "unlisted"}
  BY DEF RemoveLoaded, EnterAgain, FindName, AskForWrite, At, pluginVars, CallersTyped
<1>2. OnOne(c)
  BY <1>1 DEF OnOne
<1>3. c.op = "remove" /\ <<>> \in Todo /\ c.pc \notin ShutdownPcs
  BY <1>1, <1>2, OpFields DEF Suits, Todo, ShutdownPcs
<1>4. ASSUME NEW to \in {"unregister", "regain", "unload", "named", "drop"}
      PROVE  /\ Moved(c, to) \in CallState /\ Moved(c, to).pc = to
             /\ Moved(c, to).op # "shutdown" /\ Moved(c, to).p = c.p
  <2>1. Suits(to, c.op)
    BY <1>3 DEF Suits
  <2> QED
    BY <1>1, <1>2, <1>3, <2>1, OperationMoves
<1>5. ASSUME NEW to \in {"unregister", "regain", "unload", "named", "drop"}, NEW n \in Nat,
             caller' = [caller EXCEPT ![t] = Moved(c, to)], readers' = [readers EXCEPT ![t] = n],
             to = "drop" <=> c.pc = "unlisted",
             to \in {"unload", "regain"} => n > 0 /\ Present(c.p)
      PROVE  CallersTyped' /\ PluginInv' /\ Aside(t)
  <2> DEFINE s == Moved(c, to)
  <2>1. s \in CallState /\ s.pc = to /\ s.op # "shutdown" /\ s.p = c.p
    BY <1>4
  <2>2. caller' = [caller EXCEPT ![t] = s]
    BY <1>5
  <2> HIDE DEF s
  <2> QED
    BY <1>1, <1>2, <1>5, <2>1, <2>2, OperationKeeps DEF ShutdownPcs
<1>6. CASE RemoveLoaded(t)
  <2>1. c.pc = "remove" /\ readers[t] > 0 /\ Present(c.p)
    BY <1>6, Readers DEF RemoveLoaded, At, Provided, Holds
  <2>2. \/ /\ readers' = [readers EXCEPT ![t] = 0]
           /\ caller' = [caller EXCEPT ![t] = Moved(c, "unregister")]
        \/ readers' = readers /\ caller' = [caller EXCEPT ![t] = Moved(c, "regain")]
    BY <1>6 DEF RemoveLoaded, Unlock, GotoPc, Goto, Moved
  <2> QED
    BY <1>5, <2>1, <2>2, Readers
<1>7. CASE EnterAgain(t)
  <2>1. c.pc = "regain" /\ Present(c.p)
    BY <1>7, Readers DEF EnterAgain, At, Provided, Holds
  <2>2. /\ readers' = [readers EXCEPT ![t] = readers[t] + 1]
        /\ caller' = [caller EXCEPT ![t] = Moved(c, "unload")]
    BY <1>7 DEF EnterAgain, Lock, GotoPc, Goto, Moved
  <2> QED
    BY <1>5, <2>1, <2>2, Readers
<1>8. CASE FindName(t)
  <2>1. c.pc = "unregister" /\ readers' = readers
    BY <1>8 DEF FindName, At, pluginVars
  <2>2. \/ caller' = [caller EXCEPT ![t] = Moved(c, "named")]
        \/ caller' = [caller EXCEPT ![t] = Idle]
    BY <1>8 DEF FindName, GotoPc, Return, Goto, Moved
  <2>3. CASE caller' = [caller EXCEPT ![t] = Moved(c, "named")]
    BY <1>5, <2>1, <2>3, Readers
  <2>4. CASE caller' = [caller EXCEPT ![t] = Idle]
    BY <1>1, <1>3, <2>1, <2>4, ReturnKeeps, Readers
  <2> QED
    BY <2>2, <2>3, <2>4
<1>9. CASE AskForWrite(t) /\ At(t, "unlisted")
  <2>1. /\ c.pc = "unlisted" /\ readers' = readers
        /\ caller' = [caller EXCEPT ![t] = Moved(c, "drop")]
    BY <1>9 DEF AskForWrite, At, GotoPc, Goto, Moved
  <2> QED
    BY <1>5, <2>1, Readers
<1> QED
  BY <1>6, <1>7, <1>8, <1>9

(* A step of one call that changes what the map says of a plugin, but not  *)
(* whether it says anything.                                               *)
LEMMA EntryKeeps ==
  ASSUME CallersTyped, PluginInv, NEW t \in Caller, NEW p \in Plugin, Present(p),
         caller[t].pc \in {"set", "meta"}, caller[t].p = p,
         NEW s \in CallState, caller' = [caller EXCEPT ![t] = s],
         s.pc \in {"set", "meta"}, s.pc = "meta" => s.todo # <<>>, s.p = p,
         s.op = caller[t].op, s.op = "shutdown" => s.left = caller[t].left,
         NEW v \in PluginEntry, plugins' = [plugins EXCEPT ![p] = v],
         s.pc = "meta" \/ v.meta = v.state,
         UNCHANGED <<registered, readers, raced>>
  PROVE  CallersTyped' /\ PluginInv' /\ Aside(t)
<1>1. /\ caller' \in [Caller -> CallState] /\ caller'[t] = s
      /\ \A u \in Caller \ {t} : caller'[u] = caller[u]
  BY Moves DEF CallersTyped
<1>2. PluginsTyped /\ GuardsHeld /\ RegistryAhead /\ MetaFollows
  BY DEF PluginInv
<1>3. PluginsTyped' /\ plugins'[p] = v /\ \A q \in Plugin \ {p} : plugins'[q] = plugins[q]
  BY <1>2 DEF PluginsTyped
<1>4. \A q \in Plugin : Present(q) => plugins'[q] \in PluginEntry
  BY <1>3 DEF Present
<1>5. GuardsHeld'
  <2>1. ASSUME NEW u \in Caller, Holds(caller'[u])
        PROVE  /\ readers'[u] > 0
               /\ caller'[u].pc # "next" => plugins'[caller'[u].p] \in PluginEntry
               /\ caller'[u].pc = "meta" => caller'[u].todo # <<>>
               /\ caller'[u].op = "shutdown" =>
                    \A q \in caller'[u].left : plugins'[q] \in PluginEntry
    <3>1. Provided(caller[u], readers[u])
      BY <1>2 DEF GuardsHeld
    <3>2. Holds(caller[u])
      BY <1>1, <2>1 DEF Holds
    <3>3. CASE u = t
      <4>1. caller[t].op = "shutdown" => \A q \in caller[t].left : q \in Plugin /\ Present(q)
        BY <3>1, <3>2, <3>3, StopFields DEF Provided, CallersTyped, OnAll
      <4> QED
        BY <1>1, <1>3, <1>4, <3>1, <3>2, <3>3, <4>1 DEF Provided
    <3>4. CASE u # t
      <4>1. caller'[u] = caller[u] /\ caller[u] \in CallState /\ caller[u].pc # "idle"
        BY <1>1, <3>2, <3>4 DEF CallersTyped, Holds
      <4>2. /\ caller[u].op = "shutdown" => caller[u].left \subseteq Plugin
            /\ caller[u].pc # "next" => caller[u].p \in Plugin
        BY <3>2, <4>1, StopFields, OpFields DEF Holds, OnAll, OnOne, Guarded
      <4> QED
        BY <1>4, <3>1, <3>2, <4>1, <4>2 DEF Provided
    <3> QED
      BY <3>3, <3>4
  <2> QED
    BY <2>1 DEF GuardsHeld, Provided, Present
<1>6. Absent \notin PluginEntry
  BY PluginAssumption
<1>7. \A q \in Plugin : plugins'[q] # Absent <=> plugins[q] # Absent
  BY <1>3, <1>6 DEF Present
<1>8. \A u \in Caller, q \in Plugin : /\ Registers(caller'[u], q) <=> Registers(caller[u], q)
                                      /\ Pending(caller'[u], q) <=> Pending(caller[u], q)
  BY <1>1 DEF Registers, Removes, Pending
<1>9. RegistryAhead'
  <2>1. ASSUME NEW q \in Plugin, q \notin raced, \A u \in Caller : ~Pending(caller'[u], q)
        PROVE  q \in registered <=> plugins'[q] # Absent
    BY <1>2, <1>7, <1>8, <2>1 DEF RegistryAhead, Known
  <2>2. ASSUME NEW q \in Plugin, q \notin raced, NEW u \in Caller, Pending(caller'[u], q),
               \A x \in Caller \ {u} : ~Pending(caller'[x], q)
        PROVE  q \in registered <=> Registers(caller'[u], q)
    <3>1. Pending(caller[u], q) /\ \A x \in Caller \ {u} : ~Pending(caller[x], q)
      BY <1>8, <2>2
    <3>2. q \in registered <=> Registers(caller[u], q)
      BY <1>2, <2>2, <3>1 DEF RegistryAhead
    <3> QED
      BY <1>8, <3>2
  <2> QED
    BY <2>1, <2>2 DEF RegistryAhead, Known, Pending, Registers, Removes
<1>10. MetaFollows'
  <2>1. ASSUME NEW q \in Plugin, plugins'[q] # Absent,
               ~\E u \in Caller : caller'[u].pc = "meta" /\ caller'[u].p = q
        PROVE  Follows(plugins'[q])
    <3>1. CASE q = p
      BY <1>1, <1>3, <2>1, <3>1 DEF Follows
    <3>2. CASE q # p
      <4>1. ~Noting(q) /\ plugins'[q] = plugins[q]
        BY <1>1, <1>3, <2>1, <3>2 DEF Noting
      <4> QED
        BY <1>2, <2>1, <4>1 DEF MetaFollows, Known
    <3> QED
      BY <3>1, <3>2
  <2> QED
    BY <2>1 DEF MetaFollows, Known, Noting
<1>11. Aside(t)
  BY <1>1 DEF Aside, ShutdownPcs
<1> QED
  BY <1>1, <1>3, <1>5, <1>9, <1>10, <1>11 DEF CallersTyped, PluginInv

LEMMA StatesKeep ==
  ASSUME CallersTyped, PluginInv, NEW t \in Caller, SetState(t) \/ NoteState(t)
  PROVE  CallersTyped' /\ PluginInv' /\ Aside(t)
<1> DEFINE c == caller[t]
           h == IF SetState(t) THEN "meta" ELSE "set"
<1>1. /\ c \in CallState /\ c.pc \in {"set", "meta"} /\ UNCHANGED <<registered, readers, raced>>
      /\ OnOne(c) \/ OnAll(c)
  BY DEF CallersTyped, SetState, NoteState, At, OnOne, OnAll
<1>2. /\ c.p \in Plugin /\ c.todo \in Todo /\ Present(c.p)
      /\ c.op = "shutdown" => OnAll(c)
      /\ OnAll(c) => c.op = "shutdown" /\ c.left \subseteq Plugin
      /\ c.pc = "meta" => c.todo # <<>>
  BY <1>1, Readers, OpFields, StopFields DEF Provided, Holds, OnOne, OnAll
<1>3. plugins[c.p] \in PluginEntry
  BY <1>2 DEF Present
<1>4. CASE SetState(t)
  <2>1. /\ c.pc = "set" /\ c.todo # <<>> /\ Head(c.todo) \in PluginStates
        /\ caller' = [caller EXCEPT ![t] = Moved(c, "meta")]
    BY <1>2, <1>4 DEF SetState, At, GotoPc, Goto, Moved, Todo
  <2>2. PICK v \in PluginEntry : plugins' = [plugins EXCEPT ![c.p] = v]
    <3>1. [plugins[c.p] EXCEPT !.state = Head(c.todo)] \in PluginEntry
      BY <1>3, <2>1 DEF PluginEntry
    <3>2. plugins' = [plugins EXCEPT ![c.p] = [plugins[c.p] EXCEPT !.state = Head(c.todo)]]
      BY <1>4 DEF SetState
    <3> QED
      BY <3>1, <3>2
  <2>3. PICK s \in CallState :
          /\ caller' = [caller EXCEPT ![t] = s] /\ s.pc = "meta" /\ s.todo # <<>> /\ s.p = c.p
          /\ s.op = c.op /\ (s.op = "shutdown" => s.left = c.left)
    <3> DEFINE m == Moved(c, "meta")
    <3>1. CASE OnOne(c)
      <4>1. Suits("meta", c.op)
        BY DEF Suits
      <4>2. m \in CallState /\ m.pc = "meta" /\ m.p = c.p /\ m.op = c.op /\ c.op # "shutdown"
        BY <1>1, <1>2, <3>1, <4>1, OperationMoves
      <4>3. m.todo = c.todo
        <5>1. c = [pc |-> c.pc, op |-> c.op, p |-> c.p, todo |-> c.todo]
          BY <1>1, <3>1, OpFields
        <5>2. m = [pc |-> "meta", op |-> c.op, p |-> c.p, todo |-> c.todo]
          BY <5>1, OperationFields
        <5> QED
          BY <5>2
      <4> HIDE DEF m
      <4> QED
        BY <2>1, <4>2, <4>3 DEF m
    <3>2. CASE OnAll(c)
      <4>1. /\ m \in CallState /\ m.pc = "meta" /\ m.p = c.p /\ m.op = "shutdown" /\ m.left = c.left
        BY <1>1, <1>2, <3>2, StopMoves
      <4>2. m.todo = c.todo
        <5>1. c = [pc |-> c.pc, op |-> c.op, p |-> c.p, todo |-> c.todo, left |-> c.left]
          BY <1>1, <2>1, <3>2, StopFields
        <5> QED
          BY <5>1 DEF Moved
      <4> HIDE DEF m
      <4> QED
        BY <1>2, <2>1, <3>2, <4>1, <4>2 DEF m
    <3> QED
      BY <1>1, <3>1, <3>2
  <2> QED
    BY <1>1, <1>2, <2>1, <2>2, <2>3, EntryKeeps
<1>5. CASE NoteState(t)
  <2>1. /\ c.pc = "meta" /\ c.todo # <<>> /\ Tail(c.todo) \in Todo
        /\ caller' = [caller EXCEPT ![t] = [c EXCEPT !.pc = "set", !.todo = Tail(@)]]
    BY <1>2, <1>5 DEF NoteState, At, Advance, Goto, Todo
  <2>2. PICK v \in PluginEntry : plugins' = [plugins EXCEPT ![c.p] = v] /\ v.meta = v.state
    <3> DEFINE v == [plugins[c.p] EXCEPT !.meta = plugins[c.p].state]
    <3>1. v \in PluginEntry /\ v.meta = v.state
      BY <1>3 DEF PluginEntry
    <3>2. plugins' = [plugins EXCEPT ![c.p] = v]
      BY <1>5 DEF NoteState
    <3> HIDE DEF v
    <3> QED
      BY <3>1, <3>2
  <2>3. PICK s \in CallState :
          /\ caller' = [caller EXCEPT ![t] = s] /\ s.pc = "set" /\ s.p = c.p
          /\ s.op = c.op /\ (s.op = "shutdown" => s.left = c.left)
    <3> DEFINE rest == Tail(c.todo)
               m == MovedTo(c, "set", rest)
    <3>1. rest \in Todo
      BY <2>1
    <3>2. [c EXCEPT !.pc = "set", !.todo = Tail(@)] = m
      BY DEF MovedTo
    <3>3. caller' = [caller EXCEPT ![t] = m]
      BY <2>1, <3>2
    <3> HIDE DEF rest
    <3>4. CASE OnOne(c)
      <4>1. Suits("set", c.op)
        BY DEF Suits
      <4>2. m \in CallState /\ m.pc = "set" /\ m.p = c.p /\ m.op = c.op /\ c.op # "shutdown"
        BY <1>1, <3>1, <3>4, <4>1, OperationMoves
      <4> HIDE DEF m
      <4> QED
        BY <3>3, <4>2
    <3>5. CASE OnAll(c)
      <4>1. /\ m \in CallState /\ m.pc = "set" /\ m.p = c.p /\ m.op = "shutdown" /\ m.left = c.left
        BY <1>1, <3>1, <3>5, StopMoves
      <4> HIDE DEF m
      <4> QED
        BY <1>2, <3>3, <3>5, <4>1
    <3> QED
      BY <1>1, <3>4, <3>5
  <2> QED
    BY <1>1, <1>2, <2>1, <2>2, <2>3, EntryKeeps
<1> QED
  BY <1>4, <1>5

LEMMA FinishKeeps ==
  ASSUME CallersTyped, PluginInv, NEW t \in Caller, Finish(t)
  PROVE  CallersTyped' /\ PluginInv' /\ Aside(t)
<1> DEFINE c == caller[t]
<1>1. /\ c \in CallState /\ c.pc = "set" /\ UNCHANGED <<registered, plugins, raced>>
      /\ <<>> \in Todo /\ c.pc \notin ShutdownPcs
  BY DEF CallersTyped, Finish, At, Todo, ShutdownPcs
<1>2. CASE c.op = "remove"
  <2>1. /\ caller' = [caller EXCEPT ![t] = Moved(c, "unregister")]
        /\ readers' = [readers EXCEPT ![t] = 0]
    BY <1>2 DEF Finish, Unlock, GotoPc, Goto, Moved
  <2>2. OnOne(c) /\ Suits("unregister", c.op)
    BY <1>1, <1>2 DEF OnOne, Suits
  <2> DEFINE s == Moved(c, "unregister")
  <2>3. s \in CallState /\ s.pc = "unregister" /\ s.p = c.p /\ s.op # "shutdown"
    BY <1>1, <2>2, OperationMoves
  <2>4. caller' = [caller EXCEPT ![t] = s]
    BY <2>1
  <2> HIDE DEF s
  <2> QED
    BY <1>1, <2>1, <2>2, <2>3, <2>4, OperationKeeps DEF ShutdownPcs
<1>3. CASE c.op = "shutdown"
  <2> DEFINE s == Moved(c, "next")
  <2>1. caller' = [caller EXCEPT ![t] = s] /\ readers' = readers
    BY <1>3 DEF Finish, GotoPc, Goto, Moved
  <2>2. s \in CallState /\ s.pc = "next" /\ s.op = "shutdown" /\ s.left = c.left
    BY <1>1, <1>3, StopMoves DEF OnAll
  <2> HIDE DEF s
  <2>3. Provided(s, readers[t]) /\ SameStanding(c, s) /\ s.pc \notin ShutdownPcs
    BY <1>1, <1>3, <2>2, Readers DEF Provided, Holds, SameStanding, ShutdownPcs
  <2> QED
    BY <1>1, <2>1, <2>2, <2>3, GoesOn, Readers
<1>4. CASE c.op \notin {"remove", "shutdown"}
  <2>1. caller' = [caller EXCEPT ![t] = Idle] /\ readers' = [readers EXCEPT ![t] = 0]
    BY <1>4 DEF Finish, Unlock, Return, Goto
  <2> QED
    BY <1>1, <2>1, ReturnKeeps
<1> QED
  BY <1>2, <1>3, <1>4

LEMMA StopNextKeeps ==
  ASSUME CallersTyped, PluginInv, NEW t \in Caller, StopNext(t)
  PROVE  CallersTyped' /\ PluginInv' /\ Aside(t)
<1> DEFINE c == caller[t]
<1>1. /\ c \in CallState /\ c.pc = "next" /\ UNCHANGED <<registered, plugins, raced>>
      /\ c.pc \notin ShutdownPcs /\ c.op = "shutdown" /\ c.left \subseteq Plugin
  BY StopFields DEF CallersTyped, StopNext, At, ShutdownPcs, OnAll
<1>2. readers[t] > 0 /\ \A p \in c.left : Present(p)
  BY <1>1, Readers DEF Provided, Holds
<1>3. CASE c.left = {}
  BY <1>1, <1>3, ReturnKeeps DEF StopNext, Unlock, Return, Goto
<1>4. CASE c.left # {}
  <2>1. PICK p \in c.left, todo \in {<<"Ready">>, <<>>} :
          caller' = [caller EXCEPT ![t] = [pc |-> "set", op |-> "shutdown", p |-> p, todo |-> todo,
                                           left |-> c.left \ {p}]]
    BY <1>4 DEF StopNext, Goto
  <2> DEFINE s == [pc |-> "set", op |-> "shutdown", p |-> p, todo |-> todo, left |-> c.left \ {p}]
  <2>2. todo \in Todo /\ p \in Plugin /\ c.left \ {p} \subseteq Plugin
    <3>1. <<"Ready">> \in Todo /\ <<>> \in Todo
      BY DEF Todo, PluginStates
    <3> QED
      BY <1>1, <3>1
  <2>3. /\ s \in CallState /\ s.pc = "set" /\ s.op = "shutdown" /\ s.p = p
        /\ s.left = c.left \ {p}
    BY <2>2 DEF CallState, PluginCallState, StoppingAll
  <2>4. caller' = [caller EXCEPT ![t] = s] /\ readers' = readers
    BY <1>4, <2>1 DEF StopNext
  <2> HIDE DEF s
  <2>5. Provided(s, readers[t]) /\ SameStanding(c, s) /\ s.pc \notin ShutdownPcs
    BY <1>1, <1>2, <2>3 DEF Provided, Holds, SameStanding, ShutdownPcs
  <2> QED
    BY <1>1, <2>3, <2>4, <2>5, GoesOn, Readers
<1> QED
  BY <1>3, <1>4

LEMMA GrantKeeps ==
  ASSUME CallersTyped, PluginInv, NEW t \in Caller, Grant(t) \/ GrantWithoutId(t)
  PROVE  CallersTyped' /\ PluginInv' /\ Aside(t)
<1>1. /\ caller[t].pc = "grant" /\ caller' = [caller EXCEPT ![t] = Idle]
      /\ readers' = [readers EXCEPT ![t] = 0] /\ UNCHANGED <<registered, plugins, raced>>
  BY DEF Grant, GrantWithoutId, At, Unlock, Return, Goto
<1> QED
  BY <1>1, ReturnKeeps DEF ShutdownPcs

(* The registry changes first, and then the map.                           *)
LEMMA RegistryKeeps ==
  ASSUME CallersTyped, PluginInv, NEW t \in Caller, InsertIntoRegistry(t) \/ Unregister(t)
  PROVE  CallersTyped' /\ PluginInv' /\ Aside(t)
<1> DEFINE c == caller[t]
           p == c.p
<1>1. c \in CallState /\ c.pc \in {"register", "named"} /\ UNCHANGED <<plugins, readers, raced>>
  BY DEF CallersTyped, InsertIntoRegistry, Unregister, At
<1>2. p \in Plugin
  BY <1>1, RegisterFields, OpFields DEF OnOne
<1>3. PICK s \in CallState :
        /\ caller' = [caller EXCEPT ![t] = s] /\ s.p = p
        /\ \/ s.pc = "listed" /\ registered' = registered \cup {p}
           \/ s.pc = "unlisted" /\ registered' = registered \ {p}
  <2>1. CASE InsertIntoRegistry(t)
    <3>1. c = [pc |-> "register", p |-> p]
      BY <1>1, <2>1, RegisterFields DEF InsertIntoRegistry, At
    <3>2. [c EXCEPT !.pc = "listed"] = [pc |-> "listed", p |-> p]
      BY <3>1
    <3>3. [pc |-> "listed", p |-> p] \in CallState
      BY <1>2 DEF CallState, PluginCallState, Registering
    <3>4. /\ caller' = [caller EXCEPT ![t] = [c EXCEPT !.pc = "listed"]]
          /\ registered' = registered \cup {p}
      BY <2>1 DEF InsertIntoRegistry, GotoPc, Goto
    <3> QED
      BY <3>2, <3>3, <3>4
  <2>2. CASE Unregister(t)
    <3>1. OnOne(c) /\ c.pc = "named"
      BY <2>2 DEF OnOne, Unregister, At
    <3>2. Suits("unlisted", c.op) /\ <<>> \in Todo
      BY <1>1, <3>1, OpFields DEF Suits, Todo
    <3> DEFINE s == Moved(c, "unlisted")
    <3>3. s \in CallState /\ s.pc = "unlisted" /\ s.p = p
      BY <1>1, <3>1, <3>2, OperationMoves
    <3>4. caller' = [caller EXCEPT ![t] = s] /\ registered' = registered \ {p}
      BY <2>2 DEF Unregister, GotoPc, Goto, Moved
    <3> HIDE DEF s
    <3> QED
      BY <3>3, <3>4
  <2> QED
    BY <2>1, <2>2 DEF InsertIntoRegistry, Unregister
<1>4. /\ caller' \in [Caller -> CallState] /\ caller'[t] = s
      /\ \A u \in Caller \ {t} : caller'[u] = caller[u]
  BY <1>3, Moves DEF CallersTyped
<1>5. PluginsTyped /\ GuardsHeld /\ RegistryAhead /\ MetaFollows
  BY DEF PluginInv
<1>6. PluginsTyped'
  BY <1>1, <1>2, <1>3, <1>5 DEF PluginsTyped
<1>7. GuardsHeld'
  <2>1. ASSUME NEW u \in Caller
        PROVE  Provided(caller'[u], readers'[u])
    <3>1. CASE u = t
      BY <1>3, <1>4, <3>1 DEF Provided, Holds
    <3>2. CASE u # t
      BY <1>1, <1>4, <1>5, <3>2 DEF GuardsHeld
    <3> QED
      BY <3>1, <3>2
  <2> QED
    BY <1>1, <2>1 DEF GuardsHeld, Provided, Present
<1>8. /\ \A q \in Plugin : ~Pending(c, q)
      /\ \A q \in Plugin : Pending(s, q) <=> q = p
      /\ Registers(s, p) <=> p \in registered'
      /\ \A q \in Plugin \ {p} : q \in registered' <=> q \in registered
  BY <1>1, <1>2, <1>3 DEF Pending, Registers, Removes
<1>9. RegistryAhead'
  <2>1. ASSUME NEW q \in Plugin, q \notin raced, \A u \in Caller : ~Pending(caller'[u], q)
        PROVE  q \in registered' <=> Known(q)
    <3>1. q # p /\ \A u \in Caller : ~Pending(caller[u], q)
      BY <1>4, <1>8, <2>1
    <3> QED
      BY <1>5, <1>8, <2>1, <3>1 DEF RegistryAhead
  <2>2. ASSUME NEW q \in Plugin, q \notin raced, NEW u \in Caller, Pending(caller'[u], q),
               \A x \in Caller \ {u} : ~Pending(caller'[x], q)
        PROVE  q \in registered' <=> Registers(caller'[u], q)
    <3>1. CASE u = t
      BY <1>4, <1>8, <2>2, <3>1
    <3>2. CASE u # t
      <4>1. q # p /\ Pending(caller[u], q) /\ caller'[u] = caller[u]
        BY <1>4, <1>8, <2>2, <3>2
      <4>2. \A x \in Caller \ {u} : ~Pending(caller[x], q)
        BY <1>4, <1>8, <2>2
      <4>3. q \in registered <=> Registers(caller[u], q)
        BY <1>5, <2>2, <4>1, <4>2 DEF RegistryAhead
      <4> QED
        BY <1>8, <4>1, <4>3
    <3> QED
      BY <3>1, <3>2
  <2> QED
    BY <1>1, <2>1, <2>2 DEF RegistryAhead, Known, Pending, Registers, Removes
<1>10. MetaFollows'
  <2>1. \A q \in Plugin : Noting(q)' <=> Noting(q)
    BY <1>1, <1>3, <1>4 DEF Noting
  <2> QED
    BY <1>1, <1>5, <2>1 DEF MetaFollows, Known
<1>11. Aside(t)
  BY <1>1, <1>3, <1>4 DEF Aside, ShutdownPcs
<1> QED
  BY <1>4, <1>6, <1>7, <1>9, <1>10, <1>11 DEF CallersTyped, PluginInv

(* Whoever writes to the map is alone with it: no call holds a read guard. *)
LEMMA MapKeeps ==
  ASSUME CallersTyped, PluginInv, NEW t \in Caller, InsertPlugin(t) \/ DropPlugin(t)
  PROVE  CallersTyped' /\ PluginInv' /\ Aside(t)
<1> DEFINE c == caller[t]
           p == c.p
<1>1. /\ c \in CallState /\ c.pc \in {"insert", "drop"} /\ UNCHANGED <<registered, readers>>
      /\ caller' = [caller EXCEPT ![t] = Idle]
      /\ raced' = IF Overlapped(t, p) THEN raced \cup {p} ELSE raced
      /\ \A u \in Caller : readers[u] = 0
  BY DEF CallersTyped, InsertPlugin, DropPlugin, At, MayWrite, Return, Goto
<1>2. p \in Plugin
  BY <1>1, RegisterFields, OpFields DEF OnOne
<1>3. /\ \A meta \in Given : Created(meta) \in PluginEntry /\ Follows(Created(meta))
      /\ Absent \notin PluginEntry
  BY PluginAssumption DEF Created, Follows, PluginEntry, PluginStates
<1>4. PICK v \in PluginEntry \cup {Absent} :
        /\ plugins' = [plugins EXCEPT ![p] = v]
        /\ v # Absent <=> c.pc = "insert"
        /\ v # Absent => Follows(v)
  BY <1>3 DEF InsertPlugin, DropPlugin, At
<1>5. /\ caller' \in [Caller -> CallState] /\ caller'[t] = Idle /\ Idle.pc = "idle"
      /\ \A u \in Caller \ {t} : caller'[u] = caller[u]
  <2>1. Idle \in CallState /\ Idle.pc = "idle"
    BY DEF CallState, Idle
  <2> QED
    BY <1>1, <2>1, Moves DEF CallersTyped
<1>6. PluginsTyped /\ GuardsHeld /\ RegistryAhead /\ MetaFollows
  BY DEF PluginInv
<1>7. PluginsTyped' /\ plugins'[p] = v /\ \A q \in Plugin \ {p} : plugins'[q] = plugins[q]
  BY <1>1, <1>2, <1>4, <1>6 DEF PluginsTyped
<1>8. \A u \in Caller : ~Holds(caller[u])
  <2>1. \A u \in Caller : ~(readers[u] > 0)
    BY <1>1
  <2> QED
    BY <1>6, <2>1 DEF GuardsHeld, Provided
<1>9. \A u \in Caller : ~Holds(caller'[u])
  BY <1>5, <1>8 DEF Holds
<1>10. GuardsHeld'
  BY <1>9 DEF GuardsHeld, Provided, Holds
<1>11. MetaFollows'
  <2>1. \A q \in Plugin : ~Noting(q)
    BY <1>8 DEF Noting, Holds
  <2>2. \A q \in Plugin : plugins'[q] # Absent => Follows(plugins'[q])
    BY <1>4, <1>6, <1>7, <2>1 DEF MetaFollows, Known
  <2> QED
    BY <2>2 DEF MetaFollows, Known
<1>12. /\ \A q \in Plugin : Pending(c, q) <=> q = p
       /\ Registers(c, p) <=> v # Absent
       /\ \A q \in Plugin : ~Pending(caller'[t], q)
  BY <1>1, <1>2, <1>4, <1>5 DEF Pending, Registers, Removes
<1>13. ASSUME p \notin raced' PROVE \A u \in Caller \ {t} : ~Pending(caller[u], p)
  <2>1. ~Overlapped(t, p) /\ p \notin raced
    BY <1>1, <1>13
  <2>2. ASSUME NEW u \in Caller \ {t}, Pending(caller[u], p) PROVE FALSE
    <3>1. caller[u] \in CallState
      BY DEF CallersTyped
    <3>2. CASE Registers(caller[u], p)
      <4>1. caller[u] = [pc |-> caller[u].pc, p |-> caller[u].p]
        BY <3>1, <3>2, RegisterFields DEF Registers
      <4>2. "p" \in DOMAIN caller[u]
        BY <4>1
      <4> QED
        BY <2>1, <3>2, <4>2 DEF Overlapped, About, Registers
    <3>3. CASE Removes(caller[u], p)
      <4>1. OnOne(caller[u])
        BY <3>3 DEF Removes, OnOne
      <4>2. /\ caller[u].op = "remove"
            /\ caller[u] = [pc |-> caller[u].pc, op |-> caller[u].op, p |-> caller[u].p,
                            todo |-> caller[u].todo]
        BY <3>1, <3>3, <4>1, OpFields DEF Removes, Suits
      <4>3. "p" \in DOMAIN caller[u]
        BY <4>2
      <4> QED
        BY <2>1, <3>3, <4>2, <4>3 DEF Overlapped, About, Removes
    <3> QED
      BY <2>2, <3>2, <3>3 DEF Pending
  <2> QED
    BY <2>2
<1>14. raced \subseteq raced'
  BY <1>1
<1>15. RegistryAhead'
  <2>1. ASSUME NEW q \in Plugin, q \notin raced', \A u \in Caller : ~Pending(caller'[u], q)
        PROVE  q \in registered' <=> plugins'[q] # Absent
    <3>1. CASE q = p
      <4>1. Pending(caller[t], p) /\ \A u \in Caller \ {t} : ~Pending(caller[u], p)
        BY <1>2, <1>12, <1>13, <2>1, <3>1
      <4>2. p \in registered <=> Registers(caller[t], p)
        BY <1>2, <1>6, <1>14, <2>1, <3>1, <4>1 DEF RegistryAhead
      <4> QED
        BY <1>1, <1>7, <1>12, <3>1, <4>2
    <3>2. CASE q # p
      <4>1. \A u \in Caller : ~Pending(caller[u], q)
        BY <1>5, <1>12, <2>1, <3>2
      <4> QED
        BY <1>1, <1>6, <1>7, <1>14, <2>1, <3>2, <4>1 DEF RegistryAhead, Known
    <3> QED
      BY <3>1, <3>2
  <2>2. ASSUME NEW q \in Plugin, q \notin raced', NEW u \in Caller, Pending(caller'[u], q),
               \A x \in Caller \ {u} : ~Pending(caller'[x], q)
        PROVE  q \in registered' <=> Registers(caller'[u], q)
    <3>1. u # t /\ caller'[u] = caller[u]
      BY <1>5, <1>12, <2>2
    <3>2. q # p
      BY <1>13, <2>2, <3>1
    <3>3. Pending(caller[u], q) /\ \A x \in Caller \ {u} : ~Pending(caller[x], q)
      BY <1>5, <1>12, <2>2, <3>1, <3>2
    <3>4. q \in registered <=> Registers(caller[u], q)
      BY <1>6, <1>14, <2>2, <3>3 DEF RegistryAhead
    <3> QED
      BY <1>1, <3>1, <3>4
  <2> QED
    BY <2>1, <2>2 DEF RegistryAhead, Known, Pending, Registers, Removes
<1>16. Aside(t)
  BY <1>1, <1>5 DEF Aside, ShutdownPcs
<1> QED
  BY <1>5, <1>7, <1>10, <1>11, <1>15, <1>16 DEF CallersTyped, PluginInv

(* Every step of the plugin manager.                                       *)
LEMMA PluginKeeps ==
  ASSUME CallersTyped, PluginInv, NEW t \in Caller, PluginStep(t) \/ PluginCall(t)
  PROVE  CallersTyped' /\ PluginInv' /\ Aside(t)
<1>1. CASE PluginCall(t)
  BY <1>1, RegistrationKeeps, BeginKeeps DEF PluginCall
<1>2. CASE AskForWrite(t)
  BY <1>2, RegistrationKeeps, RemovalKeeps DEF AskForWrite
<1> QED
  BY <1>1, <1>2, RegistryKeeps, MapKeeps, EnterKeeps, LifecycleKeeps, StatesKeep, FinishKeeps,
     StopNextKeeps, GrantKeeps, RemovalKeeps DEF PluginStep

-----------------------------------------------------------------------------
(* The shutdown manager. There is one request for ever. While nobody has   *)
(* told twice that it stopped, and until the request takes its permits,    *)
(* there is a permit of every component but those that are running; and    *)
(* who registers after the count is late.                                  *)
Requests(c) == c.pc \in {"count", "send", "await"}

ShutdownTyped ==
  /\ component_count \in Nat /\ permits \in Nat /\ running \subseteq 1..component_count
  /\ in_progress \in BOOLEAN /\ signalled \in BOOLEAN /\ late \in BOOLEAN /\ reported \in BOOLEAN
  /\ twice \in BOOLEAN /\ counted \in BOOLEAN

OneRequest ==
  /\ \A t \in Caller : Requests(caller[t]) =>
       in_progress /\ ~reported /\ \A u \in Caller : Requests(caller[u]) => u = t
  /\ reported => in_progress

PermitsCounted ==
  /\ ~twice /\ ~reported => component_count = permits + Cardinality(running)
  /\ \A t \in Caller : caller[t].pc \in {"send", "await"} =>
       counted /\ (~late => caller[t].n = component_count)
  /\ reported => counted

ShutdownInv == ShutdownTyped /\ OneRequest /\ PermitsCounted /\ SuccessMeansStopped

LEMMA RunningFinite ==
  ASSUME ShutdownTyped
  PROVE  IsFiniteSet(running) /\ Cardinality(running) \in Nat
<1>1. component_count \in Int /\ running \in SUBSET (1..component_count)
  BY DEF ShutdownTyped
<1>2. IsFiniteSet(1..component_count)
  BY <1>1, FS_Interval
<1>3. IsFiniteSet(running)
  BY <1>1, <1>2, FS_Subset
<1> QED
  BY <1>3, FS_CardinalityType

(* A step that changes no part of it, and no request.                      *)
LEMMA ShutdownRests ==
  ASSUME ShutdownInv, \A u \in Caller : Requests(caller'[u]) => caller'[u] = caller[u],
         UNCHANGED shutdownVars
  PROVE  ShutdownInv'
<1>1. /\ UNCHANGED <<component_count, in_progress, signalled, permits, running, twice, counted>>
      /\ UNCHANGED <<late, reported>>
  BY DEF shutdownVars, ghosts
<1>2. ShutdownTyped' /\ SuccessMeansStopped'
  BY <1>1 DEF ShutdownInv, ShutdownTyped, SuccessMeansStopped
<1>3. OneRequest'
  BY <1>1 DEF ShutdownInv, OneRequest, Requests
<1>4. PermitsCounted'
  BY <1>1 DEF ShutdownInv, PermitsCounted, Requests
<1> QED
  BY <1>2, <1>3, <1>4 DEF ShutdownInv

(* The steps of the other managers are such.                               *)
LEMMA OthersRestShutdown ==
  ASSUME ShutdownInv, NEW t \in Caller, Aside(t), UNCHANGED shutdownVars
  PROVE  ShutdownInv'
<1>1. \A u \in Caller : Requests(caller'[u]) => caller'[u] = caller[u]
  BY DEF Aside, Requests, ShutdownPcs
<1> QED
  BY <1>1, ShutdownRests

(* Each step of the shutdown manager, as a step of its task.               *)
LEMMA ShutdownFields ==
  ASSUME CallersTyped, NEW t \in Caller, caller[t].pc \in ShutdownPcs
  PROVE  /\ caller[t] \in ShutdownState
         /\ caller[t].pc \in {"send", "await"} =>
              caller[t].n \in Nat /\ caller[t] = [pc |-> caller[t].pc, n |-> caller[t].n]
<1>1. caller[t] \in ShutdownState
  BY Shapes DEF CallersTyped
<1>2. caller[t].pc \in {"send", "await"} => caller[t] \in [pc : {"send", "await"}, n : Nat]
  BY <1>1 DEF ShutdownState, HandlePcs
<1> QED
  BY <1>1, <1>2

ShutdownMove(t, s) ==
  /\ s \in {Idle} \cup ShutdownState /\ caller[t] \in {Idle} \cup ShutdownState
  /\ caller' = [caller EXCEPT ![t] = s]

LEMMA PcOnly ==
  ASSUME CallersTyped, NEW t \in Caller, caller[t].pc \in HandlePcs,
         NEW pc \in HandlePcs, GotoPc(t, pc)
  PROVE  \E s : ShutdownMove(t, s) /\ s.pc = pc
<1>1. caller[t] \in ShutdownState
  BY Shapes DEF CallersTyped, ShutdownPcs, HandlePcs
<1>2. caller[t] \in [pc : HandlePcs, id : Nat]
  BY <1>1 DEF ShutdownState, HandlePcs
<1>3. [caller[t] EXCEPT !.pc = pc] = [pc |-> pc, id |-> caller[t].id]
  BY <1>2
<1>4. [pc |-> pc, id |-> caller[t].id] \in ShutdownState
  BY <1>2 DEF ShutdownState
<1> DEFINE s == [pc |-> pc, id |-> caller[t].id]
<1>5. ShutdownMove(t, s) /\ s.pc = pc
  BY <1>1, <1>3, <1>4 DEF ShutdownMove, GotoPc, Goto
<1> HIDE DEF s
<1> QED
  BY <1>5

LEMMA OneMoves ==
  ASSUME CallersTyped, NEW t \in Caller, NEW s, ShutdownMove(t, s)
  PROVE  caller'[t] = s /\ \A u \in Caller \ {t} : caller'[u] = caller[u]
<1>1. s \in CallState
  BY DEF ShutdownMove, CallState
<1> QED
  BY <1>1, Moves DEF CallersTyped, ShutdownMove

LEMMA IdleMove ==
  ASSUME CallersTyped, NEW t \in Caller, caller[t].pc \in ShutdownPcs, Return(t)
  PROVE  ShutdownMove(t, Idle) /\ Idle.pc = "idle"
BY Shapes DEF ShutdownMove, Return, Goto, Idle, CallersTyped

LEMMA IdleShape ==
  ASSUME CallersTyped, NEW t \in Caller, caller[t].pc = "idle"
  PROVE  caller[t] = Idle
<1>1. caller[t] \in CallState
  BY DEF CallersTyped
<1> QED
  BY <1>1 DEF CallState, PluginCallState, ShutdownState, HandlePcs, WorkflowState, Registering,
              Operating, Removing, StoppingAll

(* A task that does not begin a request, or that ends one.                 *)
LEMMA NoRequest ==
  ASSUME CallersTyped, NEW t \in Caller, NEW s, ShutdownMove(t, s), ~Requests(s)
  PROVE  \A u \in Caller : Requests(caller'[u]) => caller'[u] = caller[u]
<1>1. caller'[t] = s /\ \A u \in Caller \ {t} : caller'[u] = caller[u]
  BY OneMoves
<1> QED
  BY <1>1

LEMMA RegisterKeeps ==
  ASSUME CallersTyped, ShutdownInv, NEW t \in Caller, RegisterComponent(t)
  PROVE  ShutdownInv' /\ \E s : ShutdownMove(t, s)
<1> DEFINE id == component_count + 1
           s == [pc |-> "handle", id |-> id]
<1>1. /\ UNCHANGED <<in_progress, signalled, permits, twice, counted, reported>>
      /\ component_count' = id /\ running' = running \cup {id} /\ late' = (late \/ counted)
      /\ caller[t].pc = "idle"
  BY DEF RegisterComponent, Call, At
<1>2. component_count \in Nat /\ running \subseteq 1..component_count /\ permits \in Nat
  BY DEF ShutdownInv, ShutdownTyped
<1>3. ShutdownMove(t, s) /\ s.pc = "handle"
  <2>1. s \in ShutdownState /\ s.pc = "handle"
    BY <1>2 DEF ShutdownState, HandlePcs
  <2> QED
    BY <1>1, <2>1, IdleShape DEF ShutdownMove, RegisterComponent, Call
<1> HIDE DEF s
<1>4. \A u \in Caller : Requests(caller'[u]) => caller'[u] = caller[u]
  BY <1>3, NoRequest DEF Requests
<1>5. ShutdownTyped'
  <2>1. component_count' \in Nat /\ running' \subseteq 1..component_count'
    BY <1>1, <1>2
  <2> QED
    BY <1>1, <2>1 DEF ShutdownInv, ShutdownTyped
<1>6. SuccessMeansStopped'
  BY <1>1 DEF ShutdownInv, PermitsCounted, SuccessMeansStopped
<1>7. OneRequest'
  BY <1>1, <1>4 DEF ShutdownInv, OneRequest, Requests
<1>8. PermitsCounted'
  <2>1. Cardinality(running') = Cardinality(running) + 1 /\ Cardinality(running) \in Nat
    <3>1. id \notin running
      BY <1>2
    <3>2. IsFiniteSet(running) /\ Cardinality(running) \in Nat
      BY RunningFinite DEF ShutdownInv
    <3> QED
      BY <1>1, <3>1, <3>2, FS_AddElement
  <2>2. ~twice' /\ ~reported' => component_count' = permits' + Cardinality(running')
    BY <1>1, <1>2, <2>1 DEF ShutdownInv, PermitsCounted
  <2>3. \A u \in Caller : caller'[u].pc \in {"send", "await"} => counted' /\ late'
    BY <1>1, <1>4 DEF ShutdownInv, PermitsCounted, Requests
  <2> QED
    BY <1>1, <2>2, <2>3 DEF ShutdownInv, PermitsCounted
<1> QED
  BY <1>3, <1>5, <1>6, <1>7, <1>8 DEF ShutdownInv

(* A permit is for a component that was running, or one too many.          *)
LEMMA PermitKeeps ==
  ASSUME ShutdownInv, NEW id, AddPermit(id),
         \A u \in Caller : Requests(caller'[u]) => caller'[u] = caller[u]
  PROVE  ShutdownInv'
<1>1. /\ UNCHANGED <<component_count, in_progress, signalled, counted, late, reported>>
      /\ permits' = permits + 1 /\ running' = running \ {id}
      /\ twice' = (twice \/ id \notin running)
  BY DEF AddPermit
<1>2. component_count \in Nat /\ permits \in Nat /\ ShutdownTyped
  BY DEF ShutdownInv, ShutdownTyped
<1>3. ShutdownTyped' /\ SuccessMeansStopped'
  <2>1. twice' \in BOOLEAN /\ (twice => twice')
    BY <1>1, <1>2 DEF ShutdownTyped
  <2>2. permits' \in Nat /\ running' \subseteq 1..component_count
    <3>1. running \subseteq 1..component_count
      BY <1>2 DEF ShutdownTyped
    <3>2. permits' \in Nat
      BY <1>1, <1>2
    <3> QED
      BY <1>1, <3>1, <3>2
  <2>3. ShutdownTyped'
    BY <1>1, <1>2, <2>1, <2>2 DEF ShutdownTyped
  <2>4. SuccessMeansStopped'
    BY <1>1, <2>1 DEF ShutdownInv, SuccessMeansStopped
  <2> QED
    BY <2>3, <2>4
<1>4. OneRequest'
  BY <1>1 DEF ShutdownInv, OneRequest, Requests
<1>5. PermitsCounted'
  <2>1. id \in running =>
          Cardinality(running') = Cardinality(running) - 1 /\ Cardinality(running) \in Nat
    BY <1>1, <1>2, RunningFinite, FS_RemoveElement
  <2>2. ASSUME ~twice', ~reported'
        PROVE  component_count' = permits' + Cardinality(running')
    <3>1. id \in running /\ ~twice /\ ~reported
      BY <1>1, <2>2
    <3>2. component_count = permits + Cardinality(running)
      BY <3>1 DEF ShutdownInv, PermitsCounted
    <3> QED
      BY <1>1, <1>2, <2>1, <3>1, <3>2
  <2>3. \A u \in Caller : caller'[u].pc \in {"send", "await"} =>
          counted /\ (~late => caller'[u].n = component_count)
    BY DEF ShutdownInv, PermitsCounted, Requests
  <2> QED
    BY <1>1, <2>2, <2>3 DEF ShutdownInv, PermitsCounted
<1> QED
  BY <1>3, <1>4, <1>5 DEF ShutdownInv

LEMMA CompleteKeeps ==
  ASSUME CallersTyped, ShutdownInv, NEW t \in Caller, ShutdownComplete(t) \/ CompleteAnyTime(t)
  PROVE  ShutdownInv' /\ \E s : ShutdownMove(t, s)
<1>1. CASE ShutdownComplete(t)
  <2>1. ShutdownMove(t, Idle) /\ Idle.pc = "idle" /\ AddPermit(caller[t].id)
    BY <1>1, IdleMove DEF ShutdownComplete, ShutdownPcs, At
  <2> QED
    BY <2>1, NoRequest, PermitKeeps DEF Requests
<1>2. CASE CompleteAnyTime(t)
  <2>1. caller' = caller /\ caller[t].pc \in ShutdownPcs /\ AddPermit(caller[t].id)
    BY <1>2 DEF CompleteAnyTime, Components, ShutdownPcs
  <2>2. ShutdownMove(t, caller[t])
    BY <2>1, ShutdownFields DEF ShutdownMove, CallersTyped
  <2> QED
    BY <2>1, <2>2, PermitKeeps
<1> QED
  BY <1>1, <1>2

(* The request begins, counts and goes on to wait, or returns.             *)
LEMMA RequestKeeps ==
  ASSUME CallersTyped, ShutdownInv, NEW t \in Caller, RequestShutdown(t)
  PROVE  ShutdownInv' /\ \E s : ShutdownMove(t, s)
<1> DEFINE s == [pc |-> "count"]
<1>1. /\ UNCHANGED <<component_count, signalled, permits, running, twice, counted, late, reported>>
      /\ ~in_progress /\ in_progress' = TRUE /\ caller[t].pc = "idle"
  BY DEF RequestShutdown, Call, At, ghosts
<1>2. ShutdownMove(t, s) /\ s.pc = "count"
  BY <1>1, IdleShape DEF ShutdownMove, ShutdownState, RequestShutdown, Call
<1> HIDE DEF s
<1>3. caller'[t] = s /\ \A u \in Caller \ {t} : caller'[u] = caller[u]
  BY <1>2, OneMoves
<1>4. ~reported /\ \A u \in Caller : Requests(caller'[u]) => u = t
  BY <1>1, <1>3 DEF ShutdownInv, OneRequest
<1>5. ShutdownTyped' /\ SuccessMeansStopped'
  BY <1>1 DEF ShutdownInv, ShutdownTyped, SuccessMeansStopped
<1>6. OneRequest'
  BY <1>1, <1>4 DEF OneRequest, Requests
<1>7. PermitsCounted'
  BY <1>1, <1>2, <1>3, <1>4 DEF ShutdownInv, PermitsCounted, Requests
<1> QED
  BY <1>2, <1>5, <1>6, <1>7 DEF ShutdownInv

LEMMA CountKeeps ==
  ASSUME CallersTyped, ShutdownInv, NEW t \in Caller, CountComponents(t)
  PROVE  ShutdownInv' /\ \E s : ShutdownMove(t, s)
<1> DEFINE s == [pc |-> "send", n |-> component_count]
<1>1. /\ UNCHANGED <<component_count, in_progress, signalled, permits, running, twice, late>>
      /\ UNCHANGED reported /\ counted' = TRUE /\ caller[t].pc = "count"
  BY DEF CountComponents, At
<1>2. component_count \in Nat
  BY DEF ShutdownInv, ShutdownTyped
<1>3. ShutdownMove(t, s) /\ s.pc = "send" /\ s.n = component_count
  BY <1>1, <1>2, ShutdownFields DEF ShutdownMove, ShutdownState, ShutdownPcs, CountComponents, Goto
<1> HIDE DEF s
<1>4. caller'[t] = s /\ \A u \in Caller \ {t} : caller'[u] = caller[u]
  BY <1>3, OneMoves
<1>5. in_progress /\ ~reported /\ \A u \in Caller : Requests(caller'[u]) => u = t
  BY <1>1, <1>4 DEF ShutdownInv, OneRequest, Requests
<1>6. ShutdownTyped' /\ SuccessMeansStopped'
  BY <1>1 DEF ShutdownInv, ShutdownTyped, SuccessMeansStopped
<1>7. OneRequest'
  BY <1>1, <1>5 DEF OneRequest, Requests
<1>8. PermitsCounted'
  BY <1>1, <1>3, <1>4, <1>5 DEF ShutdownInv, PermitsCounted, Requests
<1> QED
  BY <1>3, <1>6, <1>7, <1>8 DEF ShutdownInv

LEMMA SendKeeps ==
  ASSUME CallersTyped, ShutdownInv, NEW t \in Caller, Send(t)
  PROVE  ShutdownInv' /\ \E s : ShutdownMove(t, s)
<1> DEFINE c == caller[t]
<1>1. /\ UNCHANGED <<component_count, in_progress, permits, running, twice, counted, late>>
      /\ UNCHANGED reported /\ c.pc = "send" /\ c.pc \in ShutdownPcs
      /\ signalled' = (signalled \/ (c.n > 0 /\ Components # {}))
  BY DEF Send, At, ghosts, ShutdownPcs
<1>2. c \in ShutdownState /\ c.n \in Nat /\ c = [pc |-> "send", n |-> c.n]
  BY <1>1, ShutdownFields
<1>3. PICK s : /\ ShutdownMove(t, s)
               /\ \/ s.pc = "await" /\ s.n = c.n
                  \/ s.pc = "idle"
  <2>1. [c EXCEPT !.pc = "await"] = [pc |-> "await", n |-> c.n]
    BY <1>2
  <2>2. [pc |-> "await", n |-> c.n] \in ShutdownState
    BY <1>2 DEF ShutdownState
  <2>3. \/ caller' = [caller EXCEPT ![t] = [c EXCEPT !.pc = "await"]]
        \/ Return(t)
    BY DEF Send, GotoPc, Goto
  <2>4. CASE caller' = [caller EXCEPT ![t] = [c EXCEPT !.pc = "await"]]
    <3> DEFINE s == [pc |-> "await", n |-> c.n]
    <3>1. ShutdownMove(t, s) /\ s.pc = "await" /\ s.n = c.n
      BY <1>2, <2>1, <2>2, <2>4 DEF ShutdownMove
    <3> HIDE DEF s
    <3> QED
      BY <3>1
  <2>5. CASE Return(t)
    BY <1>1, <2>5, IdleMove
  <2> QED
    BY <2>3, <2>4, <2>5
<1>4. caller'[t] = s /\ \A u \in Caller \ {t} : caller'[u] = caller[u]
  BY <1>3, OneMoves
<1>5. /\ in_progress /\ ~reported /\ counted /\ (~late => c.n = component_count)
      /\ \A u \in Caller : Requests(caller'[u]) => u = t
  BY <1>1, <1>4 DEF ShutdownInv, OneRequest, Requests, PermitsCounted
<1>6. ShutdownTyped' /\ SuccessMeansStopped'
  BY <1>1 DEF ShutdownInv, ShutdownTyped, SuccessMeansStopped
<1>7. OneRequest'
  BY <1>1, <1>5 DEF OneRequest, Requests
<1>8. PermitsCounted'
  BY <1>1, <1>3, <1>4, <1>5 DEF ShutdownInv, PermitsCounted, Requests
<1> QED
  BY <1>3, <1>6, <1>7, <1>8 DEF ShutdownInv

(* With as many permits as components, none of them is running.            *)
LEMMA AwaitKeeps ==
  ASSUME CallersTyped, ShutdownInv, NEW t \in Caller, AwaitCompletion(t)
  PROVE  ShutdownInv' /\ ShutdownMove(t, Idle)
<1> DEFINE n == caller[t].n
<1>1. /\ UNCHANGED <<component_count, in_progress, signalled, running, twice, counted, late>>
      /\ caller[t].pc = "await" /\ caller[t].pc \in ShutdownPcs /\ Return(t)
      /\ permits >= n /\ permits' = permits - n /\ reported' = TRUE
  BY DEF AwaitCompletion, At, ShutdownPcs
<1>2. ShutdownMove(t, Idle) /\ Idle.pc = "idle" /\ n \in Nat
  BY <1>1, IdleMove, ShutdownFields
<1>3. caller'[t] = Idle /\ \A u \in Caller \ {t} : caller'[u] = caller[u]
  BY <1>2, OneMoves
<1>4. /\ in_progress /\ ~reported /\ counted /\ (~late => n = component_count)
      /\ \A u \in Caller : ~Requests(caller'[u])
  BY <1>1, <1>2, <1>3 DEF ShutdownInv, OneRequest, Requests, PermitsCounted
<1>5. ShutdownTyped /\ permits \in Nat /\ component_count \in Nat
  BY DEF ShutdownInv, ShutdownTyped
<1>6. ShutdownTyped'
  <2>1. permits' \in Nat
    BY <1>1, <1>2, <1>5
  <2> QED
    BY <1>1, <2>1 DEF ShutdownInv, ShutdownTyped
<1>7. SuccessMeansStopped'
  <2>1. CASE ~late /\ ~twice
    <3>1. component_count = permits + Cardinality(running)
      BY <1>4, <2>1 DEF ShutdownInv, PermitsCounted
    <3>2. IsFiniteSet(running) /\ Cardinality(running) \in Nat
      BY <1>5, RunningFinite
    <3>3. Cardinality(running) = 0
      BY <1>1, <1>4, <1>5, <2>1, <3>1, <3>2
    <3>4. running = {}
      BY <3>2, <3>3, FS_EmptySet
    <3> QED
      BY <1>1, <3>4 DEF SuccessMeansStopped
  <2> QED
    BY <1>1, <2>1 DEF ShutdownInv, ShutdownTyped, SuccessMeansStopped
<1>8. OneRequest'
  BY <1>1, <1>4 DEF OneRequest
<1>9. PermitsCounted'
  BY <1>1, <1>4 DEF PermitsCounted, Requests
<1> QED
  BY <1>2, <1>6, <1>7, <1>8, <1>9 DEF ShutdownInv

LEMMA ShutdownKeeps ==
  ASSUME CallersTyped, ShutdownInv, NEW t \in Caller,
         ShutdownCall(t) \/ ComponentChoice(t) \/ ShutdownStep(t)
  PROVE  ShutdownInv' /\ \E s : ShutdownMove(t, s)
<1>1. CASE WaitForShutdown(t) \/ Hear(t)
  <2>1. /\ \E pc \in {"deaf", "hears", "stopping"} : GotoPc(t, pc)
        /\ caller[t].pc \in {"handle", "hears"} /\ UNCHANGED shutdownVars
    BY <1>1 DEF WaitForShutdown, Hear, At
  <2>2. PICK s : ShutdownMove(t, s) /\ s.pc \in {"deaf", "hears", "stopping"}
    BY <2>1, PcOnly DEF HandlePcs
  <2> QED
    BY <2>1, <2>2, NoRequest, ShutdownRests DEF Requests
<1>2. CASE DropHandle(t) \/ ShutdownTimeout(t)
  <2>1. Return(t) /\ caller[t].pc \in ShutdownPcs /\ UNCHANGED shutdownVars
    BY <1>2 DEF DropHandle, ShutdownTimeout, At, ShutdownPcs
  <2>2. ShutdownMove(t, Idle) /\ Idle.pc = "idle"
    BY <2>1, IdleMove
  <2> QED
    BY <2>1, <2>2, NoRequest, ShutdownRests DEF Requests
<1> QED
  BY <1>1, <1>2, RegisterKeeps, CompleteKeeps, RequestKeeps, CountKeeps, SendKeeps, AwaitKeeps
  DEF ShutdownCall, ComponentChoice, ShutdownStep

-----------------------------------------------------------------------------
(* The workflow manager.                                                   *)
Statuses == {"Running", "Paused", "Cancelled"} \cup {Unstarted}

WorkflowsTyped == workflows \subseteq Workflow /\ status \in [Workflow -> Statuses]

WorkflowMove(t) ==
  \E s \in {Idle} \cup WorkflowState :
    /\ caller' = [caller EXCEPT ![t] = s]
    /\ caller[t] \in {Idle} \cup WorkflowState

LEMMA WorkflowKeeps ==
  ASSUME CallersTyped, WorkflowsTyped, NEW t \in Caller, WorkflowCall(t) \/ WorkflowStep(t)
  PROVE  WorkflowsTyped' /\ WorkflowMove(t)
<1> DEFINE c == caller[t]
<1>1. \A s \in {Idle} \cup WorkflowState :
        Call(t, s) => caller' = [caller EXCEPT ![t] = s] /\ c \in {Idle} \cup WorkflowState
  BY IdleShape DEF Call, At
<1>2. ASSUME NEW w \in Workflow, NEW change \in Changes, NEW left \in SUBSET Workflow
      PROVE  /\ [pc |-> "found", change |-> change, w |-> w, left |-> left] \in WorkflowState
             /\ [pc |-> "cancelling", left |-> left] \in WorkflowState
  BY DEF WorkflowState
<1>3. CASE WorkflowCall(t)
  <2>1. WorkflowsTyped'
    BY <1>3 DEF WorkflowCall, RegisterWorkflow, DeleteWorkflow, FindWorkflow, ShutdownWorkflows,
                WorkflowsTyped, workflowVars, executionVars
  <2>2. PICK s \in {Idle} \cup WorkflowState : Call(t, s)
    <3>1. CASE RegisterWorkflow(t) \/ DeleteWorkflow(t)
      BY <3>1 DEF RegisterWorkflow, DeleteWorkflow, CallAtOnce
    <3>2. CASE FindWorkflow(t)
      <4>1. PICK change \in Changes, w \in workflows :
              Call(t, [pc |-> "found", change |-> change, w |-> w, left |-> {}])
        BY <3>2 DEF FindWorkflow
      <4>2. [pc |-> "found", change |-> change, w |-> w, left |-> {}] \in WorkflowState
        BY <1>2 DEF WorkflowsTyped
      <4> QED
        BY <4>1, <4>2
    <3>3. CASE ShutdownWorkflows(t)
      <4>1. [pc |-> "cancelling", left |-> workflows] \in WorkflowState
        BY DEF WorkflowsTyped, WorkflowState
      <4> QED
        BY <3>3, <4>1 DEF ShutdownWorkflows
    <3> QED
      BY <1>3, <3>1, <3>2, <3>3 DEF WorkflowCall
  <2> QED
    BY <1>1, <2>1, <2>2 DEF WorkflowMove
<1>4. CASE ChangeState(t)
  <2>1. c.pc = "found" /\ c \in WorkflowState
    BY <1>4, Shapes DEF ChangeState, At, CallersTyped
  <2>2. c \in [pc : {"found"}, change : Changes, w : Workflow, left : SUBSET Workflow]
    BY <2>1 DEF WorkflowState
  <2>3. WorkflowsTyped'
    <3>1. \A s \in Statuses : Changed(c.change, s) \in Statuses
      BY <2>2 DEF Changed, Changes, Statuses
    <3>2. status' \in [Workflow -> Statuses]
      BY <1>4, <2>2, <3>1 DEF ChangeState, WorkflowsTyped
    <3> QED
      BY <1>4, <3>2 DEF ChangeState, WorkflowsTyped
  <2>4. [pc |-> "cancelling", left |-> c.left] \in WorkflowState
    BY <2>2 DEF WorkflowState
  <2>5. \/ caller' = [caller EXCEPT ![t] = Idle]
        \/ caller' = [caller EXCEPT ![t] = [pc |-> "cancelling", left |-> c.left]]
    BY <1>4 DEF ChangeState, Return, Goto
  <2> QED
    BY <2>1, <2>3, <2>4, <2>5 DEF WorkflowMove
<1>5. CASE CancelNext(t)
  <2>1. c.pc = "cancelling" /\ c \in WorkflowState
    BY <1>5, Shapes DEF CancelNext, At, CallersTyped
  <2>2. c.left \subseteq Workflow
    BY <2>1 DEF WorkflowState
  <2>3. WorkflowsTyped'
    BY <1>5 DEF CancelNext, WorkflowsTyped, workflowVars, executionVars
  <2>4. PICK w \in c.left :
          \/ caller' = [caller EXCEPT ![t] = Idle]
          \/ caller' = [caller EXCEPT ![t] = [pc |-> "cancelling", left |-> c.left \ {w}]]
          \/ caller' = [caller EXCEPT ![t] = [pc |-> "found", change |-> "cancel", w |-> w,
                                              left |-> c.left \ {w}]]
    BY <1>5 DEF CancelNext, Return, Goto
  <2>5. w \in Workflow /\ c.left \ {w} \in SUBSET Workflow /\ "cancel" \in Changes
    BY <2>2 DEF Changes
  <2>6. /\ [pc |-> "found", change |-> "cancel", w |-> w, left |-> c.left \ {w}] \in WorkflowState
        /\ [pc |-> "cancelling", left |-> c.left \ {w}] \in WorkflowState
    BY <1>2, <2>5
  <2> QED
    BY <2>1, <2>3, <2>4, <2>6 DEF WorkflowMove
<1> QED
  BY <1>3, <1>4, <1>5 DEF WorkflowStep

-----------------------------------------------------------------------------
(* All managers together.                                                  *)
RuntimeInv ==
  /\ CallersTyped /\ PluginInv /\ ShutdownInv /\ WorkflowsTyped /\ CapabilityInv

LEMMA RuntimeInit == Init => RuntimeInv
<1> SUFFICES ASSUME Init PROVE RuntimeInv
  OBVIOUS
<1>1. CallersTyped /\ \A t \in Caller : caller[t] = Idle /\ Idle.pc = "idle"
  BY DEF Init, CallsInit, CallersTyped, CallState, Idle
<1>2. PluginInv
  <2>1. PluginsTyped /\ \A p \in Plugin : plugins[p] = Absent
    BY DEF Init, PluginInit, PluginsTyped
  <2>2. GuardsHeld
    BY <1>1 DEF GuardsHeld, Provided, Holds
  <2>3. RegistryAhead /\ MetaFollows
    BY <1>1, <2>1 DEF Init, PluginInit, RegistryAhead, MetaFollows, Known,
           Pending, Registers, Removes
  <2> QED
    BY <2>1, <2>2, <2>3 DEF PluginInv
<1>3. ShutdownInv
  <2>1. \A t \in Caller : ~Requests(caller[t])
    BY <1>1 DEF Requests
  <2>2. ShutdownTyped /\ OneRequest /\ SuccessMeansStopped
    BY <1>1, <2>1 DEF Init, ShutdownInit, ShutdownTyped, OneRequest, SuccessMeansStopped
  <2>3. PermitsCounted
    BY <2>1, FS_EmptySet DEF Init, ShutdownInit, PermitsCounted, Requests
  <2> QED
    BY <2>2, <2>3 DEF ShutdownInv
<1>4. WorkflowsTyped
  BY DEF Init, WorkflowInit, WorkflowsTyped, Statuses
<1>5. CapabilityInv
  BY InitCapabilityInv DEF Init
<1> QED
  BY <1>1, <1>2, <1>3, <1>4, <1>5 DEF RuntimeInv

LEMMA AsideOf ==
  ASSUME CallersTyped, NEW t \in Caller, NEW s \in {Idle} \cup WorkflowState,
         caller' = [caller EXCEPT ![t] = s], caller[t] \in {Idle} \cup WorkflowState
  PROVE  Aside(t)
<1>1. \A c \in {Idle} \cup WorkflowState : c.pc \notin ShutdownPcs /\ c \in CallState
  BY DEF Idle, WorkflowState, ShutdownPcs, CallState
<1>2. caller'[t] = s /\ \A u \in Caller \ {t} : caller'[u] = caller[u]
  BY <1>1, Moves DEF CallersTyped
<1> QED
  BY <1>1, <1>2 DEF Aside

(* A plugin that grants is a subject, and only ids that are fresh or       *)
(* issued are named.                                                       *)
LEMMA RightsStep ==
  ASSUME CallersTyped, CapabilityInv, NEW t \in Caller,
         CapabilityCall(t) \/ PluginStep(t) \/ PluginCall(t)
  PROVE  [CapabilityNext]_capabilityVars
<1>1. Issued \subseteq CapId /\ NextId \subseteq CapId
  BY DEF CapabilityInv, CapabilityTypeOK, NextId
<1>2. CASE CapabilityCall(t)
  BY <1>1, <1>2 DEF CapabilityCall, CapabilityNext
<1>3. CASE Grant(t)
  <2>1. caller[t].p \in Subject
    BY <1>3, OpFields, PluginAssumption DEF Grant, At, OnOne, CallersTyped
  <2> QED
    BY <1>1, <1>3, <2>1 DEF Grant, CapabilityNext
<1>4. CapabilityCall(t) \/ Grant(t) \/ UNCHANGED capabilityVars
  BY DEF PluginStep, PluginCall, InsertIntoRegistry, AskForWrite, InsertPlugin, Enter,
         Start, Unload, SetState, NoteState, Finish, StopNext, GrantWithoutId,
         RemoveLoaded, EnterAgain, FindName, Unregister, DropPlugin, RegisterPlugin, BeginCall, BeginShutdown
<1> QED
  BY <1>2, <1>3, <1>4

LEMMA RuntimeKeeps == RuntimeInv /\ [Next]_vars => RuntimeInv'
<1> SUFFICES ASSUME RuntimeInv, [Next]_vars PROVE RuntimeInv'
  OBVIOUS
<1> USE DEF RuntimeInv
<1>1. ASSUME NEW t \in Caller, CapabilityCall(t),
             UNCHANGED <<pluginVars, workflowVars, shutdownVars>>
      PROVE  RuntimeInv'
  <2>1. caller' = [caller EXCEPT ![t] = Idle] /\ caller[t] = Idle
    BY <1>1, IdleShape DEF CapabilityCall, CallAtOnce, Call, At
  <2>2. CallersTyped' /\ PluginInv'
    BY <1>1, <2>1, OthersKeep
  <2>3. ShutdownInv'
    BY <1>1, <2>1, AsideOf, OthersRestShutdown
  <2>4. WorkflowsTyped'
    BY <1>1 DEF WorkflowsTyped, workflowVars, executionVars
  <2> QED
    BY <1>1, <2>2, <2>3, <2>4, RightsStep, CapabilityStepKeeps
<1>2. ASSUME NEW t \in Caller, PluginCall(t) \/ PluginStep(t),
             UNCHANGED <<workflowVars, shutdownVars>>
      PROVE  RuntimeInv'
  <2>1. CallersTyped' /\ PluginInv' /\ Aside(t)
    BY <1>2, PluginKeeps
  <2>2. ShutdownInv'
    BY <1>2, <2>1, OthersRestShutdown
  <2>3. WorkflowsTyped'
    BY <1>2 DEF WorkflowsTyped, workflowVars, executionVars
  <2> QED
    BY <1>2, <2>1, <2>2, <2>3, RightsStep, CapabilityStepKeeps
<1>3. ASSUME NEW t \in Caller, WorkflowCall(t) \/ WorkflowStep(t),
             UNCHANGED <<pluginVars, capabilityVars, shutdownVars>>
      PROVE  RuntimeInv'
  <2>1. WorkflowsTyped' /\ WorkflowMove(t)
    BY <1>3, WorkflowKeeps
  <2>2. PICK s \in {Idle} \cup WorkflowState :
          /\ caller' = [caller EXCEPT ![t] = s]
          /\ caller[t] \in {Idle} \cup WorkflowState
    BY <2>1 DEF WorkflowMove
  <2>3. CallersTyped' /\ PluginInv'
    BY <1>3, <2>2, OthersKeep
  <2>4. ShutdownInv'
    BY <1>3, <2>2, AsideOf, OthersRestShutdown
  <2>5. CapabilityInv'
    BY <1>3, CapabilityStepKeeps
  <2> QED
    BY <2>1, <2>3, <2>4, <2>5
<1>4. ASSUME NEW t \in Caller, ShutdownCall(t) \/ ComponentChoice(t) \/ ShutdownStep(t),
             UNCHANGED <<pluginVars, capabilityVars, workflowVars>>
      PROVE  RuntimeInv'
  <2>1. ShutdownInv' /\ \E s : ShutdownMove(t, s)
    BY <1>4, ShutdownKeeps
  <2>2. PICK s \in {Idle} \cup ShutdownState :
          /\ caller' = [caller EXCEPT ![t] = s]
          /\ caller[t] \in {Idle} \cup ShutdownState
    BY <2>1 DEF ShutdownMove
  <2>3. CallersTyped' /\ PluginInv'
    BY <1>4, <2>2, OthersKeep
  <2>4. CapabilityInv' /\ WorkflowsTyped'
    BY <1>4, CapabilityStepKeeps DEF WorkflowsTyped, workflowVars, executionVars
  <2> QED
    BY <2>1, <2>3, <2>4
<1>5. CASE UNCHANGED vars
  <2>1. UNCHANGED <<caller, registered, plugins, readers, raced, workflows, status, capabilityVars>>
        /\ UNCHANGED shutdownVars
    BY <1>5 DEF vars, callVars, pluginVars, workflowVars, executionVars
  <2>2. CallersTyped' /\ WorkflowsTyped'
    BY <2>1 DEF CallersTyped, WorkflowsTyped
  <2>3. PluginInv'
    BY <2>1 DEF PluginInv, PluginsTyped, GuardsHeld, Provided, Holds, Present, RegistryAhead, Known,
                Pending, Registers, Removes, MetaFollows, Noting, Follows
  <2>4. ShutdownInv'
    BY <2>1, ShutdownRests
  <2>5. CapabilityInv'
    BY <2>1, CapabilityStepKeeps
  <2> QED
    BY <2>2, <2>3, <2>4, <2>5
<1> QED
  BY <1>1, <1>2, <1>3, <1>4, <1>5 DEF Next, Begin, Continue

(* The inductive invariant of the runtime: where every call can be, that   *)
(* whoever works on a plugin holds a guard of the map it is in, that the   *)
(* registry is one step ahead of the map, and how far the one shutdown is. *)
THEOREM RuntimeInvariant == Spec => []RuntimeInv
<1> QED
  BY RuntimeInit, RuntimeKeeps, PTL DEF Spec

(* The registry and the map name the same plugins when no call about a     *)
(* plugin is under way, unless two registrations or removals overlapped;   *)
(* and metadata show the state, once a call has changed it, but between    *)
(* the two writes of a call (manager.rs, register_plugin to remove_plugin; *)
(* lifecycle.rs).                                                          *)
THEOREM PluginsStayAgreed == Spec => []PluginsAgree
<1>1. RuntimeInv => PluginsAgree
  <2> SUFFICES ASSUME RuntimeInv, NEW p \in Plugin
               PROVE  /\ \/ p \in raced \/ (\E t \in Caller : About(t, p))
                         \/ p \in registered <=> Known(p)
                      /\ Known(p) /\ (\A t \in Caller : ~(At(t, "meta") /\ caller[t].p = p)) =>
                           plugins[p].state \in {"Created", plugins[p].meta}
    BY DEF PluginsAgree
  <2>1. ASSUME NEW t \in Caller, Pending(caller[t], p)
        PROVE  About(t, p)
    <3>1. caller[t] \in CallState
      BY DEF RuntimeInv, CallersTyped
    <3>2. CASE Registers(caller[t], p)
      <4>1. caller[t] = [pc |-> caller[t].pc, p |-> caller[t].p]
        BY <3>1, <3>2, RegisterFields DEF Registers
      <4>2. "p" \in DOMAIN caller[t]
        BY <4>1
      <4> QED
        BY <3>2, <4>2 DEF About, Registers
    <3>3. CASE Removes(caller[t], p)
      <4>1. OnOne(caller[t])
        BY <3>3 DEF Removes, OnOne
      <4>2. caller[t] = [pc |-> caller[t].pc, op |-> caller[t].op, p |-> caller[t].p,
                         todo |-> caller[t].todo]
        BY <3>1, <4>1, OpFields
      <4>3. "p" \in DOMAIN caller[t]
        BY <4>2
      <4> QED
        BY <3>3, <4>3 DEF About, Removes
    <3> QED
      BY <2>1, <3>2, <3>3 DEF Pending
  <2>2. p \in raced \/ (\E t \in Caller : About(t, p)) \/ (p \in registered <=> Known(p))
    BY <2>1 DEF RuntimeInv, PluginInv, RegistryAhead
  <2>3. Known(p) /\ (\A t \in Caller : ~(At(t, "meta") /\ caller[t].p = p)) =>
          plugins[p].state \in {"Created", plugins[p].meta}
    BY DEF RuntimeInv, PluginInv, MetaFollows, Follows, Noting, At
  <2> QED
    BY <2>2, <2>3
<1> QED
  BY <1>1, RuntimeInvariant, PTL

(* No pause, resume or cancellation that looked up its workflow earlier    *)
(* revives a workflow that was cancelled since (execution.rs): only a      *)
(* start_workflow does.                                                    *)
THEOREM CancelsHold == Spec => CancelHolds
<1> DEFINE Step ==
      \A w \in Workflow :
        status[w] = "Cancelled" /\ status'[w] # "Cancelled" =>
          \E t \in Caller :
            At(t, "found") /\ caller[t].change = "start" /\ caller[t].w = w
<1>1. RuntimeInv /\ [Next]_vars => [Step]_<<caller, status>>
  <2> SUFFICES ASSUME RuntimeInv, Next, NEW w \in Workflow,
                      status[w] = "Cancelled", status'[w] # "Cancelled"
               PROVE  \E t \in Caller :
                        At(t, "found") /\ caller[t].change = "start" /\ caller[t].w = w
    BY DEF vars, callVars, workflowVars, executionVars
  <2>1. PICK t \in Caller : ChangeState(t)
    BY DEF Next, Begin, Continue, WorkflowCall, WorkflowStep, RegisterWorkflow, DeleteWorkflow,
           FindWorkflow, ShutdownWorkflows, CancelNext, workflowVars, executionVars
  <2> DEFINE c == caller[t]
  <2>2. c.pc = "found" /\ c \in WorkflowState
    BY <2>1, Shapes DEF ChangeState, At, CallersTyped, RuntimeInv
  <2>3. c.change \in Changes
    BY <2>2 DEF WorkflowState
  <2>4. status' = [status EXCEPT ![c.w] = Changed(c.change, status[c.w])]
    BY <2>1 DEF ChangeState
  <2>5. c.w = w /\ Changed(c.change, "Cancelled") # "Cancelled"
    BY <2>4 DEF RuntimeInv, WorkflowsTyped
  <2>6. c.change = "start"
    BY <2>3, <2>5 DEF Changed, Changes
  <2> QED
    BY <2>2, <2>5, <2>6 DEF At
<1> QED
  BY <1>1, RuntimeInvariant, PTL DEF Spec, CancelHolds

(* When request_shutdown returns Ok, every component that registered has   *)
(* called shutdown_complete, unless one registered after the count or one  *)
(* called it twice; who calls it, when and how often is left open.         *)
THEOREM ShutdownsStopComponents == Spec => []SuccessMeansStopped
<1>1. RuntimeInv => SuccessMeansStopped
  BY DEF RuntimeInv, ShutdownInv
<1> QED
  BY <1>1, RuntimeInvariant, PTL

(* However plugins and callers grant, derive and revoke, the capability    *)
(* manager does as it does alone: what is proved of it holds in the        *)
(* runtime (lib.rs, grant_capability, revoke_capability).                  *)
THEOREM RuntimeKeepsCapabilities == Spec => CapabilitySpec
<1>1. Init => CapabilityInit
  BY DEF Init
<1>2. RuntimeInv /\ [Next]_vars => [CapabilityNext]_capabilityVars
  <2> SUFFICES ASSUME RuntimeInv, Next PROVE [CapabilityNext]_capabilityVars
    BY DEF vars, capabilityVars
  <2>1. PICK t \in Caller : Begin(t) \/ Continue(t)
    BY DEF Next
  <2>2. CASE CapabilityCall(t) \/ PluginStep(t) \/ PluginCall(t)
    BY <2>2, RightsStep DEF RuntimeInv
  <2>3. CASE UNCHANGED capabilityVars
    BY <2>3
  <2> QED
    BY <2>1, <2>2, <2>3 DEF Begin, Continue
<1> QED
  BY <1>1, <1>2, RuntimeInvariant, PTL DEF Spec, CapabilitySpec

(* In the whole runtime, too, a right that is held goes back to a grant    *)
(* that stands.                                                            *)
THEOREM RuntimeRights == Spec => []RightsComeFromGrants
BY Grounding, RuntimeKeepsCapabilities
=============================================================================
