-------------------------- MODULE CapabilityManager --------------------------
(***************************************************************************)
(* lion_runtime/src/capabilities/manager.rs: the runtime's capability      *)
(* table and its index by subject, both under one read-write lock that     *)
(* every operation takes once, so that each is one step.                   *)
(***************************************************************************)
CONSTANTS
  CapId,     \* the ids CapabilityId::new can return
  Subject,   \* who holds capabilities
  Object,    \* what they are for
  Right,     \* operations
  None       \* no parent

ASSUME NoneIsNoId == None \notin CapId

VARIABLES
  capabilities,   \* CapabilityStore::capabilities, id -> entry
  subject_index   \* CapabilityStore::subject_index, subject -> ids

capabilityVars == <<capabilities, subject_index>>

Entry ==
  [subject : Subject, object : Object, rights : SUBSET Right, valid : BOOLEAN,
   parent : CapId \cup {None}, children : SUBSET CapId]

Issued == DOMAIN capabilities

CapabilityInit ==
  /\ capabilities = [c \in {} |-> None]
  /\ subject_index = [s \in Subject |-> {}]

(* A new entry under a fresh id, listed for its subject and, if it was     *)
(* derived, among the children of its parent.                              *)
NewEntry(s, o, rights, parent) ==
  [subject |-> s, object |-> o, rights |-> rights, valid |-> TRUE,
   parent |-> parent, children |-> {}]

WithChild(e, c) == [e EXCEPT !.children = @ \cup {c}]

Issue(c, e) ==
  /\ c \notin Issued
  /\ capabilities' = [d \in Issued \cup {c} |->
                        IF d = c THEN e
                        ELSE IF d = e.parent THEN WithChild(capabilities[d], c)
                        ELSE capabilities[d]]
  /\ subject_index' = [subject_index EXCEPT ![e.subject] = @ \cup {c}]

grant_capability(c, s, o, rights) == Issue(c, NewEntry(s, o, rights, None))

(* Refused for a parent that is unknown or revoked, and for rights it has  *)
(* not: nothing changes.                                                   *)
attenuate_capability(c, parent, s, rights) ==
  /\ parent \in Issued /\ capabilities[parent].valid
  /\ rights \subseteq capabilities[parent].rights
  /\ Issue(c, NewEntry(s, capabilities[parent].object, rights, parent))

(* What collect_descendants gathers: the least set that holds c and, with  *)
(* a capability, its children.                                             *)
Closed(S) == \A d \in S \cap Issued : capabilities[d].children \subseteq S

Descendants(c) == {d \in CapId : \A S \in SUBSET CapId : c \in S /\ Closed(S) => d \in S}

(* Mutant: the descendants keep their rights. *)
RevokeOne(c) ==
  /\ c \in Issued
  /\ capabilities' = [capabilities EXCEPT ![c] = [@ EXCEPT !.valid = FALSE]]
  /\ subject_index' = [subject_index EXCEPT ![capabilities[c].subject] = @ \ {c}]

revoke_capability(c) ==
  /\ c \in Issued
  /\ capabilities' = [d \in Issued |->
                        IF d \in Descendants(c)
                          THEN [capabilities[d] EXCEPT !.valid = FALSE]
                          ELSE capabilities[d]]
  /\ subject_index' = [s \in Subject |-> subject_index[s] \ Descendants(c)]

has_capability(s, o, right) ==
  \E c \in subject_index[s] \cap Issued :
    capabilities[c].valid /\ capabilities[c].object = o /\ right \in capabilities[c].rights

CapabilityNext ==
  \/ \E c \in CapId, s \in Subject, o \in Object, rights \in SUBSET Right :
       grant_capability(c, s, o, rights)
  \/ \E c, parent \in CapId, s \in Subject, rights \in SUBSET Right :
       attenuate_capability(c, parent, s, rights)
  \/ \E c \in CapId : revoke_capability(c)

CapabilitySpec == CapabilityInit /\ [][CapabilityNext]_capabilityVars
-----------------------------------------------------------------------------
(* Properties. *)

CapabilityTypeOK ==
  /\ Issued \subseteq CapId
  /\ capabilities \in [Issued -> Entry]
  /\ subject_index \in [Subject -> SUBSET CapId]

(* Parents and children name each other. *)
LinksMutual ==
  \A c, d \in CapId :
    c \in Issued /\ d \in capabilities[c].children <=> d \in Issued /\ capabilities[d].parent = c

(* A set of capabilities cannot consist of descendants only: there is no   *)
(* cycle for collect_descendants to run around in.                         *)
Grounded ==
  \A S \in SUBSET Issued : S # {} => \E c \in S : capabilities[c].parent \notin S

(* A derived capability is for the same object, has no right its parent    *)
(* has not, and is valid only while its parent is.                         *)
DerivedBelowParent ==
  \A c \in Issued :
    LET p == capabilities[c].parent
    IN  p # None =>
          /\ p \in Issued
          /\ capabilities[c].object = capabilities[p].object
          /\ capabilities[c].rights \subseteq capabilities[p].rights
          /\ capabilities[c].valid => capabilities[p].valid

(* The index lists the valid capabilities of each subject and no others. *)
IndexExact ==
  \A s \in Subject, c \in CapId :
    c \in subject_index[s] <=>
      c \in Issued /\ capabilities[c].valid /\ capabilities[c].subject = s

(* Whatever a subject may do goes back to a capability that was granted,   *)
(* has the right for the same object and is not revoked: a revocation      *)
(* (manager.rs:161) takes along everything derived in any number of steps, *)
(* and no derivation (manager.rs:194) adds a right.                        *)
RightsComeFromGrants ==
  \A s \in Subject, o \in Object, right \in Right :
    has_capability(s, o, right) =>
      \E root, c \in Issued :
        /\ capabilities[root].parent = None /\ capabilities[root].valid
        /\ capabilities[root].object = o /\ right \in capabilities[root].rights
        /\ c \in Descendants(root) /\ capabilities[c].subject = s
=============================================================================
