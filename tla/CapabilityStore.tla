--------------------------- MODULE CapabilityStore ---------------------------
(***************************************************************************)
(* lion_capability/src/store: the capabilities of one plugin in two        *)
(* concurrent maps, capabilities (id -> entry) and plugin_capabilities     *)
(* (the ids listed for the plugin), which no lock covers together.         *)
(* Plugins share neither entries nor sets.                                 *)
(*                                                                         *)
(* A client adds what the administrator grants, removes, clears, partially *)
(* revokes, or takes a capability, derives another from it with the        *)
(* Capability trait and stores the result. What a capability is and how it *)
(* answers are parameters, as the trait is to the store: MCAccess gives    *)
(* them the definitions of Capability.                                     *)
(***************************************************************************)
EXTENDS Naturals, FiniteSets, Functions

CONSTANTS
  Client,          \* the threads that share the store
  Request,         \* the access requests
  Constraint,      \* the constraints that clients apply
  Grants,          \* sets of capabilities: what may be granted together
  Absent           \* no set for the plugin

(* The Capability trait, what lion_policy puts around a capability, and    *)
(* apply_partial_revocation.  A method that may fail answers with a set.   *)
CONSTANTS
  type_of(_), permits(_, _), constrain(_, _), split(_), join(_, _), meet(_, _),
  policed(_), reduced(_, _)

(* Whether the capability derived in this way from these may permit a      *)
(* request that was taken away from them.                                  *)
CONSTANT regains(_, _, _)

(* The requests a capability denies for good: what is derived from it      *)
(* denies them too.                                                        *)
CONSTANT refused(_)

CONSTANTS
  MaxCalls(_, _),  \* bound: of the grants and a client, the calls after which it begins none
  MaxId            \* bound: capabilities added

ASSUME StoreAssumption ==
  /\ MaxId \in Nat
  /\ \A ids \in SUBSET (1 .. MaxId) : ids # Absent

VARIABLES
  grants,      \* what the administrator grants in this behaviour
  entries,     \* capabilities: id -> capability
  generation,  \* the generation counter of every entry
  listed,      \* plugin_capabilities: the ids of the plugin, or Absent
  nextId,      \* next_capability_id
  client,      \* what every client is doing
  calls,       \* calls made so far
  revoked,     \* <<id, request>> permitted until a partial_revoke
  stale,       \* ids replaced from an older generation than the current one
  raced        \* a set was created while another call could create or drop it

vars == <<grants, entries, generation, listed, nextId, client, calls, revoked, stale, raced>>

history == <<revoked, stale, raced>>

store == <<entries, generation, listed, nextId>>

Idle == [pc |-> "idle"]

Init ==
  /\ grants \in Grants
  /\ entries = <<>> /\ generation = <<>>
  /\ listed = Absent
  /\ nextId = 1
  /\ client = [t \in Client |-> Idle]
  /\ calls = 0
  /\ revoked = {} /\ stale = {} /\ raced = FALSE

At(t, pc) == client[t].pc = pc

(* Not between two accesses to the maps. *)
Settled(t) == client[t].pc \in {"idle", "holding", "revoking"}

Goto(t, state) == client' = [client EXCEPT ![t] = state]

Call(t) == At(t, "idle") /\ calls < MaxCalls(grants, t) /\ calls' = calls + 1

(* The ids a client can name: add_capability returned them. *)
Known ==
  {id \in DOMAIN entries :
     \A t \in Client : client[t].pc \in {"added", "creating", "listing", "panicked"}
                        => client[t].id # id}

With(f, id, x) == [i \in DOMAIN f \cup {id} |-> IF i = id THEN x ELSE f[i]]

Without(f, id) == Restrict(f, DOMAIN f \ {id})

(* clear_plugin_capabilities holds a reference into plugin_capabilities    *)
(* while it removes entries: writers of the set wait.                      *)
SetIsFree == \A t \in Client : ~At(t, "clearing")

-----------------------------------------------------------------------------
(* add_capability *)

Insert(t, c, next) ==
  /\ nextId <= MaxId
  /\ entries' = With(entries, nextId, c)
  /\ generation' = With(generation, nextId, 1)
  /\ nextId' = nextId + 1
  /\ Goto(t, [pc |-> next, id |-> nextId])
  /\ UNCHANGED <<listed, history>>

AddCapability(t) ==
  Call(t) /\ (\E c \in grants : Insert(t, c, "added")) /\ UNCHANGED grants

(* get_or_create_capability_set: contains_key, insert and get_mut are three *)
(* accesses.                                                               *)
FindSet(t) ==
  /\ At(t, "added")
  /\ Goto(t, [client[t] EXCEPT !.pc = IF listed = Absent THEN "creating" ELSE "listing"])
  /\ UNCHANGED <<grants, calls, store, history>>

CreateSet(t) ==
  /\ At(t, "creating") /\ SetIsFree
  /\ listed' = {}
  /\ raced' = (raced \/ \E u \in Client \ {t} : ~Settled(u))
  /\ Goto(t, [client[t] EXCEPT !.pc = "listing"])
  /\ UNCHANGED <<grants, calls, entries, generation, nextId, revoked, stale>>

(* get_mut().unwrap() panics when the set is gone: the id is not listed    *)
(* and the call does not return.                                           *)
ListId(t) ==
  /\ At(t, "listing") /\ SetIsFree
  /\ IF listed = Absent THEN UNCHANGED listed ELSE listed' = listed \cup {client[t].id}
  /\ Goto(t, IF listed = Absent THEN [client[t] EXCEPT !.pc = "panicked"] ELSE Idle)
  /\ UNCHANGED <<grants, calls, entries, generation, nextId, history>>

-----------------------------------------------------------------------------
(* remove_capability: the entry first, then the listing. *)

RemoveCapability(t) ==
  /\ Call(t)
  /\ \E id \in Known :
       /\ entries' = Without(entries, id)
       /\ generation' = Without(generation, id)
       /\ Goto(t, [pc |-> "removed", id |-> id])
  /\ UNCHANGED <<grants, listed, nextId, history>>

(* Mutant: the id stays listed. *)
UnlistNothing(t) ==
  /\ At(t, "removed") /\ SetIsFree
  /\ Goto(t, Idle)
  /\ UNCHANGED <<grants, calls, store, history>>

Unlist(t) ==
  /\ At(t, "removed") /\ SetIsFree
  /\ listed' = IF listed = Absent THEN Absent ELSE listed \ {client[t].id}
  /\ Goto(t, Idle)
  /\ UNCHANGED <<grants, calls, entries, generation, nextId, history>>

(* clear_plugin_capabilities: one entry after the other, then the set. *)
ClearPluginCapabilities(t) ==
  /\ Call(t)
  /\ Goto(t, IF listed = Absent THEN [pc |-> "cleared"] ELSE [pc |-> "clearing", todo |-> listed])
  /\ UNCHANGED <<grants, store, history>>

ClearEntry(t) ==
  /\ At(t, "clearing")
  /\ IF client[t].todo = {}
       THEN Goto(t, [pc |-> "cleared"]) /\ UNCHANGED <<entries, generation>>
       ELSE \E id \in client[t].todo :
              /\ entries' = Without(entries, id)
              /\ generation' = Without(generation, id)
              /\ Goto(t, [client[t] EXCEPT !.todo = @ \ {id}])
  /\ UNCHANGED <<grants, calls, listed, nextId, history>>

DropSet(t) ==
  /\ At(t, "cleared") /\ SetIsFree
  /\ listed' = Absent
  /\ raced' = \/ raced
              \/ \E u \in Client \ {t} : ~Settled(u)
              \/ (listed # Absent /\ listed \cap DOMAIN entries # {})
  /\ Goto(t, Idle)
  /\ UNCHANGED <<grants, calls, entries, generation, nextId, revoked, stale>>

-----------------------------------------------------------------------------
(* get_capability clones the entry; what is derived from the clone is      *)
(* stored later.  "by" and "from" say how the clone was derived last.      *)
(* apply_policy_constraints of lion_policy is such a get and replace.      *)

Holding(id, gen, c, by, from) ==
  [pc |-> "holding", id |-> id, generation |-> gen, cap |-> c, by |-> by, from |-> from]

GetCapability(t) ==
  /\ Call(t)
  /\ \E id \in Known :
       Goto(t, Holding(id, generation[id], entries[id], "get", {entries[id]}))
  /\ UNCHANGED <<grants, store, history>>

Derived(t, by, from, results) ==
  \E c \in results :
    Goto(t, Holding(client[t].id, client[t].generation, c, by, from))

Derive(t) ==
  /\ At(t, "holding") /\ client[t].by = "get"
  /\ LET c == client[t].cap
     IN  \/ Derived(t, "policy", {c}, {policed(c)})
         \/ \E k \in Constraint : Derived(t, "constrain", {c}, constrain(c, k))
         \/ Derived(t, "split", {c}, split(c))
         \/ \E id \in Known \ {client[t].id} :
              \/ Derived(t, "meet", {c, entries[id]}, meet(c, entries[id]))
              \/ Derived(t, "join", {c, entries[id]}, join(c, entries[id]))
  /\ UNCHANGED <<grants, calls, store, history>>

(* replace_capability never looks at the generation it counts. *)
Replace(t, id, c, gen) ==
  /\ id \in DOMAIN entries
  /\ entries' = [entries EXCEPT ![id] = c]
  /\ generation' = [generation EXCEPT ![id] = @ + 1]
  /\ stale' = IF generation[id] # gen THEN stale \cup {id} ELSE stale

ReplaceCapability(t) ==
  /\ At(t, "holding") /\ client[t].by # "get"
  /\ \/ /\ Replace(t, client[t].id, client[t].cap, client[t].generation)
        /\ revoked' = {x \in revoked : x[1] # client[t].id \/ ~regains(client[t].by, client[t].from, x[2])}
     \/ client[t].id \notin DOMAIN entries /\ UNCHANGED <<entries, generation, stale, revoked>>
  /\ Goto(t, Idle)
  /\ UNCHANGED <<grants, calls, listed, nextId, raced>>

AddDerived(t) ==
  /\ At(t, "holding") /\ client[t].by \notin {"get", "policy"}
  /\ Insert(t, client[t].cap, "added")
  /\ UNCHANGED <<grants, calls>>

(* partial_revoke: get, apply_partial_revocation, replace. *)
Revoking(id, gen, c, taken) ==
  [pc |-> "revoking", id |-> id, generation |-> gen, cap |-> c, taken |-> taken]

PartialRevoke(t) ==
  /\ Call(t)
  /\ \E id \in Known, r \in Request :
       /\ r.kind = type_of(entries[id])
       /\ Goto(t, Revoking(id, generation[id], reduced(entries[id], r),
                           {q \in {r} : permits(entries[id], q)}))
  /\ UNCHANGED <<grants, store, history>>

StoreReduced(t) ==
  /\ At(t, "revoking")
  /\ LET id == client[t].id
     IN  IF id \in DOMAIN entries
           THEN /\ Replace(t, id, client[t].cap, client[t].generation)
                /\ revoked' = revoked \cup ({id} \X client[t].taken)
           ELSE UNCHANGED <<entries, generation, stale, revoked>>
  /\ Goto(t, Idle)
  /\ UNCHANGED <<grants, calls, listed, nextId, raced>>

-----------------------------------------------------------------------------
Step(t) ==
  \/ AddCapability(t) \/ FindSet(t) \/ CreateSet(t) \/ ListId(t)
  \/ RemoveCapability(t) \/ Unlist(t)
  \/ ClearPluginCapabilities(t) \/ ClearEntry(t) \/ DropSet(t)
  \/ GetCapability(t) \/ Derive(t) \/ ReplaceCapability(t) \/ AddDerived(t)
  \/ PartialRevoke(t) \/ StoreReduced(t)

Next == \E t \in Client : Step(t)

Spec == Init /\ [][Next]_vars
-----------------------------------------------------------------------------
(* Properties. *)

(* What partial_revoke took away stays away through every later constraint, *)
(* split, meet and revocation of the same capability, as long as none of    *)
(* them stores what it derived from an older generation of the entry: that  *)
(* is the lost update replace_capability (in_memory.rs:172) does not detect. *)
(* So it does when lion_policy's constraints are applied, but below /var,   *)
(* where they permit everything (mapper.rs:315).                            *)
RevocationHolds ==
  \A x \in revoked :
    x[1] \in DOMAIN entries \ stale => ~permits(entries[x[1]], x[2])

(* So it can be if the algebra keeps its word: what is derived from c, or   *)
(* from c and one of the others, refuses what c refuses, but for what it    *)
(* may regain, and a partial revocation refuses what it took.               *)
RefusalsKept(c, others) ==
  LET given == refused(c)
      kept(by, from, results) ==
        \A d \in results : \A r \in given \ refused(d) : regains(by, from, r)
  IN  /\ \A r \in given : ~permits(c, r)
      /\ \A r \in {q \in Request : q.kind = type_of(c)} :
           given \cup {q \in {r} : permits(c, q)} \subseteq refused(reduced(c, r))
      /\ kept("policy", {c}, {policed(c)})
      /\ kept("split", {c}, split(c))
      /\ \A k \in Constraint : kept("constrain", {c}, constrain(c, k))
      /\ \A d \in others : kept("meet", {c, d}, meet(c, d)) /\ kept("join", {c, d}, join(c, d))

(* The two maps agree whenever no call is between its accesses, unless a    *)
(* call created or dropped the set while another was on its way to it: an   *)
(* entry that is not listed can be fetched but permits nothing, and clear   *)
(* does not find it (in_memory.rs:101 and 213).                             *)
MapsAgree ==
  (\A t \in Client : Settled(t)) /\ ~raced =>
    DOMAIN entries = (IF listed = Absent THEN {} ELSE listed)
=============================================================================
