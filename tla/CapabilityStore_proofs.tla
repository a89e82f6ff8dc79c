----------------------- MODULE CapabilityStore_proofs -----------------------
(***************************************************************************)
(* For any number of clients, grants and calls, and for every algebra of   *)
(* capabilities.                                                           *)
(*                                                                         *)
(* The two maps: what is in one and not in the other belongs to a call     *)
(* that is between its two accesses, and such a call is the only one that  *)
(* knows the id (IdsOwned).  While no call creates or drops the set under  *)
(* another, an id that is not listed is being added, and an id that is     *)
(* listed without an entry is being removed or cleared (MapsFollow).       *)
(*                                                                         *)
(* What is revoked: the algebra has to keep what a capability refuses      *)
(* (Refusing).  Then an entry refuses what was revoked of its id, and so   *)
(* does what a client holds for the id, unless the entry was replaced      *)
(* since, which the generations tell (RefusalInv).                         *)
(***************************************************************************)
EXTENDS CapabilityStore, TLAPS

(* The ids of the plugin. *)
Listed == IF listed = Absent THEN {} ELSE listed

(* An id was inserted by this call and not listed yet: only it knows it. *)
Adding(t) == client[t].pc \in {"added", "creating", "listing", "panicked"}

(* This call took the entry out and not the id. *)
Clearing(t) == client[t].pc \in {"clearing", "cleared"}

StoreTyped ==
  /\ nextId \in 1 .. MaxId + 1
  /\ DOMAIN entries \subseteq 1 .. nextId - 1
  /\ DOMAIN generation = DOMAIN entries
  /\ Listed \subseteq 1 .. nextId - 1
  /\ client = [t \in Client |-> client[t]]

ClientTyped(t) ==
  /\ client[t].pc \in {"idle", "added", "creating", "listing", "panicked", "removed",
                       "clearing", "cleared", "holding", "revoking"}
  /\ Adding(t) => client[t] = [pc |-> client[t].pc, id |-> client[t].id]
  /\ At(t, "removed") => client[t].id \in (1 .. nextId - 1) \ DOMAIN entries
  /\ At(t, "clearing") =>
       client[t] = [pc |-> "clearing", todo |-> client[t].todo]
         /\ client[t].todo \subseteq 1 .. nextId - 1

IdsOwned ==
  \A t \in Client : Adding(t) =>
    /\ client[t].id \in DOMAIN entries \ Listed
    /\ \A u \in Client \ {t} :
         /\ Adding(u) => client[u].id # client[t].id
         /\ At(u, "clearing") => client[t].id \notin client[u].todo

MapsFollow ==
  ~raced =>
    /\ \A t \in Client : At(t, "creating") => listed = Absent
    /\ \A id \in DOMAIN entries \ Listed : \E t \in Client : Adding(t) /\ client[t].id = id
    /\ \/ \E t \in Client : Clearing(t)
       \/ \A id \in Listed \ DOMAIN entries :
            \E t \in Client : At(t, "removed") /\ client[t].id = id

StoreInv ==
  /\ StoreTyped
  /\ \A t \in Client : ClientTyped(t)
  /\ IdsOwned
  /\ MapsFollow

LEMMA Goes ==
  ASSUME StoreTyped, NEW t \in Client, NEW state, Goto(t, state)
  PROVE  /\ client'[t] = state
         /\ \A u \in Client \ {t} : client'[u] = client[u]
         /\ client' = [u \in Client |-> client'[u]]
BY DEF StoreTyped, Goto

LEMMA WithDomain ==
  ASSUME NEW f, NEW id, NEW x
  PROVE  /\ DOMAIN With(f, id, x) = DOMAIN f \cup {id}
         /\ With(f, id, x)[id] = x
         /\ \A i \in DOMAIN f \ {id} : With(f, id, x)[i] = f[i]
BY DEF With

LEMMA WithoutDomain ==
  ASSUME NEW f, NEW id
  PROVE  /\ DOMAIN Without(f, id) = DOMAIN f \ {id}
         /\ \A i \in DOMAIN f \ {id} : Without(f, id)[i] = f[i]
BY DEF Without, Restrict

LEMMA StoreInit == Init => StoreInv
<1> SUFFICES ASSUME Init PROVE StoreInv
  OBVIOUS
<1>1. \A t \in Client : client[t].pc = "idle"
  BY DEF Init, Idle
<1>2. StoreTyped
  BY StoreAssumption DEF Init, StoreTyped, Listed
<1>3. DOMAIN entries = {} /\ Listed = {}
  BY DEF Init, Listed
<1> QED
  BY <1>1, <1>2, <1>3
  DEF StoreInv, ClientTyped, Adding, At, Clearing, IdsOwned, MapsFollow

(* A capability is added: by add_capability, or what was derived. *)
LEMMA InsertKeeps ==
  ASSUME StoreInv, NEW t \in Client, NEW c, Insert(t, c, "added"),
         At(t, "idle") \/ At(t, "holding")
  PROVE  StoreInv'
<1>1. /\ client'[t] = [pc |-> "added", id |-> nextId]
      /\ \A u \in Client \ {t} : client'[u] = client[u]
      /\ client' = [u \in Client |-> client'[u]]
  BY Goes DEF Insert, StoreInv
<1>2. DOMAIN entries' = DOMAIN entries \cup {nextId} /\ DOMAIN generation' = DOMAIN entries'
  <2>1. DOMAIN With(entries, nextId, c) = DOMAIN entries \cup {nextId}
    BY WithDomain
  <2>2. DOMAIN With(generation, nextId, 1) = DOMAIN generation \cup {nextId}
    BY WithDomain
  <2> QED
    BY <2>1, <2>2 DEF Insert, StoreInv, StoreTyped
<1>3. nextId \in 1 .. MaxId /\ nextId' = nextId + 1 /\ nextId' \in 1 .. MaxId + 1
  BY StoreAssumption DEF Insert, StoreInv, StoreTyped
<1>4. Listed' = Listed /\ raced' = raced /\ listed' = listed
  BY DEF Insert, history, Listed
<1>5. 1 .. nextId' - 1 = (1 .. nextId - 1) \cup {nextId} /\ nextId \notin 1 .. nextId - 1
  BY <1>3
<1>6. StoreTyped'
  BY <1>1, <1>2, <1>3, <1>4, <1>5 DEF StoreTyped, StoreInv
<1>7. ASSUME NEW u \in Client PROVE ClientTyped(u)'
  <2>1. CASE u = t
    BY <1>1, <2>1 DEF ClientTyped, Adding, At
  <2>2. CASE u # t
    BY <1>1, <1>2, <1>3, <1>5, <2>2 DEF ClientTyped, Adding, At, StoreInv
  <2> QED
    BY <2>1, <2>2
<1>8. \A u \in Client : ~Adding(u) => u = t \/ ~Adding(u)'
  BY <1>1 DEF Adding
<1>9. nextId \notin Listed /\ nextId \notin DOMAIN entries
  BY <1>5 DEF StoreInv, StoreTyped
<1>10. IdsOwned'
  <2> SUFFICES ASSUME NEW u \in Client, Adding(u)'
               PROVE  /\ client'[u].id \in DOMAIN entries' \ Listed'
                      /\ \A v \in Client \ {u} :
                           /\ Adding(v)' => client'[v].id # client'[u].id
                           /\ At(v, "clearing")' => client'[u].id \notin client'[v].todo
    BY DEF IdsOwned, Adding, At
  <2>1. CASE u = t
    <3>1. client'[u].id = nextId
      BY <1>1, <2>1
    <3>2. ASSUME NEW v \in Client \ {t}
          PROVE  /\ Adding(v)' => client'[v].id # nextId
                 /\ At(v, "clearing")' => nextId \notin client'[v].todo
      BY <1>1, <1>5, <1>9 DEF StoreInv, IdsOwned, ClientTyped, Adding, At
    <3> QED
      BY <1>2, <1>4, <1>9, <2>1, <3>1, <3>2
  <2>2. CASE u # t
    <3>1. Adding(u) /\ client'[u] = client[u]
      BY <1>1, <2>2 DEF Adding
    <3>2. client[u].id \in DOMAIN entries \ Listed
      BY <3>1 DEF StoreInv, IdsOwned
    <3>3. ASSUME NEW v \in Client \ {u}
          PROVE  /\ Adding(v)' => client'[v].id # client'[u].id
                 /\ At(v, "clearing")' => client'[u].id \notin client'[v].todo
      BY <1>1, <1>9, <3>1, <3>2 DEF StoreInv, IdsOwned, Adding, At
    <3> QED
      BY <1>2, <1>4, <3>1, <3>2, <3>3
  <2> QED
    BY <2>1, <2>2
<1>11. MapsFollow'
  <2> SUFFICES ASSUME ~raced
               PROVE  /\ \A u \in Client : At(u, "creating")' => listed' = Absent
                      /\ \A id \in DOMAIN entries' \ Listed' :
                           \E u \in Client : Adding(u)' /\ client'[u].id = id
                      /\ \/ \E u \in Client : Clearing(u)'
                         \/ \A id \in Listed' \ DOMAIN entries' :
                              \E u \in Client : At(u, "removed")' /\ client'[u].id = id
    BY <1>4 DEF MapsFollow
  <2>1. \A u \in Client : At(u, "creating")' => listed' = Absent
    BY <1>1, <1>4 DEF StoreInv, MapsFollow, At
  <2>2. ASSUME NEW id \in DOMAIN entries' \ Listed'
        PROVE  \E u \in Client : Adding(u)' /\ client'[u].id = id
    <3>1. CASE id = nextId
      BY <1>1, <3>1 DEF Adding
    <3>2. CASE id # nextId
      <4>1. PICK u \in Client : Adding(u) /\ client[u].id = id
        BY <1>2, <1>4, <3>2 DEF StoreInv, MapsFollow
      <4>2. u # t
        BY <4>1 DEF Adding, At
      <4> QED
        BY <1>1, <4>1, <4>2 DEF Adding
    <3> QED
      BY <3>1, <3>2
  <2>3. ASSUME NEW u \in Client, Clearing(u) PROVE Clearing(u)'
    BY <1>1, <2>3 DEF Clearing, At
  <2>4. ASSUME NEW id \in Listed' \ DOMAIN entries', NEW u \in Client,
               At(u, "removed"), client[u].id = id
        PROVE  At(u, "removed")' /\ client'[u].id = id
    BY <1>1, <2>4 DEF At
  <2>5. Listed' \ DOMAIN entries' \subseteq Listed \ DOMAIN entries
    BY <1>2, <1>4
  <2>6. CASE \E u \in Client : Clearing(u)
    BY <2>1, <2>2, <2>3, <2>6
  <2>7. CASE \A id \in Listed \ DOMAIN entries :
               \E u \in Client : At(u, "removed") /\ client[u].id = id
    BY <2>1, <2>2, <2>4, <2>5, <2>7
  <2> QED
    BY <2>6, <2>7 DEF StoreInv, MapsFollow
<1> QED
  BY <1>6, <1>7, <1>10, <1>11 DEF StoreInv

(* A call that holds a capability, or lays it down, touches neither the set *)
(* nor the ids of the entries.                                             *)
LEMMA HoldingKeeps ==
  ASSUME StoreInv, NEW t \in Client, NEW state, Goto(t, state), Settled(t),
         state.pc \in {"idle", "holding", "revoking"},
         DOMAIN entries' = DOMAIN entries, DOMAIN generation' = DOMAIN generation,
         listed' = listed, nextId' = nextId, raced' = raced
  PROVE  StoreInv'
<1>1. /\ client'[t] = state
      /\ \A u \in Client \ {t} : client'[u] = client[u]
      /\ client' = [u \in Client |-> client'[u]]
  BY Goes DEF StoreInv
<1>2. Listed' = Listed
  BY DEF Listed
<1>3. StoreTyped'
  BY <1>1, <1>2 DEF StoreTyped, StoreInv
<1>4. ASSUME NEW u \in Client PROVE ClientTyped(u)'
  <2>1. CASE u = t
    BY <1>1, <2>1 DEF ClientTyped, Adding, At
  <2>2. CASE u # t
    BY <1>1, <2>2 DEF ClientTyped, Adding, At, StoreInv
  <2> QED
    BY <2>1, <2>2
<1>5. /\ ~Adding(t) /\ ~Adding(t)' /\ ~Clearing(t) /\ ~Clearing(t)'
      /\ ~At(t, "creating")' /\ ~At(t, "removed") /\ ~At(t, "clearing")'
  BY <1>1 DEF Settled, Adding, Clearing, At
<1>6. IdsOwned'
  BY <1>1, <1>2, <1>5 DEF StoreInv, IdsOwned, Adding, At
<1>7. MapsFollow'
  BY <1>1, <1>2, <1>5 DEF StoreInv, MapsFollow, Adding, Clearing, At
<1> QED
  BY <1>3, <1>4, <1>6, <1>7 DEF StoreInv

(* The way to the set: only the place of the call changes, or the set is   *)
(* created, or the id is listed.                                           *)
LEMMA FindSetKeeps ==
  ASSUME StoreInv, NEW t \in Client, FindSet(t)
  PROVE  StoreInv'
<1> DEFINE next == IF listed = Absent THEN "creating" ELSE "listing"
<1>1. /\ client'[t] = [client[t] EXCEPT !.pc = next]
      /\ \A u \in Client \ {t} : client'[u] = client[u]
      /\ client' = [u \in Client |-> client'[u]]
  BY Goes DEF FindSet, StoreInv
<1>2. client'[t] = [pc |-> next, id |-> client[t].id] /\ Adding(t) /\ Adding(t)'
  BY <1>1 DEF FindSet, At, StoreInv, ClientTyped, Adding
<1>3. UNCHANGED <<entries, generation, listed, nextId, raced>> /\ Listed' = Listed
  BY DEF FindSet, store, history, Listed
<1>4. StoreTyped'
  BY <1>1, <1>3 DEF StoreTyped, StoreInv
<1>5. ASSUME NEW u \in Client PROVE ClientTyped(u)'
  <2>1. CASE u = t
    BY <1>2, <2>1 DEF ClientTyped, Adding, At
  <2>2. CASE u # t
    BY <1>1, <1>3, <2>2 DEF ClientTyped, Adding, At, StoreInv
  <2> QED
    BY <2>1, <2>2
<1>6. \A u \in Client : /\ Adding(u)' <=> Adding(u)
                        /\ Adding(u) => client'[u].id = client[u].id
                        /\ At(u, "clearing")' <=> At(u, "clearing")
                        /\ Clearing(u)' <=> Clearing(u)
                        /\ At(u, "removed")' <=> At(u, "removed")
                        /\ ~Adding(u) => client'[u] = client[u]
  BY <1>1, <1>2 DEF Adding, At, Clearing, FindSet
<1>7. IdsOwned'
  BY <1>3, <1>6 DEF StoreInv, IdsOwned, Adding, At
<1>8. \A u \in Client : At(u, "creating")' => At(u, "creating") \/ listed = Absent
  BY <1>1, <1>2 DEF At
<1>9. MapsFollow'
  BY <1>3, <1>6, <1>8 DEF StoreInv, MapsFollow, Adding, At
<1> QED
  BY <1>4, <1>5, <1>7, <1>9 DEF StoreInv

LEMMA CreateSetKeeps ==
  ASSUME StoreInv, NEW t \in Client, CreateSet(t)
  PROVE  StoreInv'
<1>1. /\ client'[t] = [client[t] EXCEPT !.pc = "listing"]
      /\ \A u \in Client \ {t} : client'[u] = client[u]
      /\ client' = [u \in Client |-> client'[u]]
  BY Goes DEF CreateSet, StoreInv
<1>2. client'[t] = [pc |-> "listing", id |-> client[t].id] /\ Adding(t) /\ Adding(t)'
  BY <1>1 DEF CreateSet, At, StoreInv, ClientTyped, Adding
<1>3. UNCHANGED <<entries, generation, nextId>> /\ Listed' = {}
  BY DEF CreateSet, Listed
<1>4. StoreTyped'
  BY <1>1, <1>3 DEF StoreTyped, StoreInv
<1>5. ASSUME NEW u \in Client PROVE ClientTyped(u)'
  <2>1. CASE u = t
    BY <1>2, <2>1 DEF ClientTyped, Adding, At
  <2>2. CASE u # t
    BY <1>1, <1>3, <2>2 DEF ClientTyped, Adding, At, StoreInv
  <2> QED
    BY <2>1, <2>2
<1>6. \A u \in Client : /\ Adding(u)' <=> Adding(u)
                        /\ Adding(u) => client'[u].id = client[u].id
                        /\ At(u, "clearing")' <=> At(u, "clearing")
                        /\ ~Adding(u) => client'[u] = client[u]
  BY <1>1, <1>2 DEF Adding, At
<1>7. IdsOwned'
  BY <1>3, <1>6 DEF StoreInv, IdsOwned, Adding, At
<1>8. MapsFollow'
  <2> SUFFICES ASSUME ~raced' PROVE MapsFollow'
    BY DEF MapsFollow
  <2>1. ~raced /\ \A u \in Client \ {t} : Settled(u)
    BY DEF CreateSet
  <2>2. listed = Absent /\ Listed = {}
    BY <2>1 DEF CreateSet, StoreInv, MapsFollow, Listed
  <2>3. \A u \in Client : ~At(u, "creating")'
    BY <1>1, <1>2, <2>1 DEF At, Settled
  <2>4. \A id \in DOMAIN entries' \ Listed' : \E u \in Client : Adding(u)' /\ client'[u].id = id
    BY <1>3, <1>6, <2>1, <2>2 DEF StoreInv, MapsFollow
  <2> QED
    BY <1>3, <2>3, <2>4 DEF MapsFollow
<1> QED
  BY <1>4, <1>5, <1>7, <1>8 DEF StoreInv

LEMMA ListIdKeeps ==
  ASSUME StoreInv, NEW t \in Client, ListId(t)
  PROVE  StoreInv'
<1>0. /\ UNCHANGED <<entries, generation, nextId, raced>>
      /\ At(t, "listing") /\ Adding(t)
      /\ \A u \in Client : ~At(u, "clearing")
  BY DEF ListId, history, SetIsFree, At, Adding
<1>1. CASE listed = Absent
  <2>1. /\ client'[t] = [client[t] EXCEPT !.pc = "panicked"]
        /\ \A u \in Client \ {t} : client'[u] = client[u]
        /\ client' = [u \in Client |-> client'[u]]
    BY <1>1, Goes DEF ListId, StoreInv
  <2>2. client'[t] = [pc |-> "panicked", id |-> client[t].id] /\ Adding(t)'
    BY <1>0, <2>1 DEF StoreInv, ClientTyped, Adding
  <2>3. listed' = listed /\ Listed' = Listed
    BY <1>1 DEF ListId, Listed
  <2>4. StoreTyped'
    BY <1>0, <2>1, <2>3 DEF StoreTyped, StoreInv
  <2>5. ASSUME NEW u \in Client PROVE ClientTyped(u)'
    <3>1. CASE u = t
      BY <2>2, <3>1 DEF ClientTyped, Adding, At
    <3>2. CASE u # t
      BY <1>0, <2>1, <3>2 DEF ClientTyped, Adding, At, StoreInv
    <3> QED
      BY <3>1, <3>2
  <2>6. \A u \in Client : /\ Adding(u)' <=> Adding(u)
                          /\ Adding(u) => client'[u].id = client[u].id
                          /\ At(u, "clearing")' <=> At(u, "clearing")
                          /\ Clearing(u)' <=> Clearing(u)
                          /\ At(u, "removed")' <=> At(u, "removed")
                          /\ ~Adding(u) => client'[u] = client[u]
    BY <1>0, <2>1, <2>2 DEF Adding, At, Clearing
  <2>7. IdsOwned'
    BY <1>0, <2>3, <2>6 DEF StoreInv, IdsOwned, Adding, At
  <2>8. MapsFollow'
    BY <1>0, <1>1, <2>3, <2>6 DEF StoreInv, MapsFollow, Adding, At
  <2> QED
    BY <2>4, <2>5, <2>7, <2>8 DEF StoreInv
<1>2. CASE listed # Absent
  <2>1. /\ client'[t] = Idle
        /\ \A u \in Client \ {t} : client'[u] = client[u]
        /\ client' = [u \in Client |-> client'[u]]
    BY <1>2, Goes DEF ListId, StoreInv
  <2>2. client'[t].pc = "idle" /\ ~Adding(t)'
    BY <2>1 DEF Idle, Adding
  <2>3. client[t].id \in DOMAIN entries \ Listed
    BY <1>0 DEF StoreInv, IdsOwned
  <2>4. Listed' = Listed \cup {client[t].id} /\ listed' # Absent
    <3>1. listed' = Listed \cup {client[t].id}
      BY <1>2 DEF ListId, Listed
    <3>2. Listed \cup {client[t].id} \in SUBSET (1 .. MaxId)
      BY <2>3, StoreAssumption DEF StoreInv, StoreTyped
    <3> QED
      BY <3>1, <3>2, StoreAssumption DEF Listed
  <2>5. StoreTyped'
    BY <1>0, <2>1, <2>3, <2>4 DEF StoreTyped, StoreInv
  <2>6. ASSUME NEW u \in Client PROVE ClientTyped(u)'
    <3>1. CASE u = t
      BY <2>2, <3>1 DEF ClientTyped, Adding, At
    <3>2. CASE u # t
      BY <1>0, <2>1, <3>2 DEF ClientTyped, Adding, At, StoreInv
    <3> QED
      BY <3>1, <3>2
  <2>7. IdsOwned'
    BY <1>0, <2>1, <2>2, <2>3, <2>4 DEF StoreInv, IdsOwned, Adding, At
  <2>8. MapsFollow'
    <3> SUFFICES ASSUME ~raced PROVE MapsFollow'
      BY <1>0 DEF MapsFollow
    <3>1. \A u \in Client : ~At(u, "creating")'
      BY <1>2, <2>1, <2>2 DEF StoreInv, MapsFollow, At
    <3>2. ASSUME NEW id \in DOMAIN entries' \ Listed'
          PROVE  \E u \in Client : Adding(u)' /\ client'[u].id = id
      <4>1. PICK u \in Client : Adding(u) /\ client[u].id = id
        BY <1>0, <2>4 DEF StoreInv, MapsFollow
      <4>2. u # t
        BY <2>4, <4>1
      <4> QED
        BY <2>1, <4>1, <4>2 DEF Adding
    <3>3. ASSUME NEW u \in Client, Clearing(u) PROVE Clearing(u)'
      BY <1>0, <2>1, <3>3 DEF Clearing, At
    <3>4. ASSUME NEW u \in Client, At(u, "removed")
          PROVE  At(u, "removed")' /\ client'[u] = client[u]
      BY <1>0, <2>1, <3>4 DEF At
    <3>5. Listed' \ DOMAIN entries' = Listed \ DOMAIN entries
      BY <1>0, <2>3, <2>4
    <3> QED
      BY <1>0, <3>1, <3>2, <3>3, <3>4, <3>5 DEF StoreInv, MapsFollow
  <2> QED
    BY <2>5, <2>6, <2>7, <2>8 DEF StoreInv
<1> QED
  BY <1>1, <1>2

LEMMA RemoveKeeps ==
  ASSUME StoreInv, NEW t \in Client, RemoveCapability(t)
  PROVE  StoreInv'
<1>1. PICK id \in Known : /\ entries' = Without(entries, id)
                         /\ generation' = Without(generation, id)
                         /\ Goto(t, [pc |-> "removed", id |-> id])
  BY DEF RemoveCapability
<1>2. /\ client'[t] = [pc |-> "removed", id |-> id]
      /\ \A u \in Client \ {t} : client'[u] = client[u]
      /\ client' = [u \in Client |-> client'[u]]
  BY <1>1, Goes DEF StoreInv
<1>3. DOMAIN entries' = DOMAIN entries \ {id} /\ DOMAIN generation' = DOMAIN generation \ {id}
  BY <1>1, WithoutDomain
<1>4. UNCHANGED <<listed, nextId, raced>> /\ Listed' = Listed
  BY DEF RemoveCapability, history, Listed
<1>5. id \in DOMAIN entries /\ \A u \in Client : Adding(u) => client[u].id # id
  BY DEF Known, Adding
<1>6. StoreTyped'
  BY <1>2, <1>3, <1>4 DEF StoreTyped, StoreInv
<1>7. ASSUME NEW u \in Client PROVE ClientTyped(u)'
  <2>1. CASE u = t
    BY <1>2, <1>3, <1>4, <1>5, <2>1 DEF ClientTyped, Adding, At, StoreInv, StoreTyped
  <2>2. CASE u # t
    BY <1>2, <1>3, <1>4, <2>2 DEF ClientTyped, Adding, At, StoreInv
  <2> QED
    BY <2>1, <2>2
<1>8. ~Adding(t) /\ ~Adding(t)' /\ ~Clearing(t) /\ ~At(t, "removed") /\ ~At(t, "clearing")'
        /\ At(t, "removed")' /\ ~At(t, "creating")'
  BY <1>2 DEF RemoveCapability, Call, Adding, Clearing, At
<1>9. IdsOwned'
  BY <1>2, <1>3, <1>4, <1>5, <1>8 DEF StoreInv, IdsOwned, Adding, At
<1>10. MapsFollow'
  <2> SUFFICES ASSUME ~raced PROVE MapsFollow'
    BY <1>4 DEF MapsFollow
  <2>1. \A u \in Client : At(u, "creating")' => listed' = Absent
    BY <1>2, <1>4, <1>8 DEF StoreInv, MapsFollow, At
  <2>2. \A i \in DOMAIN entries' \ Listed' : \E u \in Client : Adding(u)' /\ client'[u].id = i
    BY <1>2, <1>3, <1>4, <1>8 DEF StoreInv, MapsFollow, Adding
  <2>3. ASSUME NEW u \in Client, Clearing(u) PROVE Clearing(u)'
    BY <1>2, <1>8, <2>3 DEF Clearing, At
  <2>4. ASSUME NEW u \in Client, At(u, "removed")
        PROVE  At(u, "removed")' /\ client'[u] = client[u]
    BY <1>2, <1>8, <2>4 DEF At
  <2>5. ASSUME NEW i \in Listed' \ DOMAIN entries', i \notin Listed \ DOMAIN entries
        PROVE  At(t, "removed")' /\ client'[t].id = i
    BY <1>2, <1>3, <1>4, <1>8, <2>5
  <2> QED
    BY <1>3, <1>4, <2>1, <2>2, <2>3, <2>4, <2>5 DEF StoreInv, MapsFollow
<1> QED
  BY <1>6, <1>7, <1>9, <1>10 DEF StoreInv

LEMMA UnlistKeeps ==
  ASSUME StoreInv, NEW t \in Client, Unlist(t)
  PROVE  StoreInv'
<1>1. /\ client'[t] = Idle
      /\ \A u \in Client \ {t} : client'[u] = client[u]
      /\ client' = [u \in Client |-> client'[u]]
  BY Goes DEF Unlist, StoreInv
<1>2. /\ UNCHANGED <<entries, generation, nextId, raced>>
      /\ At(t, "removed") /\ ~Adding(t) /\ ~Clearing(t)
  BY DEF Unlist, history, At, Adding, Clearing
<1>3. client'[t].pc = "idle" /\ ~Adding(t)' /\ ~At(t, "clearing")' /\ ~At(t, "creating")'
  BY <1>1 DEF Idle, Adding, At
<1>4. client[t].id \notin DOMAIN entries
  BY <1>2 DEF StoreInv, ClientTyped
<1>5. Listed' = Listed \ {client[t].id} /\ (listed = Absent => listed' = Absent)
  <2>1. CASE listed = Absent
    BY <2>1 DEF Unlist, Listed
  <2>2. CASE listed # Absent
    <3>1. listed' = Listed \ {client[t].id} /\ Listed = listed
      BY <2>2 DEF Unlist, Listed
    <3>2. Listed \ {client[t].id} \in SUBSET (1 .. MaxId)
      BY StoreAssumption DEF StoreInv, StoreTyped
    <3> QED
      BY <2>2, <3>1, <3>2, StoreAssumption DEF Listed
  <2> QED
    BY <2>1, <2>2
<1>6. StoreTyped'
  BY <1>1, <1>2, <1>5 DEF StoreTyped, StoreInv
<1>7. ASSUME NEW u \in Client PROVE ClientTyped(u)'
  <2>1. CASE u = t
    BY <1>3, <2>1 DEF ClientTyped, Adding, At
  <2>2. CASE u # t
    BY <1>1, <1>2, <2>2 DEF ClientTyped, Adding, At, StoreInv
  <2> QED
    BY <2>1, <2>2
<1>8. IdsOwned'
  BY <1>1, <1>2, <1>3, <1>5 DEF StoreInv, IdsOwned, Adding, At
<1>9. MapsFollow'
  <2> SUFFICES ASSUME ~raced PROVE MapsFollow'
    BY <1>2 DEF MapsFollow
  <2>1. \A u \in Client : At(u, "creating")' => listed' = Absent
    BY <1>1, <1>3, <1>5 DEF StoreInv, MapsFollow, At
  <2>2. DOMAIN entries' \ Listed' = DOMAIN entries \ Listed
    BY <1>2, <1>4, <1>5
  <2>3. \A i \in DOMAIN entries' \ Listed' : \E u \in Client : Adding(u)' /\ client'[u].id = i
    BY <1>1, <1>2, <2>2 DEF StoreInv, MapsFollow, Adding
  <2>4. ASSUME NEW u \in Client, Clearing(u) PROVE Clearing(u)'
    BY <1>1, <1>2, <2>4 DEF Clearing, At
  <2>5. ASSUME NEW i \in Listed' \ DOMAIN entries', NEW u \in Client,
               At(u, "removed"), client[u].id = i
        PROVE  At(u, "removed")' /\ client'[u].id = i
    BY <1>1, <1>5, <2>5 DEF At
  <2> QED
    BY <1>2, <1>5, <2>1, <2>3, <2>4, <2>5 DEF StoreInv, MapsFollow
<1> QED
  BY <1>6, <1>7, <1>8, <1>9 DEF StoreInv

(* clear_plugin_capabilities: while it goes on, entries may be missing that *)
(* are still listed; that no other call was on its way makes the set       *)
(* empty when it is dropped.                                               *)
LEMMA ClearKeeps ==
  ASSUME StoreInv, NEW t \in Client, ClearPluginCapabilities(t)
  PROVE  StoreInv'
<1>1. /\ client'[t] = (IF listed = Absent THEN [pc |-> "cleared"]
                       ELSE [pc |-> "clearing", todo |-> listed])
      /\ \A u \in Client \ {t} : client'[u] = client[u]
      /\ client' = [u \in Client |-> client'[u]]
  BY Goes DEF ClearPluginCapabilities, StoreInv
<1>2. /\ UNCHANGED <<entries, generation, nextId, listed, raced>> /\ Listed' = Listed
      /\ ~Adding(t) /\ ~Clearing(t) /\ ~At(t, "removed")
  BY DEF ClearPluginCapabilities, store, history, Call, At, Adding, Clearing, Listed
<1>3. ~Adding(t)' /\ Clearing(t)' /\ ~At(t, "creating")'
  BY <1>1 DEF Adding, Clearing, At
<1>4. At(t, "clearing")' => client'[t] = [pc |-> "clearing", todo |-> Listed]
  BY <1>1 DEF At, Listed
<1>5. StoreTyped'
  BY <1>1, <1>2 DEF StoreTyped, StoreInv
<1>6. ASSUME NEW u \in Client PROVE ClientTyped(u)'
  <2>1. CASE u = t
    <3>1. client'[t].pc \in {"clearing", "cleared"}
      BY <1>3 DEF Clearing
    <3> QED
      BY <1>2, <1>3, <1>4, <2>1, <3>1 DEF ClientTyped, Adding, At, StoreInv, StoreTyped
  <2>2. CASE u # t
    BY <1>1, <1>2, <2>2 DEF ClientTyped, Adding, At, StoreInv
  <2> QED
    BY <2>1, <2>2
<1>7. IdsOwned'
  <2> SUFFICES ASSUME NEW u \in Client, Adding(u)'
               PROVE  /\ client'[u].id \in DOMAIN entries' \ Listed'
                      /\ \A v \in Client \ {u} :
                           /\ Adding(v)' => client'[v].id # client'[u].id
                           /\ At(v, "clearing")' => client'[u].id \notin client'[v].todo
    BY DEF IdsOwned, Adding, At
  <2>1. u # t /\ Adding(u) /\ client'[u] = client[u]
    BY <1>1, <1>3 DEF Adding
  <2>2. client[u].id \in DOMAIN entries \ Listed
    BY <2>1 DEF StoreInv, IdsOwned
  <2>3. ASSUME NEW v \in Client \ {u}
        PROVE  /\ Adding(v)' => client'[v].id # client'[u].id
               /\ At(v, "clearing")' => client'[u].id \notin client'[v].todo
    BY <1>1, <1>3, <1>4, <2>1, <2>2 DEF StoreInv, IdsOwned, Adding, At
  <2> QED
    BY <1>2, <2>1, <2>2, <2>3
<1>8. MapsFollow'
  BY <1>1, <1>2, <1>3 DEF StoreInv, MapsFollow, Adding, At
<1> QED
  BY <1>5, <1>6, <1>7, <1>8 DEF StoreInv

LEMMA ClearEntryKeeps ==
  ASSUME StoreInv, NEW t \in Client, ClearEntry(t)
  PROVE  StoreInv'
<1>1. PICK state, gone :
        /\ Goto(t, state)
        /\ DOMAIN entries' = DOMAIN entries \ gone /\ DOMAIN generation' = DOMAIN generation \ gone
        /\ gone \subseteq client[t].todo
        /\ \/ state = [pc |-> "cleared"]
           \/ /\ state = [pc |-> "clearing", todo |-> state.todo]
              /\ state.todo \subseteq client[t].todo
  <2>1. CASE client[t].todo = {}
    BY <2>1 DEF ClearEntry
  <2>2. CASE client[t].todo # {}
    <3>1. PICK id \in client[t].todo :
            /\ entries' = Without(entries, id)
            /\ generation' = Without(generation, id)
            /\ Goto(t, [client[t] EXCEPT !.todo = @ \ {id}])
      BY <2>2 DEF ClearEntry
    <3>2. [client[t] EXCEPT !.todo = @ \ {id}]
            = [pc |-> "clearing", todo |-> client[t].todo \ {id}]
      <4>1. PICK todo : todo = client[t].todo
        OBVIOUS
      <4>2. client[t] = [pc |-> "clearing", todo |-> todo]
        BY <4>1 DEF ClearEntry, StoreInv, ClientTyped
      <4>3. [[pc |-> "clearing", todo |-> todo] EXCEPT !.todo = @ \ {id}]
              = [pc |-> "clearing", todo |-> todo \ {id}]
        OBVIOUS
      <4> QED
        BY <4>1, <4>2, <4>3
    <3>3. DOMAIN entries' = DOMAIN entries \ {id} /\ DOMAIN generation' = DOMAIN generation \ {id}
      BY <3>1, WithoutDomain
    <3>4. {id} \subseteq client[t].todo
      BY <3>1
    <3>5. PICK state : state = [pc |-> "clearing", todo |-> client[t].todo \ {id}]
      OBVIOUS
    <3>6. /\ Goto(t, state) /\ state = [pc |-> "clearing", todo |-> state.todo]
          /\ state.todo \subseteq client[t].todo
      BY <3>1, <3>2, <3>5
    <3> QED
      BY <3>3, <3>4, <3>6
  <2> QED
    BY <2>1, <2>2
<1>2. /\ client'[t] = state
      /\ \A u \in Client \ {t} : client'[u] = client[u]
      /\ client' = [u \in Client |-> client'[u]]
  BY <1>1, Goes DEF StoreInv
<1>3. /\ UNCHANGED <<nextId, listed, raced>> /\ Listed' = Listed
      /\ ~Adding(t) /\ At(t, "clearing")
  BY DEF ClearEntry, history, At, Adding, Listed
<1>4. ~Adding(t)' /\ Clearing(t)' /\ ~At(t, "creating")'
  BY <1>1, <1>2 DEF Adding, Clearing, At
<1>5. gone \subseteq 1 .. nextId - 1
        /\ \A u \in Client : Adding(u) => client[u].id \notin gone
  <2>1. \A u \in Client : Adding(u) => client[u].id \notin client[t].todo
    BY <1>3 DEF StoreInv, IdsOwned
  <2> QED
    BY <1>1, <1>3, <2>1 DEF StoreInv, ClientTyped
<1>6. StoreTyped'
  BY <1>1, <1>2, <1>3 DEF StoreTyped, StoreInv
<1>7. ASSUME NEW u \in Client PROVE ClientTyped(u)'
  <2>1. CASE u = t
    <3>1. At(t, "clearing")' => /\ client'[t] = [pc |-> "clearing", todo |-> client'[t].todo]
                                /\ client'[t].todo \subseteq client[t].todo
      BY <1>1, <1>2 DEF At
    <3>2. client[t].todo \subseteq 1 .. nextId' - 1
      BY <1>3 DEF StoreInv, ClientTyped
    <3>3. client'[t].pc \in {"clearing", "cleared"}
      BY <1>4 DEF Clearing
    <3> QED
      BY <2>1, <3>1, <3>2, <3>3 DEF ClientTyped, Adding, At
  <2>2. CASE u # t
    BY <1>1, <1>2, <1>3, <2>2 DEF ClientTyped, Adding, At, StoreInv
  <2> QED
    BY <2>1, <2>2
<1>8. IdsOwned'
  <2> SUFFICES ASSUME NEW u \in Client, Adding(u)'
               PROVE  /\ client'[u].id \in DOMAIN entries' \ Listed'
                      /\ \A v \in Client \ {u} :
                           /\ Adding(v)' => client'[v].id # client'[u].id
                           /\ At(v, "clearing")' => client'[u].id \notin client'[v].todo
    BY DEF IdsOwned, Adding, At
  <2>1. u # t /\ Adding(u) /\ client'[u] = client[u]
    BY <1>2, <1>4 DEF Adding
  <2>2. client[u].id \in DOMAIN entries \ Listed /\ client[u].id \notin gone
    BY <1>5, <2>1 DEF StoreInv, IdsOwned
  <2>3. ASSUME NEW v \in Client \ {u}
        PROVE  /\ Adding(v)' => client'[v].id # client'[u].id
               /\ At(v, "clearing")' => client'[u].id \notin client'[v].todo
    <3>1. CASE v = t
      <4>1. client[u].id \notin client[t].todo
        BY <1>3, <2>1, <3>1 DEF StoreInv, IdsOwned
      <4>2. At(t, "clearing")' => client'[t].todo \subseteq client[t].todo
        BY <1>1, <1>2 DEF At
      <4> QED
        BY <1>4, <2>1, <3>1, <4>1, <4>2 DEF Adding, At
    <3>2. CASE v # t
      BY <1>2, <2>1, <3>2 DEF StoreInv, IdsOwned, Adding, At
    <3> QED
      BY <3>1, <3>2
  <2> QED
    BY <1>1, <1>3, <2>1, <2>2, <2>3
<1>9. MapsFollow'
  BY <1>1, <1>2, <1>3, <1>4 DEF StoreInv, MapsFollow, Adding, At
<1> QED
  BY <1>6, <1>7, <1>8, <1>9 DEF StoreInv

LEMMA DropSetKeeps ==
  ASSUME StoreInv, NEW t \in Client, DropSet(t)
  PROVE  StoreInv'
<1>1. /\ client'[t] = Idle
      /\ \A u \in Client \ {t} : client'[u] = client[u]
      /\ client' = [u \in Client |-> client'[u]]
  BY Goes DEF DropSet, StoreInv
<1>2. /\ UNCHANGED <<entries, generation, nextId>>
      /\ listed' = Absent /\ Listed' = {}
      /\ At(t, "cleared") /\ ~Adding(t)
  BY DEF DropSet, At, Adding, Listed
<1>3. client'[t].pc = "idle" /\ ~Adding(t)' /\ ~At(t, "clearing")' /\ ~At(t, "creating")'
  BY <1>1 DEF Idle, Adding, At
<1>4. StoreTyped'
  BY <1>1, <1>2 DEF StoreTyped, StoreInv
<1>5. ASSUME NEW u \in Client PROVE ClientTyped(u)'
  <2>1. CASE u = t
    BY <1>3, <2>1 DEF ClientTyped, Adding, At
  <2>2. CASE u # t
    BY <1>1, <1>2, <2>2 DEF ClientTyped, Adding, At, StoreInv
  <2> QED
    BY <2>1, <2>2
<1>6. IdsOwned'
  BY <1>1, <1>2, <1>3 DEF StoreInv, IdsOwned, Adding, At
<1>7. MapsFollow'
  <2> SUFFICES ASSUME ~raced' PROVE MapsFollow'
    BY DEF MapsFollow
  <2>1. /\ ~raced /\ \A u \in Client \ {t} : Settled(u)
        /\ listed = Absent \/ listed \cap DOMAIN entries = {}
    BY DEF DropSet
  <2>2. \A u \in Client : ~Adding(u)
    BY <1>2, <2>1 DEF Adding, Settled
  <2>3. DOMAIN entries \subseteq Listed
    BY <2>1, <2>2 DEF StoreInv, MapsFollow
  <2>4. DOMAIN entries = {}
    BY <2>1, <2>3 DEF Listed
  <2> QED
    BY <1>2, <2>4 DEF MapsFollow
<1> QED
  BY <1>4, <1>5, <1>6, <1>7 DEF StoreInv

-----------------------------------------------------------------------------
(* What the holders do. *)

LEMMA ReplaceDomains ==
  ASSUME NEW t \in Client, NEW id, NEW c, NEW gen, Replace(t, id, c, gen)
  PROVE  DOMAIN entries' = DOMAIN entries /\ DOMAIN generation' = DOMAIN generation
BY DEF Replace

(* What Derive may choose among, and from what. *)
Derivation(c, by, from, results) ==
  \/ by = "policy" /\ from = {c} /\ results = {policed(c)}
  \/ by = "constrain" /\ from = {c} /\ \E k \in Constraint : results = constrain(c, k)
  \/ by = "split" /\ from = {c} /\ results = split(c)
  \/ by = "meet" /\ \E id \in Known : from = {c, entries[id]} /\ results = meet(c, entries[id])
  \/ by = "join" /\ \E id \in Known : from = {c, entries[id]} /\ results = join(c, entries[id])

LEMMA Derives ==
  ASSUME NEW t \in Client, Derive(t)
  PROVE  \E by, from, results :
           /\ Derivation(client[t].cap, by, from, results)
           /\ Derived(t, by, from, results)
<1> DEFINE c == client[t].cap
<1>1. CASE Derived(t, "policy", {c}, {policed(c)})
  BY <1>1 DEF Derivation
<1>2. ASSUME NEW k \in Constraint, Derived(t, "constrain", {c}, constrain(c, k))
      PROVE  \E by, from, results : Derivation(c, by, from, results) /\ Derived(t, by, from, results)
  BY <1>2 DEF Derivation
<1>3. CASE Derived(t, "split", {c}, split(c))
  BY <1>3 DEF Derivation
<1>4. ASSUME NEW id \in Known, Derived(t, "meet", {c, entries[id]}, meet(c, entries[id]))
      PROVE  \E by, from, results : Derivation(c, by, from, results) /\ Derived(t, by, from, results)
  BY <1>4 DEF Derivation
<1>5. ASSUME NEW id \in Known, Derived(t, "join", {c, entries[id]}, join(c, entries[id]))
      PROVE  \E by, from, results : Derivation(c, by, from, results) /\ Derived(t, by, from, results)
  BY <1>5 DEF Derivation
<1> QED
  BY <1>1, <1>2, <1>3, <1>4, <1>5 DEF Derive

LEMMA HolderSteps ==
  ASSUME StoreInv, NEW t \in Client,
         \/ GetCapability(t) \/ Derive(t) \/ ReplaceCapability(t)
         \/ PartialRevoke(t) \/ StoreReduced(t)
  PROVE  StoreInv'
<1>1. CASE GetCapability(t)
  <2>1. PICK state : Goto(t, state) /\ state.pc = "holding"
    BY <1>1 DEF GetCapability, Holding
  <2>2. Settled(t) /\ UNCHANGED <<entries, generation, listed, nextId, raced>>
    BY <1>1 DEF GetCapability, Call, At, Settled, store, history
  <2> QED
    BY <2>1, <2>2, HoldingKeeps
<1>2. CASE Derive(t)
  <2>1. PICK state : Goto(t, state) /\ state.pc = "holding"
    <3>1. PICK by, from, results : Derived(t, by, from, results)
      BY <1>2, Derives
    <3>2. PICK c \in results : Goto(t, Holding(client[t].id, client[t].generation, c, by, from))
      BY <3>1 DEF Derived
    <3> QED
      BY <3>2 DEF Holding
  <2>2. Settled(t) /\ UNCHANGED <<entries, generation, listed, nextId, raced>>
    BY <1>2 DEF Derive, At, Settled, store, history
  <2> QED
    BY <2>1, <2>2, HoldingKeeps
<1>3. CASE ReplaceCapability(t)
  <2>1. DOMAIN entries' = DOMAIN entries /\ DOMAIN generation' = DOMAIN generation
    BY <1>3, ReplaceDomains DEF ReplaceCapability
  <2>2. Settled(t) /\ UNCHANGED <<listed, nextId, raced>> /\ Goto(t, Idle) /\ Idle.pc = "idle"
    BY <1>3 DEF ReplaceCapability, At, Settled, Idle
  <2> QED
    BY <2>1, <2>2, HoldingKeeps
<1>4. CASE PartialRevoke(t)
  <2>1. PICK state : Goto(t, state) /\ state.pc = "revoking"
    BY <1>4 DEF PartialRevoke, Revoking
  <2>2. Settled(t) /\ UNCHANGED <<entries, generation, listed, nextId, raced>>
    BY <1>4 DEF PartialRevoke, Call, At, Settled, store, history
  <2> QED
    BY <2>1, <2>2, HoldingKeeps
<1>5. CASE StoreReduced(t)
  <2>1. DOMAIN entries' = DOMAIN entries /\ DOMAIN generation' = DOMAIN generation
    BY <1>5, ReplaceDomains DEF StoreReduced
  <2>2. Settled(t) /\ UNCHANGED <<listed, nextId, raced>> /\ Goto(t, Idle) /\ Idle.pc = "idle"
    BY <1>5 DEF StoreReduced, At, Settled, Idle
  <2> QED
    BY <2>1, <2>2, HoldingKeeps
<1> QED
  BY <1>1, <1>2, <1>3, <1>4, <1>5

LEMMA StoreStep == StoreInv /\ [Next]_vars => StoreInv'
<1> SUFFICES ASSUME StoreInv, [Next]_vars PROVE StoreInv'
  OBVIOUS
<1>1. ASSUME NEW t \in Client, Step(t) PROVE StoreInv'
  <2>1. CASE AddCapability(t)
    BY <2>1, InsertKeeps DEF AddCapability, Call
  <2>2. CASE AddDerived(t)
    BY <2>2, InsertKeeps DEF AddDerived
  <2>3. CASE FindSet(t) \/ CreateSet(t) \/ ListId(t)
    BY <2>3, FindSetKeeps, CreateSetKeeps, ListIdKeeps
  <2>4. CASE RemoveCapability(t) \/ Unlist(t)
    BY <2>4, RemoveKeeps, UnlistKeeps
  <2>5. CASE ClearPluginCapabilities(t) \/ ClearEntry(t) \/ DropSet(t)
    BY <2>5, ClearKeeps, ClearEntryKeeps, DropSetKeeps
  <2>6. CASE \/ GetCapability(t) \/ Derive(t) \/ ReplaceCapability(t)
             \/ PartialRevoke(t) \/ StoreReduced(t)
    BY <2>6, HolderSteps
  <2> QED
    BY <1>1, <2>1, <2>2, <2>3, <2>4, <2>5, <2>6 DEF Step
<1>2. CASE UNCHANGED vars
  BY <1>2 DEF vars, StoreInv, StoreTyped, ClientTyped, IdsOwned, MapsFollow, Listed, Adding,
              Clearing, At
<1> QED
  BY <1>1, <1>2 DEF Next

(* The invariant of the two maps. *)
THEOREM StoreInvariant == Spec => []StoreInv
BY StoreInit, StoreStep, PTL DEF Spec

(* MapsAgree holds for every number of clients: an entry is lost from the   *)
(* list, or an id listed without an entry, only by a set that is created   *)
(* or dropped under another call (in_memory.rs:101 and 213).               *)
THEOREM MapsStayAgreed == Spec => []MapsAgree
<1>1. StoreInv => MapsAgree
  <2> SUFFICES ASSUME StoreInv, \A t \in Client : Settled(t), ~raced
               PROVE  DOMAIN entries = Listed
    BY DEF MapsAgree, Listed
  <2>1. \A t \in Client : ~Adding(t) /\ ~Clearing(t) /\ ~At(t, "removed")
    BY DEF Settled, Adding, Clearing, At
  <2> QED
    BY <2>1 DEF StoreInv, MapsFollow
<1> QED
  BY <1>1, StoreInvariant, PTL

-----------------------------------------------------------------------------
(* What is revoked. *)

(* Caps holds what may be granted and what is derived from its members. *)
Closed(Caps) ==
  /\ \A g \in Grants : g \subseteq Caps
  /\ \A c \in Caps :
       /\ policed(c) \in Caps /\ split(c) \subseteq Caps
       /\ \A r \in Request : reduced(c, r) \in Caps
       /\ \A k \in Constraint : constrain(c, k) \subseteq Caps
       /\ \A d \in Caps : meet(c, d) \subseteq Caps /\ join(c, d) \subseteq Caps

Refusing(Caps) == \A c \in Caps : RefusalsKept(c, Caps)

(* What the client holds was taken from the entry as it is. *)
Current(t) ==
  client[t].id \in DOMAIN entries /\ generation[client[t].id] = client[t].generation

(* A client that carries a capability carries what its id was refused, as  *)
(* long as nobody replaced the entry; when somebody did, the generations   *)
(* differ, and a replacement makes the id stale.                           *)
Carries(t, Caps) ==
  /\ client[t].id \in 1 .. nextId - 1
  /\ client[t].cap \in Caps
  /\ client[t].generation \in Nat
  /\ client[t].id \in DOMAIN entries => client[t].generation <= generation[client[t].id]

HeldRefuses(t) ==
  IF client[t].by = "get" THEN client[t].cap = entries[client[t].id]
  ELSE client[t].id \notin stale =>
         \A x \in revoked : x[1] = client[t].id =>
           \/ x[2] \in refused(client[t].cap)
           \/ regains(client[t].by, client[t].from, x[2])

RevokingRefuses(t) ==
  refused(entries[client[t].id]) \cup client[t].taken \subseteq refused(client[t].cap)

ClientRefuses(t, Caps) ==
  /\ At(t, "holding") => Carries(t, Caps) /\ (Current(t) => HeldRefuses(t))
  /\ At(t, "revoking") => Carries(t, Caps) /\ (Current(t) => RevokingRefuses(t))

EntriesRefuse(Caps) ==
  /\ grants \subseteq Caps
  /\ \A i \in DOMAIN entries : entries[i] \in Caps /\ generation[i] \in Nat
  /\ \A x \in revoked : /\ x[1] \in 1 .. nextId - 1
                        /\ x[1] \in DOMAIN entries \ stale => x[2] \in refused(entries[x[1]])

RefusalInv(Caps) == EntriesRefuse(Caps) /\ \A t \in Client : ClientRefuses(t, Caps)

LEMMA DerivedRefuses ==
  ASSUME NEW Caps, Closed(Caps), Refusing(Caps), \A i \in DOMAIN entries : entries[i] \in Caps,
         NEW c \in Caps, NEW by, NEW from, NEW results, Derivation(c, by, from, results),
         NEW d \in results
  PROVE  d \in Caps /\ \A r \in refused(c) : r \in refused(d) \/ regains(by, from, r)
<1>0. RefusalsKept(c, Caps)
  BY DEF Refusing
<1>1. CASE by = "policy" /\ from = {c} /\ results = {policed(c)}
  BY <1>0, <1>1 DEF Closed, RefusalsKept
<1>2. CASE by = "constrain" /\ from = {c} /\ \E k \in Constraint : results = constrain(c, k)
  BY <1>0, <1>2 DEF Closed, RefusalsKept
<1>3. CASE by = "split" /\ from = {c} /\ results = split(c)
  BY <1>0, <1>3 DEF Closed, RefusalsKept
<1>4. CASE by = "meet" /\ \E id \in Known : from = {c, entries[id]} /\ results = meet(c, entries[id])
  <2>1. PICK e \in Caps : from = {c, e} /\ results = meet(c, e)
    BY <1>4 DEF Known
  <2> QED
    BY <1>0, <1>4, <2>1 DEF Closed, RefusalsKept
<1>5. CASE by = "join" /\ \E id \in Known : from = {c, entries[id]} /\ results = join(c, entries[id])
  <2>1. PICK e \in Caps : from = {c, e} /\ results = join(c, e)
    BY <1>5 DEF Known
  <2> QED
    BY <1>0, <1>5, <2>1 DEF Closed, RefusalsKept
<1> QED
  BY <1>1, <1>2, <1>3, <1>4, <1>5 DEF Derivation

LEMMA RefusalInit ==
  ASSUME NEW Caps, Closed(Caps), Init
  PROVE  RefusalInv(Caps)
<1>1. \A t \in Client : client[t].pc = "idle"
  BY DEF Init, Idle
<1>2. DOMAIN entries = {} /\ revoked = {} /\ grants \subseteq Caps
  BY DEF Init, Closed
<1> QED
  BY <1>1, <1>2 DEF RefusalInv, EntriesRefuse, ClientRefuses, At

(* A step after which its client carries nothing, and which at most takes   *)
(* entries out.                                                            *)
LEMMA AsideKeepsRefusals ==
  ASSUME NEW Caps, RefusalInv(Caps), NEW t \in Client,
         client'[t].pc \notin {"holding", "revoking"},
         \A u \in Client \ {t} : client'[u] = client[u],
         DOMAIN entries' \subseteq DOMAIN entries,
         \A i \in DOMAIN entries' : entries'[i] = entries[i] /\ generation'[i] = generation[i],
         UNCHANGED <<grants, nextId, revoked, stale>>
  PROVE  RefusalInv(Caps)'
<1>1. EntriesRefuse(Caps)'
  BY DEF RefusalInv, EntriesRefuse
<1>2. ASSUME NEW u \in Client PROVE ClientRefuses(u, Caps)'
  <2>1. CASE u = t
    BY <2>1 DEF ClientRefuses, At
  <2>2. CASE u # t
    <3>1. client'[u] = client[u] /\ ClientRefuses(u, Caps)
      BY <2>2 DEF RefusalInv
    <3>2. Carries(u, Caps) => Carries(u, Caps)'
      BY <3>1 DEF Carries
    <3>3. Current(u)' => /\ Current(u)
                         /\ (HeldRefuses(u) => HeldRefuses(u)')
                         /\ (RevokingRefuses(u) => RevokingRefuses(u)')
      BY <3>1 DEF Current, HeldRefuses, RevokingRefuses
    <3> QED
      BY <3>1, <3>2, <3>3 DEF ClientRefuses, At
  <2> QED
    BY <2>1, <2>2
<1> QED
  BY <1>1, <1>2 DEF RefusalInv

(* A new entry was refused nothing, and nobody holds it. *)
LEMMA InsertKeepsRefusals ==
  ASSUME NEW Caps, StoreInv, RefusalInv(Caps), NEW t \in Client, NEW c \in Caps,
         Insert(t, c, "added"), UNCHANGED grants
  PROVE  RefusalInv(Caps)'
<1>1. client'[t] = [pc |-> "added", id |-> nextId] /\ \A u \in Client \ {t} : client'[u] = client[u]
  BY Goes DEF Insert, StoreInv
<1>2. /\ nextId \in Nat /\ nextId' = nextId + 1 /\ DOMAIN entries \subseteq 1 .. nextId - 1
      /\ DOMAIN generation = DOMAIN entries /\ UNCHANGED <<revoked, stale>>
  BY StoreAssumption DEF Insert, StoreInv, StoreTyped, history
<1>3. nextId \notin 1 .. nextId - 1 /\ 1 .. nextId - 1 \subseteq 1 .. nextId' - 1
  BY <1>2
<1>4. /\ DOMAIN entries' = DOMAIN entries \cup {nextId} /\ entries'[nextId] = c
      /\ \A i \in 1 .. nextId - 1 : i \in DOMAIN entries => entries'[i] = entries[i]
  <2>1. entries' = With(entries, nextId, c)
    BY DEF Insert
  <2>2. /\ DOMAIN With(entries, nextId, c) = DOMAIN entries \cup {nextId}
        /\ With(entries, nextId, c)[nextId] = c
        /\ \A i \in DOMAIN entries \ {nextId} : With(entries, nextId, c)[i] = entries[i]
    BY DEF With
  <2> QED
    BY <1>3, <2>1, <2>2
<1>5. /\ generation'[nextId] = 1
      /\ \A i \in 1 .. nextId - 1 : i \in DOMAIN entries => generation'[i] = generation[i]
  <2>1. generation' = With(generation, nextId, 1)
    BY DEF Insert
  <2>2. /\ With(generation, nextId, 1)[nextId] = 1
        /\ \A i \in DOMAIN generation \ {nextId} : With(generation, nextId, 1)[i] = generation[i]
    BY DEF With
  <2> QED
    BY <1>2, <1>3, <2>1, <2>2
<1>6. EntriesRefuse(Caps)'
  BY <1>2, <1>3, <1>4, <1>5 DEF RefusalInv, EntriesRefuse
<1>7. ASSUME NEW u \in Client PROVE ClientRefuses(u, Caps)'
  <2>1. CASE u = t
    BY <1>1, <2>1 DEF ClientRefuses, At
  <2>2. CASE u # t
    <3>1. client'[u] = client[u] /\ ClientRefuses(u, Caps)
      BY <1>1, <2>2 DEF RefusalInv
    <3>2. ASSUME Carries(u, Caps)
          PROVE  /\ Carries(u, Caps)'
                 /\ (Current(u)' => /\ Current(u)
                                    /\ (HeldRefuses(u) => HeldRefuses(u)')
                                    /\ (RevokingRefuses(u) => RevokingRefuses(u)'))
      <4>1. client[u].id \in 1 .. nextId - 1 /\ client[u].id # nextId
        BY <1>3, <3>2 DEF Carries
      <4>2. client[u].id \in DOMAIN entries' <=> client[u].id \in DOMAIN entries
        BY <1>4, <4>1
      <4>3. client[u].id \in DOMAIN entries =>
              /\ entries'[client[u].id] = entries[client[u].id]
              /\ generation'[client[u].id] = generation[client[u].id]
        BY <1>4, <1>5, <4>1
      <4>4. Carries(u, Caps)'
        BY <1>3, <3>1, <3>2, <4>1, <4>2, <4>3 DEF Carries
      <4> QED
        BY <1>2, <3>1, <4>2, <4>3, <4>4 DEF Current, HeldRefuses, RevokingRefuses
    <3> QED
      BY <3>1, <3>2 DEF ClientRefuses, At
  <2> QED
    BY <2>1, <2>2
<1> QED
  BY <1>6, <1>7 DEF RefusalInv

(* A step that leaves entries and history alone: only its client moves.     *)
LEMMA MoveKeepsRefusals ==
  ASSUME NEW Caps, StoreInv, RefusalInv(Caps), NEW t \in Client, NEW state, Goto(t, state),
         UNCHANGED <<grants, store, history>>, ClientRefuses(t, Caps)'
  PROVE  RefusalInv(Caps)'
<1>1. \A u \in Client \ {t} : client'[u] = client[u]
  BY Goes DEF StoreInv
<1>2. UNCHANGED <<grants, entries, generation, nextId, revoked, stale>>
  BY DEF store, history
<1>3. EntriesRefuse(Caps)'
  BY <1>2 DEF RefusalInv, EntriesRefuse
<1>4. ASSUME NEW u \in Client \ {t} PROVE ClientRefuses(u, Caps)'
  <2>1. client'[u] = client[u] /\ ClientRefuses(u, Caps)
    BY <1>1 DEF RefusalInv
  <2> QED
    BY <1>2, <2>1 DEF ClientRefuses, Carries, Current, HeldRefuses, RevokingRefuses, At
<1> QED
  BY <1>3, <1>4 DEF RefusalInv

LEMMA GetKeepsRefusals ==
  ASSUME NEW Caps, StoreInv, RefusalInv(Caps), NEW t \in Client, GetCapability(t)
  PROVE  RefusalInv(Caps)'
<1>1. PICK id \in Known :
        Goto(t, Holding(id, generation[id], entries[id], "get", {entries[id]}))
  BY DEF GetCapability
<1>2. PICK gen, c : gen = generation[id] /\ c = entries[id]
  OBVIOUS
<1>3. client'[t] = Holding(id, gen, c, "get", {c})
  BY <1>1, <1>2, Goes DEF StoreInv
<1>4. /\ client'[t].pc = "holding" /\ client'[t].id = id /\ client'[t].generation = gen
      /\ client'[t].cap = c /\ client'[t].by = "get"
  BY <1>3 DEF Holding
<1>5. id \in DOMAIN entries /\ id \in 1 .. nextId - 1 /\ c \in Caps /\ gen \in Nat
  BY <1>2 DEF Known, RefusalInv, EntriesRefuse, StoreInv, StoreTyped
<1>6. UNCHANGED <<grants, store, history>> /\ UNCHANGED <<entries, generation, nextId>>
  BY DEF GetCapability, store
<1>7. ClientRefuses(t, Caps)'
  BY <1>2, <1>4, <1>5, <1>6 DEF ClientRefuses, Carries, HeldRefuses, At
<1> QED
  BY <1>1, <1>6, <1>7, MoveKeepsRefusals

LEMMA DeriveKeepsRefusals ==
  ASSUME NEW Caps, Closed(Caps), Refusing(Caps), StoreInv, RefusalInv(Caps),
         NEW t \in Client, Derive(t)
  PROVE  RefusalInv(Caps)'
<1>1. PICK by, from, results : /\ Derivation(client[t].cap, by, from, results)
                              /\ Derived(t, by, from, results)
  BY Derives
<1>2. PICK id, gen, c : id = client[t].id /\ gen = client[t].generation /\ c = client[t].cap
  OBVIOUS
<1>3. PICK d \in results : Goto(t, Holding(id, gen, d, by, from))
  BY <1>1, <1>2 DEF Derived
<1>4. client'[t] = Holding(id, gen, d, by, from)
  BY <1>3, Goes DEF StoreInv
<1>5. /\ client'[t].pc = "holding" /\ client'[t].id = id /\ client'[t].generation = gen
      /\ client'[t].cap = d /\ client'[t].by = by /\ client'[t].from = from
  BY <1>4 DEF Holding
<1>6. by # "get"
  BY <1>1 DEF Derivation
<1>7. Carries(t, Caps) /\ (Current(t) => c = entries[id])
  BY <1>2 DEF RefusalInv, ClientRefuses, HeldRefuses, Derive
<1>8. d \in Caps /\ \A r \in refused(c) : r \in refused(d) \/ regains(by, from, r)
  <2>1. c \in Caps /\ Derivation(c, by, from, results)
    BY <1>1, <1>2, <1>7 DEF Carries
  <2>2. \A i \in DOMAIN entries : entries[i] \in Caps
    BY DEF RefusalInv, EntriesRefuse
  <2> QED
    BY <2>1, <2>2, DerivedRefuses
<1>9. UNCHANGED <<grants, store, history>> /\ UNCHANGED <<entries, generation, nextId, revoked, stale>>
  BY DEF Derive, store, history
<1>10. Carries(t, Caps)'
  BY <1>2, <1>5, <1>7, <1>8, <1>9 DEF Carries
<1>11. ASSUME Current(t)' PROVE HeldRefuses(t)'
  <2>1. Current(t) /\ c = entries[id] /\ id \in DOMAIN entries
    BY <1>2, <1>5, <1>7, <1>9, <1>11 DEF Current
  <2>2. id \notin stale => \A x \in revoked : x[1] = id => x[2] \in refused(c)
    BY <2>1 DEF RefusalInv, EntriesRefuse
  <2> QED
    BY <1>5, <1>6, <1>8, <1>9, <2>2 DEF HeldRefuses
<1>12. ClientRefuses(t, Caps)'
  BY <1>5, <1>10, <1>11 DEF ClientRefuses, At
<1> QED
  BY <1>3, <1>9, <1>12, MoveKeepsRefusals

LEMMA PartialRevokeKeepsRefusals ==
  ASSUME NEW Caps, Closed(Caps), Refusing(Caps), StoreInv, RefusalInv(Caps),
         NEW t \in Client, PartialRevoke(t)
  PROVE  RefusalInv(Caps)'
<1>1. PICK id \in Known, r \in Request :
        /\ r.kind = type_of(entries[id])
        /\ Goto(t, Revoking(id, generation[id], reduced(entries[id], r),
                            {q \in {r} : permits(entries[id], q)}))
  BY DEF PartialRevoke
<1>2. PICK gen, c, d, taken : /\ gen = generation[id] /\ c = entries[id] /\ d = reduced(c, r)
                             /\ taken = {q \in {r} : permits(c, q)}
  OBVIOUS
<1>3. Goto(t, Revoking(id, gen, d, taken)) /\ client'[t] = Revoking(id, gen, d, taken)
  BY <1>1, <1>2, Goes DEF StoreInv
<1>4. /\ client'[t].pc = "revoking" /\ client'[t].id = id /\ client'[t].generation = gen
      /\ client'[t].cap = d /\ client'[t].taken = taken
  BY <1>3 DEF Revoking
<1>5. id \in DOMAIN entries /\ id \in 1 .. nextId - 1 /\ c \in Caps /\ gen \in Nat
  BY <1>2 DEF Known, RefusalInv, EntriesRefuse, StoreInv, StoreTyped
<1>6. d \in Caps
  BY <1>2, <1>5 DEF Closed
<1>7. refused(c) \cup taken \subseteq refused(d)
  BY <1>1, <1>2, <1>5 DEF Refusing, RefusalsKept
<1>8. UNCHANGED <<grants, store, history>> /\ UNCHANGED <<entries, generation, nextId>>
  BY DEF PartialRevoke, store
<1>9. Carries(t, Caps)'
  BY <1>2, <1>4, <1>5, <1>6, <1>8 DEF Carries
<1>10. RevokingRefuses(t)'
  BY <1>2, <1>4, <1>7, <1>8 DEF RevokingRefuses
<1>11. ClientRefuses(t, Caps)'
  BY <1>4, <1>9, <1>10 DEF ClientRefuses, At
<1> QED
  BY <1>3, <1>8, <1>11, MoveKeepsRefusals

(* A replacement: the entry that was refused what c refuses, or the id is   *)
(* stale; whoever else holds the entry now holds an older generation.      *)
LEMMA ReplaceKeepsRefusals ==
  ASSUME NEW Caps, StoreInv, RefusalInv(Caps), NEW t \in Client, Carries(t, Caps),
         Replace(t, client[t].id, client[t].cap, client[t].generation), Goto(t, Idle),
         UNCHANGED <<grants, nextId>>,
         \A x \in revoked' :
           \/ x \in revoked /\ (x[1] = client[t].id => x[2] \in refused(client[t].cap)
                                                       \/ ~Current(t) \/ x[1] \in stale)
           \/ x[1] = client[t].id /\ (x[2] \in refused(client[t].cap) \/ ~Current(t))
  PROVE  RefusalInv(Caps)'
<1>1. client'[t].pc = "idle" /\ \A u \in Client \ {t} : client'[u] = client[u]
  BY Goes DEF StoreInv, Idle
<1>2. PICK id, gen, c : id = client[t].id /\ gen = client[t].generation /\ c = client[t].cap
  OBVIOUS
<1>3. /\ id \in DOMAIN entries /\ id \in 1 .. nextId - 1 /\ c \in Caps
      /\ entries' = [entries EXCEPT ![id] = c]
      /\ generation' = [generation EXCEPT ![id] = @ + 1]
      /\ stale' = IF generation[id] # gen THEN stale \cup {id} ELSE stale
  BY <1>2 DEF Replace, Carries
<1>4. DOMAIN generation = DOMAIN entries /\ \A i \in DOMAIN entries : generation[i] \in Nat
  BY DEF StoreInv, StoreTyped, RefusalInv, EntriesRefuse
<1>5. /\ DOMAIN entries' = DOMAIN entries /\ entries'[id] = c /\ generation'[id] = generation[id] + 1
      /\ \A i \in DOMAIN entries \ {id} : entries'[i] = entries[i] /\ generation'[i] = generation[i]
  BY <1>3, <1>4
<1>6. stale \subseteq stale' /\ (~Current(t) => id \in stale') /\ stale' \subseteq stale \cup {id}
  BY <1>2, <1>3 DEF Current
<1>7. EntriesRefuse(Caps)'
  <2>1. grants' \subseteq Caps /\ \A i \in DOMAIN entries' : entries'[i] \in Caps /\ generation'[i] \in Nat
    BY <1>3, <1>4, <1>5 DEF RefusalInv, EntriesRefuse
  <2>2. ASSUME NEW x \in revoked'
        PROVE  /\ x[1] \in 1 .. nextId' - 1
               /\ x[1] \in DOMAIN entries' \ stale' => x[2] \in refused(entries'[x[1]])
    <3>1. CASE x[1] = id
      BY <1>2, <1>3, <1>5, <1>6, <3>1
    <3>2. CASE x[1] # id
      <4>1. x \in revoked
        BY <1>2, <3>2
      <4> QED
        BY <1>5, <1>6, <3>2, <4>1 DEF RefusalInv, EntriesRefuse
    <3> QED
      BY <3>1, <3>2
  <2> QED
    BY <2>1, <2>2 DEF EntriesRefuse
<1>8. ASSUME NEW u \in Client \ {t} PROVE ClientRefuses(u, Caps)'
  <2>1. client'[u] = client[u] /\ ClientRefuses(u, Caps)
    BY <1>1 DEF RefusalInv
  <2>2. ASSUME Carries(u, Caps)
        PROVE  /\ Carries(u, Caps)'
               /\ (Current(u)' => /\ Current(u)
                                  /\ (HeldRefuses(u) => HeldRefuses(u)')
                                  /\ (RevokingRefuses(u) => RevokingRefuses(u)'))
    <3>1. PICK other : other = client[u].id
      OBVIOUS
    <3>2. CASE other = id
      <4>1. client[u].generation \in Nat /\ client[u].generation <= generation[id]
        BY <1>3, <2>2, <3>1, <3>2 DEF Carries
      <4>2. generation[id] \in Nat /\ generation'[id] = generation[id] + 1
        BY <1>3, <1>4, <1>5
      <4>3. ~Current(u)'
        BY <2>1, <3>1, <3>2, <4>1, <4>2 DEF Current
      <4>4. Carries(u, Caps)'
        BY <1>3, <2>1, <2>2, <3>1, <3>2, <4>1, <4>2 DEF Carries
      <4> QED
        BY <4>3, <4>4
    <3>3. CASE other # id
      <4>1. other \in DOMAIN entries' <=> other \in DOMAIN entries
        BY <1>5
      <4>2. other \in DOMAIN entries =>
              entries'[other] = entries[other] /\ generation'[other] = generation[other]
        BY <1>5, <3>3
      <4>3. Carries(u, Caps)'
        BY <2>1, <2>2, <3>1, <4>1, <4>2 DEF Carries
      <4>4. Current(u)' => Current(u)
        BY <2>1, <3>1, <4>1, <4>2 DEF Current
      <4>5. \A x \in revoked' : x[1] = other => x \in revoked
        BY <1>2, <3>3
      <4>6. other \notin stale' => other \notin stale
        BY <1>6
      <4>7. Current(u) /\ HeldRefuses(u) => HeldRefuses(u)'
        BY <2>1, <3>1, <4>2, <4>5, <4>6 DEF HeldRefuses, Current
      <4>8. Current(u) /\ RevokingRefuses(u) => RevokingRefuses(u)'
        BY <2>1, <3>1, <4>2 DEF RevokingRefuses, Current
      <4> QED
        BY <4>3, <4>4, <4>7, <4>8
    <3> QED
      BY <3>2, <3>3
  <2> QED
    BY <2>1, <2>2 DEF ClientRefuses, At
<1>9. ClientRefuses(t, Caps)'
  BY <1>1 DEF ClientRefuses, At
<1> QED
  BY <1>7, <1>8, <1>9 DEF RefusalInv

LEMMA ReplaceCapabilityKeepsRefusals ==
  ASSUME NEW Caps, StoreInv, RefusalInv(Caps), NEW t \in Client, ReplaceCapability(t)
  PROVE  RefusalInv(Caps)'
<1>1. At(t, "holding") /\ client[t].by # "get" /\ Goto(t, Idle) /\ UNCHANGED <<grants, nextId>>
  BY DEF ReplaceCapability
<1>2. Carries(t, Caps) /\ (Current(t) => HeldRefuses(t))
  BY <1>1 DEF RefusalInv, ClientRefuses
<1>3. CASE /\ Replace(t, client[t].id, client[t].cap, client[t].generation)
           /\ revoked' = {x \in revoked : x[1] # client[t].id
                                          \/ ~regains(client[t].by, client[t].from, x[2])}
  <2>1. ASSUME NEW x \in revoked'
        PROVE  x \in revoked /\ (x[1] = client[t].id => x[2] \in refused(client[t].cap)
                                                       \/ ~Current(t) \/ x[1] \in stale)
    BY <1>1, <1>2, <1>3 DEF HeldRefuses
  <2> QED
    BY <1>1, <1>2, <1>3, <2>1, ReplaceKeepsRefusals
<1>4. CASE UNCHANGED <<entries, generation, stale, revoked>>
  <2>1. /\ client'[t].pc = "idle" /\ \A u \in Client \ {t} : client'[u] = client[u]
    BY <1>1, Goes DEF StoreInv, Idle
  <2> QED
    BY <1>1, <1>4, <2>1, AsideKeepsRefusals
<1> QED
  BY <1>3, <1>4 DEF ReplaceCapability

LEMMA StoreReducedKeepsRefusals ==
  ASSUME NEW Caps, StoreInv, RefusalInv(Caps), NEW t \in Client, StoreReduced(t)
  PROVE  RefusalInv(Caps)'
<1>1. At(t, "revoking") /\ Goto(t, Idle) /\ UNCHANGED <<grants, nextId>>
  BY DEF StoreReduced
<1>2. Carries(t, Caps) /\ (Current(t) => RevokingRefuses(t))
  BY <1>1 DEF RefusalInv, ClientRefuses
<1>3. CASE client[t].id \in DOMAIN entries
  <2>1. /\ Replace(t, client[t].id, client[t].cap, client[t].generation)
        /\ revoked' = revoked \cup ({client[t].id} \X client[t].taken)
    BY <1>3 DEF StoreReduced
  <2>2. ASSUME NEW x \in revoked, x[1] = client[t].id
        PROVE  x[2] \in refused(client[t].cap) \/ ~Current(t) \/ x[1] \in stale
    <3>1. SUFFICES ASSUME Current(t), x[1] \notin stale
                   PROVE  x[2] \in refused(client[t].cap)
      OBVIOUS
    <3>2. x[2] \in refused(entries[client[t].id])
      BY <1>3, <2>2, <3>1 DEF RefusalInv, EntriesRefuse
    <3> QED
      BY <1>2, <3>1, <3>2 DEF RevokingRefuses
  <2>3. ASSUME NEW x \in {client[t].id} \X client[t].taken
        PROVE  x[1] = client[t].id /\ (x[2] \in refused(client[t].cap) \/ ~Current(t))
    <3>1. x[1] = client[t].id /\ x[2] \in client[t].taken
      BY <2>3
    <3> QED
      BY <1>2, <3>1 DEF RevokingRefuses
  <2> QED
    BY <1>1, <1>2, <2>1, <2>2, <2>3, ReplaceKeepsRefusals
<1>4. CASE client[t].id \notin DOMAIN entries
  <2>1. UNCHANGED <<entries, generation, stale, revoked>>
    BY <1>4 DEF StoreReduced
  <2>2. client'[t].pc = "idle" /\ \A u \in Client \ {t} : client'[u] = client[u]
    BY <1>1, Goes DEF StoreInv, Idle
  <2> QED
    BY <1>1, <2>1, <2>2, AsideKeepsRefusals
<1> QED
  BY <1>3, <1>4

(* The calls on the maps that store no capability. *)
LEMMA AsideSteps ==
  ASSUME NEW Caps, StoreInv, RefusalInv(Caps), NEW t \in Client,
         \/ FindSet(t) \/ CreateSet(t) \/ ListId(t) \/ RemoveCapability(t) \/ Unlist(t)
         \/ ClearPluginCapabilities(t) \/ ClearEntry(t) \/ DropSet(t)
  PROVE  RefusalInv(Caps)'
<1>1. UNCHANGED <<grants, nextId, revoked, stale>>
  BY DEF FindSet, CreateSet, ListId, RemoveCapability, Unlist, ClearPluginCapabilities,
         ClearEntry, DropSet, store, history
<1>2. /\ DOMAIN entries' \subseteq DOMAIN entries
      /\ \A i \in DOMAIN entries' : entries'[i] = entries[i] /\ generation'[i] = generation[i]
  <2>1. CASE UNCHANGED <<entries, generation>>
    BY <2>1
  <2>2. ASSUME NEW id, entries' = Without(entries, id), generation' = Without(generation, id)
        PROVE  /\ DOMAIN entries' \subseteq DOMAIN entries
               /\ \A i \in DOMAIN entries' : entries'[i] = entries[i] /\ generation'[i] = generation[i]
    <3>1. DOMAIN entries' = DOMAIN entries \ {id} /\ \A i \in DOMAIN entries \ {id} : entries'[i] = entries[i]
      BY <2>2, WithoutDomain
    <3>2. \A i \in DOMAIN generation \ {id} : generation'[i] = generation[i]
      BY <2>2, WithoutDomain
    <3> QED
      BY <3>1, <3>2 DEF StoreInv, StoreTyped
  <2> QED
    BY <2>1, <2>2 DEF FindSet, CreateSet, ListId, RemoveCapability, Unlist,
                      ClearPluginCapabilities, ClearEntry, DropSet, store
<1>3. ASSUME NEW state, Goto(t, state), state.pc \notin {"holding", "revoking"}
      PROVE  /\ client'[t].pc \notin {"holding", "revoking"}
             /\ \A u \in Client \ {t} : client'[u] = client[u]
  BY <1>3, Goes DEF StoreInv
<1>4. /\ client'[t].pc \notin {"holding", "revoking"}
      /\ \A u \in Client \ {t} : client'[u] = client[u]
  <2>0. Idle.pc = "idle"
    BY DEF Idle
  <2>1. PICK id, todo : id = client[t].id /\ todo = client[t].todo
    OBVIOUS
  <2>2. CASE FindSet(t) \/ CreateSet(t) \/ ListId(t)
    <3>1. client[t] = [pc |-> client[t].pc, id |-> id]
      BY <2>1, <2>2 DEF FindSet, CreateSet, ListId, At, StoreInv, ClientTyped, Adding
    <3>2. \A pc : [client[t] EXCEPT !.pc = pc].pc = pc
      BY <3>1
    <3>3. PICK pc : pc \in {"creating", "listing", "panicked"}
                     /\ (Goto(t, [client[t] EXCEPT !.pc = pc]) \/ Goto(t, Idle))
      BY <2>2 DEF FindSet, CreateSet, ListId
    <3> QED
      BY <1>3, <2>0, <3>2, <3>3
  <2>3. CASE RemoveCapability(t)
    <3>1. PICK i : Goto(t, [pc |-> "removed", id |-> i])
      BY <2>3 DEF RemoveCapability
    <3> QED
      BY <1>3, <3>1
  <2>4. CASE Unlist(t) \/ DropSet(t)
    BY <1>3, <2>0, <2>4 DEF Unlist, DropSet
  <2>5. CASE ClearPluginCapabilities(t)
    <3>1. \/ Goto(t, [pc |-> "cleared"])
          \/ Goto(t, [pc |-> "clearing", todo |-> listed])
      BY <2>5 DEF ClearPluginCapabilities
    <3> QED
      BY <1>3, <3>1
  <2>6. CASE ClearEntry(t)
    <3>1. client[t] = [pc |-> "clearing", todo |-> todo]
      BY <2>1, <2>6 DEF ClearEntry, At, StoreInv, ClientTyped
    <3>2. \A x : [client[t] EXCEPT !.todo = @ \ {x}].pc = "clearing"
      BY <3>1
    <3>3. Goto(t, [pc |-> "cleared"]) \/ \E x : Goto(t, [client[t] EXCEPT !.todo = @ \ {x}])
      BY <2>6 DEF ClearEntry
    <3> QED
      BY <1>3, <3>2, <3>3
  <2> QED
    BY <2>2, <2>3, <2>4, <2>5, <2>6
<1> QED
  BY <1>1, <1>2, <1>4, AsideKeepsRefusals

LEMMA RefusalStep ==
  ASSUME NEW Caps, Closed(Caps), Refusing(Caps)
  PROVE  StoreInv /\ RefusalInv(Caps) /\ [Next]_vars => RefusalInv(Caps)'
<1> SUFFICES ASSUME StoreInv, RefusalInv(Caps), [Next]_vars PROVE RefusalInv(Caps)'
  OBVIOUS
<1>1. ASSUME NEW t \in Client, Step(t) PROVE RefusalInv(Caps)'
  <2>1. CASE AddCapability(t)
    <3>1. PICK c \in grants : Insert(t, c, "added")
      BY <2>1 DEF AddCapability
    <3>2. c \in Caps /\ UNCHANGED grants
      BY <2>1 DEF AddCapability, RefusalInv, EntriesRefuse
    <3> QED
      BY <3>1, <3>2, InsertKeepsRefusals
  <2>2. CASE AddDerived(t)
    <3>1. client[t].cap \in Caps
      BY <2>2 DEF AddDerived, RefusalInv, ClientRefuses, Carries
    <3> QED
      BY <2>2, <3>1, InsertKeepsRefusals DEF AddDerived
  <2>3. CASE \/ FindSet(t) \/ CreateSet(t) \/ ListId(t) \/ RemoveCapability(t) \/ Unlist(t)
             \/ ClearPluginCapabilities(t) \/ ClearEntry(t) \/ DropSet(t)
    BY <2>3, AsideSteps
  <2>4. CASE GetCapability(t) \/ Derive(t)
    BY <2>4, GetKeepsRefusals, DeriveKeepsRefusals
  <2>5. CASE ReplaceCapability(t)
    BY <2>5, ReplaceCapabilityKeepsRefusals
  <2>6. CASE PartialRevoke(t) \/ StoreReduced(t)
    BY <2>6, PartialRevokeKeepsRefusals, StoreReducedKeepsRefusals
  <2> QED
    BY <1>1, <2>1, <2>2, <2>3, <2>4, <2>5, <2>6 DEF Step
<1>2. CASE UNCHANGED vars
  BY <1>2 DEF vars, RefusalInv, EntriesRefuse, ClientRefuses, Carries, Current, HeldRefuses,
              RevokingRefuses, At
<1> QED
  BY <1>1, <1>2 DEF Next

(* RevocationHolds for every number of clients and every algebra that keeps *)
(* its word about what it refuses: the interleavings of the calls lose a   *)
(* revocation only by a replacement from an older generation, which        *)
(* replace_capability does not detect (in_memory.rs:172).                  *)
THEOREM RevocationsStay ==
  ASSUME NEW CONSTANT Caps, Closed(Caps), Refusing(Caps)
  PROVE  Spec => []RevocationHolds
<1>1. Init => RefusalInv(Caps)
  BY RefusalInit
<1>2. StoreInv /\ RefusalInv(Caps) /\ [Next]_vars => RefusalInv(Caps)'
  BY RefusalStep
<1>3. RefusalInv(Caps) => RevocationHolds
  <2> SUFFICES ASSUME RefusalInv(Caps), NEW x \in revoked, x[1] \in DOMAIN entries \ stale
               PROVE  ~permits(entries[x[1]], x[2])
    BY DEF RevocationHolds
  <2>1. entries[x[1]] \in Caps /\ x[2] \in refused(entries[x[1]])
    BY DEF RefusalInv, EntriesRefuse
  <2> QED
    BY <2>1 DEF Refusing, RefusalsKept
<1> QED
  BY <1>1, <1>2, <1>3, StoreInvariant, PTL DEF Spec
=============================================================================
