----------------------------- MODULE Checkpoint -----------------------------
(***************************************************************************)
(* The CheckpointManager of one workflow over a StorageBackend             *)
(* (lion_workflow/src/state/checkpoint.rs, storage.rs): calls of           *)
(* save_checkpoint, load_latest_checkpoint and prune_checkpoints, cut      *)
(* where they wait for the storage. A crash ends all calls, and a caller   *)
(* may drop the future of its call at any of these places.                 *)
(*                                                                         *)
(* A checkpoint i uses three keys: "i.tmp", "i.meta" and "i".              *)
(* FileStorage::store writes a key through path.with_extension("tmp"),     *)
(* which for "i.meta" is the file of the key "i.tmp".                      *)
(***************************************************************************)
EXTENDS Naturals, FiniteSets, FiniteSetsExt

CONSTANTS
  Values,       \* the serialized workflows
  Callers,
  MaxSaves,     \* bound on the checkpoints begun
  KeepCount,    \* keep_count of prune_checkpoints
  Backends,     \* the values of backend
  Absent, Metadata

VARIABLES
  backend,      \* "file" or "memory"
  temp, meta, data,  \* temp[i], meta[i], data[i]: what is stored under the keys of i
  begun,        \* the checkpoints begun so far; their number is created_at
  lock,         \* the caller that holds the workflow's lock in locks, or Absent
  caller,       \* caller[c]: where the call of c is
  saved,        \* saved[i]: the workflow of which save_checkpoint returned i, or Absent
  dropped       \* the checkpoints prune_checkpoints has begun to delete

(* A StorageBackend, and a CheckpointManager with its calls. *)
storeVars == <<temp, meta, data>>

checkpointVars == <<backend, storeVars, begun, lock, caller, saved, dropped>>

Ids == 1 .. MaxSaves
Content == Values \union {Metadata, Absent}

(* No key is stored. *)
NoStore == [i \in Ids |-> Absent]

ASSUME CheckpointAssumption ==
  /\ Absent \notin Values /\ Metadata \notin Values /\ Absent # Metadata
  /\ Absent \notin Callers
  /\ MaxSaves \in Nat /\ KeepCount \in Nat
  /\ Backends \subseteq {"file", "memory"}

(* A call that reads has keys to read, and has found checkpoints. *)
CallerState ==
  [pc : {"idle", "data", "tempMeta", "meta", "rename", "list", "read", "load", "delete",
         "deleteMeta", "failed"},
   kind : {"save", "load", "prune"},
   id : Ids \union {Absent}, value : Values \union {Absent},
   todo : SUBSET Ids, found : SUBSET Ids]

Returned == [pc |-> "idle", kind |-> "save", id |-> Absent, value |-> Absent,
             todo |-> {}, found |-> {}]

CheckpointTypeOK ==
  /\ backend \in Backends
  /\ temp \in [Ids -> Content] /\ meta \in [Ids -> Content] /\ data \in [Ids -> Content]
  /\ begun \in 0 .. MaxSaves
  /\ lock \in Callers \union {Absent}
  /\ caller \in [Callers -> CallerState]
  /\ saved \in [Ids -> Values \union {Absent}]
  /\ dropped \subseteq Ids

CheckpointInit ==
  /\ backend \in Backends
  /\ temp = NoStore /\ meta = NoStore /\ data = NoStore
  /\ begun = 0
  /\ lock = Absent
  /\ caller = [c \in Callers |-> Returned]
  /\ saved = NoStore
  /\ dropped = {}

Goes(c, state) == caller' = [caller EXCEPT ![c] = state]

Fails(c) == Goes(c, [Returned EXCEPT !.pc = "failed", !.kind = caller[c].kind])

Listed == {i \in Ids : meta[i] # Absent}

Newest(ids) == CHOOSE i \in ids : \A j \in ids : j <= i

-----------------------------------------------------------------------------
(* The two backends.  FileStorage::store writes a temporary file and       *)
(* renames it, two steps of its caller when it has a name of its own;      *)
(* MemoryStorage::store is one. Both take a key that is not there for      *)
(* deleted, but not for renamed.                                           *)
InFiles == backend = "file"

RenameTempFile(i) == /\ meta' = [meta EXCEPT ![i] = temp[i]]
                     /\ temp' = [temp EXCEPT ![i] = Absent]

StoreInMemory(i) == /\ meta' = [meta EXCEPT ![i] = Metadata]
                    /\ UNCHANGED temp

DeleteKey(keys, i) == [keys EXCEPT ![i] = Absent]

RenameKey(i) == /\ temp[i] # Absent
                /\ data' = [data EXCEPT ![i] = temp[i]]
                /\ temp' = [temp EXCEPT ![i] = Absent]

-----------------------------------------------------------------------------
(* save_checkpoint, with the lock taken; when another save holds it the    *)
(* call returns CheckpointInProgress at once.                              *)
BeginSave(c, value) ==
  /\ caller[c].pc = "idle" /\ lock = Absent /\ begun < MaxSaves
  /\ lock' = c
  /\ begun' = begun + 1
  /\ Goes(c, [Returned EXCEPT !.pc = "data", !.id = begun + 1, !.value = value])
  /\ UNCHANGED <<backend, storeVars, saved, dropped>>

(* store of the data under "i.tmp"; its temporary file is the key itself.  *)
StoreData(c) ==
  LET i == caller[c].id
  IN  /\ caller[c].pc = "data"
      /\ temp' = [temp EXCEPT ![i] = caller[c].value]
      /\ Goes(c, [caller[c] EXCEPT !.pc = IF InFiles THEN "tempMeta" ELSE "meta"])
      /\ UNCHANGED <<backend, meta, data, begun, lock, saved, dropped>>

(* FileStorage::store of the metadata, before its rename. *)
StoreTempMetadata(c) ==
  LET i == caller[c].id
  IN  /\ caller[c].pc = "tempMeta"
      /\ temp' = [temp EXCEPT ![i] = Metadata]
      /\ Goes(c, [caller[c] EXCEPT !.pc = "meta"])
      /\ UNCHANGED <<backend, meta, data, begun, lock, saved, dropped>>

StoreMetadata(c) ==
  LET i == caller[c].id
  IN  /\ caller[c].pc = "meta"
      /\ IF InFiles THEN RenameTempFile(i) ELSE StoreInMemory(i)
      /\ Goes(c, [caller[c] EXCEPT !.pc = "rename"])
      /\ UNCHANGED <<backend, data, begun, lock, saved, dropped>>

(* Mutant: the value taken out under the old key is not put in again. *)
RenameLosesValue(c) ==
  LET i == caller[c].id
  IN  /\ caller[c].pc = "rename" /\ temp[i] # Absent
      /\ lock' = Absent
      /\ temp' = [temp EXCEPT ![i] = Absent]
      /\ saved' = [saved EXCEPT ![i] = caller[c].value]
      /\ Goes(c, Returned)
      /\ UNCHANGED <<backend, meta, data, begun, dropped>>

(* rename of "i.tmp" to "i", an error when there is no such key. *)
Rename(c) ==
  LET i == caller[c].id
  IN  /\ caller[c].pc = "rename"
      /\ lock' = Absent
      /\ \/ /\ RenameKey(i)
            /\ saved' = [saved EXCEPT ![i] = caller[c].value]
            /\ Goes(c, Returned)
         \/ /\ temp[i] = Absent
            /\ Fails(c)
            /\ UNCHANGED <<data, temp, saved>>
      /\ UNCHANGED <<backend, meta, begun, dropped>>

-----------------------------------------------------------------------------
(* list_checkpoints, for load_latest_checkpoint and prune_checkpoints: the *)
(* keys first, then the metadata of one after the other.                   *)
BeginList(c, kind) ==
  /\ caller[c].pc = "idle"
  /\ Goes(c, [Returned EXCEPT !.pc = "read", !.kind = kind, !.todo = Listed])
  /\ UNCHANGED <<backend, storeVars, begun, lock, saved, dropped>>

ReadMetadata(c, i) ==
  /\ caller[c].pc = "read" /\ i \in caller[c].todo
  /\ IF meta[i] = Absent THEN Fails(c)
     ELSE Goes(c, [caller[c] EXCEPT !.todo = @ \ {i}, !.found = @ \union {i}])
  /\ UNCHANGED <<backend, storeVars, begun, lock, saved, dropped>>

(* load_latest_checkpoint picks the newest. *)
PickLatest(c) ==
  /\ caller[c].pc = "read" /\ caller[c].kind = "load" /\ caller[c].todo = {}
  /\ IF caller[c].found = {} THEN Goes(c, Returned)
     ELSE Goes(c, [caller[c] EXCEPT !.pc = "load", !.id = Newest(caller[c].found)])
  /\ UNCHANGED <<backend, storeVars, begun, lock, saved, dropped>>

(* load_checkpoint: the metadata, and then the data, whose checksum is of  *)
(* what was saved.                                                         *)
Loads(c, i) == caller[c].pc = "load" /\ i = caller[c].id /\ meta[i] = Metadata /\ data[i] \in Values

LoadFails(c) ==
  /\ caller[c].pc = "load"
  /\ ~Loads(c, caller[c].id)
  /\ Fails(c)
  /\ UNCHANGED <<backend, storeVars, begun, lock, saved, dropped>>

LoadReturns(c) ==
  /\ Loads(c, caller[c].id)
  /\ Goes(c, Returned)
  /\ UNCHANGED <<backend, storeVars, begun, lock, saved, dropped>>

(* Mutant: the list is sorted the other way round. *)
KeptOldest(ids) == {i \in ids : Cardinality({j \in ids : j < i}) < KeepCount}

Kept(ids) == {i \in ids : Cardinality({j \in ids : j > i}) < KeepCount}

(* prune_checkpoints deletes all but the KeepCount newest. *)
PickOldest(c) ==
  /\ caller[c].pc = "read" /\ caller[c].kind = "prune" /\ caller[c].todo = {}
  /\ LET old == caller[c].found \ Kept(caller[c].found)
     IN  IF old = {} THEN Goes(c, Returned)
         ELSE Goes(c, [caller[c] EXCEPT !.pc = "delete", !.todo = old])
  /\ UNCHANGED <<backend, storeVars, begun, lock, saved, dropped>>

(* delete_checkpoint: the data, and then the metadata. *)
Delete(c) ==
  LET i == Newest(caller[c].todo)
  IN  /\ caller[c].pc = "delete"
      /\ data' = DeleteKey(data, i)
      /\ dropped' = dropped \union {i}
      /\ Goes(c, [caller[c] EXCEPT !.pc = "deleteMeta"])
      /\ UNCHANGED <<backend, temp, meta, begun, lock, saved>>

DeleteMetadata(c) ==
  LET i == Newest(caller[c].todo)
  IN  /\ caller[c].pc = "deleteMeta"
      /\ meta' = DeleteKey(meta, i)
      /\ Goes(c, IF caller[c].todo = {i} THEN Returned
                 ELSE [caller[c] EXCEPT !.pc = "delete", !.todo = @ \ {i}])
      /\ UNCHANGED <<backend, temp, data, begun, lock, saved, dropped>>

-----------------------------------------------------------------------------
(* The caller drops the future of its call, or takes notice of an error.   *)
Abandon(c) ==
  /\ caller[c].pc # "idle"
  /\ Goes(c, Returned)
  /\ lock' = IF lock = c THEN Absent ELSE lock
  /\ UNCHANGED <<backend, storeVars, begun, saved, dropped>>

(* The process ends and starts again: files stay, memory is lost. *)
Crash ==
  /\ caller' = [c \in Callers |-> Returned]
  /\ lock' = Absent
  /\ IF InFiles THEN UNCHANGED <<storeVars, saved>>
     ELSE /\ temp' = NoStore /\ meta' = NoStore /\ data' = NoStore
          /\ saved' = NoStore
  /\ UNCHANGED <<backend, begun, dropped>>

SaveStep(c) == StoreData(c) \/ StoreTempMetadata(c) \/ StoreMetadata(c) \/ Rename(c)

ReadStep(c) ==
  \/ \E i \in Ids : ReadMetadata(c, i)
  \/ PickLatest(c) \/ LoadFails(c) \/ PickOldest(c) \/ Delete(c) \/ DeleteMetadata(c)

-----------------------------------------------------------------------------
(* What save_checkpoint reported as saved can be loaded until a prune      *)
(* takes it.                                                               *)
SavedIsLoadable ==
  \A i \in Ids : saved[i] # Absent /\ i \notin dropped => meta[i] = Metadata /\ data[i] = saved[i]

(* prune_checkpoints keeps the newest checkpoint it lists, so that there   *)
(* is always one left once one was saved. But it counts the unfinished     *)
(* ones: the one left may be one that was never saved.                     *)
NewestIsKept ==
  KeepCount > 0 /\ (\E i \in Ids : saved[i] # Absent)
    => \E i \in Ids \ dropped : meta[i] = Metadata /\ \A j \in dropped : j < i

CheckpointsKept == CheckpointTypeOK /\ SavedIsLoadable /\ NewestIsKept

(* load_latest_checkpoint fails only on a checkpoint that a prune deletes  *)
(* at the same time, or on a newest one that was never finished: then it   *)
(* fails although older ones are whole. With FileStorage this is every     *)
(* checkpoint, because no save ends well.                                  *)
LoadFailsOnUnfinished ==
  [][\A c \in Callers :
       caller[c].kind = "load" /\ caller[c].pc # "failed" /\ caller'[c].pc = "failed"
         => LET read == IF caller[c].pc = "load" THEN {caller[c].id} ELSE caller[c].todo
            IN  \E i \in read : i \in dropped \/ saved[i] = Absent
    ]_checkpointVars
=============================================================================
