---------------------------- MODULE Persistence ----------------------------
(***************************************************************************)
(* From a definition to an instance of it and back: a workflow is edited   *)
(* (WorkflowBuild), the StateMachineManager creates instances of it and    *)
(* saves it through its CheckpointManager (Checkpoint), and after a crash, *)
(* or in a second manager on the same checkpoints, load_definition brings  *)
(* it back. Only the methods of StateMachineManager that use checkpoints   *)
(* are here; the others are in StateMachine.                               *)
(***************************************************************************)
EXTENDS WorkflowBuild, Checkpoint

VARIABLES
  built,       \* whether the definition has been given to create_instance
  cache,       \* definitions[id] of the manager, or Absent
  loaded,      \* whether cache comes from a checkpoint
  instance     \* the ready_nodes of the last instance, as WorkflowState::new sets them

managerVars == <<built, cache, loaded, instance>>

vars == <<definition, checkpointVars, managerVars>>

(* to_json and from_json: #[serde(skip)] on Node::status and in_degree. *)
Serialized(d) == [d EXCEPT !.inDegree = [n \in NodeId |-> 0],
                           !.status = [n \in NodeId |-> "Pending"]]

(* WorkflowState::new *)
ReadyNodes(d) == {n \in d.nodes : d.inDegree[n] = 0}

PersistenceInit ==
  /\ Init /\ CheckpointInit
  /\ built = FALSE
  /\ cache = Absent /\ loaded = FALSE
  /\ instance = Absent

(* The builder edits until it gives the definition away. *)
Edit == ~built /\ Next /\ UNCHANGED <<checkpointVars, managerVars>>

(* save_checkpoint, which returns CheckpointInProgress when the lock is taken. *)
Save(c, value) ==
  \/ BeginSave(c, value)
  \/ lock # Absent /\ caller[c].pc = "idle" /\ UNCHANGED checkpointVars

(* create_instance registers the instance before it saves, so it is there  *)
(* even when the save, and with it create_instance, fails.                 *)
CreateInstance(c) ==
  /\ ~built /\ definition.nodes # {}
  /\ built' = TRUE
  /\ cache' = definition /\ loaded' = FALSE
  /\ instance' = ReadyNodes(definition)
  /\ Save(c, Serialized(definition))
  /\ UNCHANGED definition

CreateFromLoaded(c) ==
  /\ loaded /\ instance = Absent
  /\ instance' = ReadyNodes(cache)
  /\ Save(c, Serialized(cache))
  /\ UNCHANGED <<definition, built, cache, loaded>>

(* checkpoint_instance saves the definition, not the state of the instance. *)
CheckpointInstance(c) ==
  /\ instance # Absent
  /\ Save(c, Serialized(cache))
  /\ UNCHANGED <<definition, managerVars>>

(* load_definition, when the definition is not in the cache. *)
LoadDefinition(c) ==
  /\ cache = Absent
  /\ BeginList(c, "load")
  /\ UNCHANGED <<definition, managerVars>>

DefinitionLoaded(c) ==
  /\ LoadReturns(c)
  /\ cache' = data[caller[c].id]
  /\ loaded' = TRUE
  /\ UNCHANGED <<definition, built, instance>>

Prune(c) == BeginList(c, "prune") /\ UNCHANGED <<definition, managerVars>>

(* A manager that starts has neither definitions nor instances. *)
Restart ==
  /\ built
  /\ cache' = Absent /\ loaded' = FALSE
  /\ instance' = Absent
  /\ UNCHANGED <<definition, built>>

ProcessCrash == Crash /\ Restart

(* A second manager made with a clone of the first one's CheckpointManager. *)
NewManager == Restart /\ UNCHANGED checkpointVars /\ \A c \in Callers : caller[c].pc = "idle"

PersistenceNext ==
  \/ Edit
  \/ \E c \in Callers :
       \/ CreateInstance(c) \/ CreateFromLoaded(c) \/ CheckpointInstance(c)
       \/ LoadDefinition(c) \/ DefinitionLoaded(c) \/ Prune(c)
       \/ (SaveStep(c) \/ ReadStep(c) \/ Abandon(c)) /\ UNCHANGED <<definition, managerVars>>
  \/ ProcessCrash
  \/ NewManager

PersistenceSpec == PersistenceInit /\ [][PersistenceNext]_vars

-----------------------------------------------------------------------------
(* A definition that is being edited is sound, and the searches in it give *)
(* the answers they are for. In one that was loaded they do not: counting  *)
(* its degrees down in get_topological_order goes below 0 at every edge.   *)
EditsSound ==
  /\ ~built => DefinitionSound /\ SearchesExact
  /\ loaded => \A result \in TopologicalOrders(cache) : result.below <=> cache.edges # {}

(* An instance of a definition that was edited in this process starts at   *)
(* the nodes no edge enters. An instance of a definition that was loaded   *)
(* starts everywhere at once, because in_degree is not serialized.         *)
InstanceStart ==
  instance # Absent => instance = IF loaded THEN cache.nodes ELSE cache.start

(* What a load gives back is the definition that was saved, less what is   *)
(* not serialized, whichever save it was and whatever became of the others. *)
LoadedIsSaved == loaded => cache = Serialized(definition)

(* What a load gives back, and when it gives nothing back.                 *)
LoadSound == [](LoadedIsSaved /\ InstanceStart) /\ LoadFailsOnUnfinished
=============================================================================
