-------------------------------- MODULE Pools --------------------------------
(***************************************************************************)
(* The two pools of lion_concurrency/src/pool that hand out handles, and   *)
(* the isolation backend with its pool of instances.  A thread has one     *)
(* handle at a time.                                                       *)
(*                                                                         *)
(* resource.rs: resources wait in a queue under one lock, their number is  *)
(* kept under another and the shutdown flag under a third; acquire, the    *)
(* return of a handle and shutdown take them one after the other.  What    *)
(* one of them does while it holds the lock of the queue is one step.      *)
(***************************************************************************)
EXTENDS RuntimeCalls, SequencesExt

CONSTANTS
  InitialSize,    \* config.initial_size
  MaxSize         \* config.max_size

ASSUME PoolSizes == InitialSize \in Nat /\ MaxSize \in Nat

VARIABLES
  available,       \* the length of the queue resources
  size,            \* available and in use, as the pool counts them
  pool_shutdown,   \* the flag shutdown
  dropped,         \* the last Arc of the pool is gone
  uncounted,       \* closed on return after the flag was set: size keeps them
  stragglers       \* returns on their way to the queue when it was last drained

resourceVars == <<available, size, pool_shutdown, dropped, uncounted, stragglers>>

(* initialize skips the resources that cannot be created, and does not look *)
(* at the maximum.                                                         *)
ResourceInit ==
  /\ available \in 0..InitialSize
  /\ size = available
  /\ pool_shutdown = FALSE /\ dropped = FALSE
  /\ uncounted = 0 /\ stragglers = 0

(* acquire and acquire_with_timeout wait for a resource, try_acquire does not. *)
Acquire(t) ==
  /\ ~dropped
  /\ \E waits \in BOOLEAN :
       Call(t, IF pool_shutdown THEN Idle ELSE [pc |-> "acquire", waits |-> waits])
  /\ UNCHANGED resourceVars

(* get_resource looks at the flag before it asks for the lock. *)
LookForResource(t) ==
  /\ At(t, "acquire")
  /\ GotoPc(t, IF pool_shutdown THEN "size" ELSE "lock")
  /\ UNCHANGED resourceVars

AcquireTimeout(t) ==
  At(t, "acquire") /\ caller[t].waits /\ Return(t) /\ UNCHANGED resourceVars

(* Mutant: a resource that is not reset is closed and stays counted. *)
GetResourceUncounted(t) ==
  /\ At(t, "lock")
  /\ \E discarded \in 0..available :
       IF discarded < available
         THEN available' = available - discarded - 1 /\ GotoPc(t, "using")
         ELSE available' = 0 /\ GotoPc(t, "size")
  /\ UNCHANGED <<size, pool_shutdown, dropped, uncounted, stragglers>>

(* Resources that are idle for too long, unhealthy or not reset are closed *)
(* until one is good.                                                      *)
GetResource(t) ==
  /\ At(t, "lock")
  /\ \E discarded \in 0..available :
       /\ size' = size - discarded
       /\ IF discarded < available
            THEN available' = available - discarded - 1 /\ GotoPc(t, "using")
            ELSE available' = 0 /\ GotoPc(t, "size")
  /\ UNCHANGED <<pool_shutdown, dropped, uncounted, stragglers>>

(* The size is read here and incremented after the creation. *)
CompareSize(t) ==
  /\ At(t, "size")
  /\ IF size < MaxSize THEN GotoPc(t, "create")
     ELSE IF caller[t].waits THEN GotoPc(t, "acquire") ELSE Return(t)
  /\ UNCHANGED resourceVars

Create(t) ==
  At(t, "create") /\ (GotoPc(t, "count") \/ Return(t)) /\ UNCHANGED resourceVars

CountCreated(t) ==
  /\ At(t, "count")
  /\ size' = size + 1
  /\ GotoPc(t, "using")
  /\ UNCHANGED <<available, pool_shutdown, dropped, uncounted, stragglers>>

(* return_to_pool, and the drop of a handle.  After the shutdown, and when *)
(* the pool is gone, the resource is closed on the spot.                   *)
ReturnHandle(t) ==
  /\ At(t, "using")
  /\ IF pool_shutdown \/ dropped THEN Return(t) ELSE GotoPc(t, "push")
  /\ uncounted' = IF pool_shutdown THEN uncounted + 1 ELSE uncounted
  /\ UNCHANGED <<available, size, pool_shutdown, dropped, stragglers>>

PushResource(t) ==
  /\ At(t, "push")
  /\ Return(t)
  /\ \/ available' = available + 1 /\ UNCHANGED size
     \/ size' = size - 1 /\ UNCHANGED available
  /\ UNCHANGED <<pool_shutdown, dropped, uncounted, stragglers>>

(* shutdown sets the flag, sleeps and drains the queue. *)
ShutdownPool(t) ==
  /\ ~dropped
  /\ Call(t, [pc |-> "drain"])
  /\ pool_shutdown' = TRUE
  /\ UNCHANGED <<available, size, dropped, uncounted, stragglers>>

DrainPool(t) ==
  /\ At(t, "drain")
  /\ available' = 0
  /\ size' = size - available
  /\ stragglers' = Cardinality({u \in Caller : At(u, "push")})
  /\ Return(t)
  /\ UNCHANGED <<pool_shutdown, dropped, uncounted>>

Maintenance(t) ==
  /\ ~dropped
  /\ CallAtOnce(t)
  /\ \E removed \in 0..available : available' = available - removed /\ size' = size - removed
  /\ UNCHANGED <<pool_shutdown, dropped, uncounted, stragglers>>

(* Handles hold the pool weakly; a call holds it.  What waits in the queue *)
(* is dropped without a close.                                             *)
DropPool(t) ==
  /\ ~dropped /\ \A u \in Caller : caller[u].pc \in {"idle", "using"}
  /\ CallAtOnce(t)
  /\ dropped' = TRUE
  /\ available' = 0 /\ size' = 0
  /\ UNCHANGED <<pool_shutdown, uncounted, stragglers>>

ResourceCall(t) == Acquire(t) \/ ShutdownPool(t) \/ Maintenance(t) \/ DropPool(t)

ResourceStep(t) ==
  \/ LookForResource(t) \/ AcquireTimeout(t) \/ GetResource(t) \/ CompareSize(t)
  \/ Create(t) \/ CountCreated(t) \/ ReturnHandle(t) \/ PushResource(t) \/ DrainPool(t)
-----------------------------------------------------------------------------
(* Properties. *)

Holding(pcs) == Cardinality({t \in Caller : caller[t].pc \in pcs})

(* The maximum, and the threads that compared the size at the same time as  *)
(* one that created; or those made at first, when they are more.            *)
MostResources == Max({InitialSize, MaxSize + Cardinality(Caller) - 1})

(* The size of the pool is what waits, what is in use, and what was closed  *)
(* after the shutdown without being counted down (resource.rs:395); the     *)
(* resources that live exceed the maximum by no more than the threads that  *)
(* compared the size at the same time (resource.rs:284, 328), unless more   *)
(* were made at first (resource.rs:229 has no maximum); and after a         *)
(* shutdown none waits in the queue but those whose return passed the flag  *)
(* before it was set and the lock after the queue was drained: nothing      *)
(* closes them (resource.rs:425).                                           *)
ResourcesAccounted ==
  /\ ~dropped => size = available + Holding({"using", "push"}) + uncounted
  /\ available + Holding({"count", "using", "push"}) <= MostResources
  /\ pool_shutdown /\ ~(\E t \in Caller : At(t, "drain")) => available <= stragglers
-----------------------------------------------------------------------------
(* instance.rs: every call holds the lock of the queue and of the          *)
(* statistics to its end and is one step.  A handle remembers what the     *)
(* pool forgets: how often its instance has been handed out.               *)

CONSTANTS
  InitialInstances,   \* config.initial_instances
  MaxInstances,       \* config.max_instances
  MaxUses             \* config.max_uses

ASSUME InstanceSizes == InitialInstances \in Nat /\ MaxInstances \in Nat /\ MaxUses \in Nat

VARIABLES
  instances,        \* the queue: use_count, and how often it was handed out
  total_created,
  total_recycled

instanceVars == <<instances, total_created, total_recycled>>

Pooled(use_count, uses) == [use_count |-> use_count, uses |-> uses]

(* A pool that was made by new. The copy of one (instance.rs:298) has its   *)
(* statistics beside an empty queue; it is not modelled.                    *)
InstanceInit ==
  /\ instances = [i \in 1..InitialInstances |-> Pooled(0, 0)]
  /\ total_created = InitialInstances
  /\ total_recycled = 0

(* An instance is too old, or unhealthy, at any time. *)
should_recycle(pooled) == {TRUE, pooled.use_count >= MaxUses}

Handle(uses) == [pc |-> "instance", uses |-> uses]

(* The instances in front that are recycled, and the first that is not. *)
GetInstance(t) ==
  \E k \in 0..Len(instances) :
    /\ \A i \in 1..k : TRUE \in should_recycle(instances[i])
    /\ total_recycled' = total_recycled + k
    /\ IF k < Len(instances)
         THEN /\ FALSE \in should_recycle(instances[k + 1])
              /\ instances' = SubSeq(instances, k + 2, Len(instances))
              /\ Call(t, Handle(instances[k + 1].uses + 1))
              /\ UNCHANGED total_created
         ELSE /\ instances' = <<>>
              /\ Call(t, Handle(1))
              /\ total_created' = total_created + 1

(* return_instance makes room before it looks at the instance; the entry   *)
(* it makes is new: its age starts again and its use_count is always 2.    *)
ReturnInstance(t) ==
  /\ At(t, "instance")
  /\ LET full == Len(instances) >= MaxInstances /\ instances # <<>>
         room == IF full THEN Tail(instances) ELSE instances
         out  == IF full THEN 1 ELSE 0
     IN  \/ /\ instances' = Append(room, Pooled(2, caller[t].uses))
            /\ total_recycled' = total_recycled + out
         \/ /\ instances' = room
            /\ total_recycled' = total_recycled + out + 1
  /\ Return(t)
  /\ UNCHANGED total_created
-----------------------------------------------------------------------------
(* Properties. *)

Out == {t \in Caller : At(t, "instance")}

(* Every instance that was created waits, is out, or was recycled; no more  *)
(* wait than the larger of the two sizes; and max_uses (instance.rs:25) is  *)
(* no limit on the uses of an instance: one that was returned is handed out *)
(* again for ever when max_uses is above 2 and never when it is not, since  *)
(* its count is set to 2 (instance.rs:279).                                 *)
InstancesAccounted ==
  /\ total_created = Len(instances) + Cardinality(Out) + total_recycled
  /\ Len(instances) <= Max({MaxInstances, InitialInstances, 1})
  /\ \A t \in Out : caller[t].uses > 1 => MaxUses > 2
-----------------------------------------------------------------------------
(* lion_isolation/src/manager: the backend loads a plugin's module, keeps  *)
(* its lifecycle, and calls functions on instances from a pool, each with  *)
(* a metering of its own.  Loading and unloading have the backend to       *)
(* themselves (&mut self) and a call holds the lock of the pool to its     *)
(* end: every operation is one step.  What wasmtime answers is open.       *)

CONSTANTS
  Plugin,       \* the ids of the plugins
  NoPlugin,     \* no entry in a map
  PoolSize      \* max_instances_per_plugin

(* The backend's pool is the default one, with room for ten. *)
ASSUME PoolAssumption ==
  PoolSize \in Nat \ {0} /\ NoPlugin \notin {"Loaded", "Running"} \cup Seq(Nat)

VARIABLES
  modules,             \* the plugins with a compiled module
  plugin_lifecycles,   \* the state of every loaded plugin
  pooled,              \* of every plugin: the function_calls of its instances
  since                \* calls since the plugin was loaded or a call failed

(* A DefaultIsolationBackend, and its InstancePool. *)
pooledVars == <<pooled, since>>
isolationVars == <<modules, plugin_lifecycles, pooledVars>>

IsolationInit ==
  /\ modules = {}
  /\ plugin_lifecycles = [p \in Plugin |-> NoPlugin]
  /\ pooled = [p \in Plugin |-> NoPlugin]
  /\ since = [p \in Plugin |-> 0]

(* load_plugin refuses a plugin that is loaded; compiling may fail. *)
LoadPlugin(t) ==
  /\ CallAtOnce(t)
  /\ \E p \in Plugin :
       /\ plugin_lifecycles[p] = NoPlugin
       /\ modules' = modules \cup {p}
       /\ plugin_lifecycles' = [plugin_lifecycles EXCEPT ![p] = "Loaded"]
       /\ since' = [since EXCEPT ![p] = 0]
  /\ UNCHANGED pooled

UnloadPlugin(t) ==
  /\ CallAtOnce(t)
  /\ \E p \in Plugin :
       /\ plugin_lifecycles[p] # NoPlugin
       /\ pooled' = [pooled EXCEPT ![p] = NoPlugin]
       /\ modules' = modules \ {p}
       /\ plugin_lifecycles' = [plugin_lifecycles EXCEPT ![p] = NoPlugin]
  /\ UNCHANGED since

can_call_function(state) == state \in {"Loaded", "Running"}

(* get_instance takes the last of the instances; create_instance makes one *)
(* whose metering starts at zero, and the entry of the plugin.             *)
get_or_create_instance(p) ==
  IF pooled[p] \in {NoPlugin, <<>>} THEN [calls |-> 0, others |-> <<>>]
  ELSE [calls |-> Last(pooled[p]), others |-> Front(pooled[p])]

return_instance(instance) ==
  IF Len(instance.others) < PoolSize THEN Append(instance.others, instance.calls + 1)
  ELSE instance.others

(* call_function.  An instance that cannot be created fails the call before *)
(* the lifecycle changes; a function that is missing, or a limit that is    *)
(* passed, after it, and the instance is not returned.                      *)
CallFunction(t) ==
  /\ CallAtOnce(t)
  /\ \E p \in modules, succeeds \in BOOLEAN :
       /\ can_call_function(plugin_lifecycles[p])
       /\ plugin_lifecycles' = [plugin_lifecycles EXCEPT ![p] = "Running"]
       /\ LET instance == get_or_create_instance(p)
          IN  pooled' = [pooled EXCEPT ![p] = IF succeeds THEN return_instance(instance)
                                              ELSE instance.others]
       /\ since' = [since EXCEPT ![p] = IF succeeds THEN @ + 1 ELSE 0]
  /\ UNCHANGED modules

IsolationCall(t) == LoadPlugin(t) \/ UnloadPlugin(t) \/ CallFunction(t)
-----------------------------------------------------------------------------
(* Properties. *)

(* get_resource_usage: the calls that the instances in the pool have counted. *)
usage(p) == FoldLeft(+, 0, pooled[p])

(* The three maps agree on the plugins, and on those that have run: a       *)
(* plugin that is loaded and was never called has no usage at all           *)
(* (backend.rs:327).  A plugin never has a second instance in the pool, for *)
(* calls hold its lock to their end (backend.rs:272); and the usage is that *)
(* of the calls since the last one that failed, whose instance is dropped   *)
(* with its metering (backend.rs:304).                                      *)
UsageKept ==
  \A p \in Plugin :
    /\ p \in modules <=> plugin_lifecycles[p] # NoPlugin
    /\ pooled[p] # NoPlugin <=> plugin_lifecycles[p] = "Running"
    /\ pooled[p] # NoPlugin => Len(pooled[p]) <= 1 /\ usage(p) = since[p]

(* No pool loses an instance or a count that its statistics and usages do   *)
(* not lose as well: those of lion_concurrency (resource.rs, instance.rs)   *)
(* and that of the isolation backend (backend.rs, pool.rs).                 *)
PoolsAccounted == ResourcesAccounted /\ InstancesAccounted /\ UsageKept
=============================================================================
