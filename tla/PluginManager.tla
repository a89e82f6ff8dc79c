---------------------------- MODULE PluginManager ----------------------------
(***************************************************************************)
(* lion_runtime/src/plugin: the manager's map of plugins under tokio's     *)
(* read-write lock, the registry, and the state and the metadata of every  *)
(* plugin, each under a lock of its own that is held for one access.       *)
(*                                                                         *)
(* The map's lock serves its waiters in the order in which they asked, so  *)
(* a reader waits behind a writer that asked before it.  Every operation   *)
(* on a plugin keeps its read guard until it returns.                      *)
(***************************************************************************)
EXTENDS RuntimeCalls, CapabilityManager

CONSTANTS
  Plugin,    \* plugin ids; the subjects of the capabilities are plugins
  Given,     \* bound: the states in the metadata that plugins are registered with
  Absent     \* not in the map

PluginStates ==
  {"Created", "Ready", "Running", "Paused", "Failed", "Terminated", "Upgrading"}

PluginEntry == [state : PluginStates, meta : PluginStates]

(* Whoever grants to a plugin grants to a subject, what the map holds for  *)
(* a plugin is never Absent, and metadata may come with any state.         *)
ASSUME PluginAssumption ==
  Plugin \subseteq Subject /\ Absent \notin PluginEntry /\ Given \subseteq PluginStates

VARIABLES
  registered,   \* PluginRegistry::plugins
  plugins,      \* PluginManager::plugins: id -> state and metadata.state, or Absent
  readers,      \* read guards of the map that a task holds
  waiting,      \* who waits for the map's lock, in order: <<task, "read" or "write">>
  raced         \* ids registered or removed while another call registered or removed them

pluginVars == <<registered, plugins, readers, waiting, raced>>

(* A plugin begins as Created, whatever the metadata of its caller say.    *)
Created(meta) == [state |-> "Created", meta |-> meta]

PluginInit ==
  /\ registered = {}
  /\ plugins = [p \in Plugin |-> Absent]
  /\ readers = [t \in Caller |-> 0]
  /\ waiting = <<>>
  /\ raced = {}

state(p) == plugins[p].state

Known(p) == plugins[p] # Absent

(* The lock of the map.  A write guard is held within one step only. *)
Ask(t, mode) == waiting' = Append(waiting, <<t, mode>>)

MayRead(t) == waiting # <<>> /\ Head(waiting) = <<t, "read">>

MayWrite(t) ==
  /\ waiting # <<>> /\ Head(waiting) = <<t, "write">>
  /\ \A u \in Caller : readers[u] = 0

Lock(t) == readers' = [readers EXCEPT ![t] = @ + 1] /\ waiting' = Tail(waiting)

Unlock(t) == readers' = [readers EXCEPT ![t] = 0]

About(u, p) == "p" \in DOMAIN caller[u] /\ caller[u].p = p

(* Another call that registers or removes the plugin has not returned. *)
Overlapped(t, p) ==
  \E u \in Caller \ {t} :
    About(u, p) /\ (caller[u].pc \in {"register", "listed", "insert"} \/ caller[u].op = "remove")

-----------------------------------------------------------------------------
(* register_plugin (load_plugins_from_directory for what it discovers):    *)
(* the registry's own check decides, as it comes after has_plugin, and is  *)
(* apart from its insert.                                                  *)
RegisterPlugin(t) ==
  /\ \E p \in Plugin \ registered : Call(t, [pc |-> "register", p |-> p])
  /\ UNCHANGED <<pluginVars, capabilityVars>>

InsertIntoRegistry(t) ==
  /\ At(t, "register")
  /\ registered' = registered \cup {caller[t].p}
  /\ GotoPc(t, "listed")
  /\ UNCHANGED <<plugins, readers, waiting, raced, capabilityVars>>

(* The write guard, for the insert or the removal that follows. *)
AskForWrite(t) ==
  /\ \/ At(t, "listed") /\ GotoPc(t, "insert")
     \/ At(t, "unlisted") /\ GotoPc(t, "drop")
  /\ Ask(t, "write")
  /\ UNCHANGED <<registered, plugins, readers, raced, capabilityVars>>

InsertPlugin(t) ==
  /\ At(t, "insert") /\ MayWrite(t)
  /\ \E meta \in Given : plugins' = [plugins EXCEPT ![caller[t].p] = Created(meta)]
  /\ raced' = IF Overlapped(t, caller[t].p) THEN raced \cup {caller[t].p} ELSE raced
  /\ waiting' = Tail(waiting) /\ Return(t)
  /\ UNCHANGED <<registered, readers, capabilityVars>>

-----------------------------------------------------------------------------
(* The calls that take the read guard first.  "todo" lists the states that *)
(* PluginLifecycle still has to set, each with the metadata after it.      *)
Guarded == {"load", "initialize", "start", "pause", "stop", "unload", "remove", "grant"}

BeginCall(t) ==
  /\ \E op \in Guarded, p \in Plugin :
       Call(t, [pc |-> "guard", op |-> op, p |-> p, todo |-> <<>>])
  /\ Ask(t, "read")
  /\ UNCHANGED <<registered, plugins, readers, raced, capabilityVars>>

BeginShutdown(t) ==
  /\ Call(t, [pc |-> "guard", op |-> "shutdown", todo |-> <<>>, left |-> {}])
  /\ Ask(t, "read")
  /\ UNCHANGED <<registered, plugins, readers, raced, capabilityVars>>

(* Set the states in todo, one after the other. *)
Set(t, todo) == Goto(t, [caller[t] EXCEPT !.pc = "set", !.todo = todo])

OnEntry == [load |-> <<"Ready">>, initialize |-> <<"Ready">>,
            pause |-> <<"Paused">>, stop |-> <<"Ready">>]

(* An unknown plugin ends the call, but for remove_plugin, which goes on   *)
(* to the registry.                                                        *)
Enter(t) ==
  /\ At(t, "guard") /\ MayRead(t)
  /\ LET c == caller[t]
     IN  CASE c.op = "shutdown" ->
                /\ Lock(t)
                /\ Goto(t, [c EXCEPT !.pc = "next", !.left = {p \in Plugin : Known(p)}])
           [] c.op # "shutdown" /\ Known(c.p) ->
                /\ Lock(t)
                /\ IF c.op \in DOMAIN OnEntry THEN Set(t, OnEntry[c.op]) ELSE GotoPc(t, c.op)
           [] c.op # "shutdown" /\ ~Known(c.p) ->
                /\ waiting' = Tail(waiting) /\ UNCHANGED readers
                /\ IF c.op = "remove" THEN GotoPc(t, "unregister") ELSE Return(t)
  /\ UNCHANGED <<registered, plugins, raced, capabilityVars>>

(* start_plugin initializes a plugin that is Ready, and starts any.        *)
Start(t) ==
  /\ At(t, "start")
  /\ Set(t, IF state(caller[t].p) = "Ready" THEN <<"Ready", "Running">> ELSE <<"Running">>)
  /\ UNCHANGED <<pluginVars, capabilityVars>>

Active(p) == state(p) \in {"Running", "Paused"}

Unload(t) ==
  /\ At(t, "unload")
  /\ Set(t, IF Active(caller[t].p) THEN <<"Ready", "Terminated">> ELSE <<"Terminated">>)
  /\ UNCHANGED <<pluginVars, capabilityVars>>

(* LifecycleManager::set_state, which allows every change of state. *)
SetState(t) ==
  /\ At(t, "set") /\ caller[t].todo # <<>>
  /\ plugins' = [plugins EXCEPT ![caller[t].p] = [@ EXCEPT !.state = Head(caller[t].todo)]]
  /\ GotoPc(t, "meta")
  /\ UNCHANGED <<registered, readers, waiting, raced, capabilityVars>>

Advance(t) == Goto(t, [caller[t] EXCEPT !.pc = "set", !.todo = Tail(@)])

(* Mutant: the metadata gets the state that this call has set. *)
NoteOwnState(t) ==
  /\ At(t, "meta")
  /\ plugins' = [plugins EXCEPT ![caller[t].p] = [@ EXCEPT !.meta = Head(caller[t].todo)]]
  /\ Advance(t)
  /\ UNCHANGED <<registered, readers, waiting, raced, capabilityVars>>

(* The metadata gets the state as it is by now. *)
NoteState(t) ==
  /\ At(t, "meta")
  /\ plugins' = [plugins EXCEPT ![caller[t].p] = [@ EXCEPT !.meta = plugins[caller[t].p].state]]
  /\ Advance(t)
  /\ UNCHANGED <<registered, readers, waiting, raced, capabilityVars>>

Finish(t) ==
  /\ At(t, "set") /\ caller[t].todo = <<>>
  /\ CASE caller[t].op = "remove"   -> Unlock(t) /\ GotoPc(t, "unregister")
       [] caller[t].op = "shutdown" -> UNCHANGED readers /\ GotoPc(t, "next")
       [] OTHER                     -> Unlock(t) /\ Return(t)
  /\ UNCHANGED <<registered, plugins, waiting, raced, capabilityVars>>

(* shutdown stops the active plugins one by one under one guard. *)
StopNext(t) ==
  /\ At(t, "next")
  /\ IF caller[t].left = {}
       THEN Unlock(t) /\ Return(t)
       ELSE /\ UNCHANGED readers
            /\ \E p \in caller[t].left :
                 Goto(t, [pc |-> "set", op |-> "shutdown", p |-> p,
                          todo |-> IF Active(p) THEN <<"Ready">> ELSE <<>>,
                          left |-> caller[t].left \ {p}])
  /\ UNCHANGED <<registered, plugins, waiting, raced, capabilityVars>>

(* Ids are issued in order: which id is fresh does not matter. *)
NextId == {c \in CapId \ Issued : \A d \in CapId \ Issued : c <= d}

(* grant_capability grants under the guard. *)
Grant(t) ==
  /\ At(t, "grant")
  /\ \E c \in NextId, o \in Object, rights \in SUBSET Right \ {{}} :
       grant_capability(c, caller[t].p, o, rights)
  /\ Unlock(t) /\ Return(t)
  /\ UNCHANGED <<registered, plugins, waiting, raced>>

(* The refusal of the model when the ids are used up: a bound. *)
GrantWithoutId(t) ==
  /\ At(t, "grant") /\ Issued = CapId
  /\ Unlock(t) /\ Return(t)
  /\ UNCHANGED <<registered, plugins, waiting, raced, capabilityVars>>

-----------------------------------------------------------------------------
(* remove_plugin calls unload_plugin, which asks for the read lock again,  *)
(* under the guard of its if let; both guards end before the registry's    *)
(* turn.                                                                   *)
RemoveLoaded(t) ==
  /\ At(t, "remove")
  /\ IF state(caller[t].p) = "Terminated"
       THEN Unlock(t) /\ UNCHANGED waiting /\ GotoPc(t, "unregister")
       ELSE Ask(t, "read") /\ UNCHANGED readers /\ GotoPc(t, "regain")
  /\ UNCHANGED <<registered, plugins, raced, capabilityVars>>

EnterAgain(t) ==
  /\ At(t, "regain") /\ MayRead(t)
  /\ Lock(t) /\ GotoPc(t, "unload")
  /\ UNCHANGED <<registered, plugins, raced, capabilityVars>>

FindName(t) ==
  /\ At(t, "unregister")
  /\ IF caller[t].p \in registered THEN GotoPc(t, "named") ELSE Return(t)
  /\ UNCHANGED <<pluginVars, capabilityVars>>

Unregister(t) ==
  /\ At(t, "named")
  /\ registered' = registered \ {caller[t].p}
  /\ GotoPc(t, "unlisted")
  /\ UNCHANGED <<plugins, readers, waiting, raced, capabilityVars>>

DropPlugin(t) ==
  /\ At(t, "drop") /\ MayWrite(t)
  /\ plugins' = [plugins EXCEPT ![caller[t].p] = Absent]
  /\ raced' = IF Overlapped(t, caller[t].p) THEN raced \cup {caller[t].p} ELSE raced
  /\ waiting' = Tail(waiting) /\ Return(t)
  /\ UNCHANGED <<registered, readers, capabilityVars>>

PluginStep(t) ==
  \/ InsertIntoRegistry(t) \/ AskForWrite(t) \/ InsertPlugin(t)
  \/ Enter(t) \/ Start(t) \/ Unload(t) \/ SetState(t) \/ NoteState(t) \/ Finish(t)
  \/ StopNext(t) \/ Grant(t) \/ GrantWithoutId(t)
  \/ RemoveLoaded(t) \/ EnterAgain(t) \/ FindName(t) \/ Unregister(t) \/ DropPlugin(t)

PluginCall(t) == RegisterPlugin(t) \/ BeginCall(t) \/ BeginShutdown(t)
-----------------------------------------------------------------------------
(* Properties. *)

(* The registry and the map name the same plugins whenever no call that     *)
(* registers or removes is under way, unless two such calls for the same    *)
(* plugin overlapped (manager.rs:156 and 309); and the metadata of a plugin *)
(* that has left Created show its state unless a call is between the two    *)
(* (lifecycle.rs:180): of calls that overlap, the last to write the         *)
(* metadata sees the last state.  Until then they are the caller's.         *)
PluginsAgree ==
  \A p \in Plugin :
    /\ p \in raced \/ (\E t \in Caller : About(t, p)) \/ (p \in registered <=> Known(p))
    /\ Known(p) /\ (\A t \in Caller : ~(At(t, "meta") /\ caller[t].p = p)) =>
         plugins[p].state \in {"Created", plugins[p].meta}

(* remove_plugin waits for the read lock behind a writer that waits for the *)
(* guard it holds.                                                          *)
ReadsTwice(t) ==
  /\ readers[t] > 0
  /\ \E i, j \in DOMAIN waiting : i < j /\ waiting[i][2] = "write" /\ waiting[j] = <<t, "read">>
=============================================================================
