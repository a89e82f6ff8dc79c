------------------------------- MODULE Runtime -------------------------------
(***************************************************************************)
(* lion_runtime/src/lib.rs: the facade over the capability manager, the    *)
(* plugin manager, which grants through it, the workflow manager and the   *)
(* shutdown manager.  The tasks of a behaviour call the managers it names: *)
(* Runtime::shutdown asks the shutdown manager alone, so that plugins and  *)
(* workflows only share the tasks with it.                                 *)
(***************************************************************************)
EXTENDS PluginManager, Managers

CONSTANTS
  Uses,            \* bound: sets of managers that a behaviour uses together
  PluginCaller     \* bound: the tasks that call the plugin manager

VARIABLE managers

vars == <<callVars, capabilityVars, pluginVars, workflowVars, shutdownVars, managers>>

Init ==
  /\ CallsInit /\ CapabilityInit /\ PluginInit /\ WorkflowInit /\ ShutdownInit
  /\ managers \in Uses

Calls(name) == name \in managers /\ UNCHANGED managers

(* Runtime::grant_capability and revoke_capability, and attenuation. *)
CapabilityCall(t) ==
  /\ CallAtOnce(t)
  /\ \/ \E c \in Issued : revoke_capability(c)
     \/ \E c \in NextId, s \in Subject, rights \in SUBSET Right \ {{}} :
          \/ \E o \in Object : grant_capability(c, s, o, rights)
          \/ \E parent \in Issued : attenuate_capability(c, parent, s, rights)

Begin(t) ==
  \/ /\ Calls("capabilities") /\ CapabilityCall(t)
     /\ UNCHANGED <<pluginVars, workflowVars, shutdownVars>>
  \/ /\ Calls("plugins") /\ t \in PluginCaller /\ PluginCall(t)
     /\ UNCHANGED <<workflowVars, shutdownVars>>
  \/ /\ Calls("workflows") /\ WorkflowCall(t)
     /\ UNCHANGED <<pluginVars, capabilityVars, shutdownVars>>
  \/ /\ Calls("shutdown") /\ (ShutdownCall(t) \/ ComponentChoice(t))
     /\ UNCHANGED <<pluginVars, capabilityVars, workflowVars>>

Continue(t) ==
  /\ UNCHANGED managers
  /\ \/ PluginStep(t) /\ UNCHANGED <<workflowVars, shutdownVars>>
     \/ WorkflowStep(t) /\ UNCHANGED <<pluginVars, capabilityVars, shutdownVars>>
     \/ ShutdownStep(t) /\ UNCHANGED <<pluginVars, capabilityVars, workflowVars>>

Next == \E t \in Caller : Begin(t) \/ Continue(t)

(* Calls are made, and components wait, as their tasks please; a call that *)
(* is under way goes on: tokio polls a task that is woken, the map's lock  *)
(* is fair, and a timeout fires.                                           *)
Fairness == \A t \in Caller : WF_vars(Continue(t))

Spec == Init /\ [][Next]_vars /\ Fairness
-----------------------------------------------------------------------------
(* Properties. *)

Waits(t) == caller[t].pc \in {"handle", "hears", "deaf"}

(* Every call returns, and every component that waits when the signal is    *)
(* sent hears it, with two exceptions.  A remove_plugin that asks for the   *)
(* read lock a second time behind a writer blocks itself, the writer and    *)
(* all who ask later (manager.rs:304); and a component that begins to wait  *)
(* after the signal waits for ever (shutdown.rs:64).                        *)
CallsReturn ==
  \A t \in Caller :
    /\ ~At(t, "idle") /\ ~Waits(t) ~> At(t, "idle") \/ \E u \in Caller : ReadsTwice(u)
    /\ At(t, "hears") /\ signalled ~> ~At(t, "hears")
=============================================================================
