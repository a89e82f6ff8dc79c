------------------------------ MODULE Managers ------------------------------
(***************************************************************************)
(* lion_runtime/src/workflow: the manager's map of definitions and the     *)
(* executor's map of execution states, each under its own read-write lock. *)
(* Every operation on a state first looks into the other map and lets its  *)
(* lock go.  Nothing executes the nodes: no state ever becomes Completed.  *)
(***************************************************************************)
EXTENDS RuntimeCalls, FiniteSets

CONSTANTS
  Workflow,     \* workflow ids
  Unstarted     \* no execution state

VARIABLES
  workflows,    \* the ids with a definition (WorkflowManager::workflows)
  status        \* id -> WorkflowExecutionState::status, or Unstarted

(* A WorkflowManager, and its executor's instances. *)
executionVars == <<status>>
workflowVars == <<workflows, executionVars>>

WorkflowInit == workflows = {} /\ status = [w \in Workflow |-> Unstarted]

(* register_workflow and delete_workflow check and change under one write  *)
(* lock.  update_workflow replaces a definition, and nothing else.         *)
RegisterWorkflow(t) ==
  /\ CallAtOnce(t)
  /\ \E w \in Workflow \ workflows : workflows' = workflows \cup {w}
  /\ UNCHANGED status

DeleteWorkflow(t) ==
  /\ CallAtOnce(t)
  /\ \E w \in workflows : workflows' = workflows \ {w}
  /\ UNCHANGED status

(* The look into the map of definitions that every other operation begins  *)
(* with; an unknown id is refused.                                         *)
Changes == {"start", "pause", "resume", "cancel"}

FindWorkflow(t) ==
  /\ \E change \in Changes, w \in workflows :
       Call(t, [pc |-> "found", change |-> change, w |-> w, left |-> {}])
  /\ UNCHANGED workflowVars

(* Mutant: whatever has a state is resumed. *)
ResumeAny(change, s) ==
  CASE change = "start"  -> "Running"
    [] change = "pause"  -> IF s = "Running" THEN "Paused" ELSE s
    [] change = "resume" -> "Running"
    [] change = "cancel" -> "Cancelled"

(* The status that each operation leaves. *)
Changed(change, s) ==
  CASE change = "start"  -> "Running"
    [] change = "pause"  -> IF s = "Running" THEN "Paused" ELSE s
    [] change = "resume" -> IF s = "Paused" THEN "Running" ELSE s
    [] change = "cancel" -> "Cancelled"

(* start_workflow stores a new state over any; the others are refused for  *)
(* a workflow that has none.                                               *)
ChangeState(t) ==
  /\ At(t, "found")
  /\ LET c == caller[t]
     IN  /\ status' = IF c.change # "start" /\ status[c.w] = Unstarted
                        THEN status
                        ELSE [status EXCEPT ![c.w] = Changed(c.change, @)]
         /\ IF c.left = {} THEN Return(t) ELSE Goto(t, [pc |-> "cancelling", left |-> c.left])
  /\ UNCHANGED workflows

(* shutdown lists the definitions and cancels one after the other.         *)
ShutdownWorkflows(t) ==
  /\ workflows # {}
  /\ Call(t, [pc |-> "cancelling", left |-> workflows])
  /\ UNCHANGED workflowVars

CancelNext(t) ==
  /\ At(t, "cancelling")
  /\ \E w \in caller[t].left :
       LET left == caller[t].left \ {w}
       IN  IF w \in workflows
             THEN Goto(t, [pc |-> "found", change |-> "cancel", w |-> w, left |-> left])
             ELSE IF left = {} THEN Return(t) ELSE Goto(t, [pc |-> "cancelling", left |-> left])
  /\ UNCHANGED workflowVars

WorkflowCall(t) ==
  RegisterWorkflow(t) \/ DeleteWorkflow(t) \/ FindWorkflow(t) \/ ShutdownWorkflows(t)

WorkflowStep(t) == ChangeState(t) \/ CancelNext(t)
-----------------------------------------------------------------------------
(* Properties. *)

(* Once cancelled, a workflow runs again only through a start_workflow that *)
(* stores a new state: neither a pause or resume whose look into the other  *)
(* map is old, nor an update, a deletion or a second registration revives   *)
(* it (execution.rs:141 to 201).                                            *)
CancelHolds ==
  [][\A w \in Workflow :
       status[w] = "Cancelled" /\ status'[w] # "Cancelled" =>
         \E t \in Caller :
           At(t, "found") /\ caller[t].change = "start" /\ caller[t].w = w]_<<caller, status>>
-----------------------------------------------------------------------------
(* lion_runtime/src/system/shutdown.rs: components register and get a      *)
(* handle; request_shutdown counts them, sends one signal on a broadcast   *)
(* channel, and waits for as many permits of a semaphore, which the        *)
(* components add when they have stopped.  A component is a task with its  *)
(* handle and the clones of it.                                            *)

VARIABLES
  component_count,
  in_progress,
  signalled,    \* shutdown_tx has sent
  permits,      \* of the semaphore completion
  running,      \* the components that have not called shutdown_complete
  twice,        \* a component has called it again
  counted,      \* request_shutdown has counted the components
  late,         \* a component registered after the count
  reported      \* request_shutdown returned Ok

ghosts == <<running, twice, counted, late, reported>>

shutdownVars == <<component_count, in_progress, signalled, permits, ghosts>>

ShutdownInit ==
  /\ component_count = 0 /\ in_progress = FALSE /\ signalled = FALSE /\ permits = 0
  /\ running = {} /\ twice = FALSE /\ counted = FALSE /\ late = FALSE /\ reported = FALSE

(* The tasks that hold a handle, and with it a receiver. *)
Components == {t \in Caller : caller[t].pc \in {"handle", "hears", "deaf", "stopping"}}

RegisterComponent(t) ==
  /\ Call(t, [pc |-> "handle", id |-> component_count + 1])
  /\ component_count' = component_count + 1
  /\ running' = running \cup {component_count + 1}
  /\ late' = (late \/ counted)
  /\ UNCHANGED <<in_progress, signalled, permits, twice, counted, reported>>

(* wait_for_shutdown waits on a receiver of its own, which hears only what *)
(* is sent from now on.                                                    *)
WaitForShutdown(t) ==
  /\ At(t, "handle")
  /\ GotoPc(t, IF signalled THEN "deaf" ELSE "hears")
  /\ UNCHANGED shutdownVars

Hear(t) == At(t, "hears") /\ signalled /\ GotoPc(t, "stopping") /\ UNCHANGED shutdownVars

(* A component may end without a word. *)
DropHandle(t) ==
  caller[t].pc \in {"handle", "stopping"} /\ Return(t) /\ UNCHANGED shutdownVars

(* shutdown_complete adds a permit, whoever calls it, when and how often.  *)
AddPermit(id) ==
  /\ permits' = permits + 1
  /\ running' = running \ {id}
  /\ twice' = (twice \/ id \notin running)
  /\ UNCHANGED <<component_count, in_progress, signalled, counted, late, reported>>

(* A component that has heard the signal calls it and ends ...             *)
ShutdownComplete(t) == At(t, "stopping") /\ AddPermit(caller[t].id) /\ Return(t)

(* ... and any component may call it at any time, on a clone if it waits.  *)
CompleteAnyTime(t) ==
  /\ t \in Components /\ calls < MaxCalls
  /\ calls' = calls + 1
  /\ AddPermit(caller[t].id)
  /\ UNCHANGED caller

(* A second request is refused, also after the first has returned. *)
RequestShutdown(t) ==
  /\ ~in_progress
  /\ in_progress' = TRUE
  /\ Call(t, [pc |-> "count"])
  /\ UNCHANGED <<component_count, signalled, permits, ghosts>>

CountComponents(t) ==
  /\ At(t, "count")
  /\ Goto(t, [pc |-> "send", n |-> component_count])
  /\ counted' = TRUE
  /\ UNCHANGED <<component_count, in_progress, signalled, permits, running, twice, late, reported>>

(* Without a receiver the send fails, and the request with it. *)
Send(t) ==
  /\ At(t, "send")
  /\ IF caller[t].n = 0 \/ Components # {} THEN GotoPc(t, "await") ELSE Return(t)
  /\ signalled' = (signalled \/ (caller[t].n > 0 /\ Components # {}))
  /\ UNCHANGED <<component_count, in_progress, permits, ghosts>>

(* Mutant: one permit less is awaited. *)
AwaitAllButOne(t) ==
  /\ At(t, "await") /\ permits + 1 >= caller[t].n
  /\ permits' = 0
  /\ reported' = TRUE
  /\ Return(t)
  /\ UNCHANGED <<component_count, in_progress, signalled, running, twice, counted, late>>

AwaitCompletion(t) ==
  /\ At(t, "await") /\ permits >= caller[t].n
  /\ permits' = permits - caller[t].n
  /\ reported' = TRUE
  /\ Return(t)
  /\ UNCHANGED <<component_count, in_progress, signalled, running, twice, counted, late>>

(* Mutant: the time runs from the first permit. *)
TimeoutAfterPermit(t) ==
  /\ At(t, "await") /\ caller[t].n > 0 /\ permits > 0
  /\ Return(t)
  /\ UNCHANGED shutdownVars

(* The permits gathered so far stay with the semaphore. *)
ShutdownTimeout(t) ==
  /\ At(t, "await") /\ caller[t].n > 0
  /\ Return(t)
  /\ UNCHANGED shutdownVars

ShutdownCall(t) == RegisterComponent(t) \/ RequestShutdown(t)

ComponentChoice(t) == WaitForShutdown(t) \/ DropHandle(t) \/ CompleteAnyTime(t)

ShutdownStep(t) ==
  \/ Hear(t) \/ ShutdownComplete(t)
  \/ CountComponents(t) \/ Send(t) \/ AwaitCompletion(t) \/ ShutdownTimeout(t)
-----------------------------------------------------------------------------
(* Properties. *)

(* A shutdown that reports success has been told by every component that    *)
(* ever registered that it has stopped, also by those that ended without a  *)
(* word (shutdown.rs:175).  Except when a component registered after the    *)
(* count, or one told it twice (shutdown.rs:75): the permits do not say who *)
(* gave them, and one too many counts for a component that still runs.      *)
SuccessMeansStopped == reported => running = {} \/ late \/ twice
=============================================================================
