-------------------------------- MODULE Saga --------------------------------
(***************************************************************************)
(* One saga of the SagaOrchestrator (lion_workflow/src/patterns/saga):     *)
(* start_saga calls that execute its steps, abort_saga and compensate_saga *)
(* calls, and the background task that start_task_processor spawns. Every  *)
(* method is cut where it gives up the saga's lock or a queue's lock.      *)
(*                                                                         *)
(* The background task works on a clone of the orchestrator, and Clone     *)
(* gives the clone an empty map and empty queues. processorShares says     *)
(* whether it does: FALSE is the code. TRUE is the orchestrator its        *)
(* compensation code is written for, and the only one in which that code   *)
(* runs at all.                                                            *)
(***************************************************************************)
EXTENDS Naturals, FiniteSets

CONSTANTS
  Steps,
  DependsOn,
  Position,              \* execution_order: the place of each step in it
  HasCompensation,       \* the steps with a compensation action
  TriggersCompensation,  \* SagaStepDefinition::triggers_compensation
  ContinuesOnFailure,    \* SagaStepDefinition::continue_on_failure
  WithHandler,           \* the steps whose handler is registered
  WithUndoHandler,       \* the steps whose compensation handler is registered
  Starters,              \* the calls of start_saga
  Aborters,              \* the calls of abort_saga
  MaxRounds,             \* the limit of execute_ready_steps, 10 in the code
  MaxRequests,           \* bound on the requests to abort or to compensate the saga
  Wirings                \* the values of processorShares

VARIABLES
  sagaStatus,         \* Saga::status
  stepStatus,         \* SagaStep::status
  compensationQueue,  \* the number of tasks in compensation_queue
  abortQueue,         \* the number of tasks in abort_queue
  starter,            \* starter[c]: where call c of start_saga is
  aborter,            \* aborter[a]: where call a of abort_saga is
  processor,          \* where the task processor is
  requests,           \* the requests to abort or to compensate so far
  processorShares,    \* whether the task processor works on this orchestrator
  done, undone,       \* the successes of each handler, and of each compensation
  late                \* the steps completed while the saga was Failed

orchestratorVars ==
  <<sagaStatus, stepStatus, compensationQueue, abortQueue, starter, aborter, processor,
    requests, processorShares, done, undone, late>>

NoStep == "NoStep"

(* SagaDefinition::add_step *)
DependenciesExist == DependsOn \in [Steps -> SUBSET Steps]

(* SagaDefinition::validate and get_execution_order: the dependencies have *)
(* no cycle, and each step comes after those it depends on.                *)
IsExecutionOrder(position) ==
  /\ position \in [Steps -> Nat]
  /\ \A s, u \in Steps : position[s] = position[u] => s = u
  /\ \A s \in Steps : \A d \in DependsOn[s] : position[d] < position[s]

ASSUME SagaAssumption ==
  /\ IsFiniteSet(Steps) /\ NoStep \notin Steps
  /\ DependenciesExist
  /\ IsExecutionOrder(Position)
  /\ HasCompensation \subseteq Steps
  /\ TriggersCompensation \subseteq Steps /\ ContinuesOnFailure \subseteq Steps
  /\ WithHandler \subseteq Steps /\ WithUndoHandler \subseteq HasCompensation
  /\ MaxRounds \in Nat /\ MaxRequests \in Nat
  /\ Wirings \subseteq BOOLEAN

SagaStatus == {"Created", "Running", "Completed", "Failed", "Compensating", "Compensated",
               "FailedWithErrors", "Aborted"}

StepStatus == {"Pending", "Running", "Completed", "Failed", "Compensating", "Compensated",
               "CompensationFailed", "Skipped"}

StarterState == [pc : {"none", "reading", "stepping", "executing", "enqueuing", "returned"},
                 todo : SUBSET Steps, step : Steps \union {NoStep}, rounds : 0 .. MaxRounds]

ProcessorState == [pc : {"idle", "taken", "undoing", "marking", "executing", "aborting",
                         "deciding", "enqueuing", "ended"},
                   todo : SUBSET Steps, step : Steps \union {NoStep}, failed : BOOLEAN]

SagaTypeOK ==
  /\ sagaStatus \in SagaStatus
  /\ stepStatus \in [Steps -> StepStatus]
  /\ compensationQueue \in Nat
  /\ abortQueue \in Nat
  /\ starter \in [Starters -> StarterState]
  /\ aborter \in [Aborters -> {"none", "aborting", "deciding", "enqueuing", "returned"}]
  /\ processor \in ProcessorState
  /\ requests \in 0 .. MaxRequests
  /\ processorShares \in BOOLEAN
  /\ done \in [Steps -> Nat] /\ undone \in [Steps -> Nat]
  /\ late \in SUBSET Steps

(* SagaStep::new *)
NewSteps == [s \in Steps |-> "Pending"]

(* create_saga, and start. *)
SagaInit ==
  /\ sagaStatus = "Created"
  /\ stepStatus = NewSteps
  /\ compensationQueue = 0
  /\ abortQueue = 0
  /\ starter = [c \in Starters |-> [pc |-> "none", todo |-> {}, step |-> NoStep, rounds |-> 0]]
  /\ aborter = [a \in Aborters |-> "none"]
  /\ processor = [pc |-> "idle", todo |-> {}, step |-> NoStep, failed |-> FALSE]
  /\ requests = 0
  /\ processorShares \in Wirings
  /\ done = [s \in Steps |-> 0]
  /\ undone = [s \in Steps |-> 0]
  /\ late = {}

sagaVars == <<sagaStatus, stepStatus, done, undone, late>>

queueVars == <<compensationQueue, abortQueue>>

controlVars == <<requests, processorShares>>

-----------------------------------------------------------------------------
(* The mark_ methods of Saga and of SagaStep ask nothing of the status     *)
(* they replace.                                                           *)
MarkSaga(status) == sagaStatus' = status

MarkStep(s, status) == stepStatus' = [stepStatus EXCEPT ![s] = status]

(* SagaStep::is_terminal. Failed is not among them. *)
IsTerminal(status) == status \in {"Completed", "Compensated", "CompensationFailed", "Skipped"}

(* Saga::is_complete *)
IsComplete(statuses) == \A s \in Steps : IsTerminal(statuses[s])

(* Saga::get_ready_steps; the list is in execution order (see First). *)
ReadySteps ==
  {s \in Steps : /\ stepStatus[s] = "Pending"
                 /\ \A d \in DependsOn[s] : stepStatus[d] \in {"Completed", "Skipped"}}

(* Saga::get_compensation_steps; the list is in reverse order (see Last). *)
CompensationSteps(statuses) == {s \in HasCompensation : statuses[s] = "Completed"}

IsFirst(s, todo) == s \in todo /\ \A u \in todo : Position[s] <= Position[u]

IsLast(s, todo) == s \in todo /\ \A u \in todo : Position[u] <= Position[s]

(* Mutant: the lock is given up, and the task never queued. *)
ForgetCompensation == UNCHANGED compensationQueue

EnqueueCompensation == compensationQueue' = compensationQueue + 1

DequeueCompensation == compensationQueue > 0 /\ compensationQueue' = compensationQueue - 1

EnqueueAbortTask == abortQueue' = abortQueue + 1

DequeueAbortTask == abortQueue > 0 /\ abortQueue' = abortQueue - 1

-----------------------------------------------------------------------------
(* start_saga, of a saga in any status. *)
StartSaga(c) ==
  /\ starter[c].pc = "none"
  /\ MarkSaga("Running")
  /\ starter' = [starter EXCEPT ![c].pc = "reading"]
  /\ UNCHANGED <<stepStatus, queueVars, aborter, processor, controlVars, done, undone, late>>

(* Mutant: the ready steps are read once. *)
ReadOnce(c) ==
  /\ starter[c].pc = "reading"
  /\ starter' = [starter EXCEPT ![c] =
                   IF @.rounds > 0 THEN [@ EXCEPT !.pc = "returned"]
                   ELSE [@ EXCEPT !.pc = "stepping", !.todo = ReadySteps]]
  /\ UNCHANGED <<sagaVars, queueVars, aborter, processor, controlVars>>

(* The head of the loop of execute_ready_steps. *)
ReadReadySteps(c) ==
  /\ starter[c].pc = "reading"
  /\ starter' = [starter EXCEPT ![c] =
                   IF @.rounds = MaxRounds \/ ReadySteps = {} THEN [@ EXCEPT !.pc = "returned"]
                   ELSE [@ EXCEPT !.pc = "stepping", !.todo = ReadySteps]]
  /\ UNCHANGED <<sagaVars, queueVars, aborter, processor, controlVars>>

(* execute_step, up to the call of the handler: the step is marked Running *)
(* whatever its status is by now, and stays so if it has no handler.       *)
BeginStep(c, s) ==
  /\ starter[c].pc = "stepping" /\ IsFirst(s, starter[c].todo)
  /\ MarkStep(s, "Running")
  /\ starter' = [starter EXCEPT ![c] =
                   IF s \in WithHandler
                   THEN [@ EXCEPT !.pc = "executing", !.todo = starter[c].todo \ {s}, !.step = s]
                   ELSE [@ EXCEPT !.todo = starter[c].todo \ {s}]]
  /\ UNCHANGED <<sagaStatus, queueVars, aborter, processor, controlVars, done, undone, late>>

(* The handler returned Ok. The saga is completed with its last step,      *)
(* whatever its status is by now.                                          *)
CompleteStep(c) ==
  /\ starter[c].pc = "executing"
  /\ LET s == starter[c].step
     IN /\ MarkStep(s, "Completed")
        /\ done' = [done EXCEPT ![s] = @ + 1]
        /\ MarkSaga(IF IsComplete(stepStatus') THEN "Completed" ELSE sagaStatus)
        /\ late' = IF sagaStatus = "Failed" THEN late \union {s} ELSE late
  /\ starter' = [starter EXCEPT ![c] = [@ EXCEPT !.pc = "stepping", !.step = NoStep]]
  /\ UNCHANGED <<queueVars, aborter, processor, controlVars, undone>>

(* The handler returned Err or timed out. With triggers_compensation the   *)
(* saga's lock is given up before the task is queued; otherwise it is held *)
(* meanwhile, and nothing is queued if there is nothing to undo yet.       *)
FailStep(c) ==
  /\ starter[c].pc = "executing"
  /\ LET s == starter[c].step
     IN /\ MarkStep(s, "Failed")
        /\ \/ /\ s \in TriggersCompensation
              /\ MarkSaga("Compensating")
              /\ starter' = [starter EXCEPT ![c] = [@ EXCEPT !.pc = "enqueuing", !.step = NoStep]]
              /\ UNCHANGED compensationQueue
           \/ /\ s \in ContinuesOnFailure \ TriggersCompensation
              /\ starter' = [starter EXCEPT ![c] = [@ EXCEPT !.pc = "stepping", !.step = NoStep]]
              /\ UNCHANGED <<sagaStatus, compensationQueue>>
           \/ /\ s \notin ContinuesOnFailure \union TriggersCompensation
              /\ MarkSaga("Failed")
              /\ IF CompensationSteps(stepStatus') = {} THEN UNCHANGED compensationQueue
                 ELSE EnqueueCompensation
              /\ starter' = [starter EXCEPT ![c] = [@ EXCEPT !.pc = "stepping", !.step = NoStep]]
  /\ UNCHANGED <<abortQueue, aborter, processor, controlVars, done, undone, late>>

RequestAfterFailure(c) ==
  /\ starter[c].pc = "enqueuing"
  /\ EnqueueCompensation
  /\ starter' = [starter EXCEPT ![c].pc = "stepping"]
  /\ UNCHANGED <<sagaVars, abortQueue, aborter, processor, controlVars>>

(* The foot of the loop: the check for completion. *)
EndRound(c) ==
  /\ starter[c].pc = "stepping" /\ starter[c].todo = {}
  /\ starter' = [starter EXCEPT ![c] =
                   [@ EXCEPT !.rounds = starter[c].rounds + 1,
                             !.pc = IF IsComplete(stepStatus) THEN "returned" ELSE "reading"]]
  /\ UNCHANGED <<sagaVars, queueVars, aborter, processor, controlVars>>

-----------------------------------------------------------------------------
(* The bound on what is asked for. *)
Request ==
  /\ requests < MaxRequests
  /\ requests' = requests + 1

(* Clone for SagaOrchestrator: whether the tasks that start spawns see the *)
(* sagas and the queues of this orchestrator.                              *)
SeesSagas == processorShares

(* check_timeouts of the timeout monitor finds the saga Running too long.  *)
(* Nothing stops it from asking again at its next tick.                    *)
CheckTimeouts ==
  /\ SeesSagas /\ sagaStatus = "Running"
  /\ Request
  /\ EnqueueAbortTask
  /\ UNCHANGED <<sagaVars, compensationQueue, starter, aborter, processor, processorShares>>

(* compensate_saga *)
CompensateSaga ==
  /\ Request
  /\ EnqueueCompensation
  /\ UNCHANGED <<sagaVars, abortQueue, starter, aborter, processor, processorShares>>

(* abort_saga: the task is queued, and after a sleep the head of the queue *)
(* is processed here, unless the task processor was faster.                *)
EnqueueAbort(a) ==
  /\ aborter[a] = "none"
  /\ Request
  /\ EnqueueAbortTask
  /\ aborter' = [aborter EXCEPT ![a] = "aborting"]
  /\ UNCHANGED <<sagaVars, compensationQueue, starter, processor, processorShares>>

(* The states process_abort_tasks aborts a saga in: those not terminal.    *)
MayAbort == sagaStatus \in {"Created", "Running", "Compensating"}

(* Mutant: the call waits for a task. *)
WaitForAbort(a) ==
  /\ aborter[a] = "aborting" /\ DequeueAbortTask
  /\ aborter' = [aborter EXCEPT ![a] = "deciding"]
  /\ UNCHANGED <<sagaVars, compensationQueue, starter, processor, controlVars>>

(* process_abort_tasks, the head of the queue. *)
TakeAbort(a) ==
  /\ aborter[a] = "aborting"
  /\ \/ /\ DequeueAbortTask
        /\ aborter' = [aborter EXCEPT ![a] = "deciding"]
     \/ /\ abortQueue = 0
        /\ aborter' = [aborter EXCEPT ![a] = "returned"]
        /\ UNCHANGED abortQueue
  /\ UNCHANGED <<sagaVars, compensationQueue, starter, processor, controlVars>>

AbortSaga(a) ==
  /\ aborter[a] = "deciding"
  /\ MarkSaga(IF MayAbort THEN "Aborted" ELSE sagaStatus)
  /\ aborter' = [aborter EXCEPT ![a] = IF MayAbort THEN "enqueuing" ELSE "returned"]
  /\ UNCHANGED <<stepStatus, done, undone, late, queueVars, starter, processor, controlVars>>

RequestAfterAbort(a) ==
  /\ aborter[a] = "enqueuing"
  /\ EnqueueCompensation
  /\ aborter' = [aborter EXCEPT ![a] = "returned"]
  /\ UNCHANGED <<sagaVars, abortQueue, starter, processor, controlVars>>

-----------------------------------------------------------------------------
(* The task processor. A clone's queues are empty for ever, and so the     *)
(* ticks of the code's processor change nothing: there is no action for    *)
(* them. The sender of its cancel channel is dropped at once, so select!   *)
(* ends the loop after some number of ticks.                               *)
EndProcessor ==
  /\ processor.pc = "idle"
  /\ processor' = [processor EXCEPT !.pc = "ended"]
  /\ UNCHANGED <<sagaVars, queueVars, starter, aborter, controlVars>>

TakeCompensation ==
  /\ SeesSagas /\ processor.pc = "idle"
  /\ \/ /\ DequeueCompensation
        /\ processor' = [processor EXCEPT !.pc = "taken"]
     \/ /\ compensationQueue = 0
        /\ processor' = [processor EXCEPT !.pc = "aborting"]
        /\ UNCHANGED compensationQueue
  /\ UNCHANGED <<sagaVars, abortQueue, starter, aborter, controlVars>>

MayCompensate == sagaStatus \in {"Compensating", "Failed", "Aborted"}

(* compensate_saga_internal: the check of the status and the list, under   *)
(* one read lock.                                                          *)
BeginCompensation ==
  /\ processor.pc = "taken"
  /\ processor' = IF MayCompensate
                  THEN [processor EXCEPT !.pc = "undoing", !.todo = CompensationSteps(stepStatus),
                                         !.failed = FALSE]
                  ELSE [processor EXCEPT !.pc = "aborting"]
  /\ UNCHANGED <<sagaVars, queueVars, starter, aborter, controlVars>>

(* compensate_step: the step is looked at under the read lock ... *)
CheckUndo(s) ==
  /\ processor.pc = "undoing" /\ IsLast(s, processor.todo)
  /\ processor' = [processor EXCEPT !.todo = @ \ {s},
                                    !.pc = IF stepStatus[s] = "Completed" THEN "marking" ELSE @,
                                    !.step = IF stepStatus[s] = "Completed" THEN s ELSE @]
  /\ UNCHANGED <<sagaVars, queueVars, starter, aborter, controlVars>>

(* ... and marked under the write lock. Without a handler it stays so.     *)
BeginUndo ==
  /\ processor.pc = "marking"
  /\ MarkStep(processor.step, "Compensating")
  /\ processor' = IF processor.step \in WithUndoHandler THEN [processor EXCEPT !.pc = "executing"]
                  ELSE [processor EXCEPT !.pc = "undoing", !.step = NoStep, !.failed = TRUE]
  /\ UNCHANGED <<sagaStatus, done, undone, late, queueVars, starter, aborter, controlVars>>

(* Mutant: the step is left as it is. *)
UndoUnmarked ==
  /\ processor.pc = "executing"
  /\ MarkStep(processor.step, "Completed")
  /\ undone' = [undone EXCEPT ![processor.step] = @ + 1]
  /\ processor' = [processor EXCEPT !.pc = "undoing", !.step = NoStep]
  /\ UNCHANGED <<sagaStatus, done, late, queueVars, starter, aborter, controlVars>>

UndoSucceeds ==
  /\ processor.pc = "executing"
  /\ MarkStep(processor.step, "Compensated")
  /\ undone' = [undone EXCEPT ![processor.step] = @ + 1]
  /\ processor' = [processor EXCEPT !.pc = "undoing", !.step = NoStep]
  /\ UNCHANGED <<sagaStatus, done, late, queueVars, starter, aborter, controlVars>>

UndoFails ==
  /\ processor.pc = "executing"
  /\ MarkStep(processor.step, "CompensationFailed")
  /\ processor' = [processor EXCEPT !.pc = "undoing", !.step = NoStep, !.failed = TRUE]
  /\ UNCHANGED <<sagaStatus, done, undone, late, queueVars, starter, aborter, controlVars>>

(* The saga's new status, whatever its status is by now. *)
EndCompensation ==
  /\ processor.pc = "undoing" /\ processor.todo = {}
  /\ MarkSaga(IF processor.failed THEN "FailedWithErrors" ELSE "Compensated")
  /\ processor' = [processor EXCEPT !.pc = "aborting"]
  /\ UNCHANGED <<stepStatus, done, undone, late, queueVars, starter, aborter, controlVars>>

(* The second half of a tick. *)
ProcessAbort ==
  /\ \/ /\ processor.pc = "aborting" /\ DequeueAbortTask
        /\ processor' = [processor EXCEPT !.pc = "deciding"]
        /\ UNCHANGED <<sagaStatus, compensationQueue>>
     \/ /\ processor.pc = "aborting" /\ abortQueue = 0
        /\ processor' = [processor EXCEPT !.pc = "idle"]
        /\ UNCHANGED <<sagaStatus, queueVars>>
     \/ /\ processor.pc = "deciding"
        /\ MarkSaga(IF MayAbort THEN "Aborted" ELSE sagaStatus)
        /\ processor' = [processor EXCEPT !.pc = IF MayAbort THEN "enqueuing" ELSE "idle"]
        /\ UNCHANGED queueVars
     \/ /\ processor.pc = "enqueuing"
        /\ EnqueueCompensation
        /\ processor' = [processor EXCEPT !.pc = "idle"]
        /\ UNCHANGED <<sagaStatus, abortQueue>>
  /\ UNCHANGED <<stepStatus, done, undone, late, starter, aborter, controlVars>>

StarterStep(c) ==
  \/ ReadReadySteps(c)
  \/ \E s \in Steps : BeginStep(c, s)
  \/ CompleteStep(c)
  \/ FailStep(c)
  \/ RequestAfterFailure(c)
  \/ EndRound(c)

AborterStep(a) == TakeAbort(a) \/ AbortSaga(a) \/ RequestAfterAbort(a)

ProcessorStep ==
  \/ TakeCompensation
  \/ BeginCompensation
  \/ \E s \in Steps : CheckUndo(s)
  \/ BeginUndo
  \/ UndoSucceeds
  \/ UndoFails
  \/ EndCompensation
  \/ ProcessAbort

SagaNext ==
  \/ \E c \in Starters : StartSaga(c) \/ StarterStep(c)
  \/ \E a \in Aborters : EnqueueAbort(a) \/ AborterStep(a)
  \/ CompensateSaga \/ CheckTimeouts
  \/ ProcessorStep
  \/ EndProcessor

(* Calls in progress and the spawned task are polled until they end, and   *)
(* step timeouts bound the handlers. Nobody has to call anything.          *)
SagaSpec ==
  /\ SagaInit /\ [][SagaNext]_orchestratorVars
  /\ \A c \in Starters : WF_orchestratorVars(StarterStep(c))
  /\ \A a \in Aborters : WF_orchestratorVars(AborterStep(a))
  /\ WF_orchestratorVars(ProcessorStep)
-----------------------------------------------------------------------------
(* However starts, aborts and compensations overlap, a step takes effect   *)
(* only after those it depends on, no effect is undone twice, and only a   *)
(* saga whose every step has taken effect is Completed.                    *)
Outcome == INSTANCE SagaOutcome WITH reported <- (sagaStatus = "Completed")

ImplementsSagaOutcome == Outcome!Spec

Requested ==
  \/ compensationQueue > 0
  \/ \E c \in Starters : starter[c].pc = "enqueuing"
  \/ \E a \in Aborters : aborter[a] = "enqueuing"
  \/ processor.pc \in {"taken", "undoing", "marking", "executing", "enqueuing"}

(* A saga that is Compensating or Aborted, or Failed with completed steps  *)
(* to undo, has a compensation queued, under way or about to be queued:    *)
(* no interleaving of failures, aborts, restarts and refusals uses the     *)
(* last request up. Only steps completed after the saga had Failed, which  *)
(* execute_ready_steps goes on to execute, may have none.                  *)
CompensationRequested ==
  (\/ sagaStatus \in {"Compensating", "Aborted"}
   \/ sagaStatus = "Failed" /\ CompensationSteps(stepStatus) \ late # {}) => Requested

(* When every start_saga call has returned no step is left that could run, *)
(* unless a call came to the limit of its rounds: a chain of more than     *)
(* MaxRounds steps is left Running.                                        *)
ReadyStepsAreRun ==
  (\A c \in Starters : starter[c].pc = "returned" /\ starter[c].rounds < MaxRounds)
    => ReadySteps = {}

(* start_saga and abort_saga return. *)
SagaCallsReturn ==
  /\ \A c \in Starters : starter[c].pc # "none" ~> starter[c].pc = "returned"
  /\ \A a \in Aborters : aborter[a] # "none" ~> aborter[a] = "returned"

(* orchestrator.rs:644 says "Launch compensation asynchronously via        *)
(* queue": a saga that has begun to compensate is compensated.             *)
CompensationEnds ==
  sagaStatus = "Compensating" ~> sagaStatus \in {"Compensated", "FailedWithErrors"}
=============================================================================
