------------------------------ MODULE Executor ------------------------------
(***************************************************************************)
(* lion_concurrency/src/pool/thread.rs: a bounded channel, the workers     *)
(* that receive from it, and a flag that both the senders and the workers  *)
(* look at.  The channel is crossbeam's: it disconnects, and drops what it *)
(* holds, with its last receiver.  The statistics are left out.            *)
(*                                                                         *)
(* Two parts have a pool each: the executor (scheduler/executor.rs), which *)
(* hands out a handle for every task that its pool accepts, and the actor  *)
(* system (actor/system.rs), which keeps the status of every actor.  Each  *)
(* ignores what it is asked to run when it cannot run it.                  *)
(***************************************************************************)
EXTENDS RuntimeCalls, SequencesExt

CONSTANTS
  Worker,      \* the worker threads of all pools
  PoolOf,      \* the pool of every worker
  QueueSize    \* config.queue_size

Pool == {"executor", "actors"}

ASSUME WorkersHavePools == PoolOf \in [Worker -> Pool]

(* A channel of size 0, which hands a task to a worker that waits, is not   *)
(* modelled.                                                                *)
ASSUME QueuesHold == QueueSize \in Nat \ {0}

VARIABLES
  tasks,              \* the accepted tasks, in the order of their acceptance
  channel,            \* of every pool: the tasks that wait
  worker,             \* what every worker is doing
  is_shutting_down    \* of every pool

threadVars == <<tasks, channel, worker, is_shutting_down>>

ThreadInit ==
  /\ tasks = <<>>
  /\ channel = [p \in Pool |-> <<>>]
  /\ worker = [w \in Worker |-> [pc |-> "loop"]]
  /\ is_shutting_down = [p \in Pool |-> FALSE]

Workers(p) == {w \in Worker : PoolOf[w] = p}

Disconnected(p) == \A w \in Workers(p) : worker[w].pc = "exited"

(* execute, execute_blocking, Executor::execute and ActorSystem::submit    *)
(* look at the flag and then send.                                         *)
Submit(t, p, by, blocks) ==
  /\ Call(t, IF is_shutting_down[p] THEN Idle
             ELSE [pc |-> "send", pool |-> p, by |-> by, blocks |-> blocks])
  /\ UNCHANGED threadVars

(* The executor's handle says Pending until the task starts. *)
Accept(t) ==
  LET p == caller[t].pool
  IN  /\ tasks' = Append(tasks, [pool |-> p, by |-> caller[t].by,
                                 fate |-> "queued", status |-> "Pending"])
      /\ channel' = [channel EXCEPT ![p] = Append(@, Len(tasks) + 1)]

(* A full channel refuses an execute and holds an execute_blocking. *)
Send(t) ==
  /\ At(t, "send")
  /\ LET p == caller[t].pool
     IN  \/ /\ Disconnected(p) \/ (Len(channel[p]) >= QueueSize /\ ~caller[t].blocks)
            /\ Return(t)
            /\ UNCHANGED <<tasks, channel>>
         \/ /\ ~Disconnected(p) /\ Len(channel[p]) < QueueSize
            /\ Accept(t)
            /\ Return(t)
  /\ UNCHANGED <<worker, is_shutting_down>>

Set(i, fate, status) ==
  LET shown == IF tasks[i].by = "executor" THEN status ELSE tasks[i].status
  IN  tasks' = [tasks EXCEPT ![i] = [@ EXCEPT !.fate = fate, !.status = shown]]

Goes(w, state) == worker' = [worker EXCEPT ![w] = state]

Take(w, i) == Goes(w, [pc |-> "taken", task |-> i]) /\ Set(i, "taken", "Pending")

(* The last worker that leaves drops the channel's receiver. *)
Leave(w) ==
  LET p == PoolOf[w]
      last == \A v \in Workers(p) \ {w} : worker[v].pc = "exited"
      Lost(i) == last /\ tasks[i].pool = p /\ tasks[i].fate = "queued"
  IN  /\ Goes(w, [pc |-> "exited"])
      /\ tasks' = [i \in DOMAIN tasks |->
                     IF Lost(i) THEN [tasks[i] EXCEPT !.fate = "dropped"] ELSE tasks[i]]
      /\ channel' = IF last THEN [channel EXCEPT ![p] = <<>>] ELSE channel

(* The flag is looked at before every receive. *)
WorkerLoop(w) ==
  /\ worker[w].pc = "loop"
  /\ IF is_shutting_down[PoolOf[w]] THEN Leave(w)
     ELSE Goes(w, [pc |-> "recv"]) /\ UNCHANGED <<tasks, channel>>
  /\ UNCHANGED is_shutting_down

(* Mutant: the task that came last is taken. *)
ReceiveLast(w) ==
  /\ worker[w].pc = "recv"
  /\ LET p == PoolOf[w]
     IN  \/ /\ channel[p] # <<>>
            /\ channel' = [channel EXCEPT ![p] = Front(@)]
            /\ Take(w, Last(channel[p]))
         \/ /\ channel[p] = <<>>
            /\ IF is_shutting_down[p] THEN Leave(w)
               ELSE Goes(w, [pc |-> "loop"]) /\ UNCHANGED <<tasks, channel>>
  /\ UNCHANGED is_shutting_down

(* A receive that times out on an empty channel looks at the flag again,   *)
(* and then the loop does.                                                 *)
Receive(w) ==
  /\ worker[w].pc = "recv"
  /\ LET p == PoolOf[w]
     IN  \/ /\ channel[p] # <<>>
            /\ channel' = [channel EXCEPT ![p] = Tail(@)]
            /\ Take(w, Head(channel[p]))
         \/ /\ channel[p] = <<>>
            /\ IF is_shutting_down[p] THEN Leave(w)
               ELSE Goes(w, [pc |-> "loop"]) /\ UNCHANGED <<tasks, channel>>
  /\ UNCHANGED is_shutting_down

(* The executor's closure sets the handle; the function of the task ends,  *)
(* by a return or a panic, or hangs.                                       *)
Start(w) ==
  /\ worker[w].pc = "taken"
  /\ \E hangs \in BOOLEAN :
       Goes(w, [pc |-> "running", task |-> worker[w].task, hangs |-> hangs])
  /\ Set(worker[w].task, "running", "Running")
  /\ UNCHANGED <<channel, is_shutting_down>>

(* Mutant: a panic ends the worker. *)
EndWithPanic(w) ==
  /\ worker[w].pc = "running" /\ ~worker[w].hangs
  /\ Set(worker[w].task, "over", "Ended")
  /\ \E pc \in {"loop", "exited"} : Goes(w, [pc |-> pc])
  /\ UNCHANGED <<channel, is_shutting_down>>

(* A panic is caught; a task that hangs keeps its worker.  A timed task of *)
(* the executor runs in a thread of its own, which the worker joins: the   *)
(* time is compared when it has ended.  "Ended" stands for the handle's    *)
(* Completed, Failed and TimedOut.                                         *)
End(w) ==
  /\ worker[w].pc = "running" /\ ~worker[w].hangs
  /\ Set(worker[w].task, "over", "Ended")
  /\ Goes(w, [pc |-> "loop"])
  /\ UNCHANGED <<channel, is_shutting_down>>

WorkerStep(w) == WorkerLoop(w) \/ Receive(w) \/ Start(w) \/ End(w)

(* ThreadPool::shutdown, and the drop of the pool. *)
StopPool(p) ==
  is_shutting_down' = [is_shutting_down EXCEPT ![p] = TRUE]
  /\ UNCHANGED <<tasks, channel, worker>>
-----------------------------------------------------------------------------
(* The executor and the actor system. *)

CONSTANTS
  Actor,       \* the ids of the actors
  NoActor,     \* no entry in the registry
  Reported     \* bound: the states that are reported of an actor

VARIABLES
  registry     \* the status of every registered actor

executorVars == <<threadVars, registry>>

ExecutorInit == ThreadInit /\ registry = [a \in Actor |-> NoActor]

(* Executor::execute, and ThreadPool::execute_blocking on such a pool.  To *)
(* wait on a handle is to read its status again and again.                 *)
Execute(t) ==
  /\ Submit(t, "executor", "executor", FALSE) \/ Submit(t, "executor", "thread", TRUE)
  /\ UNCHANGED registry

(* ActorSystem::submit *)
SubmitToActors(t) == Submit(t, "actors", "actor", FALSE) /\ UNCHANGED registry

SendTask(t) == Send(t) /\ UNCHANGED registry

(* register_actor overwrites; update_status of an unknown actor is ignored. *)
RegisterActor(t) ==
  /\ CallAtOnce(t)
  /\ \E a \in Actor : registry' = [registry EXCEPT ![a] = "Starting"]
  /\ UNCHANGED threadVars

UpdateStatus(t) ==
  /\ CallAtOnce(t)
  /\ \E a \in Actor, s \in Reported :
       registry[a] # NoActor /\ registry' = [registry EXCEPT ![a] = s]
  /\ UNCHANGED threadVars

Mark(status) ==
  registry' = [a \in Actor |-> IF registry[a] = NoActor THEN NoActor ELSE status]

(* Executor::shutdown, also from its drop, stops its pool and then the     *)
(* actor system that was set; ActorSystem::shutdown begins with the        *)
(* registry.                                                               *)
ShutdownExecutor(t) ==
  /\ CallAtOnce(t) \/ Call(t, [pc |-> "mark"])
  /\ StopPool("executor")
  /\ UNCHANGED registry

ShutdownSystem(t) ==
  Call(t, [pc |-> "stop"]) /\ Mark("Stopping") /\ UNCHANGED threadVars

MarkStopping(t) == At(t, "mark") /\ GotoPc(t, "stop") /\ Mark("Stopping") /\ UNCHANGED threadVars

StopActors(t) ==
  At(t, "stop") /\ GotoPc(t, "marks") /\ StopPool("actors") /\ UNCHANGED registry

(* The actors are marked as stopped whatever their tasks are doing. *)
MarkStopped(t) == At(t, "marks") /\ Return(t) /\ Mark("Stopped") /\ UNCHANGED threadVars

ExecutorCall(t) == Execute(t) \/ ShutdownExecutor(t)

ActorCall(t) ==
  \/ SubmitToActors(t) \/ RegisterActor(t) \/ UpdateStatus(t)
  \/ ShutdownSystem(t) \/ ShutdownExecutor(t)

ExecutorStep(t) ==
  SendTask(t) \/ MarkStopping(t) \/ StopActors(t) \/ MarkStopped(t)

Work(w) == WorkerStep(w) /\ UNCHANGED registry
-----------------------------------------------------------------------------
(* Properties. *)

(* The handle of a task tells what became of it, and the workers of a pool  *)
(* take its tasks in the order in which it accepted them (they may start    *)
(* two in another order).  Between the take and the start the handle still  *)
(* says Pending (thread.rs:233, executor.rs:294).  A task is dropped, and   *)
(* its handle says Pending for ever, only when the pool is shut down and    *)
(* its workers have left (thread.rs:239).                                   *)
TasksTold ==
  \A i \in DOMAIN tasks :
    LET task == tasks[i]
        holds == {w \in Worker : worker[w].pc \in {"taken", "running"} /\ worker[w].task = i}
    IN  /\ Cardinality(holds) = IF task.fate \in {"taken", "running"} THEN 1 ELSE 0
        /\ task.by = "executor" =>
             /\ task.status = "Ended" <=> task.fate = "over"
             /\ task.status = "Running" <=> task.fate = "running"
        /\ task.fate = "dropped" => is_shutting_down[task.pool] /\ Disconnected(task.pool)
        /\ task.fate \in {"queued", "dropped"} =>
             \A j \in (i + 1)..Len(tasks) :
               tasks[j].pool = task.pool => tasks[j].fate \in {"queued", "dropped"}

(* No worker of the pool will receive again. *)
Stuck(p) ==
  \A w \in Workers(p) :
    \/ worker[w].pc = "exited" /\ is_shutting_down[p]
    \/ worker[w].pc = "running" /\ worker[w].hangs

(* A task that waits to start, or a thread that waits for a place for one. *)
Waiting(p) ==
  \/ \E i \in DOMAIN tasks : tasks[i].pool = p /\ tasks[i].fate = "queued"
  \/ \E t \in Caller : At(t, "send") /\ caller[t].pool = p

(* Whatever its tasks do, a pool serves: the tasks it accepted are started, *)
(* or dropped at a shutdown, and an execute_blocking that waits for a place *)
(* (thread.rs:346) returns, unless each worker runs a task that hangs or    *)
(* has left at a shutdown: no panic ends a worker (thread.rs:256), and the  *)
(* executor's timeout does not end a task that hangs (executor.rs:313).     *)
PoolServes == \A p \in Pool : Waiting(p) ~> (~Waiting(p) \/ Stuck(p))
=============================================================================
