-------------------------- MODULE Libraries_proofs --------------------------
(***************************************************************************)
(* For any number of threads, workers, actors and plugins, any sizes of    *)
(* the pools and any width of a counter: a handle tells what became of its *)
(* task, no resource, instance or count is lost that the statistics do not *)
(* lose as well, the locks and atomics tell what was done to them, an      *)
(* answer was right when it was given, the readers of the rules agree,     *)
(* no event or measurement is lost unseen, and a path of a configuration   *)
(* reads what was set there.                                               *)
(*                                                                         *)
(* The libraries are used one after the other, and a thread stands at a    *)
(* step of the one in use (CallersAtPart): a step of another library       *)
(* cannot be taken, and the variables of the others rest.                  *)
(*                                                                         *)
(* Of the executor, TasksTold says what a handle shows for each fate of    *)
(* its task.  That it is kept takes the whole path of a task: a channel    *)
(* holds exactly the tasks that wait, in the order of their acceptance     *)
(* (ChannelsHoldTasks); a task that was taken is held by one worker        *)
(* (WorkersRunTasks); so the one that is taken next is the oldest that     *)
(* waits, and the end of a run is the end of one task.  A shutdown drops   *)
(* what waits only once every worker of the pool has left its loop.        *)
(*                                                                         *)
(* Of the resource pool, the bound on the resources that live counts those *)
(* about to be created as well (Underway): a thread that compares the size *)
(* finds it below the maximum while at most the others are on their way.   *)
(* And what a shutdown leaves in the queue counts the returns that have    *)
(* still to push.  The instance pool needs what its entries can hold, the  *)
(* isolation backend that a plugin's one instance has counted the calls.   *)
(*                                                                         *)
(* Of the locks, the statistics are followed through the drop of a guard   *)
(* (StatsTell): the maximum is the longest time held, or a thread that     *)
(* held a guard so long is about to raise it, and it raises it only from   *)
(* below; the time held is that of the guards released, which are the      *)
(* acquisitions counted less the guards out; and a reset that tears none   *)
(* of this is alone, with nobody inside.  Of the atomics, the counter goes *)
(* below zero for those a reset forgot and wraps around at most once.      *)
(*                                                                         *)
(* Of the policies, a listing has found what matches among the rules it    *)
(* has read (CallSound), unless the rules changed meanwhile; and of the    *)
(* rules with the highest priority that decide, any may be the first, so   *)
(* that what a reader may answer can be said without the order             *)
(* (BestDecides).  RulesAgree needs no more than that what is stored are   *)
(* rules.                                                                  *)
(*                                                                         *)
(* Of observability, a thread will find at each depth what it entered      *)
(* there (Restores); an accepted event is written, lost, buffered or being *)
(* flushed; a handle's counter is exported or about to be; and who exports *)
(* a gauge carries its value, unless another was faster (GaugeCall).       *)
(* Sums over sets are folds, which choose an order: a sum of naturals is   *)
(* the number of its units (Total), and of that a step changes one term.   *)
(*                                                                         *)
(* Of a configuration it is enough that all of it are values.  The rest    *)
(* is about what the functions return, for any value and any paths: that   *)
(* two paths lead to the same as far as they agree, what is rebuilt along  *)
(* one, and what of that another still finds; and that versions differ     *)
(* first at one place, at which the signs of three are in order.           *)
(***************************************************************************)
EXTENDS Libraries, FiniteSetTheorems, SequenceTheorems, WellFoundedInduction, TLAPS

-----------------------------------------------------------------------------
(* The executor and the actor system, each with its pool. *)
Fate == {"queued", "taken", "running", "over", "dropped"}

Progress == {"Pending", "Running", "Ended"}

Submitter == {"executor", "thread", "actor"}

Task == [pool : Pool, by : Submitter, fate : Fate, status : Progress]

Submission == [pc : {"send"}, pool : Pool, by : Submitter, blocks : BOOLEAN]

Shutdown == [pc : {"mark", "stop", "marks"}]

Resting == [pc : {"loop", "recv", "exited"}]

InHand == {"taken", "running"}

Running == [pc : {"taken"}, task : Nat] \cup [pc : {"running"}, task : Nat, hangs : BOOLEAN]

ExecutorTyped ==
  /\ tasks \in Seq(Task)
  /\ channel \in [Pool -> Seq(Nat)]
  /\ worker \in [Worker -> Resting \cup Running]
  /\ is_shutting_down \in [Pool -> BOOLEAN]
  /\ caller \in [Caller -> {Idle} \cup Submission \cup Shutdown]

Queued(i, p) == i \in DOMAIN tasks /\ tasks[i].pool = p /\ tasks[i].fate = "queued"

(* A channel holds the tasks that wait, in the order of their acceptance. *)
ChannelsHoldTasks ==
  \A p \in Pool :
    /\ \A k \in DOMAIN channel[p] : Queued(channel[p][k], p)
    /\ \A k, l \in DOMAIN channel[p] : k < l => channel[p][k] < channel[p][l]
    /\ \A i \in DOMAIN tasks : Queued(i, p) => \E k \in DOMAIN channel[p] : channel[p][k] = i

Runs(w, i) == worker[w].pc \in InHand /\ worker[w].task = i

WorkersRunTasks ==
  /\ \A w \in Worker : \A i : Runs(w, i) => i \in DOMAIN tasks /\ tasks[i].fate = worker[w].pc
  /\ \A v, w \in Worker : \A i : Runs(v, i) /\ Runs(w, i) => v = w
  /\ \A i \in DOMAIN tasks : tasks[i].fate \in InHand => \E w \in Worker : Runs(w, i)

NotTaken(i) == tasks[i].fate \in {"queued", "dropped"}

HandlesTell ==
  \A i \in DOMAIN tasks : tasks[i].by = "executor" =>
    /\ tasks[i].status = "Ended" <=> tasks[i].fate = "over"
    /\ tasks[i].status = "Running" <=> tasks[i].fate = "running"

DropsAtShutdown ==
  \A i \in DOMAIN tasks : tasks[i].fate = "dropped" =>
    is_shutting_down[tasks[i].pool] /\ Disconnected(tasks[i].pool)

TakenInOrder ==
  \A i, j \in DOMAIN tasks :
    i < j /\ tasks[i].pool = tasks[j].pool /\ NotTaken(i) => NotTaken(j)

ExecutorInv ==
  /\ ExecutorTyped /\ ChannelsHoldTasks /\ WorkersRunTasks /\ HandlesTell /\ DropsAtShutdown
  /\ TakenInOrder

-----------------------------------------------------------------------------
LEMMA ExecutorInitInv ==
  ASSUME CallsInit, ExecutorInit
  PROVE  ExecutorInv
<1>1. ExecutorTyped
  BY DEF CallsInit, ExecutorInit, ThreadInit, ExecutorTyped, Resting
<1>2. /\ DOMAIN tasks = {} /\ \A p \in Pool : DOMAIN channel[p] = {}
      /\ \A w \in Worker : worker[w].pc = "loop"
  BY DEF CallsInit, ExecutorInit, ThreadInit
<1> QED
  BY <1>1, <1>2 DEF ExecutorInv, ChannelsHoldTasks, WorkersRunTasks, HandlesTell, DropsAtShutdown,
                    TakenInOrder, Runs, InHand

(* The status of a task that is set. *)
LEMMA SetFacts ==
  ASSUME ExecutorTyped, NEW i \in DOMAIN tasks, NEW fate \in Fate, NEW status \in Progress,
         Set(i, fate, status)
  PROVE  /\ tasks' \in Seq(Task) /\ DOMAIN tasks' = DOMAIN tasks
         /\ \A j \in DOMAIN tasks : tasks'[j].pool = tasks[j].pool /\ tasks'[j].by = tasks[j].by
         /\ \A j \in DOMAIN tasks : j # i => tasks'[j] = tasks[j]
         /\ tasks'[i].fate = fate
         /\ tasks[i].by = "executor" => tasks'[i].status = status
<1>0. tasks \in Seq(Task) /\ tasks[i] \in Task
  BY DEF ExecutorTyped
<1> DEFINE shown == IF tasks[i].by = "executor" THEN status ELSE tasks[i].status
           task == [tasks[i] EXCEPT !.fate = fate, !.status = shown]
<1>1. shown \in Progress
  BY <1>0 DEF Task
<1>2. /\ task \in Task /\ task.pool = tasks[i].pool /\ task.by = tasks[i].by
      /\ task.fate = fate /\ task.status = shown
  BY <1>0, <1>1 DEF Task
<1>3. tasks' = [tasks EXCEPT ![i] = task]
  BY DEF Set
<1> HIDE DEF task
<1> QED BY <1>0, <1>2, <1>3

(* What a thread is doing. *)
ThreadState == {Idle} \cup Submission \cup Shutdown

LEMMA CallerFacts ==
  ASSUME ExecutorTyped, NEW t \in Caller, NEW state \in ThreadState,
         caller' = [caller EXCEPT ![t] = state]
  PROVE  caller' \in [Caller -> ThreadState]
BY DEF ExecutorTyped, ThreadState

LEMMA MovesTyped ==
  /\ Idle \in ThreadState /\ Idle.pc = "idle"
  /\ \A pc \in {"mark", "stop", "marks"} : [pc |-> pc] \in ThreadState
  /\ \A p \in Pool, by \in Submitter, blocks \in BOOLEAN :
       LET state == [pc |-> "send", pool |-> p, by |-> by, blocks |-> blocks]
       IN  state \in ThreadState /\ state.pc = "send"
BY DEF ThreadState, Submission, Shutdown, Idle

LEMMA StateFacts ==
  ASSUME ExecutorTyped, NEW t \in Caller
  PROVE  /\ At(t, "send") => caller[t] \in Submission
         /\ At(t, "mark") \/ At(t, "stop") \/ At(t, "marks") => caller[t] = [pc |-> caller[t].pc]
BY DEF ExecutorTyped, ThreadState, Submission, Shutdown, Idle, At

(* The steps that leave tasks, channels and workers alone. *)
LEMMA TasksLeft ==
  ASSUME ExecutorInv, UNCHANGED <<tasks, channel, worker>>,
         \A p \in Pool : is_shutting_down[p] => is_shutting_down'[p]
  PROVE  /\ ChannelsHoldTasks' /\ WorkersRunTasks' /\ HandlesTell' /\ DropsAtShutdown'
         /\ TakenInOrder'
<1>1. ChannelsHoldTasks'
  BY DEF ExecutorInv, ChannelsHoldTasks, Queued
<1>2. WorkersRunTasks'
  BY DEF ExecutorInv, WorkersRunTasks, Runs
<1>3. HandlesTell' /\ TakenInOrder'
  BY DEF ExecutorInv, HandlesTell, TakenInOrder, NotTaken
<1>4. DropsAtShutdown'
  <2>1. \A i \in DOMAIN tasks : tasks[i].pool \in Pool
    <3>1. tasks \in Seq(Task) /\ \A task \in Task : task.pool \in Pool
      BY DEF ExecutorInv, ExecutorTyped, Task
    <3> QED BY <3>1
  <2>2. \A p \in Pool : Disconnected(p) => Disconnected(p)'
    BY DEF Disconnected, Workers
  <2> QED BY <2>1, <2>2 DEF ExecutorInv, DropsAtShutdown
<1> QED BY <1>1, <1>2, <1>3, <1>4

(* A call that begins, and a shutdown on its way. *)
LEMMA CallerMoves ==
  ASSUME ExecutorInv, NEW t \in Caller, NEW state \in ThreadState,
         caller' = [caller EXCEPT ![t] = state],
         UNCHANGED <<tasks, channel, worker>>,
         UNCHANGED is_shutting_down \/ \E p \in Pool : StopPool(p)
  PROVE  ExecutorInv'
<1>1. /\ is_shutting_down' \in [Pool -> BOOLEAN]
      /\ \A p \in Pool : is_shutting_down[p] => is_shutting_down'[p]
  BY DEF ExecutorInv, ExecutorTyped, StopPool
<1>2. ExecutorTyped'
  BY <1>1, CallerFacts DEF ExecutorInv, ExecutorTyped, ThreadState
<1> QED BY <1>1, <1>2, TasksLeft DEF ExecutorInv

LEMMA CallsKept ==
  ASSUME ExecutorInv, NEW t \in Caller, ExecutorCall(t) \/ ActorCall(t)
  PROVE  ExecutorInv'
<1> USE DEF threadVars
<1>1. CASE Execute(t) \/ SubmitToActors(t)
  <2>1. PICK p \in Pool, by \in Submitter, blocks \in BOOLEAN : Submit(t, p, by, blocks)
    BY <1>1 DEF Execute, SubmitToActors, Pool, Submitter
  <2>2. PICK state \in ThreadState : caller' = [caller EXCEPT ![t] = state]
    BY <2>1, MovesTyped DEF Submit, Call
  <2> QED BY <2>1, <2>2, CallerMoves DEF Submit
<1>2. CASE RegisterActor(t) \/ UpdateStatus(t) \/ ShutdownSystem(t) \/ ShutdownExecutor(t)
  <2>1. PICK state \in ThreadState : caller' = [caller EXCEPT ![t] = state]
    BY <1>2, MovesTyped
    DEF RegisterActor, UpdateStatus, ShutdownSystem, ShutdownExecutor, CallAtOnce, Call
  <2>2. /\ UNCHANGED <<tasks, channel, worker>>
        /\ UNCHANGED is_shutting_down \/ \E p \in Pool : StopPool(p)
    BY <1>2 DEF RegisterActor, UpdateStatus, ShutdownSystem, ShutdownExecutor, StopPool, Pool
  <2> QED BY <2>1, <2>2, CallerMoves
<1> QED BY <1>1, <1>2 DEF ExecutorCall, ActorCall

(* The steps of a shutdown. *)
LEMMA ShutdownKept ==
  ASSUME ExecutorInv, NEW t \in Caller, MarkStopping(t) \/ StopActors(t) \/ MarkStopped(t)
  PROVE  ExecutorInv'
<1> USE DEF threadVars
<1>1. PICK pc : /\ caller[t] = [pc |-> pc]
                /\ Return(t) \/ \E to \in {"stop", "marks"} : GotoPc(t, to)
  BY StateFacts DEF MarkStopping, StopActors, MarkStopped, ExecutorInv
<1>2. PICK state \in ThreadState : caller' = [caller EXCEPT ![t] = state]
  <2>1. \A to : [caller[t] EXCEPT !.pc = to] = [pc |-> to]
    BY <1>1
  <2> QED BY <1>1, <2>1, MovesTyped DEF GotoPc, Goto, Return
<1>3. /\ UNCHANGED <<tasks, channel, worker>>
      /\ UNCHANGED is_shutting_down \/ \E p \in Pool : StopPool(p)
  BY DEF MarkStopping, StopActors, MarkStopped, StopPool, Pool
<1> QED BY <1>2, <1>3, CallerMoves

(* A task is accepted: the last of its channel, and of all tasks. *)
LEMMA SendKept ==
  ASSUME ExecutorInv, NEW t \in Caller, SendTask(t)
  PROVE  ExecutorInv'
<1> USE DEF threadVars
<1> DEFINE p == caller[t].pool
           new == [pool |-> p, by |-> caller[t].by, fate |-> "queued", status |-> "Pending"]
<1>0. ExecutorTyped
  BY DEF ExecutorInv
<1> PICK n : n = Len(tasks) + 1 OBVIOUS
<1>1. caller[t] \in Submission
  BY <1>0, StateFacts DEF SendTask, Send
<1>2. /\ p \in Pool /\ new \in Task
      /\ new.pool = p /\ new.fate = "queued" /\ new.status = "Pending"
  BY <1>1 DEF Submission, Task, Fate, Progress
<1>3. /\ tasks \in Seq(Task) /\ channel \in [Pool -> Seq(Nat)] /\ n \in Nat
  BY <1>0 DEF ExecutorTyped
<1>4. /\ caller' = [caller EXCEPT ![t] = Idle]
      /\ UNCHANGED <<worker, is_shutting_down, registry>>
      /\ \/ UNCHANGED <<tasks, channel>>
         \/ /\ ~Disconnected(p)
            /\ tasks' = Append(tasks, new)
            /\ channel' = [channel EXCEPT ![p] = Append(channel[p], n)]
  BY DEF SendTask, Send, Accept, Return, Goto
<1> HIDE DEF p, new
<1>5. CASE UNCHANGED <<tasks, channel>>
  BY <1>4, <1>5, MovesTyped, CallerMoves
<1>6. CASE /\ ~Disconnected(p)
           /\ tasks' = Append(tasks, new)
           /\ channel' = [channel EXCEPT ![p] = Append(channel[p], n)]
  <2>1. /\ tasks' \in Seq(Task) /\ DOMAIN tasks' = DOMAIN tasks \cup {n} /\ tasks'[n] = new
        /\ n \notin DOMAIN tasks /\ \A i \in DOMAIN tasks : tasks'[i] = tasks[i] /\ i < n
        /\ \A i \in DOMAIN tasks' : i \in Nat
    BY <1>2, <1>3, <1>6
  <2>2. /\ channel' \in [Pool -> Seq(Nat)]
        /\ \A q \in Pool : q # p => channel'[q] = channel[q]
        /\ channel'[p] = Append(channel[p], n)
    BY <1>2, <1>3, <1>6
  <2>3. /\ DOMAIN channel'[p] = DOMAIN channel[p] \cup {Len(channel[p]) + 1}
        /\ channel'[p][Len(channel[p]) + 1] = n
        /\ \A k \in DOMAIN channel[p] : channel'[p][k] = channel[p][k] /\ k < Len(channel[p]) + 1
        /\ \A k \in DOMAIN channel'[p] : k \in 1 .. Len(channel[p]) + 1
        /\ Len(channel[p]) \in Nat
    BY <1>2, <1>3, <2>2
  <2>4. ExecutorTyped'
    <3>1. caller' \in [Caller -> ThreadState]
      BY <1>0, <1>4, CallerFacts, MovesTyped
    <3> QED BY <1>0, <1>4, <2>1, <2>2, <3>1 DEF ExecutorTyped, ThreadState
  <2>5. ChannelsHoldTasks'
    <3> SUFFICES ASSUME NEW q \in Pool
                 PROVE  /\ \A k \in DOMAIN channel'[q] : Queued(channel[q][k], q)'
                        /\ \A k, l \in DOMAIN channel'[q] : k < l => channel'[q][k] < channel'[q][l]
                        /\ \A i \in DOMAIN tasks' : Queued(i, q)' =>
                             \E k \in DOMAIN channel'[q] : channel'[q][k] = i
      BY DEF ChannelsHoldTasks
    <3>1. /\ \A k \in DOMAIN channel[q] : Queued(channel[q][k], q)
          /\ \A k, l \in DOMAIN channel[q] : k < l => channel[q][k] < channel[q][l]
          /\ \A i \in DOMAIN tasks : Queued(i, q) => \E k \in DOMAIN channel[q] : channel[q][k] = i
      BY DEF ExecutorInv, ChannelsHoldTasks
    <3>2. \A i \in DOMAIN tasks : Queued(i, q)' <=> Queued(i, q)
      BY <2>1 DEF Queued
    <3>3. Queued(n, q)' <=> q = p
      BY <1>2, <2>1 DEF Queued
    <3>4. CASE q # p
      <4>1. channel'[q] = channel[q]
        BY <2>2, <3>4
      <4>2. \A k \in DOMAIN channel[q] : channel[q][k] \in DOMAIN tasks
        BY <3>1 DEF Queued
      <4>3. \A k \in DOMAIN channel'[q] : Queued(channel[q][k], q)'
        <5> SUFFICES ASSUME NEW k \in DOMAIN channel[q] PROVE Queued(channel[q][k], q)'
          BY <4>1
        <5> PICK i : i = channel[q][k] OBVIOUS
        <5>1. Queued(i, q)'
          BY <3>1, <3>2, <4>2
        <5> QED BY <4>1, <5>1 DEF Queued
      <4> QED BY <2>1, <3>1, <3>2, <3>3, <3>4, <4>1, <4>3
    <3>5. CASE q = p
      <4>1. \A k \in DOMAIN channel[p] : channel[p][k] \in DOMAIN tasks
        BY <3>1, <3>5 DEF Queued
      <4>2. \A k \in DOMAIN channel'[q] : Queued(channel[q][k], q)'
        <5> SUFFICES ASSUME NEW k \in DOMAIN channel'[q] PROVE Queued(channel[q][k], q)' OBVIOUS
        <5> PICK i : i = channel'[q][k] OBVIOUS
        <5>1. i = n \/ (i \in DOMAIN tasks /\ Queued(i, q))
          BY <2>3, <3>1, <3>5, <4>1
        <5>2. Queued(i, q)'
          BY <3>2, <3>3, <3>5, <5>1
        <5> QED BY <5>2 DEF Queued
      <4>3. \A k, l \in DOMAIN channel'[q] : k < l => channel'[q][k] < channel'[q][l]
        BY <2>1, <2>3, <3>1, <3>5, <4>1
      <4>4. \A i \in DOMAIN tasks' : Queued(i, q)' =>
              \E k \in DOMAIN channel'[q] : channel'[q][k] = i
        BY <2>1, <2>3, <3>1, <3>2, <3>5
      <4> QED BY <4>2, <4>3, <4>4
    <3> QED BY <3>4, <3>5
  <2>6. WorkersRunTasks'
    BY <1>2, <1>4, <2>1 DEF ExecutorInv, WorkersRunTasks, Runs, InHand
  <2>7. HandlesTell'
    BY <1>2, <2>1 DEF ExecutorInv, HandlesTell, NotTaken
  <2>8. DropsAtShutdown'
    <3>1. \A q : Disconnected(q)' <=> Disconnected(q)
      BY <1>4 DEF Disconnected, Workers
    <3> QED BY <1>2, <1>4, <2>1, <3>1 DEF ExecutorInv, DropsAtShutdown
  <2>9. TakenInOrder'
    BY <1>2, <2>1 DEF ExecutorInv, TakenInOrder, NotTaken
  <2> QED BY <2>4, <2>5, <2>6, <2>7, <2>8, <2>9 DEF ExecutorInv
<1> QED BY <1>4, <1>5, <1>6

(* A worker that moves, and runs no task. *)
LEMMA RestFacts ==
  ASSUME ExecutorTyped, NEW w \in Worker, NEW state \in Resting, Goes(w, state)
  PROVE  /\ worker' \in [Worker -> Resting \cup Running]
         /\ worker'[w].pc = state.pc /\ \A v \in Worker : v # w => worker'[v] = worker[v]
         /\ \A v \in Worker : \A i : Runs(v, i)' <=> v # w /\ Runs(v, i)
BY DEF ExecutorTyped, Goes, Resting, Runs, InHand

(* The loop looks at the flag, and the receive times out. *)
LEMMA PollKept ==
  ASSUME ExecutorInv, NEW w \in Worker, worker[w].pc \in {"loop", "recv"},
         NEW pc \in {"loop", "recv"}, Goes(w, [pc |-> pc]),
         UNCHANGED <<tasks, channel, is_shutting_down, registry, caller>>
  PROVE  ExecutorInv'
<1> DEFINE state == [pc |-> pc]
<1>1. state \in Resting /\ state.pc = pc
  BY DEF Resting
<1> HIDE DEF state
<1>2. /\ worker' \in [Worker -> Resting \cup Running] /\ worker'[w].pc = pc
      /\ \A v \in Worker : v # w => worker'[v] = worker[v]
      /\ \A v \in Worker : \A i : Runs(v, i)' <=> Runs(v, i)
      /\ \A i : ~Runs(w, i)
  <2>1. Goes(w, state)
    BY DEF state
  <2> QED BY <1>1, <2>1, RestFacts DEF ExecutorInv, Runs, InHand
<1>3. ExecutorTyped'
  BY <1>2 DEF ExecutorInv, ExecutorTyped
<1>4. ChannelsHoldTasks' /\ HandlesTell' /\ TakenInOrder'
  BY DEF ExecutorInv, ChannelsHoldTasks, HandlesTell, TakenInOrder, Queued, NotTaken
<1>5. WorkersRunTasks'
  BY <1>2 DEF ExecutorInv, WorkersRunTasks
<1>6. DropsAtShutdown'
  <2>1. \A p : Disconnected(p)' <=> Disconnected(p)
    BY <1>2 DEF Disconnected, Workers
  <2> QED BY <2>1 DEF ExecutorInv, DropsAtShutdown
<1> QED BY <1>3, <1>4, <1>5, <1>6 DEF ExecutorInv

(* A worker leaves at a shutdown, the last with what the channel holds. *)
LEMMA LeaveKept ==
  ASSUME ExecutorInv, NEW w \in Worker, worker[w].pc \in {"loop", "recv"},
         is_shutting_down[PoolOf[w]], Leave(w),
         UNCHANGED <<is_shutting_down, registry, caller>>
  PROVE  ExecutorInv'
<1> DEFINE p == PoolOf[w]
           last == \A v \in Workers(p) \ {w} : worker[v].pc = "exited"
           Lost(i) == last /\ tasks[i].pool = p /\ tasks[i].fate = "queued"
           state == [pc |-> "exited"]
<1>0. ExecutorTyped /\ p \in Pool
  BY WorkersHavePools DEF ExecutorInv
<1>1. /\ Goes(w, state)
      /\ tasks' = [i \in DOMAIN tasks |->
                     IF Lost(i) THEN [tasks[i] EXCEPT !.fate = "dropped"] ELSE tasks[i]]
      /\ channel' = IF last THEN [channel EXCEPT ![p] = <<>>] ELSE channel
  BY DEF Leave
<1>2. state \in Resting /\ state.pc = "exited"
  BY DEF Resting
<1>3. tasks \in Seq(Task) /\ \A i \in DOMAIN tasks : tasks[i] \in Task
  BY <1>0 DEF ExecutorTyped
<1> HIDE DEF state
<1>4. /\ worker' \in [Worker -> Resting \cup Running] /\ worker'[w].pc = "exited"
      /\ \A v \in Worker : v # w => worker'[v] = worker[v]
      /\ \A v \in Worker : \A i : Runs(v, i)' <=> Runs(v, i)
      /\ \A i : ~Runs(w, i)
  <2>1. ~\E i : Runs(w, i)
    BY DEF Runs, InHand
  <2> QED BY <1>0, <1>1, <1>2, <2>1, RestFacts
<1>5. \A i \in DOMAIN tasks :
        /\ [tasks[i] EXCEPT !.fate = "dropped"] \in Task
        /\ [tasks[i] EXCEPT !.fate = "dropped"].fate = "dropped"
        /\ [tasks[i] EXCEPT !.fate = "dropped"].pool = tasks[i].pool
        /\ [tasks[i] EXCEPT !.fate = "dropped"].by = tasks[i].by
        /\ [tasks[i] EXCEPT !.fate = "dropped"].status = tasks[i].status
  BY <1>3 DEF Task, Fate
<1>6. /\ tasks' \in Seq(Task) /\ DOMAIN tasks' = DOMAIN tasks
      /\ \A i \in DOMAIN tasks :
           /\ tasks'[i].pool = tasks[i].pool /\ tasks'[i].by = tasks[i].by
           /\ tasks'[i].status = tasks[i].status
           /\ tasks'[i].fate = IF Lost(i) THEN "dropped" ELSE tasks[i].fate
  <2> DEFINE Then(i) == IF Lost(i) THEN [tasks[i] EXCEPT !.fate = "dropped"] ELSE tasks[i]
  <2>1. \A i \in DOMAIN tasks :
          /\ Then(i) \in Task
          /\ Then(i).pool = tasks[i].pool /\ Then(i).by = tasks[i].by
          /\ Then(i).status = tasks[i].status
          /\ Then(i).fate = IF Lost(i) THEN "dropped" ELSE tasks[i].fate
    BY <1>3, <1>5
  <2>2. tasks' = [i \in DOMAIN tasks |-> Then(i)]
    BY <1>1
  <2> HIDE DEF Then, Lost
  <2>3. tasks' = [i \in 1 .. Len(tasks) |-> Then(i)] /\ Len(tasks) \in Nat
        /\ DOMAIN tasks = 1 .. Len(tasks)
    BY <1>3, <2>2
  <2>4. tasks' \in Seq(Task)
    BY <2>1, <2>3, IsASeq
  <2> QED BY <2>1, <2>2, <2>4
<1>7. ExecutorTyped'
  <2>1. channel' \in [Pool -> Seq(Nat)]
    BY <1>0, <1>1 DEF ExecutorTyped
  <2> QED BY <1>0, <1>4, <1>6, <2>1 DEF ExecutorTyped
<1>9. ChannelsHoldTasks'
  <2> SUFFICES ASSUME NEW q \in Pool
               PROVE  /\ \A k \in DOMAIN channel'[q] : Queued(channel[q][k], q)'
                      /\ \A k, l \in DOMAIN channel'[q] : k < l => channel'[q][k] < channel'[q][l]
                      /\ \A i \in DOMAIN tasks' : Queued(i, q)' =>
                           \E k \in DOMAIN channel'[q] : channel'[q][k] = i
    BY DEF ChannelsHoldTasks
  <2>1. /\ \A k \in DOMAIN channel[q] : Queued(channel[q][k], q)
        /\ \A k, l \in DOMAIN channel[q] : k < l => channel[q][k] < channel[q][l]
        /\ \A i \in DOMAIN tasks : Queued(i, q) => \E k \in DOMAIN channel[q] : channel[q][k] = i
    BY DEF ExecutorInv, ChannelsHoldTasks
  <2>2. CASE last /\ q = p
    <3>1. channel'[q] = <<>> /\ DOMAIN channel'[q] = {}
      BY <1>0, <1>1, <2>2 DEF ExecutorTyped
    <3>2. \A i \in DOMAIN tasks' : ~Queued(i, q)'
      BY <1>6, <2>2 DEF Queued
    <3> QED BY <3>1, <3>2
  <2>3. CASE ~(last /\ q = p)
    <3>1. channel'[q] = channel[q]
      BY <1>0, <1>1, <2>3 DEF ExecutorTyped
    <3>2. \A i : Queued(i, q)' <=> Queued(i, q)
      BY <1>6, <2>3 DEF Queued
    <3>3. \A k \in DOMAIN channel'[q] : Queued(channel[q][k], q)'
      <4> SUFFICES ASSUME NEW k \in DOMAIN channel'[q] PROVE Queued(channel[q][k], q)' OBVIOUS
      <4> PICK i : i = channel'[q][k] OBVIOUS
      <4>1. Queued(i, q)'
        BY <2>1, <3>1, <3>2
      <4> QED BY <4>1 DEF Queued
    <3> QED BY <1>6, <2>1, <3>1, <3>2, <3>3
  <2> QED BY <2>2, <2>3
<1>10. WorkersRunTasks'
  <2>1. \A v \in Worker : \A i : Runs(v, i)' => i \in DOMAIN tasks' /\ tasks'[i].fate = worker'[v].pc
    <3> SUFFICES ASSUME NEW v \in Worker, NEW i, Runs(v, i)
                 PROVE  i \in DOMAIN tasks' /\ tasks'[i].fate = worker'[v].pc
      BY <1>4
    <3>1. v # w /\ i \in DOMAIN tasks /\ tasks[i].fate = worker[v].pc /\ worker[v].pc \in InHand
      BY <1>4 DEF ExecutorInv, WorkersRunTasks, Runs
    <3> QED BY <1>4, <1>6, <3>1 DEF InHand
  <2>2. \A i \in DOMAIN tasks' : tasks'[i].fate \in InHand => tasks[i].fate \in InHand
    BY <1>6 DEF InHand
  <2> QED BY <1>4, <1>6, <2>1, <2>2 DEF ExecutorInv, WorkersRunTasks
<1>11. HandlesTell' /\ TakenInOrder'
  BY <1>6 DEF ExecutorInv, HandlesTell, TakenInOrder, NotTaken
<1>12. DropsAtShutdown'
  <2>1. \A q : Disconnected(q) => Disconnected(q)'
    BY <1>4 DEF Disconnected, Workers
  <2>2. last => Disconnected(p)'
    BY <1>4 DEF Disconnected, Workers
  <2> SUFFICES ASSUME NEW i \in DOMAIN tasks', tasks'[i].fate = "dropped"
               PROVE  is_shutting_down'[tasks'[i].pool] /\ Disconnected(tasks[i].pool)'
    BY DEF DropsAtShutdown
  <2> PICK q : q = tasks[i].pool OBVIOUS
  <2>3. is_shutting_down[q] /\ (Disconnected(q) \/ (last /\ q = p))
    BY <1>6 DEF ExecutorInv, DropsAtShutdown
  <2>4. is_shutting_down'[q] /\ Disconnected(q)' /\ q = tasks'[i].pool
    BY <1>6, <2>1, <2>2, <2>3
  <2> QED BY <2>4 DEF Disconnected, Workers
<1> QED BY <1>7, <1>9, <1>10, <1>11, <1>12 DEF ExecutorInv

(* A worker takes the first task of its channel. *)
LEMMA TakeKept ==
  ASSUME ExecutorInv, NEW w \in Worker, worker[w].pc = "recv",
         channel[PoolOf[w]] # <<>>,
         channel' = [channel EXCEPT ![PoolOf[w]] = Tail(@)],
         Take(w, Head(channel[PoolOf[w]])),
         UNCHANGED <<is_shutting_down, registry, caller>>
  PROVE  ExecutorInv'
<1> PICK p : p = PoolOf[w] OBVIOUS
<1> PICK queue : queue = channel[p] OBVIOUS
<1> PICK i : i = Head(queue) OBVIOUS
<1>0. ExecutorTyped /\ p \in Pool /\ queue \in Seq(Nat) /\ queue # <<>>
  BY WorkersHavePools DEF ExecutorInv, ExecutorTyped
<1>1. /\ Len(queue) \in Nat \ {0} /\ DOMAIN queue = 1 .. Len(queue) /\ i = queue[1]
      /\ Tail(queue) \in Seq(Nat) /\ DOMAIN Tail(queue) = 1 .. Len(queue) - 1
      /\ \A k \in 1 .. Len(queue) - 1 : Tail(queue)[k] = queue[k + 1]
  BY <1>0
<1>2. channel' = [channel EXCEPT ![p] = Tail(queue)] OBVIOUS
<1>3. /\ channel' \in [Pool -> Seq(Nat)] /\ channel'[p] = Tail(queue)
      /\ \A q \in Pool : q # p => channel'[q] = channel[q]
  BY <1>0, <1>1, <1>2 DEF ExecutorTyped
<1>4. /\ \A k \in DOMAIN queue : Queued(queue[k], p)
      /\ \A k, l \in DOMAIN queue : k < l => queue[k] < queue[l]
      /\ \A j \in DOMAIN tasks : Queued(j, p) => \E k \in DOMAIN queue : queue[k] = j
  BY <1>0 DEF ExecutorInv, ChannelsHoldTasks
<1>5. i \in DOMAIN tasks /\ tasks[i].pool = p /\ tasks[i].fate = "queued" /\ i \in Nat
  <2>1. i \in DOMAIN tasks /\ tasks[i].pool = p /\ tasks[i].fate = "queued"
    BY <1>1, <1>4 DEF Queued
  <2> QED BY <1>0, <2>1 DEF ExecutorTyped
<1>7. /\ worker' \in [Worker -> Resting \cup Running]
      /\ worker'[w].pc = "taken" /\ worker'[w].task = i
      /\ \A v \in Worker : v # w => worker'[v] = worker[v]
  <2> DEFINE state == [pc |-> "taken", task |-> i]
  <2>1. state \in Running /\ state.pc = "taken" /\ state.task = i
    BY <1>5 DEF Running
  <2>2. Goes(w, state)
    BY DEF Take
  <2> HIDE DEF state
  <2> QED BY <1>0, <2>1, <2>2 DEF ExecutorTyped, Goes
<1>8. /\ tasks' \in Seq(Task) /\ DOMAIN tasks' = DOMAIN tasks
      /\ \A j \in DOMAIN tasks : tasks'[j].pool = tasks[j].pool /\ tasks'[j].by = tasks[j].by
      /\ \A j \in DOMAIN tasks : j # i => tasks'[j] = tasks[j]
      /\ tasks'[i].fate = "taken"
      /\ tasks[i].by = "executor" => tasks'[i].status = "Pending"
  <2>1. Set(i, "taken", "Pending")
    BY DEF Take
  <2>2. "taken" \in Fate /\ "Pending" \in Progress
    BY DEF Fate, Progress
  <2> QED BY <1>0, <1>5, <2>1, <2>2, SetFacts
<1>9. ExecutorTyped'
  BY <1>0, <1>3, <1>7, <1>8 DEF ExecutorTyped
<1>11. ChannelsHoldTasks'
  <2> SUFFICES ASSUME NEW q \in Pool
               PROVE  /\ \A k \in DOMAIN channel'[q] : Queued(channel[q][k], q)'
                      /\ \A k, l \in DOMAIN channel'[q] : k < l => channel'[q][k] < channel'[q][l]
                      /\ \A j \in DOMAIN tasks' : Queued(j, q)' =>
                           \E k \in DOMAIN channel'[q] : channel'[q][k] = j
    BY DEF ChannelsHoldTasks
  <2>1. \A j : Queued(j, q)' <=> j # i /\ Queued(j, q)
    BY <1>5, <1>8 DEF Queued
  <2>2. CASE q # p
    <3>1. /\ \A k \in DOMAIN channel[q] : Queued(channel[q][k], q)
          /\ \A k, l \in DOMAIN channel[q] : k < l => channel[q][k] < channel[q][l]
          /\ \A j \in DOMAIN tasks : Queued(j, q) =>
               \E k \in DOMAIN channel[q] : channel[q][k] = j
      BY DEF ExecutorInv, ChannelsHoldTasks
    <3>2. ~Queued(i, q)
      BY <1>5, <2>2 DEF Queued
    <3>3. channel'[q] = channel[q]
      BY <1>3, <2>2
    <3>4. \A k \in DOMAIN channel'[q] : Queued(channel[q][k], q)'
      <4> SUFFICES ASSUME NEW k \in DOMAIN channel'[q] PROVE Queued(channel[q][k], q)' OBVIOUS
      <4> PICK j : j = channel'[q][k] OBVIOUS
      <4>1. Queued(j, q)
        BY <3>1, <3>3
      <4>2. Queued(j, q)'
        BY <2>1, <3>2, <4>1
      <4> QED BY <4>2 DEF Queued
    <3> QED
      <4>1. \A k, l \in DOMAIN channel'[q] : k < l => channel'[q][k] < channel'[q][l]
        BY <3>1, <3>3
      <4>2. \A j \in DOMAIN tasks' : Queued(j, q)' =>
              \E k \in DOMAIN channel'[q] : channel'[q][k] = j
        <5> SUFFICES ASSUME NEW j \in DOMAIN tasks', Queued(j, q)'
                     PROVE  \E k \in DOMAIN channel'[q] : channel'[q][k] = j
          OBVIOUS
        <5>1. j \in DOMAIN tasks /\ Queued(j, q)
          BY <1>8, <2>1
        <5>2. PICK k \in DOMAIN channel[q] : channel[q][k] = j
          BY <3>1, <5>1
        <5> QED BY <3>3, <5>2
      <4> QED BY <3>4, <4>1, <4>2
  <2>3. CASE q = p
    <3>1. channel'[q] = Tail(queue)
      BY <1>3, <2>3
    <3>2. \A k \in DOMAIN channel'[q] : Queued(channel[q][k], q)'
      <4> SUFFICES ASSUME NEW k \in DOMAIN channel'[q] PROVE Queued(channel[q][k], q)' OBVIOUS
      <4> PICK j : j = channel'[q][k] OBVIOUS
      <4>1. k \in 1 .. Len(queue) - 1 /\ j = queue[k + 1]
        BY <1>1, <3>1
      <4>2. 1 \in DOMAIN queue /\ k + 1 \in DOMAIN queue /\ 1 < k + 1
        BY <1>1, <4>1
      <4>3. j # i /\ Queued(j, p)
        <5> PICK x : x = k + 1 OBVIOUS
        <5>0. x \in DOMAIN queue /\ 1 \in DOMAIN queue /\ 1 < x /\ j = queue[x] /\ i = queue[1]
          BY <1>1, <4>1, <4>2
        <5>1. Queued(j, p) /\ i < j
          BY <1>4, <5>0
        <5>2. ~(i < i)
          BY <1>5
        <5> QED BY <5>1, <5>2
      <4>4. Queued(j, q)'
        BY <2>1, <2>3, <4>3
      <4> QED BY <4>4 DEF Queued
    <3>3. \A k, l \in DOMAIN channel'[q] : k < l => channel'[q][k] < channel'[q][l]
      <4> SUFFICES ASSUME NEW k \in DOMAIN channel'[q], NEW l \in DOMAIN channel'[q], k < l
                   PROVE  channel'[q][k] < channel'[q][l]
        OBVIOUS
      <4>1. /\ k \in 1 .. Len(queue) - 1 /\ l \in 1 .. Len(queue) - 1
            /\ channel'[q][k] = queue[k + 1] /\ channel'[q][l] = queue[l + 1]
        BY <1>1, <3>1
      <4>2. k + 1 \in DOMAIN queue /\ l + 1 \in DOMAIN queue /\ k + 1 < l + 1
        <5>1. \A m \in Nat : \A x, y \in 1 .. m - 1 :
                x < y => x + 1 \in 1 .. m /\ y + 1 \in 1 .. m /\ x + 1 < y + 1
          OBVIOUS
        <5> QED BY <1>1, <4>1, <5>1
      <4> QED BY <1>4, <4>1, <4>2
    <3>4. \A j \in DOMAIN tasks' : Queued(j, q)' =>
            \E k \in DOMAIN channel'[q] : channel'[q][k] = j
      <4> SUFFICES ASSUME NEW j \in DOMAIN tasks', Queued(j, q)'
                   PROVE  \E k \in DOMAIN channel'[q] : channel'[q][k] = j
        OBVIOUS
      <4>1. j # i /\ Queued(j, p) /\ j \in DOMAIN tasks
        BY <1>8, <2>1, <2>3
      <4>2. PICK k \in DOMAIN queue : queue[k] = j
        BY <1>4, <4>1
      <4>3. k - 1 \in 1 .. Len(queue) - 1 /\ (k - 1) + 1 = k
        BY <1>1, <4>1, <4>2
      <4>4. k - 1 \in DOMAIN channel'[q] /\ channel'[q][k - 1] = j
        BY <1>1, <3>1, <4>2, <4>3
      <4> QED BY <4>4
    <3> QED BY <3>2, <3>3, <3>4
  <2> QED BY <2>2, <2>3
<1>12. WorkersRunTasks'
  <2>1. \A v \in Worker : \A j : Runs(v, j)' <=> (v = w /\ j = i) \/ (v # w /\ Runs(v, j))
    BY <1>7 DEF Runs, InHand
  <2>2. \A v \in Worker : ~Runs(v, i)
    BY <1>5 DEF ExecutorInv, WorkersRunTasks, Runs, InHand
  <2>3. \A j : ~Runs(w, j)
    BY DEF Runs, InHand
  <2> QED BY <1>5, <1>7, <1>8, <2>1, <2>2, <2>3 DEF ExecutorInv, WorkersRunTasks, InHand
<1>13. HandlesTell'
  BY <1>8 DEF ExecutorInv, HandlesTell, NotTaken
<1>14. DropsAtShutdown'
  <2> SUFFICES ASSUME NEW j \in DOMAIN tasks', tasks'[j].fate = "dropped"
               PROVE  is_shutting_down'[tasks'[j].pool] /\ Disconnected(tasks[j].pool)'
    BY DEF DropsAtShutdown
  <2> PICK q : q = tasks[j].pool OBVIOUS
  <2>1. j # i /\ is_shutting_down[q] /\ Disconnected(q) /\ q = tasks'[j].pool
    BY <1>8 DEF ExecutorInv, DropsAtShutdown
  <2>2. Disconnected(q)'
    BY <1>7, <2>1 DEF Disconnected, Workers
  <2> QED BY <2>1, <2>2 DEF Disconnected, Workers
<1>15. TakenInOrder'
  <2> SUFFICES ASSUME NEW j \in DOMAIN tasks, j < i, tasks[j].pool = p
               PROVE  ~NotTaken(j)
    BY <1>5, <1>8 DEF ExecutorInv, TakenInOrder, NotTaken
  <2>1. tasks[j].fate # "queued"
    <3> SUFFICES ASSUME Queued(j, p) PROVE FALSE
      BY DEF Queued
    <3>1. PICK k \in DOMAIN queue : queue[k] = j
      BY <1>4
    <3>2. 1 \in DOMAIN queue /\ (k = 1 \/ 1 < k)
      BY <1>1
    <3>3. ~(j < j) /\ (i < j => ~(j < i))
      BY <1>0, <1>5 DEF ExecutorTyped
    <3>4. CASE k = 1 BY <1>1, <3>1, <3>3, <3>4
    <3>5. CASE 1 < k
      <4>1. queue[1] < queue[k]
        BY <1>4, <3>1, <3>2, <3>5
      <4> QED BY <1>1, <3>1, <3>3, <4>1
    <3> QED BY <3>2, <3>4, <3>5
  <2>2. tasks[j].fate # "dropped"
    BY DEF ExecutorInv, DropsAtShutdown, Disconnected, Workers
  <2> QED BY <2>1, <2>2 DEF NotTaken
<1> QED BY <1>9, <1>11, <1>12, <1>13, <1>14, <1>15 DEF ExecutorInv

(* A worker starts the task it took, and the task that it runs ends. *)
LEMMA EndKept ==
  ASSUME ExecutorInv, NEW w \in Worker, Start(w) \/ End(w), UNCHANGED caller
  PROVE  ExecutorInv'
<1> PICK i : i = worker[w].task OBVIOUS
<1>0. ExecutorTyped /\ UNCHANGED <<channel, is_shutting_down>>
  BY DEF ExecutorInv, Start, End
<1>1. Runs(w, i)
  BY DEF Start, End, Runs, InHand
<1>2. i \in DOMAIN tasks /\ tasks[i].fate \in InHand /\ i \in Nat
  <2>1. i \in DOMAIN tasks /\ tasks[i].fate = worker[w].pc
    BY <1>1 DEF ExecutorInv, WorkersRunTasks
  <2> QED BY <1>0, <1>1, <2>1 DEF Runs, ExecutorTyped
<1> PICK fate, status, pc :
      /\ \/ fate = "running" /\ status = "Running" /\ pc = "running"
         \/ fate = "over" /\ status = "Ended" /\ pc = "loop"
      /\ Set(i, fate, status)
      /\ \/ \E hangs \in BOOLEAN :
              pc = "running" /\ Goes(w, [pc |-> "running", task |-> i, hangs |-> hangs])
         \/ pc = "loop" /\ Goes(w, [pc |-> "loop"])
  BY DEF Start, End
<1>3. /\ tasks' \in Seq(Task) /\ DOMAIN tasks' = DOMAIN tasks
      /\ \A j \in DOMAIN tasks : tasks'[j].pool = tasks[j].pool /\ tasks'[j].by = tasks[j].by
      /\ \A j \in DOMAIN tasks : j # i => tasks'[j] = tasks[j]
      /\ tasks'[i].fate = fate
      /\ tasks[i].by = "executor" => tasks'[i].status = status
  <2>1. fate \in Fate /\ status \in Progress
    BY DEF Fate, Progress
  <2> QED BY <1>0, <1>2, <2>1, SetFacts
<1>4. /\ worker' \in [Worker -> Resting \cup Running] /\ worker'[w].pc = pc
      /\ \A v \in Worker : v # w => worker'[v] = worker[v]
      /\ \A v \in Worker : \A j : Runs(v, j)' <=> IF v = w THEN pc \in InHand /\ j = i ELSE Runs(v, j)
  <2>1. PICK state \in Resting \cup Running :
          state.pc = pc /\ (pc = "running" => state.task = i) /\ Goes(w, state)
    BY <1>2 DEF Resting, Running
  <2>2. /\ worker' \in [Worker -> Resting \cup Running] /\ worker'[w] = state
        /\ \A v \in Worker : v # w => worker'[v] = worker[v]
    BY <1>0, <2>1 DEF ExecutorTyped, Goes
  <2> QED BY <2>1, <2>2 DEF Runs, InHand
<1>5. ExecutorTyped'
  BY <1>0, <1>3, <1>4 DEF ExecutorTyped
<1>6. ChannelsHoldTasks'
  <2>1. UNCHANGED channel
    BY <1>0
  <2>2. \A j, q : Queued(j, q)' <=> Queued(j, q)
    BY <1>2, <1>3 DEF Queued, InHand
  <2>3. \A q \in Pool : \A k \in DOMAIN channel'[q] : Queued(channel[q][k], q)'
    <3> SUFFICES ASSUME NEW q \in Pool, NEW k \in DOMAIN channel'[q]
                 PROVE  Queued(channel[q][k], q)'
      OBVIOUS
    <3> PICK j : j = channel'[q][k] OBVIOUS
    <3>1. Queued(j, q)'
      BY <2>1, <2>2 DEF ExecutorInv, ChannelsHoldTasks
    <3> QED BY <3>1 DEF Queued
  <2> QED BY <1>3, <2>1, <2>2, <2>3 DEF ExecutorInv, ChannelsHoldTasks
<1>7. WorkersRunTasks'
  <2>1. /\ \A v \in Worker : \A j : Runs(v, j) => j \in DOMAIN tasks /\ tasks[j].fate = worker[v].pc
        /\ \A u, v \in Worker : \A j : Runs(u, j) /\ Runs(v, j) => u = v
        /\ \A j \in DOMAIN tasks : tasks[j].fate \in InHand => \E v \in Worker : Runs(v, j)
    BY DEF ExecutorInv, WorkersRunTasks
  <2>2. \A j : Runs(w, j) => j = i
    BY <1>1 DEF Runs
  <2>3. \A v \in Worker : \A j : Runs(v, j)' => j \in DOMAIN tasks' /\ tasks'[j].fate = worker'[v].pc
    BY <1>1, <1>2, <1>3, <1>4, <2>1 DEF InHand
  <2>4. \A u, v \in Worker : \A j : Runs(u, j)' /\ Runs(v, j)' => u = v
    BY <1>1, <1>4, <2>1
  <2>5. \A j \in DOMAIN tasks' : tasks'[j].fate \in InHand => \E v \in Worker : Runs(v, j)'
    <3> SUFFICES ASSUME NEW j \in DOMAIN tasks, tasks'[j].fate \in InHand
                 PROVE  \E v \in Worker : Runs(v, j)'
      BY <1>3
    <3>1. CASE j = i
      BY <1>3, <1>4, <3>1 DEF InHand
    <3>2. CASE j # i
      <4>1. PICK v \in Worker : Runs(v, j)
        BY <1>3, <2>1, <3>2
      <4> QED BY <1>4, <2>2, <3>2, <4>1
    <3> QED BY <3>1, <3>2
  <2> QED BY <2>3, <2>4, <2>5 DEF WorkersRunTasks
<1>8. HandlesTell'
  BY <1>2, <1>3 DEF ExecutorInv, HandlesTell
<1>9. DropsAtShutdown'
  <2> SUFFICES ASSUME NEW j \in DOMAIN tasks', tasks'[j].fate = "dropped"
               PROVE  is_shutting_down'[tasks'[j].pool] /\ Disconnected(tasks[j].pool)'
    BY DEF DropsAtShutdown
  <2> PICK q : q = tasks[j].pool OBVIOUS
  <2>1. is_shutting_down[q] /\ Disconnected(q) /\ q = tasks'[j].pool
    BY <1>3 DEF ExecutorInv, DropsAtShutdown
  <2>2. worker[w].pc # "exited"
    BY <1>1 DEF Runs, InHand
  <2>3. Disconnected(q)'
    BY <1>4, <2>1, <2>2 DEF Disconnected, Workers
  <2> QED BY <1>0, <2>1, <2>3 DEF Disconnected, Workers
<1>10. TakenInOrder'
  BY <1>2, <1>3 DEF ExecutorInv, TakenInOrder, NotTaken, InHand
<1> QED BY <1>5, <1>6, <1>7, <1>8, <1>9, <1>10 DEF ExecutorInv

(* Every step of the executor and of the actor system. *)
LEMMA ExecutorStepKept ==
  ASSUME ExecutorInv, NEW t \in Caller, ExecutorStep(t)
  PROVE  ExecutorInv'
BY SendKept, ShutdownKept DEF ExecutorStep

LEMMA WorkKept ==
  ASSUME ExecutorInv, NEW w \in Worker, Work(w), UNCHANGED caller
  PROVE  ExecutorInv'
<1>1. UNCHANGED registry
  BY DEF Work
<1>2. CASE WorkerLoop(w)
  <2>1. CASE is_shutting_down[PoolOf[w]] BY <1>1, <1>2, <2>1, LeaveKept DEF WorkerLoop
  <2>2. CASE ~is_shutting_down[PoolOf[w]] BY <1>1, <1>2, <2>2, PollKept DEF WorkerLoop
  <2> QED BY <2>1, <2>2
<1>3. CASE Receive(w)
  <2>0. worker[w].pc = "recv" /\ UNCHANGED is_shutting_down
    BY <1>3 DEF Receive
  <2>1. CASE channel[PoolOf[w]] # <<>> BY <1>1, <1>3, <2>0, <2>1, TakeKept DEF Receive
  <2>2. CASE channel[PoolOf[w]] = <<>> /\ is_shutting_down[PoolOf[w]]
    BY <1>1, <1>3, <2>0, <2>2, LeaveKept DEF Receive
  <2>3. CASE channel[PoolOf[w]] = <<>> /\ ~is_shutting_down[PoolOf[w]]
    BY <1>1, <1>3, <2>0, <2>3, PollKept DEF Receive
  <2> QED BY <2>1, <2>2, <2>3
<1>4. CASE Start(w) \/ End(w) BY <1>4, EndKept
<1> QED BY <1>2, <1>3, <1>4 DEF Work, WorkerStep

(* What the invariant tells of the tasks. *)
LEMMA TasksToldFollows ==
  ASSUME ExecutorInv
  PROVE  TasksTold
<1>1. \A i \in DOMAIN tasks :
        LET holds == {w \in Worker : worker[w].pc \in {"taken", "running"} /\ worker[w].task = i}
        IN  Cardinality(holds) = IF tasks[i].fate \in {"taken", "running"} THEN 1 ELSE 0
  <2> SUFFICES ASSUME NEW i \in DOMAIN tasks
               PROVE  Cardinality({w \in Worker : Runs(w, i)}) = IF tasks[i].fate \in InHand THEN 1 ELSE 0
    BY DEF Runs, InHand
  <2> DEFINE runs == {w \in Worker : Runs(w, i)}
  <2>1. CASE tasks[i].fate \in InHand
    <3>1. PICK w \in Worker : Runs(w, i)
      BY <2>1 DEF ExecutorInv, WorkersRunTasks
    <3>2. runs = {w}
      BY <3>1 DEF ExecutorInv, WorkersRunTasks
    <3> QED BY <2>1, <3>2, FS_Singleton
  <2>2. CASE tasks[i].fate \notin InHand
    <3>1. runs = {}
      BY <2>2 DEF ExecutorInv, WorkersRunTasks, Runs
    <3> QED BY <2>2, <3>1, FS_EmptySet
  <2> QED BY <2>1, <2>2
<1>2. \A i \in DOMAIN tasks : tasks[i].by = "executor" =>
        /\ tasks[i].status = "Ended" <=> tasks[i].fate = "over"
        /\ tasks[i].status = "Running" <=> tasks[i].fate = "running"
  BY DEF ExecutorInv, HandlesTell
<1>3. \A i \in DOMAIN tasks : tasks[i].fate = "dropped" =>
        is_shutting_down[tasks[i].pool] /\ Disconnected(tasks[i].pool)
  BY DEF ExecutorInv, DropsAtShutdown
<1>4. \A i \in DOMAIN tasks : tasks[i].fate \in {"queued", "dropped"} =>
        \A j \in (i + 1) .. Len(tasks) :
          tasks[j].pool = tasks[i].pool => tasks[j].fate \in {"queued", "dropped"}
  <2>1. tasks \in Seq(Task)
    BY DEF ExecutorInv, ExecutorTyped
  <2>2. \A i \in DOMAIN tasks : \A j \in (i + 1) .. Len(tasks) : j \in DOMAIN tasks /\ i < j
    BY <2>1
  <2> QED BY <2>2 DEF ExecutorInv, TakenInOrder, NotTaken
<1> HIDE DEF ExecutorInv
<1> QED BY <1>1, <1>2, <1>3, <1>4 DEF TasksTold

-----------------------------------------------------------------------------
(* The parts and their calls: a thread stands at a step of the part in use, *)
(* and only the state of that part changes.                                 *)
ResourcePcs == {"acquire", "lock", "size", "create", "count", "using", "push", "drain"}

InstancePcs == {"instance"}

ExecutorPcs == {"send", "mark", "stop", "marks"}

LockPcs == {"ask", "taken", "guard", "load", "raise", "reset"}

AtomicPcs == {"inside", "holds", "polls", "found", "numbered", "versioned"}

PolicyPcs == {"insert", "clear", "listing"}

TelemetryPcs == {"buffer", "flush", "walking", "export_count", "export_gauge"}

PcsOf(name) ==
  CASE name = "resources" -> ResourcePcs
    [] name = "instances" -> InstancePcs
    [] name \in Pool -> ExecutorPcs
    [] name = "locks" -> LockPcs
    [] name = "atomics" -> AtomicPcs
    [] name = "policy" -> PolicyPcs
    [] name = "telemetry" -> TelemetryPcs
    [] OTHER -> {}

CallersKnown ==
  /\ caller = [t \in Caller |-> caller[t]]
  /\ \A t \in Caller : "pc" \in DOMAIN caller[t]

CallersAtPart ==
  CallersKnown /\ \A t \in Caller : caller[t].pc \in {"idle"} \cup PcsOf(part)

(* A thread goes to one of the steps given, or is idle. *)
Moves(t, pcs) ==
  /\ CallersKnown' /\ \A u \in Caller : u # t => caller'[u] = caller[u]
  /\ caller'[t].pc \in {"idle"} \cup pcs

LEMMA GotoFacts ==
  ASSUME CallersKnown, NEW t \in Caller, NEW state, "pc" \in DOMAIN state,
         caller' = [caller EXCEPT ![t] = state]
  PROVE  /\ CallersKnown' /\ caller'[t] = state
         /\ \A u \in Caller : u # t => caller'[u] = caller[u]
BY DEF CallersKnown

LEMMA GotoPcFacts ==
  ASSUME CallersKnown, NEW t \in Caller, NEW pc, GotoPc(t, pc)
  PROVE  /\ CallersKnown' /\ caller'[t].pc = pc
         /\ \A u \in Caller : u # t => caller'[u] = caller[u]
<1> DEFINE state == [caller[t] EXCEPT !.pc = pc]
<1>1. "pc" \in DOMAIN state /\ state.pc = pc
  BY DEF CallersKnown
<1>2. caller' = [caller EXCEPT ![t] = state]
  BY DEF GotoPc, Goto
<1> HIDE DEF state
<1> QED BY <1>1, <1>2, GotoFacts

LEMMA ReturnFacts ==
  ASSUME CallersKnown, NEW t \in Caller, Return(t) \/ CallAtOnce(t)
  PROVE  /\ CallersKnown' /\ caller'[t] = Idle
         /\ \A u \in Caller : u # t => caller'[u] = caller[u]
<1>1. caller' = [caller EXCEPT ![t] = Idle]
  BY DEF Return, Goto, CallAtOnce, Call
<1>2. "pc" \in DOMAIN Idle
  BY DEF Idle
<1> QED BY <1>1, <1>2, GotoFacts

LEMMA ReturnMoves ==
  ASSUME CallersKnown, NEW t \in Caller, NEW pcs, Return(t) \/ CallAtOnce(t)
  PROVE  Moves(t, pcs)
BY ReturnFacts DEF Moves, Idle

LEMMA GotoPcMoves ==
  ASSUME CallersKnown, NEW t \in Caller, NEW pcs, NEW pc \in pcs, GotoPc(t, pc)
  PROVE  Moves(t, pcs)
BY GotoPcFacts DEF Moves

LEMMA GotoMoves ==
  ASSUME CallersKnown, NEW t \in Caller, NEW pcs, NEW state, "pc" \in DOMAIN state,
         state.pc \in {"idle"} \cup pcs, Goto(t, state) \/ Call(t, state)
  PROVE  Moves(t, pcs)
BY GotoFacts DEF Moves, Goto, Call

(* The resource pool. *)
LEMMA ResourcesMove ==
  ASSUME CallersKnown, NEW t \in Caller, ResourceCall(t) \/ ResourceStep(t)
  PROVE  Moves(t, ResourcePcs)
<1> USE DEF ResourcePcs
<1>1. CASE ResourceStep(t) BY <1>1, ReturnMoves, GotoPcMoves
     DEF ResourceStep, LookForResource, AcquireTimeout, GetResource, CompareSize, Create,
         CountCreated, ReturnHandle, PushResource, DrainPool
<1>2. CASE Acquire(t)
  <2>1. PICK waits \in BOOLEAN :
          Call(t, IF pool_shutdown THEN Idle ELSE [pc |-> "acquire", waits |-> waits])
    BY <1>2 DEF Acquire
  <2> DEFINE state == [pc |-> "acquire", waits |-> waits]
  <2>2. "pc" \in DOMAIN state /\ state.pc = "acquire" OBVIOUS
  <2>3. CallAtOnce(t) \/ Call(t, state)
    BY <2>1 DEF CallAtOnce
  <2> HIDE DEF state
  <2> QED BY <2>2, <2>3, ReturnMoves, GotoMoves
<1>3. CASE ShutdownPool(t)
  <2> DEFINE state == [pc |-> "drain"]
  <2>1. "pc" \in DOMAIN state /\ state.pc = "drain" /\ Call(t, state)
    BY <1>3 DEF ShutdownPool
  <2> HIDE DEF state
  <2> QED BY <2>1, GotoMoves
<1>4. CASE Maintenance(t) \/ DropPool(t) BY <1>4, ReturnMoves DEF Maintenance, DropPool
<1> QED BY <1>1, <1>2, <1>3, <1>4 DEF ResourceCall

(* The instance pool. *)
LEMMA InstancesMove ==
  ASSUME CallersKnown, NEW t \in Caller, GetInstance(t) \/ ReturnInstance(t)
  PROVE  Moves(t, InstancePcs)
<1>1. CASE GetInstance(t)
  <2>1. PICK uses : Call(t, Handle(uses))
    BY <1>1 DEF GetInstance
  <2>2. "pc" \in DOMAIN Handle(uses) /\ Handle(uses).pc = "instance"
    BY DEF Handle
  <2> QED BY <2>1, <2>2, GotoMoves DEF InstancePcs
<1> QED BY <1>1, ReturnMoves DEF ReturnInstance

(* The executor and the actor system. *)
LEMMA ExecutorMoves ==
  ASSUME CallersKnown, NEW t \in Caller,
         ExecutorCall(t) \/ ActorCall(t) \/ ExecutorStep(t)
  PROVE  Moves(t, ExecutorPcs)
<1> USE DEF ExecutorPcs
<1>1. CASE ExecutorStep(t) BY <1>1, ReturnMoves, GotoPcMoves
     DEF ExecutorStep, SendTask, Send, MarkStopping, StopActors, MarkStopped
<1>2. ASSUME NEW p, NEW by, NEW blocks, Submit(t, p, by, blocks)
      PROVE  Moves(t, ExecutorPcs)
  <2> DEFINE state == [pc |-> "send", pool |-> p, by |-> by, blocks |-> blocks]
  <2>1. "pc" \in DOMAIN state /\ state.pc = "send" OBVIOUS
  <2>2. CallAtOnce(t) \/ Call(t, state)
    BY <1>2 DEF Submit, CallAtOnce
  <2> HIDE DEF state
  <2> QED BY <2>1, <2>2, ReturnMoves, GotoMoves
<1>3. CASE Execute(t) \/ SubmitToActors(t) BY <1>2, <1>3 DEF Execute, SubmitToActors
<1>4. ASSUME NEW pc \in {"mark", "stop"}, Call(t, [pc |-> pc])
      PROVE  Moves(t, ExecutorPcs)
  <2> DEFINE state == [pc |-> pc]
  <2>1. "pc" \in DOMAIN state /\ state.pc = pc /\ Call(t, state)
    BY <1>4
  <2> HIDE DEF state
  <2> QED BY <2>1, GotoMoves
<1>5. CASE ShutdownExecutor(t) \/ ShutdownSystem(t) \/ RegisterActor(t) \/ UpdateStatus(t)
  BY <1>4, <1>5, ReturnMoves DEF ShutdownExecutor, ShutdownSystem, RegisterActor, UpdateStatus
<1> QED BY <1>1, <1>3, <1>5 DEF ExecutorCall, ActorCall

(* The locks. *)
LEMMA LocksMove ==
  ASSUME CallersKnown, NEW t \in Caller, LockCall(t) \/ LockStep(t)
  PROVE  Moves(t, LockPcs)
<1> USE DEF LockPcs
<1>1. CASE AskFor(t)
  <2>1. PICK k, how : Call(t, [pc |-> "ask", lock |-> k, how |-> how])
    BY <1>1 DEF AskFor
  <2> DEFINE state == [pc |-> "ask", lock |-> k, how |-> how]
  <2>2. "pc" \in DOMAIN state /\ state.pc = "ask" /\ Call(t, state)
    BY <2>1
  <2> HIDE DEF state
  <2> QED BY <2>2, GotoMoves
<1>2. CASE ResetCounts(t)
  <2>1. PICK k : Call(t, [pc |-> "reset", lock |-> k])
    BY <1>2 DEF ResetCounts
  <2> DEFINE state == [pc |-> "reset", lock |-> k]
  <2>2. "pc" \in DOMAIN state /\ state.pc = "reset" /\ Call(t, state)
    BY <2>1
  <2> HIDE DEF state
  <2> QED BY <2>2, GotoMoves
<1>3. ASSUME NEW max, CompareWith(t, max)
      PROVE  Moves(t, LockPcs)
  <2> DEFINE state == [pc |-> "raise", lock |-> caller[t].lock, held |-> caller[t].held,
                       seen |-> max]
  <2>1. "pc" \in DOMAIN state /\ state.pc = "raise" OBVIOUS
  <2>2. Return(t) \/ Goto(t, state)
    BY <1>3 DEF CompareWith
  <2> HIDE DEF state
  <2> QED BY <2>1, <2>2, ReturnMoves, GotoMoves
<1>4. CASE DropGuard(t)
  <2>1. PICK k, d : Goto(t, [pc |-> "load", lock |-> k, held |-> d])
    BY <1>4 DEF DropGuard
  <2> DEFINE state == [pc |-> "load", lock |-> k, held |-> d]
  <2>2. "pc" \in DOMAIN state /\ state.pc = "load" /\ Goto(t, state)
    BY <2>1
  <2> HIDE DEF state
  <2> QED BY <2>2, GotoMoves
<1>5. CASE LoadMaximum(t) \/ RaiseMaximum(t)
  BY <1>3, <1>5, ReturnMoves DEF LoadMaximum, RaiseMaximum
<1>6. CASE TakeLock(t) \/ MissLock(t) \/ CountAcquisition(t) \/ ResetTimes(t)
  BY <1>6, ReturnMoves, GotoPcMoves DEF TakeLock, MissLock, CountAcquisition, ResetTimes
<1> QED BY <1>1, <1>2, <1>4, <1>5, <1>6 DEF LockCall, LockStep

(* The atomics. *)
LEMMA AtomicsMove ==
  ASSUME CallersKnown, NEW t \in Caller, AtomicCall(t) \/ AtomicStep(t)
  PROVE  Moves(t, AtomicPcs)
<1> USE DEF AtomicPcs
<1>1. ASSUME NEW state, "pc" \in DOMAIN state, state.pc \in {"idle"} \cup AtomicPcs,
             Call(t, state) \/ Goto(t, state)
      PROVE  Moves(t, AtomicPcs)
  BY <1>1, GotoMoves
<1>2. CASE CountIn(t) \/ WaitForUnset(t)
  <2>1. PICK pc \in {"inside", "polls"} : Call(t, [pc |-> pc])
    BY <1>2 DEF CountIn, WaitForUnset
  <2> DEFINE state == [pc |-> pc]
  <2>2. "pc" \in DOMAIN state /\ state.pc = pc /\ Call(t, state)
    BY <2>1
  <2> HIDE DEF state
  <2> QED BY <1>1, <2>2
<1>3. CASE TrySet(t) \/ TrySetThen(t)
  <2>1. "pc" \in DOMAIN Swap /\ Swap.pc \in {"idle", "holds"}
    BY DEF Swap, Idle
  <2>2. Call(t, Swap) \/ Goto(t, Swap)
    BY <1>3 DEF TrySet, TrySetThen
  <2> QED BY <1>1, <2>1, <2>2
<1>4. CASE NextNumber(t)
  <2> DEFINE state == [pc |-> "numbered", number |-> word.sequence, era |-> history.era]
  <2>1. "pc" \in DOMAIN state /\ state.pc = "numbered" /\ Call(t, state)
    BY <1>4 DEF NextNumber
  <2> HIDE DEF state
  <2> QED BY <1>1, <2>1
<1>5. CASE GetVersion(t)
  <2> DEFINE state == [pc |-> "versioned", seen |-> word.version, updates |-> history.updates]
  <2>1. "pc" \in DOMAIN state /\ state.pc = "versioned" /\ Call(t, state)
    BY <1>5 DEF GetVersion
  <2> HIDE DEF state
  <2> QED BY <1>1, <2>1
<1>6. CASE \/ CountOut(t) \/ ResetCounter(t) \/ Unset(t) \/ Poll(t) \/ EndNumber(t)
           \/ ResetSequence(t) \/ CheckAndUpdate(t) \/ AdvanceVersion(t)
  BY <1>6, ReturnMoves, GotoPcMoves
     DEF CountOut, ResetCounter, Unset, Poll, EndNumber, ResetSequence, CheckAndUpdate,
         AdvanceVersion
<1> QED BY <1>2, <1>3, <1>4, <1>5, <1>6 DEF AtomicCall, AtomicStep

(* The rules of the policies. *)
LEMMA PoliciesMove ==
  ASSUME CallersKnown, NEW t \in Caller, PolicyCall(t) \/ PolicyStep(t)
  PROVE  Moves(t, PolicyPcs)
<1> USE DEF PolicyPcs
<1>1. ASSUME NEW state, "pc" \in DOMAIN state, state.pc \in {"idle"} \cup PolicyPcs,
             Call(t, state) \/ Goto(t, state)
      PROVE  Moves(t, PolicyPcs)
  BY <1>1, GotoMoves
<1>2. CASE AddRule(t) \/ UpdateRule(t)
  <2>1. PICK id, rule : CallAtOnce(t) \/ Call(t, [pc |-> "insert", id |-> id, rule |-> rule])
    BY <1>2 DEF AddRule, UpdateRule, CallAtOnce
  <2> DEFINE state == [pc |-> "insert", id |-> id, rule |-> rule]
  <2>2. "pc" \in DOMAIN state /\ state.pc = "insert" /\ (CallAtOnce(t) \/ Call(t, state))
    BY <2>1
  <2> HIDE DEF state
  <2> QED BY <1>1, <2>2, ReturnMoves
<1>3. CASE ClearRules(t) \/ ClearRule(t)
  <2>1. PICK todo : \/ Call(t, [pc |-> "clear", todo |-> todo]) \/ Return(t)
                    \/ Goto(t, [pc |-> "clear", todo |-> todo])
    BY <1>3 DEF ClearRules, ClearRule, Return
  <2> DEFINE state == [pc |-> "clear", todo |-> todo]
  <2>2. /\ "pc" \in DOMAIN state /\ state.pc = "clear"
        /\ Return(t) \/ Call(t, state) \/ Goto(t, state)
    BY <2>1
  <2> HIDE DEF state
  <2> QED BY <1>1, <2>2, ReturnMoves
<1>4. CASE Ask(t)
  <2>1. PICK q : CallAtOnce(t) \/ Call(t, [pc |-> "listing", query |-> q, todo |-> RuleId,
                                           found |-> {}])
    BY <1>4 DEF Ask, CallAtOnce
  <2> DEFINE state == [pc |-> "listing", query |-> q, todo |-> RuleId, found |-> {}]
  <2>2. "pc" \in DOMAIN state /\ state.pc = "listing" /\ (CallAtOnce(t) \/ Call(t, state))
    BY <2>1
  <2> HIDE DEF state
  <2> QED BY <1>1, <2>2, ReturnMoves
<1>5. CASE ListRule(t)
  <2>1. PICK id, new : Goto(t, [caller[t] EXCEPT !.todo = @ \ {id}, !.found = @ \cup new])
    BY <1>5 DEF ListRule
  <2> DEFINE state == [caller[t] EXCEPT !.todo = @ \ {id}, !.found = @ \cup new]
  <2>2. "pc" \in DOMAIN state /\ state.pc = caller[t].pc
    BY DEF CallersKnown
  <2>3. caller[t].pc = "listing" /\ Goto(t, state)
    BY <1>5, <2>1 DEF ListRule, At
  <2> HIDE DEF state
  <2> QED BY <1>1, <2>2, <2>3
<1>6. CASE InsertRule(t) \/ RemoveRule(t) \/ Answer(t) \/ ClearCache(t)
  BY <1>6, ReturnMoves DEF InsertRule, RemoveRule, Answer, ClearCache
<1> QED BY <1>2, <1>3, <1>4, <1>5, <1>6 DEF PolicyCall, PolicyStep

(* The telemetry. *)
LEMMA TelemetryMoves ==
  ASSUME CallersKnown, NEW t \in Caller, ObservabilityCall(t) \/ ObservabilityStep(t)
  PROVE  Moves(t, TelemetryPcs)
<1> USE DEF TelemetryPcs
<1>1. ASSUME NEW state, "pc" \in DOMAIN state, state.pc \in {"idle"} \cup TelemetryPcs,
             Call(t, state) \/ Goto(t, state)
      PROVE  Moves(t, TelemetryPcs)
  BY <1>1, GotoMoves
<1>2. CASE \/ SetCurrent(t) \/ WithCurrent(t) \/ WithSpan(t) \/ ContextStep(t) \/ Buffer(t) \/ CreateMetric(t)
           \/ AddToGauge(t) \/ MetricStep(t)
  BY <1>2, ReturnMoves
     DEF SetCurrent, WithCurrent, WithSpan, Enter, ContextStep, LeaveContext, Panic, Buffer, CreateMetric,
         AddToGauge, MetricStep, ExportCount, ExportGauge
<1>3. CASE Log(t)
  <2>1. PICK plugin, level :
          CallAtOnce(t) \/ Call(t, [pc |-> "buffer", plugin |-> plugin, level |-> level])
    BY <1>3 DEF Log
  <2> DEFINE state == [pc |-> "buffer", plugin |-> plugin, level |-> level]
  <2>2. "pc" \in DOMAIN state /\ state.pc = "buffer" /\ (CallAtOnce(t) \/ Call(t, state))
    BY <2>1
  <2> HIDE DEF state
  <2> QED BY <1>1, <2>2, ReturnMoves
<1>4. CASE FlushPlugin(t) \/ FlushNext(t)
  <2>1. PICK events : \/ Call(t, [pc |-> "flush", events |-> events]) \/ Return(t)
                      \/ Goto(t, [pc |-> "flush", events |-> events])
    BY <1>4 DEF FlushPlugin, FlushNext
  <2> DEFINE state == [pc |-> "flush", events |-> events]
  <2>2. /\ "pc" \in DOMAIN state /\ state.pc = "flush"
        /\ Return(t) \/ Call(t, state) \/ Goto(t, state)
    BY <2>1
  <2> HIDE DEF state
  <2> QED BY <1>1, <2>2, ReturnMoves
<1>5. CASE FlushAll(t)
  <2>1. PICK p, found :
          CallAtOnce(t) \/ Call(t, [pc |-> "walking", plugin |-> p, found |-> found])
    BY <1>5 DEF FlushAll
  <2> DEFINE state == [pc |-> "walking", plugin |-> p, found |-> found]
  <2>2. "pc" \in DOMAIN state /\ state.pc = "walking" /\ (CallAtOnce(t) \/ Call(t, state))
    BY <2>1
  <2> HIDE DEF state
  <2> QED BY <1>1, <2>2, ReturnMoves
<1>6. CASE CountUp(t)
  <2> DEFINE state == [pc |-> "export_count"]
  <2>1. "pc" \in DOMAIN state /\ state.pc = "export_count" /\ Call(t, state)
    BY <1>6 DEF CountUp
  <2> HIDE DEF state
  <2> QED BY <1>1, <2>1
<1>7. CASE SetGauge(t)
  <2>1. PICK h, value : Call(t, [pc |-> "export_gauge", handle |-> h, value |-> value])
    BY <1>7 DEF SetGauge
  <2> DEFINE state == [pc |-> "export_gauge", handle |-> h, value |-> value]
  <2>2. "pc" \in DOMAIN state /\ state.pc = "export_gauge" /\ Call(t, state)
    BY <2>1
  <2> HIDE DEF state
  <2> QED BY <1>1, <2>2
<1> QED BY <1>2, <1>3, <1>4, <1>5, <1>6, <1>7 DEF ObservabilityCall, ObservabilityStep, LogStep

(* The isolation backend and the configurations: every call is one step. *)
LEMMA OthersMove ==
  ASSUME CallersKnown, NEW t \in Caller, IsolationCall(t) \/ ConfigCall(t)
  PROVE  Moves(t, {})
BY ReturnMoves
   DEF IsolationCall, LoadPlugin, UnloadPlugin, CallFunction, ConfigCall, NewConfig, SetPath,
       UpdatePath, RemovePath, MergeConfig, ReadVersion, IncrementVersion

(* Where a thread stands that goes on; a panic is caught, and a context     *)
(* left, between two calls.                                                *)
LEMMA StepsInPart ==
  ASSUME NEW t \in Caller
  PROVE  /\ ResourceStep(t) => caller[t].pc \in ResourcePcs
         /\ ReturnInstance(t) => caller[t].pc \in InstancePcs
         /\ ExecutorStep(t) => caller[t].pc \in ExecutorPcs
         /\ LockStep(t) => caller[t].pc \in LockPcs
         /\ AtomicStep(t) => caller[t].pc \in AtomicPcs
         /\ PolicyStep(t) => caller[t].pc \in PolicyPcs
         /\ LogStep(t) \/ MetricStep(t) => caller[t].pc \in TelemetryPcs
         /\ ContextStep(t) => Return(t)
<1> USE DEF At
<1>1. ResourceStep(t) => caller[t].pc \in ResourcePcs
  BY DEF ResourceStep, LookForResource, AcquireTimeout, GetResource, CompareSize, Create,
         CountCreated, ReturnHandle, PushResource, DrainPool, ResourcePcs
<1>2. ReturnInstance(t) => caller[t].pc \in InstancePcs
  BY DEF ReturnInstance, InstancePcs
<1>3. ExecutorStep(t) => caller[t].pc \in ExecutorPcs
  BY DEF ExecutorStep, SendTask, Send, MarkStopping, StopActors, MarkStopped, ExecutorPcs
<1>4. LockStep(t) => caller[t].pc \in LockPcs
  BY DEF LockStep, TakeLock, MissLock, CountAcquisition, DropGuard, LoadMaximum, RaiseMaximum,
         ResetTimes, LockPcs
<1>5. AtomicStep(t) => caller[t].pc \in AtomicPcs
  BY DEF AtomicStep, CountOut, Poll, TrySetThen, Unset, EndNumber, CheckAndUpdate, AtomicPcs
<1>6. PolicyStep(t) => caller[t].pc \in PolicyPcs
  BY DEF PolicyStep, InsertRule, ClearRule, ListRule, Answer, PolicyPcs
<1>7. LogStep(t) \/ MetricStep(t) => caller[t].pc \in TelemetryPcs
  BY DEF LogStep, Buffer, FlushNext, MetricStep, ExportCount, ExportGauge, TelemetryPcs
<1>8. ContextStep(t) => Return(t)
  BY DEF ContextStep, LeaveContext, Panic
<1> QED BY <1>1, <1>2, <1>3, <1>4, <1>5, <1>6, <1>7, <1>8

LEMMA PcsTellPart ==
  ASSUME NEW pc \in {"idle"} \cup PcsOf(part)
  PROVE  /\ pc \in ResourcePcs => part = "resources"
         /\ pc \in InstancePcs => part = "instances"
         /\ pc \in ExecutorPcs => part \in Pool
         /\ pc \in LockPcs => part = "locks"
         /\ pc \in AtomicPcs => part = "atomics"
         /\ pc \in PolicyPcs => part = "policy"
         /\ pc \in TelemetryPcs => part = "telemetry"
BY DEF PcsOf, Pool, ResourcePcs, InstancePcs, ExecutorPcs, LockPcs, AtomicPcs, PolicyPcs,
       TelemetryPcs

LEMMA PartPcs ==
  /\ part = "resources" => PcsOf(part) = ResourcePcs
  /\ part = "instances" => PcsOf(part) = InstancePcs
  /\ part \in Pool => PcsOf(part) = ExecutorPcs
  /\ part = "locks" => PcsOf(part) = LockPcs
  /\ part = "atomics" => PcsOf(part) = AtomicPcs
  /\ part = "policy" => PcsOf(part) = PolicyPcs
  /\ part = "telemetry" => PcsOf(part) = TelemetryPcs
  /\ part \in {"isolation", "config"} => PcsOf(part) = {}
BY DEF PcsOf, Pool

(* The steps of a part, and the state that belongs to it. *)
PartSteps(name, t) ==
  CASE name = "resources" -> ResourceCall(t) \/ ResourceStep(t)
    [] name = "instances" -> GetInstance(t) \/ ReturnInstance(t)
    [] name \in Pool -> ExecutorCall(t) \/ ActorCall(t) \/ ExecutorStep(t)
    [] name = "locks" -> LockCall(t) \/ LockStep(t)
    [] name = "atomics" -> AtomicCall(t) \/ AtomicStep(t)
    [] name = "isolation" -> IsolationCall(t)
    [] name = "policy" -> PolicyCall(t) \/ PolicyStep(t)
    [] name = "telemetry" -> ObservabilityCall(t) \/ ObservabilityStep(t)
    [] name = "config" -> ConfigCall(t)
    [] OTHER -> FALSE

LEMMA PartMoves ==
  ASSUME CallersKnown, NEW t \in Caller, PartSteps(part, t)
  PROVE  Moves(t, PcsOf(part))
<1>1. CASE part = "resources" BY <1>1, PartPcs, ResourcesMove DEF PartSteps, Pool
<1>2. CASE part = "instances" BY <1>2, PartPcs, InstancesMove DEF PartSteps, Pool
<1>3. CASE part \in Pool BY <1>3, PartPcs, ExecutorMoves DEF PartSteps, Pool
<1>4. CASE part = "locks" BY <1>4, PartPcs, LocksMove DEF PartSteps, Pool
<1>5. CASE part = "atomics" BY <1>5, PartPcs, AtomicsMove DEF PartSteps, Pool
<1>6. CASE part \in {"isolation", "config"} BY <1>6, PartPcs, OthersMove DEF PartSteps, Pool
<1>7. CASE part = "policy" BY <1>7, PartPcs, PoliciesMove DEF PartSteps, Pool
<1>8. CASE part = "telemetry" BY <1>8, PartPcs, TelemetryMoves DEF PartSteps, Pool
<1> QED BY <1>1, <1>2, <1>3, <1>4, <1>5, <1>6, <1>7, <1>8 DEF PartSteps

(* A part that is not in use keeps its state. *)
OthersRest ==
  /\ part # "resources" => UNCHANGED resourceVars
  /\ part # "instances" => UNCHANGED instanceVars
  /\ part \notin Pool => UNCHANGED executorVars
  /\ part # "locks" => UNCHANGED lockVars
  /\ part # "atomics" => UNCHANGED atomicVars
  /\ part # "isolation" => UNCHANGED isolationVars
  /\ part # "policy" => UNCHANGED policyVars
  /\ part # "telemetry" => UNCHANGED observabilityVars
  /\ part # "config" => UNCHANGED configVars

(* A thread between two calls stays there, and only the telemetry changes: *)
(* a context is left, or a panic caught.                                   *)
Unwinds(t) ==
  /\ ContextStep(t)
  /\ UNCHANGED <<concurrentVars, policyVars, configVars>>

LEMMA ThreadSteps ==
  ASSUME CallersAtPart, NEW t \in Caller, Begin(t) \/ Continue(t)
  PROVE  UNCHANGED part /\ ((PartSteps(part, t) /\ OthersRest) \/ Unwinds(t))
<1> USE DEF poolVars, syncVars, concurrentVars, dataVars, pooledVars, isolationVars
<1>0. caller[t].pc \in {"idle"} \cup PcsOf(part)
  BY DEF CallersAtPart
<1>1. CASE Begin(t)
  <2>1. UNCHANGED part
    BY <1>1 DEF Begin, Uses
  <2>2. PartSteps(part, t) /\ OthersRest
    BY <1>1 DEF Begin, Uses, PartSteps, OthersRest, Pool
  <2> QED BY <2>1, <2>2
<1>2. CASE Continue(t)
  <2>1. UNCHANGED part
    BY <1>2 DEF Continue
  <2>2. (PartSteps(part, t) /\ OthersRest) \/ Unwinds(t)
    BY <1>0, <1>2, PcsTellPart, StepsInPart
       DEF Continue, PartSteps, OthersRest, Unwinds, ObservabilityStep, Pool
  <2> QED BY <2>1, <2>2
<1> QED BY <1>1, <1>2

LEMMA UnwindFacts ==
  ASSUME CallersKnown, NEW t \in Caller, Unwinds(t)
  PROVE  /\ CallersKnown' /\ caller[t].pc = "idle" /\ caller' = [caller EXCEPT ![t] = Idle]
         /\ \A u \in Caller : u # t => caller'[u] = caller[u]
         /\ \A u \in Caller : caller'[u].pc = caller[u].pc
         /\ UNCHANGED <<concurrentVars, policyVars, configVars>>
<1>1. Return(t) /\ caller[t].pc = "idle"
  BY DEF Unwinds, ContextStep, LeaveContext, Panic, At
<1>2. CallersKnown' /\ caller'[t] = Idle /\ \A u \in Caller : u # t => caller'[u] = caller[u]
  BY <1>1, ReturnFacts
<1> QED BY <1>1, <1>2 DEF Unwinds, Return, Goto, Idle

LEMMA CallersStayAtPart ==
  ASSUME CallersAtPart, [Next]_vars
  PROVE  CallersAtPart'
<1>1. ASSUME NEW t \in Caller, Begin(t) \/ Continue(t)
      PROVE  CallersAtPart'
  <2>1. UNCHANGED part /\ ((PartSteps(part, t) /\ OthersRest) \/ Unwinds(t))
    BY <1>1, ThreadSteps
  <2>2. CASE PartSteps(part, t)
    <3>1. Moves(t, PcsOf(part))
      BY <2>2, PartMoves DEF CallersAtPart
    <3>2. PcsOf(part') = PcsOf(part)
      BY <2>1
    <3> QED BY <3>1, <3>2 DEF CallersAtPart, Moves
  <2>3. CASE Unwinds(t)
    <3>1. CallersKnown' /\ \A u \in Caller : caller'[u].pc = caller[u].pc
      BY <2>3, UnwindFacts DEF CallersAtPart
    <3>2. PcsOf(part') = PcsOf(part)
      BY <2>1
    <3> QED BY <3>1, <3>2 DEF CallersAtPart
  <2> QED BY <2>1, <2>2, <2>3
<1>2. ASSUME UNCHANGED <<part, caller>>
      PROVE  CallersAtPart'
  BY <1>2 DEF CallersAtPart, CallersKnown
<1>3. CASE \E w \in Worker : WorkerRuns(w) BY <1>2, <1>3 DEF WorkerRuns, callVars
<1>4. CASE TimePasses BY <1>2, <1>4 DEF TimePasses, Expire, callVars
<1>5. CASE UNCHANGED vars BY <1>2, <1>5 DEF vars, callVars
<1> QED BY <1>1, <1>3, <1>4, <1>5 DEF Next

(* The invariants of all parts: that of the part in use, and the state in   *)
(* which the others begin.                                                  *)
TasksInv == IF part \in Pool THEN ExecutorInv ELSE ExecutorInit

LEMMA InitCallers ==
  ASSUME Init
  PROVE  CallersAtPart
BY DEF Init, CallsInit, CallersAtPart, CallersKnown, Idle

LEMMA TasksInvInit ==
  ASSUME Init
  PROVE  TasksInv
BY ExecutorInitInv DEF Init, TasksInv

LEMMA TasksInvKept ==
  ASSUME CallersAtPart, TasksInv, [Next]_vars
  PROVE  TasksInv'
<1>1. ASSUME UNCHANGED <<part, executorVars>>, part \notin Pool
      PROVE  TasksInv'
  BY <1>1 DEF TasksInv, ExecutorInit, ThreadInit, executorVars, threadVars
<1>2. ASSUME part \in Pool
      PROVE  ExecutorInv
  BY <1>2 DEF TasksInv
<1>3. ASSUME UNCHANGED <<part, executorVars, caller>>
      PROVE  TasksInv'
  <2>1. CASE part \in Pool
    <3>1. ExecutorInv
      BY <1>2, <2>1
    <3>2. ExecutorInv'
      BY <1>3, <3>1 DEF ExecutorInv, ExecutorTyped, ChannelsHoldTasks, WorkersRunTasks,
        HandlesTell, DropsAtShutdown, TakenInOrder, executorVars, threadVars,
        Queued, Runs, NotTaken, Disconnected, Workers
    <3> QED BY <1>3, <2>1, <3>2 DEF TasksInv
  <2> QED BY <1>1, <1>3, <2>1
<1>4. ASSUME NEW t \in Caller, Begin(t) \/ Continue(t)
      PROVE  TasksInv'
  <2>1. UNCHANGED part /\ ((PartSteps(part, t) /\ OthersRest) \/ Unwinds(t))
    BY <1>4, ThreadSteps
  <2>2. CASE part \notin Pool
    <3>1. UNCHANGED executorVars
      <4>1. CASE Unwinds(t) BY <4>1 DEF Unwinds, concurrentVars
      <4> QED BY <2>1, <2>2, <4>1 DEF OthersRest
    <3> QED BY <1>1, <2>1, <2>2, <3>1
  <2>3. CASE part \in Pool /\ PartSteps(part, t)
    <3>1. ExecutorCall(t) \/ ActorCall(t) \/ ExecutorStep(t)
      BY <2>3 DEF PartSteps, Pool
    <3>2. ExecutorInv'
      BY <1>2, <2>3, <3>1, CallsKept, ExecutorStepKept
    <3> QED BY <2>1, <2>3, <3>2 DEF TasksInv
  <2>4. CASE part \in Pool /\ Unwinds(t)
    <3>1. caller' = [caller EXCEPT ![t] = Idle] /\ UNCHANGED executorVars
      BY <2>4, UnwindFacts DEF CallersAtPart, concurrentVars
    <3>2. ExecutorInv
      BY <1>2, <2>4
    <3>3. ExecutorInv'
      BY <3>1, <3>2, MovesTyped, CallerMoves DEF executorVars, threadVars
    <3> QED BY <2>1, <2>4, <3>3 DEF TasksInv
  <2> QED BY <2>1, <2>2, <2>3, <2>4
<1>5. ASSUME NEW w \in Worker, WorkerRuns(w)
      PROVE  TasksInv'
  <2>1. part \in Pool /\ UNCHANGED <<part, caller>> /\ Work(w)
    BY <1>5, WorkersHavePools DEF WorkerRuns, callVars
  <2>2. ExecutorInv'
    BY <1>2, <2>1, WorkKept
  <2> QED BY <2>1, <2>2 DEF TasksInv
<1>6. CASE TimePasses BY <1>3, <1>6 DEF TimePasses, Expire, concurrentVars, callVars
<1>7. CASE UNCHANGED vars BY <1>3, <1>7 DEF vars, concurrentVars, callVars
<1> QED BY <1>4, <1>5, <1>6, <1>7 DEF Next

(* The handle of a task tells what became of it, the workers of a pool take *)
(* its tasks in the order in which it accepted them, and those that wait    *)
(* are dropped only when it is shut down and its workers have left          *)
(* (thread.rs, executor.rs), for any number of threads, workers and tasks.  *)
THEOREM TasksAreTold == Spec => []TasksTold
<1>1. Init => CallersAtPart /\ TasksInv
  BY InitCallers, TasksInvInit
<1>2. CallersAtPart /\ TasksInv /\ [Next]_vars => CallersAtPart' /\ TasksInv'
  BY CallersStayAtPart, TasksInvKept
<1>3. TasksInv => TasksTold
  <2>1. CASE part \in Pool BY <2>1, TasksToldFollows DEF TasksInv
  <2>2. CASE ExecutorInit
    <3>1. DOMAIN tasks = {}
      BY <2>2 DEF ExecutorInit, ThreadInit
    <3> QED BY <3>1 DEF TasksTold
  <2> QED BY <2>1, <2>2 DEF TasksInv
<1> QED BY <1>1, <1>2, <1>3, PTL DEF Spec

-----------------------------------------------------------------------------
(* How many threads stand at some steps. *)
LEMMA HoldingTyped ==
  ASSUME NEW pcs
  PROVE  /\ IsFiniteSet({t \in Caller : caller[t].pc \in pcs}) /\ Holding(pcs) \in Nat
         /\ Holding(pcs) <= Cardinality(Caller) /\ Cardinality(Caller) \in Nat \ {0}
<1>1. IsFiniteSet({t \in Caller : caller[t].pc \in pcs})
      /\ Cardinality({t \in Caller : caller[t].pc \in pcs}) <= Cardinality(Caller)
  BY CallersAssumption, FS_Subset
<1>2. Cardinality(Caller) \in Nat /\ Cardinality(Caller) # 0
  BY CallersAssumption, FS_CardinalityType, FS_EmptySet
<1> QED BY <1>1, <1>2, FS_CardinalityType DEF Holding

LEMMA MostTyped ==
  /\ MostResources \in Nat /\ MaxSize \in Nat /\ InitialSize \in Nat
  /\ InitialSize <= MostResources /\ MaxSize + Cardinality(Caller) - 1 <= MostResources
<1>1. PICK most : most = MaxSize + Cardinality(Caller) - 1 OBVIOUS
<1>2. most \in Nat /\ MaxSize \in Nat /\ InitialSize \in Nat
  <2>1. Cardinality(Caller) \in Nat \ {0}
    BY HoldingTyped
  <2> QED BY <1>1, <2>1, PoolSizes
<1>3. \E x \in {InitialSize, most} : \A y \in {InitialSize, most} : x >= y
  BY <1>2
<1>4. MostResources = CHOOSE x \in {InitialSize, most} : \A y \in {InitialSize, most} : x >= y
  BY <1>1 DEF MostResources, Max
<1>5. MostResources \in {InitialSize, most} /\ MostResources >= InitialSize /\ MostResources >= most
  BY <1>3, <1>4
<1> QED BY <1>1, <1>2, <1>5

LEMMA HoldingChanges ==
  ASSUME NEW t \in Caller, \A u \in Caller : u # t => caller'[u] = caller[u], NEW pcs
  PROVE  /\ Holding(pcs) \in Nat
         /\ Holding(pcs)' = CASE caller[t].pc \in pcs /\ caller'[t].pc \notin pcs -> Holding(pcs) - 1
                              [] caller[t].pc \notin pcs /\ caller'[t].pc \in pcs -> Holding(pcs) + 1
                              [] OTHER -> Holding(pcs)
<1> DEFINE before == {u \in Caller : caller[u].pc \in pcs}
           after == {u \in Caller : caller'[u].pc \in pcs}
<1>1. IsFiniteSet(before) /\ Cardinality(before) = Holding(pcs) /\ Holding(pcs) \in Nat
  BY HoldingTyped DEF Holding
<1>2. Cardinality(after) = Holding(pcs)'
  BY DEF Holding
<1>3. CASE caller[t].pc \in pcs /\ caller'[t].pc \notin pcs
  <2>1. after = before \ {t} /\ t \in before
    BY <1>3
  <2> HIDE DEF before, after
  <2> QED BY <1>1, <1>2, <1>3, <2>1, FS_RemoveElement
<1>4. CASE caller[t].pc \notin pcs /\ caller'[t].pc \in pcs
  <2>1. after = before \cup {t} /\ t \notin before
    BY <1>4
  <2> HIDE DEF before, after
  <2> QED BY <1>1, <1>2, <1>4, <2>1, FS_AddElement
<1>5. CASE caller[t].pc \in pcs <=> caller'[t].pc \in pcs
  <2>1. after = before
    BY <1>5
  <2> QED BY <1>1, <1>2, <1>5, <2>1
<1> QED BY <1>1, <1>3, <1>4, <1>5

LEMMA HoldingSubset ==
  ASSUME NEW pcs, NEW some, some \subseteq pcs
  PROVE  Holding(some) <= Holding(pcs)
<1>1. {t \in Caller : caller[t].pc \in some} \subseteq {t \in Caller : caller[t].pc \in pcs} OBVIOUS
<1> QED BY <1>1, HoldingTyped, FS_Subset DEF Holding

LEMMA HoldingSplit ==
  ASSUME NEW pcs, NEW others, pcs \cap others = {}
  PROVE  Holding(pcs \cup others) = Holding(pcs) + Holding(others)
<1> DEFINE At1 == {t \in Caller : caller[t].pc \in pcs}
           At2 == {t \in Caller : caller[t].pc \in others}
<1>1. /\ IsFiniteSet(At1) /\ Cardinality(At1) = Holding(pcs) /\ Holding(pcs) \in Nat
      /\ IsFiniteSet(At2) /\ Cardinality(At2) = Holding(others) /\ Holding(others) \in Nat
  BY HoldingTyped DEF Holding
<1>2. {t \in Caller : caller[t].pc \in pcs \cup others} = At1 \cup At2 /\ At1 \cap At2 = {} OBVIOUS
<1>3. Holding(pcs \cup others) = Cardinality(At1 \cup At2)
  BY <1>2 DEF Holding
<1>4. Cardinality(At1 \cap At2) = 0
  BY <1>2, FS_EmptySet
<1>5. Cardinality(At1 \cup At2) = Cardinality(At1) + Cardinality(At2) - Cardinality(At1 \cap At2)
  BY <1>1, FS_Union
<1> QED BY <1>1, <1>3, <1>4, <1>5

LEMMA HoldingBelow ==
  ASSUME NEW pcs, NEW t \in Caller, caller[t].pc \notin pcs
  PROVE  Holding(pcs) <= Cardinality(Caller) - 1
<1>1. {u \in Caller : caller[u].pc \in pcs} \subseteq Caller \ {t} OBVIOUS
<1>2. IsFiniteSet(Caller \ {t}) /\ Cardinality(Caller \ {t}) = Cardinality(Caller) - 1
  BY CallersAssumption, FS_RemoveElement
<1> QED BY <1>1, <1>2, FS_Subset DEF Holding

-----------------------------------------------------------------------------
(* The resource pool. *)
Used == {"using", "push"}

Underway == {"create", "count"}

Draining == \E t \in Caller : At(t, "drain")

(* The maximum is passed by those who compare the size while others create: *)
(* they are counted from the comparison on.  What a return on its way may   *)
(* still put into the queue is counted with it.                             *)
ResourceInv ==
  /\ available \in Nat /\ size \in Int /\ uncounted \in Nat /\ stragglers \in Nat
  /\ pool_shutdown \in BOOLEAN /\ dropped \in BOOLEAN
  /\ dropped => available = 0 /\ \A t \in Caller : caller[t].pc \in ResourcePcs => At(t, "using")
  /\ ~dropped => size = available + Holding(Used) + uncounted
  /\ available + Holding(Used) + Holding(Underway) <= MostResources
  /\ pool_shutdown /\ ~Draining => available + Holding({"push"}) <= stragglers

(* A thread goes from one step to another. *)
StepTo(t, pc, next) ==
  /\ caller[t].pc = pc /\ caller'[t].pc = next
  /\ \A u \in Caller : u # t => caller'[u] = caller[u]

In(pc, pcs) == IF pc \in pcs THEN 1 ELSE 0

LEMMA StepCounts ==
  ASSUME NEW t \in Caller, NEW pc, NEW next, StepTo(t, pc, next), NEW pcs
  PROVE  /\ Holding(pcs) \in Nat /\ Holding(pcs)' \in Nat
         /\ Holding(pcs)' = Holding(pcs) + In(next, pcs) - In(pc, pcs)
<1>1. Holding(pcs) \in Nat
  BY HoldingTyped
<1>2. pc \in pcs => Holding(pcs) # 0
  <2>1. ASSUME pc \in pcs PROVE {u \in Caller : caller[u].pc \in pcs} # {}
    BY <2>1 DEF StepTo
  <2> QED BY <2>1, HoldingTyped, FS_EmptySet DEF Holding
<1> QED BY <1>1, <1>2, HoldingChanges DEF StepTo, In

LEMMA DrainSteps ==
  ASSUME NEW t \in Caller, NEW pc, NEW next, StepTo(t, pc, next)
  PROVE  /\ next = "drain" => Draining'
         /\ pc # "drain" /\ Draining => Draining'
BY DEF StepTo, Draining, At

LEMMA ResourceStays ==
  ASSUME ResourceInv, UNCHANGED resourceVars,
         \A t \in Caller : \/ caller'[t].pc = caller[t].pc
                           \/ caller[t].pc \notin ResourcePcs /\ caller'[t].pc \notin ResourcePcs
  PROVE  ResourceInv'
<1>1. ASSUME NEW pcs \in SUBSET ResourcePcs
      PROVE  Holding(pcs)' = Holding(pcs)
  <2>1. {t \in Caller : caller'[t].pc \in pcs} = {t \in Caller : caller[t].pc \in pcs} OBVIOUS
  <2> QED BY <2>1 DEF Holding
<1>2. Holding(Used)' = Holding(Used) /\ Holding(Underway)' = Holding(Underway)
      /\ Holding({"push"})' = Holding({"push"})
  BY <1>1 DEF Used, Underway, ResourcePcs
<1>3. Draining' <=> Draining
  BY DEF Draining, At, ResourcePcs
<1> QED BY <1>2, <1>3 DEF ResourceInv, resourceVars, At, ResourcePcs

LEMMA ResourceInitInv ==
  ASSUME Init
  PROVE  ResourceInv
<1>1. ASSUME NEW pcs, "idle" \notin pcs
      PROVE  Holding(pcs) = 0
  <2>1. {t \in Caller : caller[t].pc \in pcs} = {}
    BY <1>1 DEF Init, CallsInit, Idle
  <2> QED BY <2>1, FS_EmptySet DEF Holding
<1>2. Holding(Used) = 0 /\ Holding(Underway) = 0 /\ Holding({"push"}) = 0
  BY <1>1 DEF Used, Underway
<1>3. MostResources \in Nat /\ InitialSize \in Nat /\ InitialSize <= MostResources
  BY HoldingTyped, MostTyped
<1>4. /\ available \in 0 .. InitialSize /\ size = available /\ uncounted = 0 /\ stragglers = 0
      /\ pool_shutdown = FALSE /\ dropped = FALSE
  BY DEF Init, ResourceInit
<1>5. /\ available \in Nat /\ size \in Int
      /\ size = available + Holding(Used) + uncounted
      /\ available + Holding(Used) + Holding(Underway) <= MostResources
  BY <1>2, <1>3, <1>4
<1> QED BY <1>4, <1>5 DEF ResourceInv

LEMMA GotoPcSteps ==
  ASSUME CallersKnown, NEW t \in Caller, NEW pc, At(t, pc)
  PROVE  /\ \A next : GotoPc(t, next) => StepTo(t, pc, next)
         /\ Return(t) => StepTo(t, pc, "idle")
<1>1. ASSUME NEW next, GotoPc(t, next) PROVE StepTo(t, pc, next)
  BY <1>1, GotoPcFacts DEF StepTo, At
<1>2. ASSUME Return(t) PROVE StepTo(t, pc, "idle")
  BY <1>2, ReturnFacts DEF StepTo, At, Idle
<1> QED BY <1>1, <1>2

LEMMA CallSteps ==
  ASSUME CallersKnown, NEW t \in Caller, NEW state, "pc" \in DOMAIN state, Call(t, state)
  PROVE  StepTo(t, "idle", state.pc)
BY GotoFacts DEF Call, StepTo, At

LEMMA StillOpen ==
  ASSUME ResourceInv, NEW t \in Caller, NEW pc \in ResourcePcs \ {"using"}, At(t, pc)
  PROVE  ~dropped
BY DEF ResourceInv, At

(* A step that counts what it moves. *)
LEMMA ResourceMoves ==
  ASSUME ResourceInv, NEW t \in Caller, NEW pc, NEW next, StepTo(t, pc, next), pc # "drain",
         ~dropped, UNCHANGED <<dropped, pool_shutdown, stragglers>>,
         available' \in Nat, size' \in Int, uncounted' \in Nat,
         size' - size = (available' - available) + (uncounted' - uncounted)
                          + (In(next, Used) - In(pc, Used)),
         \/ size < MaxSize /\ available' = available /\ pc = "size" /\ next = "create"
         \/ available' + In(next, Used) + In(next, Underway)
              <= available + In(pc, Used) + In(pc, Underway),
         pool_shutdown => available' + In(next, {"push"}) <= available + In(pc, {"push"})
  PROVE  ResourceInv'
<1>1. \A pcs : /\ Holding(pcs) \in Nat /\ Holding(pcs)' \in Nat
               /\ Holding(pcs)' = Holding(pcs) + In(next, pcs) - In(pc, pcs)
  BY StepCounts
<1>2. Draining => Draining'
  BY DrainSteps
<1>3. Cardinality(Caller) \in Nat \ {0} /\ MostResources \in Nat
  BY HoldingTyped, MostTyped
<1>4. \A pcs : In(next, pcs) \in {0, 1} /\ In(pc, pcs) \in {0, 1}
  BY DEF In
<1>5. /\ available \in Nat /\ size \in Int /\ uncounted \in Nat
      /\ size = available + Holding(Used) + uncounted
      /\ available + Holding(Used) + Holding(Underway) <= MostResources
      /\ pool_shutdown /\ ~Draining => available + Holding({"push"}) <= stragglers
      /\ stragglers \in Nat
  BY DEF ResourceInv
<1>6. size' = available' + Holding(Used)' + uncounted'
  <2>1. Holding(Used)' = Holding(Used) + In(next, Used) - In(pc, Used) /\ Holding(Used) \in Nat
    BY <1>1
  <2>2. PICK come \in {0, 1}, go \in {0, 1} : come = In(next, Used) /\ go = In(pc, Used)
    BY <1>4
  <2>3. size' - size = (available' - available) + (uncounted' - uncounted) + (come - go)
    BY <2>2
  <2>4. Holding(Used)' = Holding(Used) + come - go
    BY <2>1, <2>2
  <2> QED BY <1>5, <2>1, <2>3, <2>4
<1>7. available' + Holding(Used)' + Holding(Underway)' <= MostResources
  <2>1. /\ Holding(Used)' = Holding(Used) + In(next, Used) - In(pc, Used) /\ Holding(Used) \in Nat
        /\ Holding(Underway)' = Holding(Underway) + In(next, Underway) - In(pc, Underway)
        /\ Holding(Underway) \in Nat
    BY <1>1
  <2>2. /\ In(next, Used) \in {0, 1} /\ In(pc, Used) \in {0, 1}
        /\ In(next, Underway) \in {0, 1} /\ In(pc, Underway) \in {0, 1}
    BY <1>4
  <2>3. CASE available' + In(next, Used) + In(next, Underway)
              <= available + In(pc, Used) + In(pc, Underway)
    BY <1>3, <1>5, <2>1, <2>2, <2>3
  <2>4. CASE size < MaxSize /\ available' = available /\ pc = "size" /\ next = "create"
    <3>1. Holding(Underway) <= Cardinality(Caller) - 1
      BY <2>4, HoldingBelow DEF StepTo, Underway
    <3>2. /\ In(next, Used) = 0 /\ In(pc, Used) = 0
          /\ In(next, Underway) = 1 /\ In(pc, Underway) = 0
      BY <2>4 DEF In, Used, Underway
    <3>3. available + Holding(Used) <= MaxSize - 1
      BY <1>5, <2>1, <2>4, MostTyped
    <3> QED BY MostTyped, <1>3, <1>5, <2>1, <2>4, <3>1, <3>2, <3>3
  <2> QED BY <2>3, <2>4
<1>8. pool_shutdown' /\ ~Draining' => available' + Holding({"push"})' <= stragglers'
  <2>1. /\ Holding({"push"})' = Holding({"push"}) + In(next, {"push"}) - In(pc, {"push"})
        /\ Holding({"push"}) \in Nat
    BY <1>1
  <2>2. In(next, {"push"}) \in {0, 1} /\ In(pc, {"push"}) \in {0, 1}
    BY <1>4
  <2> QED BY <1>2, <1>5, <2>1, <2>2
<1> QED BY <1>6, <1>7, <1>8 DEF ResourceInv

LEMMA QuietMoves ==
  ASSUME ResourceInv, NEW t \in Caller, NEW pc, NEW next, StepTo(t, pc, next), pc # "drain",
         ~dropped, UNCHANGED resourceVars,
         {pc, next} \cap Used = {}, next \in Underway => pc \in Underway
  PROVE  ResourceInv'
<1>1. UNCHANGED <<available, size, pool_shutdown, dropped, uncounted, stragglers>>
  BY DEF resourceVars
<1>0. pc \notin {"using", "push"} /\ next \notin {"using", "push"}
  BY DEF Used
<1>2. /\ In(next, Used) = 0 /\ In(pc, Used) = 0 /\ In(next, {"push"}) = 0 /\ In(pc, {"push"}) = 0
      /\ In(next, Underway) \in {0, 1} /\ In(pc, Underway) \in {0, 1}
      /\ In(next, Underway) <= In(pc, Underway)
  BY <1>0 DEF In, Used
<1>3. available \in Nat /\ size \in Int /\ uncounted \in Nat
  BY DEF ResourceInv
<1> QED BY <1>1, <1>2, <1>3, ResourceMoves

LEMMA ResourceCallKept ==
  ASSUME CallersKnown, ResourceInv, NEW t \in Caller, ResourceCall(t)
  PROVE  ResourceInv'
<1> USE DEF ResourcePcs
<1>0. "pc" \in DOMAIN Idle /\ Idle.pc = "idle"
  BY DEF Idle
<1>1. CASE Acquire(t)
  <2>1. PICK waits \in BOOLEAN :
          Call(t, IF pool_shutdown THEN Idle ELSE [pc |-> "acquire", waits |-> waits])
    BY <1>1 DEF Acquire
  <2> DEFINE state == [pc |-> "acquire", waits |-> waits]
  <2>2. "pc" \in DOMAIN state /\ state.pc = "acquire" /\ (Call(t, Idle) \/ Call(t, state))
    BY <2>1
  <2> HIDE DEF state
  <2>3. PICK next \in {"idle", "acquire"} : StepTo(t, "idle", next)
    BY <1>0, <2>2, CallSteps
  <2>4. UNCHANGED resourceVars /\ ~dropped
    BY <1>1 DEF Acquire
  <2> QED BY <2>3, <2>4, QuietMoves DEF Used, Underway
<1>2. CASE ShutdownPool(t)
  <2> DEFINE state == [pc |-> "drain"]
  <2>1. "pc" \in DOMAIN state /\ state.pc = "drain" /\ Call(t, state)
    BY <1>2 DEF ShutdownPool
  <2> HIDE DEF state
  <2>2. StepTo(t, "idle", "drain")
    BY <2>1, CallSteps
  <2>3. \A pcs : Holding(pcs) \in Nat
                   /\ Holding(pcs)' = Holding(pcs) + In("drain", pcs) - In("idle", pcs)
    BY <2>2, StepCounts
  <2>4. Holding(Used)' = Holding(Used) /\ Holding(Underway)' = Holding(Underway)
    BY <2>3 DEF Used, Underway, In
  <2>5. Draining'
    BY <2>2, DrainSteps
  <2> QED BY <1>2, <2>4, <2>5 DEF ShutdownPool, ResourceInv
<1>3. CASE Maintenance(t) \/ DropPool(t)
  <2>1. Call(t, Idle)
    BY <1>3 DEF Maintenance, DropPool, CallAtOnce
  <2>2. StepTo(t, "idle", "idle")
    BY <1>0, <2>1, CallSteps
  <2>3. CASE Maintenance(t)
    <3>1. PICK gone \in 0 .. available :
            available' = available - gone /\ size' = size - gone
      BY <2>3 DEF Maintenance
    <3>2. available \in Nat /\ size \in Int /\ uncounted \in Nat
      BY DEF ResourceInv
    <3>3. ~dropped /\ UNCHANGED <<dropped, pool_shutdown, stragglers>> /\ uncounted' = uncounted
      BY <2>3 DEF Maintenance
    <3>4. \A pcs : In("idle", pcs) \in {0, 1}
      BY DEF In
    <3>5. available' \in Nat /\ available' <= available /\ size' \in Int
      BY <3>1, <3>2
    <3> HIDE DEF ResourceInv
    <3>6. /\ In("idle", Used) = 0 /\ In("idle", Underway) = 0 /\ In("idle", {"push"}) = 0
      BY DEF In, Used, Underway
    <3>7. size' - size = (available' - available) + (uncounted' - uncounted)
                          + (In("idle", Used) - In("idle", Used))
      BY <3>1, <3>2, <3>3, <3>6
    <3>8. /\ available' + In("idle", Used) + In("idle", Underway)
              <= available + In("idle", Used) + In("idle", Underway)
          /\ available' + In("idle", {"push"}) <= available + In("idle", {"push"})
      BY <3>2, <3>5, <3>6
    <3> QED BY <2>2, <3>2, <3>3, <3>5, <3>7, <3>8, ResourceMoves
  <2>4. CASE DropPool(t)
    <3>0. \A pcs : Holding(pcs) \in Nat /\ Holding(pcs)' = Holding(pcs)
      BY <2>2, StepCounts DEF In
    <3>1. {u \in Caller : caller[u].pc \in {"push"}} = {}
          /\ {u \in Caller : caller[u].pc \in Underway} = {}
      BY <2>4 DEF DropPool, Underway
    <3>2. Holding({"push"}) = 0 /\ Holding(Underway) = 0 /\ Holding(Used) <= Cardinality(Caller)
      BY <3>1, FS_EmptySet, HoldingTyped DEF Holding
    <3>3. \A u \in Caller : caller'[u].pc \in {"idle", "using"}
      BY <2>2, <2>4 DEF DropPool, StepTo
    <3>4. Cardinality(Caller) \in Nat /\ MostResources \in Nat
      BY HoldingTyped, MostTyped
    <3>5. /\ available \in Nat /\ stragglers \in Nat /\ uncounted \in Nat /\ pool_shutdown \in BOOLEAN
          /\ available + Holding(Used) + Holding(Underway) <= MostResources
      BY DEF ResourceInv
    <3>6. /\ available' = 0 /\ size' = 0 /\ dropped' = TRUE
          /\ UNCHANGED <<pool_shutdown, uncounted, stragglers>>
      BY <2>4 DEF DropPool
    <3>7. available' + Holding(Used)' + Holding(Underway)' <= MostResources
      BY <3>0, <3>4, <3>5, <3>6
    <3>8. available' + Holding({"push"})' <= stragglers'
      BY <3>0, <3>2, <3>5, <3>6
    <3>9. \A u \in Caller : caller'[u].pc \in ResourcePcs => At(u, "using")'
      BY <3>3 DEF At
    <3> QED BY <3>3, <3>5, <3>6, <3>7, <3>8, <3>9 DEF ResourceInv
  <2> QED BY <1>3, <2>3, <2>4
<1> QED BY <1>1, <1>2, <1>3 DEF ResourceCall

LEMMA ResourceStepKept ==
  ASSUME CallersKnown, ResourceInv, NEW t \in Caller, ResourceStep(t)
  PROVE  ResourceInv'
<1>0. available \in Nat /\ size \in Int /\ uncounted \in Nat
  BY DEF ResourceInv
<1> USE DEF ResourcePcs
<1>1. CASE LookForResource(t)
  <2>1. PICK next \in {"size", "lock"} : StepTo(t, "acquire", next)
    BY <1>1, GotoPcSteps DEF LookForResource
  <2>2. UNCHANGED resourceVars /\ ~dropped
    BY <1>1, StillOpen DEF LookForResource
  <2> QED BY <2>1, <2>2, QuietMoves DEF Used, Underway
<1>2. CASE AcquireTimeout(t)
  <2>1. StepTo(t, "acquire", "idle")
    BY <1>2, GotoPcSteps DEF AcquireTimeout
  <2>2. UNCHANGED resourceVars /\ ~dropped
    BY <1>2, StillOpen DEF AcquireTimeout
  <2> QED BY <2>1, <2>2, QuietMoves DEF Used, Underway
<1>3. CASE GetResource(t)
  <2>1. PICK discarded \in 0 .. available :
          /\ size' = size - discarded
          /\ IF discarded < available
               THEN available' = available - discarded - 1 /\ GotoPc(t, "using")
               ELSE available' = 0 /\ GotoPc(t, "size")
    BY <1>3 DEF GetResource
  <2>2. ~dropped /\ At(t, "lock") /\ UNCHANGED <<pool_shutdown, dropped, uncounted, stragglers>>
    BY <1>3, StillOpen DEF GetResource
  <2>3. CASE discarded < available
    <3>1. StepTo(t, "lock", "using")
      BY <2>1, <2>2, <2>3, GotoPcSteps
    <3>2. /\ In("using", Used) = 1 /\ In("lock", Used) = 0 /\ In("using", {"push"}) = 0
          /\ In("lock", {"push"}) = 0 /\ In("using", Underway) = 0 /\ In("lock", Underway) = 0
      BY DEF In, Used, Underway
    <3>3. available' = available - discarded - 1 /\ available' \in Nat /\ size' \in Int
          /\ size' = size - discarded
      BY <1>0, <2>1, <2>3
    <3> QED BY <1>0, <2>2, <3>1, <3>2, <3>3, ResourceMoves
  <2>4. CASE ~(discarded < available)
    <3>1. StepTo(t, "lock", "size")
      BY <2>1, <2>2, <2>4, GotoPcSteps
    <3>2. /\ In("size", Used) = 0 /\ In("lock", Used) = 0 /\ In("size", {"push"}) = 0
          /\ In("lock", {"push"}) = 0 /\ In("size", Underway) = 0 /\ In("lock", Underway) = 0
      BY DEF In, Used, Underway
    <3>3. discarded = available /\ available' = 0 /\ size' = size - available /\ size' \in Int
      BY <1>0, <2>1, <2>4
    <3> QED BY <1>0, <2>2, <3>1, <3>2, <3>3, ResourceMoves
  <2> QED BY <2>3, <2>4
<1>4. CASE CompareSize(t)
  <2>1. UNCHANGED resourceVars /\ ~dropped /\ At(t, "size")
    BY <1>4, StillOpen DEF CompareSize
  <2>2. CASE size < MaxSize
    <3>1. StepTo(t, "size", "create")
      BY <1>4, <2>1, <2>2, GotoPcSteps DEF CompareSize
    <3>2. /\ In("size", Used) = 0 /\ In("create", Used) = 0 /\ In("size", {"push"}) = 0
          /\ In("create", {"push"}) = 0
      BY DEF In, Used
    <3> QED BY <1>0, <2>1, <2>2, <3>1, <3>2, ResourceMoves DEF resourceVars
  <2>3. CASE ~(size < MaxSize)
    <3>1. PICK next \in {"acquire", "idle"} : StepTo(t, "size", next)
      BY <1>4, <2>1, <2>3, GotoPcSteps DEF CompareSize
    <3> QED BY <2>1, <3>1, QuietMoves DEF Used, Underway
  <2> QED BY <2>2, <2>3
<1>5. CASE Create(t)
  <2>1. UNCHANGED resourceVars /\ ~dropped /\ At(t, "create")
    BY <1>5, StillOpen DEF Create
  <2>2. PICK next \in {"count", "idle"} : StepTo(t, "create", next)
    BY <1>5, <2>1, GotoPcSteps DEF Create
  <2> QED BY <2>1, <2>2, QuietMoves DEF Used, Underway
<1>6. CASE CountCreated(t)
  <2>1. /\ ~dropped /\ size' = size + 1
        /\ UNCHANGED <<available, pool_shutdown, dropped, uncounted, stragglers>>
    BY <1>6, StillOpen DEF CountCreated
  <2>2. StepTo(t, "count", "using")
    BY <1>6, GotoPcSteps DEF CountCreated
  <2>3. /\ In("using", Used) = 1 /\ In("count", Used) = 0 /\ In("using", {"push"}) = 0
        /\ In("count", {"push"}) = 0 /\ In("using", Underway) = 0 /\ In("count", Underway) = 1
    BY DEF In, Used, Underway
  <2> QED BY <1>0, <2>1, <2>2, <2>3, ResourceMoves
<1>7. CASE ReturnHandle(t)
  <2>0. /\ At(t, "using") /\ UNCHANGED <<available, size, pool_shutdown, dropped, stragglers>>
        /\ uncounted' = IF pool_shutdown THEN uncounted + 1 ELSE uncounted
        /\ IF pool_shutdown \/ dropped THEN Return(t) ELSE GotoPc(t, "push")
    BY <1>7 DEF ReturnHandle
  <2>1. CASE dropped
    <3>1. StepTo(t, "using", "idle")
      BY <2>0, <2>1, GotoPcSteps
    <3>2. \A pcs : /\ Holding(pcs) \in Nat /\ Holding(pcs)' \in Nat
                   /\ Holding(pcs)' = Holding(pcs) + In("idle", pcs) - In("using", pcs)
      BY <3>1, StepCounts
    <3>3. /\ Holding(Used)' <= Holding(Used) /\ Holding(Underway)' = Holding(Underway)
          /\ Holding({"push"})' = Holding({"push"})
          /\ Holding(Used) \in Nat /\ Holding(Used)' \in Nat
      BY <3>2 DEF In, Used, Underway
    <3>4. Draining => Draining'
      BY <3>1, DrainSteps
    <3>5. uncounted' \in Nat /\ available' + Holding(Used)' + Holding(Underway)' <= MostResources
      <4>1. Holding(Underway) \in Nat /\ Cardinality(Caller) \in Nat /\ MostResources \in Nat
        BY HoldingTyped, MostTyped
      <4>2. available + Holding(Used) + Holding(Underway) <= MostResources
        BY DEF ResourceInv
      <4> QED BY <1>0, <2>0, <3>3, <4>1, <4>2
    <3>6. \A u \in Caller : caller'[u].pc \in ResourcePcs => At(u, "using")'
      BY <2>1, <3>1 DEF StepTo, At, ResourceInv
    <3> QED BY <2>0, <2>1, <3>3, <3>4, <3>5, <3>6 DEF ResourceInv
  <2>2. CASE ~dropped /\ pool_shutdown
    <3>1. StepTo(t, "using", "idle")
      BY <2>0, <2>2, GotoPcSteps
    <3>2. /\ In("idle", Used) = 0 /\ In("using", Used) = 1 /\ In("idle", {"push"}) = 0
          /\ In("using", {"push"}) = 0 /\ In("idle", Underway) = 0 /\ In("using", Underway) = 0
      BY DEF In, Used, Underway
    <3> QED BY <1>0, <2>0, <2>2, <3>1, <3>2, ResourceMoves
  <2>3. CASE ~dropped /\ ~pool_shutdown
    <3>1. StepTo(t, "using", "push")
      BY <2>0, <2>3, GotoPcSteps
    <3>2. /\ In("push", Used) = 1 /\ In("using", Used) = 1
          /\ In("push", Underway) = 0 /\ In("using", Underway) = 0
      BY DEF In, Used, Underway
    <3> QED BY <1>0, <2>0, <2>3, <3>1, <3>2, ResourceMoves
  <2> QED BY <2>1, <2>2, <2>3
<1>8. CASE PushResource(t)
  <2>1. /\ ~dropped /\ UNCHANGED <<pool_shutdown, dropped, uncounted, stragglers>>
        /\ \/ available' = available + 1 /\ size' = size
           \/ size' = size - 1 /\ available' = available
    BY <1>8, StillOpen DEF PushResource
  <2>2. StepTo(t, "push", "idle")
    BY <1>8, GotoPcSteps DEF PushResource
  <2>3. /\ In("idle", Used) = 0 /\ In("push", Used) = 1 /\ In("idle", {"push"}) = 0
        /\ In("push", {"push"}) = 1 /\ In("idle", Underway) = 0 /\ In("push", Underway) = 0
    BY DEF In, Used, Underway
  <2>4. /\ available' \in Nat /\ size' \in Int /\ available' <= available + 1
        /\ size' - size = (available' - available) - 1
    BY <1>0, <2>1
  <2> QED BY <1>0, <2>1, <2>2, <2>3, <2>4, ResourceMoves
<1>9. CASE DrainPool(t)
  <2>1. /\ ~dropped /\ available' = 0 /\ size' = size - available
        /\ UNCHANGED <<pool_shutdown, dropped, uncounted>>
        /\ stragglers' = Cardinality({u \in Caller : At(u, "push")})
    BY <1>9, StillOpen DEF DrainPool
  <2>2. StepTo(t, "drain", "idle")
    BY <1>9, GotoPcSteps DEF DrainPool
  <2>3. \A pcs : /\ Holding(pcs) \in Nat
                 /\ Holding(pcs)' = Holding(pcs) + In("idle", pcs) - In("drain", pcs)
    BY <2>2, StepCounts
  <2>4. /\ Holding(Used)' = Holding(Used) /\ Holding(Underway)' = Holding(Underway)
        /\ Holding({"push"})' = Holding({"push"}) /\ Holding({"push"}) \in Nat
        /\ Holding(Used) \in Nat /\ Holding(Underway) \in Nat
    BY <2>3 DEF Used, Underway, In
  <2>5. stragglers' = Holding({"push"})
    BY <2>1 DEF Holding, At
  <2>6. /\ size = available + Holding(Used) + uncounted
        /\ available + Holding(Used) + Holding(Underway) <= MostResources
    BY <2>1 DEF ResourceInv
  <2>7. MostResources \in Nat /\ Cardinality(Caller) \in Nat
    BY HoldingTyped, MostTyped
  <2>8. /\ size' = available' + Holding(Used)' + uncounted' /\ size' \in Int
        /\ available' + Holding(Used)' + Holding(Underway)' <= MostResources
        /\ available' + Holding({"push"})' <= stragglers'
    BY <1>0, <2>1, <2>4, <2>5, <2>6, <2>7
  <2> QED BY <1>0, <2>1, <2>4, <2>5, <2>8 DEF ResourceInv
<1> QED BY <1>1, <1>2, <1>3, <1>4, <1>5, <1>6, <1>7, <1>8, <1>9 DEF ResourceStep

LEMMA ResourcesAccountedFollows ==
  ASSUME ResourceInv
  PROVE  ResourcesAccounted
<1>1. Holding({"count", "using", "push"}) <= Holding(Used) + Holding(Underway)
  <2>1. Holding({"count", "using", "push"}) <= Holding(Used \cup Underway)
    BY HoldingSubset DEF Used, Underway
  <2>2. Holding(Used \cup Underway) = Holding(Used) + Holding(Underway)
    BY HoldingSplit DEF Used, Underway
  <2> QED BY <2>1, <2>2
<1>2. /\ Holding({"count", "using", "push"}) \in Nat /\ Holding(Used) \in Nat
      /\ Holding(Underway) \in Nat /\ Holding({"push"}) \in Nat
      /\ Cardinality(Caller) \in Nat /\ MostResources \in Nat
  BY HoldingTyped, MostTyped
<1>3. /\ available \in Nat /\ stragglers \in Nat
      /\ ~dropped => size = available + Holding(Used) + uncounted
      /\ available + Holding(Used) + Holding(Underway) <= MostResources
      /\ pool_shutdown /\ ~Draining => available + Holding({"push"}) <= stragglers
  BY DEF ResourceInv
<1>4. available + Holding({"count", "using", "push"}) <= MostResources
  BY <1>1, <1>2, <1>3
<1>5. pool_shutdown /\ ~Draining => available <= stragglers
  BY <1>2, <1>3
<1> QED BY <1>3, <1>4, <1>5 DEF ResourcesAccounted, Used, Draining

-----------------------------------------------------------------------------
(* A step of the libraries: one of the part in use, or one that changes     *)
(* none but the workers, the rules and the telemetry, and no thread that is *)
(* within a call.                                                           *)
Still ==
  /\ UNCHANGED <<poolVars, syncVars, isolationVars, configVars>>
  /\ \A t \in Caller : /\ caller'[t].pc = caller[t].pc
                       /\ caller[t].pc # "idle" => caller'[t] = caller[t]

LEMMA NextSteps ==
  ASSUME CallersAtPart, [Next]_vars
  PROVE  /\ UNCHANGED part
         /\ \/ Still
            \/ \E t \in Caller : PartSteps(part, t) /\ OthersRest /\ Moves(t, PcsOf(part))
<1>0. CallersKnown
  BY DEF CallersAtPart
<1>1. CASE \E t \in Caller : Begin(t) \/ Continue(t)
  <2>1. PICK t \in Caller : Begin(t) \/ Continue(t)
    BY <1>1
  <2>2. UNCHANGED part /\ ((PartSteps(part, t) /\ OthersRest) \/ Unwinds(t))
    BY <2>1, ThreadSteps
  <2>3. CASE PartSteps(part, t) /\ OthersRest BY <1>0, <2>2, <2>3, PartMoves
  <2>4. CASE Unwinds(t)
    <3>1. /\ caller[t].pc = "idle" /\ \A u \in Caller : u # t => caller'[u] = caller[u]
          /\ \A u \in Caller : caller'[u].pc = caller[u].pc
          /\ UNCHANGED <<concurrentVars, policyVars, configVars>>
      BY <1>0, <2>4, UnwindFacts
    <3>2. Still
      BY <3>1 DEF Still, concurrentVars
    <3> QED BY <2>2, <3>2
  <2> QED BY <2>2, <2>3, <2>4
<1>2. ASSUME UNCHANGED caller, UNCHANGED <<poolVars, syncVars, isolationVars, configVars>>
      PROVE  Still
  BY <1>2 DEF Still
<1>3. CASE \E w \in Worker : WorkerRuns(w) BY <1>2, <1>3 DEF WorkerRuns, callVars, dataVars
<1>4. CASE TimePasses BY <1>2, <1>4 DEF TimePasses, Expire, callVars, concurrentVars
<1>5. CASE UNCHANGED vars BY <1>2, <1>5 DEF vars, callVars, concurrentVars, dataVars
<1> QED BY <1>1, <1>3, <1>4, <1>5 DEF Next

LEMMA ResourcesKept ==
  ASSUME CallersAtPart, ResourceInv, [Next]_vars
  PROVE  ResourceInv'
<1>0. CallersKnown /\ CallersAtPart'
  BY CallersStayAtPart DEF CallersAtPart
<1>1. /\ UNCHANGED part
      /\ \/ Still
         \/ \E t \in Caller : PartSteps(part, t) /\ OthersRest /\ Moves(t, PcsOf(part))
  BY NextSteps
<1>2. CASE Still BY <1>2, ResourceStays DEF Still, poolVars
<1>3. CASE part = "resources" /\ \E t \in Caller : PartSteps(part, t)
  <2>1. PICK t \in Caller : ResourceCall(t) \/ ResourceStep(t)
    BY <1>3 DEF PartSteps, Pool
  <2> QED BY <1>0, <2>1, ResourceCallKept, ResourceStepKept
<1>4. CASE part # "resources" /\ OthersRest
  <2>1. ASSUME NEW t \in Caller
        PROVE  caller[t].pc \notin ResourcePcs /\ caller'[t].pc \notin ResourcePcs
    <3>1. caller[t].pc \in {"idle"} \cup PcsOf(part)
      BY DEF CallersAtPart
    <3>2. caller'[t].pc \in {"idle"} \cup PcsOf(part)
      BY <1>0, <1>1 DEF CallersAtPart
    <3> QED BY <1>4, <3>1, <3>2, PcsTellPart
  <2> QED BY <1>4, <2>1, ResourceStays DEF OthersRest
<1> QED BY <1>1, <1>2, <1>3, <1>4

-----------------------------------------------------------------------------
(* The instance pool. *)
MostInstances == Max({MaxInstances, InitialInstances, 1})

(* use_count is 0 until an instance is handed out and 2 when it returns.    *)
Entry == [use_count : {0}, uses : {0}] \cup [use_count : {2}, uses : Nat \ {0}]

InstanceInv ==
  /\ instances \in Seq(Entry) /\ total_created \in Nat /\ total_recycled \in Nat
  /\ total_created = Len(instances) + Cardinality(Out) + total_recycled
  /\ Len(instances) <= MostInstances
  /\ \A i \in DOMAIN instances : instances[i].uses > 1 => MaxUses > 2
  /\ \A t \in Out : caller[t].uses \in Nat \ {0} /\ (caller[t].uses > 1 => MaxUses > 2)

LEMMA MostInstancesFacts ==
  MostInstances \in Nat \ {0} /\ MaxInstances <= MostInstances /\ InitialInstances <= MostInstances
<1>1. MaxInstances \in Nat /\ InitialInstances \in Nat
  BY InstanceSizes
<1>2. \E x \in {MaxInstances, InitialInstances, 1} :
        \A y \in {MaxInstances, InitialInstances, 1} : x >= y
  <2>1. CASE MaxInstances >= InitialInstances /\ MaxInstances >= 1 BY <1>1, <2>1
  <2>2. CASE InitialInstances >= MaxInstances /\ InitialInstances >= 1 BY <1>1, <2>2
  <2>3. CASE MaxInstances = 0 /\ InitialInstances = 0 BY <2>3
  <2> QED BY <1>1, <2>1, <2>2, <2>3
<1>3. /\ MostInstances \in {MaxInstances, InitialInstances, 1}
      /\ \A y \in {MaxInstances, InitialInstances, 1} : MostInstances >= y
  BY <1>2 DEF MostInstances, Max
<1> QED BY <1>1, <1>3

LEMMA OutFacts == Out = {t \in Caller : caller[t].pc \in {"instance"}} /\ Cardinality(Out) = Holding({"instance"})
BY DEF Out, At, Holding

LEMMA InstanceStays ==
  ASSUME InstanceInv, UNCHANGED instanceVars,
         \A t \in Caller : \/ caller'[t] = caller[t]
                           \/ caller[t].pc # "instance" /\ caller'[t].pc # "instance"
  PROVE  InstanceInv'
<1>1. Out' = Out /\ \A t \in Out : caller'[t] = caller[t]
  BY DEF Out, At
<1>2. UNCHANGED <<instances, total_created, total_recycled>>
  BY DEF instanceVars
<1> QED BY <1>1, <1>2 DEF InstanceInv

LEMMA InstanceInitInv ==
  ASSUME Init
  PROVE  InstanceInv
<1>0. InitialInstances \in Nat /\ MostInstances \in Nat /\ InitialInstances <= MostInstances
  BY InstanceSizes, MostInstancesFacts
<1>1. instances = [i \in 1 .. InitialInstances |-> Pooled(0, 0)] /\ Pooled(0, 0) \in Entry
      /\ Pooled(0, 0).uses = 0
  BY DEF Init, InstanceInit, Pooled, Entry
<1>2. /\ instances \in Seq(Entry) /\ Len(instances) = InitialInstances
      /\ \A i \in DOMAIN instances : instances[i].uses = 0
  BY <1>0, <1>1
<1>3. Out = {} /\ Cardinality(Out) = 0
  BY FS_EmptySet DEF Out, At, Init, CallsInit, Idle
<1>4. total_created = InitialInstances /\ total_recycled = 0
  BY DEF Init, InstanceInit
<1> QED BY <1>0, <1>2, <1>3, <1>4 DEF InstanceInv

LEMMA GetInstanceKept ==
  ASSUME CallersKnown, InstanceInv, NEW t \in Caller, GetInstance(t)
  PROVE  InstanceInv'
<1>0. /\ instances \in Seq(Entry) /\ total_created \in Nat /\ total_recycled \in Nat
      /\ total_created = Len(instances) + Cardinality(Out) + total_recycled
      /\ Len(instances) <= MostInstances /\ MostInstances \in Nat /\ Cardinality(Out) \in Nat
  BY HoldingTyped, OutFacts, MostInstancesFacts DEF InstanceInv
<1>1. PICK k \in 0 .. Len(instances) :
        /\ total_recycled' = total_recycled + k
        /\ IF k < Len(instances)
             THEN /\ FALSE \in should_recycle(instances[k + 1])
                  /\ instances' = SubSeq(instances, k + 2, Len(instances))
                  /\ Call(t, Handle(instances[k + 1].uses + 1))
                  /\ UNCHANGED total_created
             ELSE /\ instances' = <<>>
                  /\ Call(t, Handle(1))
                  /\ total_created' = total_created + 1
  BY DEF GetInstance
<1>2. \A uses : "pc" \in DOMAIN Handle(uses) /\ Handle(uses).pc = "instance" /\ Handle(uses).uses = uses
  BY DEF Handle
<1>3. ASSUME NEW uses \in Nat \ {0}, Call(t, Handle(uses)), uses > 1 => MaxUses > 2
      PROVE  /\ Cardinality(Out)' = Cardinality(Out) + 1
             /\ \A u \in Out' : caller'[u].uses \in Nat \ {0} /\ (caller'[u].uses > 1 => MaxUses > 2)
  <2>0. /\ caller'[t] = Handle(uses) /\ caller[t].pc = "idle"
        /\ \A u \in Caller : u # t => caller'[u] = caller[u]
    <3> DEFINE state == Handle(uses)
    <3>1. "pc" \in DOMAIN state /\ caller' = [caller EXCEPT ![t] = state] /\ caller[t].pc = "idle"
      BY <1>2, <1>3 DEF Call, At
    <3> HIDE DEF state
    <3>2. caller'[t] = state /\ \A u \in Caller : u # t => caller'[u] = caller[u]
      BY <3>1, GotoFacts
    <3> QED BY <3>1, <3>2 DEF state
  <2>1. StepTo(t, "idle", "instance")
    BY <1>2, <2>0 DEF StepTo
  <2>2. Holding({"instance"})' = Holding({"instance"}) + 1
    BY <2>1, StepCounts DEF In
  <2>3. Cardinality(Out)' = Holding({"instance"})'
    BY DEF Out, At, Holding
  <2>4. \A u \in Out' : u # t => (u \in Out /\ caller'[u] = caller[u])
    BY <2>0 DEF Out, At
  <2> QED BY <1>2, <1>3, <2>0, <2>2, <2>3, <2>4, OutFacts DEF InstanceInv
<1>4. CASE k < Len(instances)
  <2> DEFINE entry == instances[k + 1]
  <2>1. entry \in Entry /\ k + 1 \in DOMAIN instances
    BY <1>0, <1>4
  <2>2. entry.uses \in Nat /\ (entry.uses > 0 => entry.use_count = 2) /\ entry.use_count \in Nat
    BY <2>1 DEF Entry
  <2>3. entry.uses + 1 > 1 => MaxUses > 2
    <3>1. ~(entry.use_count >= MaxUses)
      BY <1>1, <1>4 DEF should_recycle
    <3> QED BY <2>2, <3>1, InstanceSizes
  <2>4. /\ instances' \in Seq(Entry) /\ Len(instances') = Len(instances) - k - 1
        /\ \A i \in DOMAIN instances' :
             instances'[i] = instances[i + k + 1] /\ i + k + 1 \in DOMAIN instances
    <3>0. Len(instances) \in Nat /\ k \in Nat /\ k < Len(instances)
      BY <1>0, <1>4
    <3>1. instances' = SubSeq(instances, k + 2, Len(instances)) /\ k \in 0 .. Len(instances) - 1
      <4>1. instances' = SubSeq(instances, k + 2, Len(instances))
        BY <1>1, <1>4
      <4>2. k \in 0 .. Len(instances) - 1
        BY <3>0
      <4> QED BY <4>1, <4>2
    <3>2. /\ k + 2 \in Int /\ Len(instances) \in Int
          /\ \A i \in (k + 2) .. Len(instances) : instances[i] \in Entry
      <4>1. Len(instances) \in Nat /\ k \in Nat
        BY <1>0, <3>1
      <4>2. \A i \in (k + 2) .. Len(instances) : i \in 1 .. Len(instances)
        BY <4>1
      <4>3. \A i \in 1 .. Len(instances) : instances[i] \in Entry
        BY <1>0
      <4> QED BY <4>1, <4>2, <4>3
    <3> DEFINE rest == SubSeq(instances, k + 2, Len(instances))
    <3>3. /\ instances' \in Seq(Entry) /\ Len(instances') = Len(instances) - (k + 2) + 1
          /\ \A i \in 1 .. (Len(instances) - (k + 2) + 1) : instances'[i] = instances[(k + 2) + i - 1]
      <4>1. /\ rest \in Seq(Entry)
            /\ Len(rest) = IF k + 2 <= Len(instances) THEN Len(instances) - (k + 2) + 1 ELSE 0
            /\ \A i \in 1 .. (Len(instances) - (k + 2) + 1) : rest[i] = instances[(k + 2) + i - 1]
        BY <3>2, SubSeqProperties
      <4>2. instances' = rest
        BY <3>1
      <4>3. (IF k + 2 <= Len(instances) THEN Len(instances) - (k + 2) + 1 ELSE 0)
              = Len(instances) - (k + 2) + 1
        <5>1. Len(instances) \in Nat /\ k \in Nat /\ k + 1 <= Len(instances)
          BY <1>0, <3>1
        <5> QED BY <5>1
      <4> HIDE DEF rest
      <4> QED BY <4>1, <4>2, <4>3
    <3>4. Len(instances) \in Nat /\ k \in Nat /\ DOMAIN instances = 1 .. Len(instances)
          /\ DOMAIN instances' = 1 .. Len(instances')
      BY <1>0, <3>3, LenProperties
    <3>5. Len(instances') = Len(instances) - k - 1
      BY <3>3, <3>4
    <3>6. ASSUME NEW i \in DOMAIN instances'
          PROVE  instances'[i] = instances[i + k + 1] /\ i + k + 1 \in DOMAIN instances
      <4>1. i \in 1 .. (Len(instances) - (k + 2) + 1) /\ (k + 2) + i - 1 = i + k + 1
        BY <3>4, <3>5, <3>6
      <4> QED BY <3>3, <3>4, <4>1
    <3> QED BY <3>3, <3>5, <3>6
  <2>5. Call(t, Handle(entry.uses + 1)) /\ entry.uses + 1 \in Nat \ {0}
    BY <1>1, <1>4, <2>2
  <2> HIDE DEF entry
  <2>6. /\ Cardinality(Out)' = Cardinality(Out) + 1
        /\ \A u \in Out' : caller'[u].uses \in Nat \ {0} /\ (caller'[u].uses > 1 => MaxUses > 2)
    BY <1>3, <2>3, <2>5
  <2>7. total_recycled' = total_recycled + k /\ total_created' = total_created
    BY <1>1, <1>4
  <2>8. \A i \in DOMAIN instances' : instances'[i].uses > 1 => MaxUses > 2
    BY <2>4 DEF InstanceInv
  <2>9. /\ total_created' \in Nat /\ total_recycled' \in Nat /\ Len(instances') <= MostInstances
        /\ total_created' = Len(instances') + Cardinality(Out)' + total_recycled'
    <3>1. Len(instances) \in Nat /\ k \in Nat
      BY <1>0, <1>1
    <3>2. total_created' \in Nat /\ total_recycled' \in Nat
      BY <1>0, <2>7, <3>1
    <3>3. Len(instances') <= MostInstances
      BY <1>0, <2>4, <3>1
    <3>4. total_created = Len(instances) + Cardinality(Out) + total_recycled
      BY <1>0
    <3>5. /\ Len(instances') = Len(instances) - k - 1
          /\ Cardinality(Out)' = Cardinality(Out) + 1
      BY <2>4, <2>6
    <3>6. total_created' = Len(instances') + Cardinality(Out)' + total_recycled'
      BY <1>0, <2>7, <3>1, <3>4, <3>5
    <3> QED BY <3>2, <3>3, <3>6
  <2> QED BY <2>4, <2>6, <2>8, <2>9 DEF InstanceInv
<1>5. CASE ~(k < Len(instances))
  <2>1. /\ instances' = <<>> /\ Call(t, Handle(1)) /\ total_created' = total_created + 1
        /\ total_recycled' = total_recycled + Len(instances)
    BY <1>0, <1>1, <1>5
  <2>2. /\ Cardinality(Out)' = Cardinality(Out) + 1
        /\ \A u \in Out' : caller'[u].uses \in Nat \ {0} /\ (caller'[u].uses > 1 => MaxUses > 2)
    BY <1>3, <2>1
  <2>3. instances' \in Seq(Entry) /\ Len(instances') = 0 /\ DOMAIN instances' = {}
    BY <2>1
  <2>4. /\ total_created' \in Nat /\ total_recycled' \in Nat /\ Len(instances') <= MostInstances
        /\ total_created' = Len(instances') + Cardinality(Out)' + total_recycled'
    BY <1>0, <2>1, <2>2, <2>3
  <2> QED BY <2>2, <2>3, <2>4 DEF InstanceInv
<1> QED BY <1>4, <1>5

LEMMA ReturnInstanceKept ==
  ASSUME CallersKnown, InstanceInv, NEW t \in Caller, ReturnInstance(t)
  PROVE  InstanceInv'
<1>0. /\ instances \in Seq(Entry) /\ total_created \in Nat /\ total_recycled \in Nat
      /\ total_created = Len(instances) + Cardinality(Out) + total_recycled
      /\ Len(instances) <= MostInstances /\ MostInstances \in Nat \ {0} /\ Cardinality(Out) \in Nat
      /\ MaxInstances \in Nat /\ MaxInstances <= MostInstances /\ Len(instances) \in Nat
  <2>1. Cardinality(Out) \in Nat
    BY HoldingTyped, OutFacts
  <2>2. instances \in Seq(Entry) /\ Len(instances) \in Nat
    BY LenProperties DEF InstanceInv
  <2> QED BY <2>1, <2>2, MostInstancesFacts, InstanceSizes DEF InstanceInv
<1> DEFINE full == Len(instances) >= MaxInstances /\ instances # <<>>
           room == IF full THEN Tail(instances) ELSE instances
           gone == IF full THEN 1 ELSE 0
           entry == Pooled(2, caller[t].uses)
<1>1. /\ \/ instances' = Append(room, entry) /\ total_recycled' = total_recycled + gone
         \/ instances' = room /\ total_recycled' = total_recycled + gone + 1
      /\ At(t, "instance") /\ Return(t) /\ total_created' = total_created
  BY DEF ReturnInstance
<1>2. entry \in Entry /\ (entry.uses > 1 => MaxUses > 2)
  BY <1>1 DEF InstanceInv, Out, Pooled, Entry
<1>3. /\ room \in Seq(Entry) /\ Len(room) \in Nat /\ gone \in Nat /\ Len(room) = Len(instances) - gone
      /\ Len(room) + 1 <= MostInstances /\ Len(room) <= MostInstances
      /\ \A i \in 1 .. Len(room) : \E j \in 1 .. Len(instances) : room[i] = instances[j]
  <2>1. CASE full
    <3>1. room = Tail(instances) /\ gone = 1 /\ instances # <<>>
      BY <2>1
    <3>2. room \in Seq(Entry) /\ Len(room) = Len(instances) - 1
          /\ \A i \in 1 .. Len(room) : room[i] = instances[i + 1]
      BY <1>0, <3>1, HeadTailProperties
    <3>3. Len(instances) # 0
      BY <1>0, <2>1, EmptySeq
    <3> HIDE DEF room, gone
    <3> QED BY <1>0, <3>1, <3>2, <3>3
  <2>2. CASE ~full
    <3>1. room = instances /\ gone = 0
      BY <2>2
    <3>2. Len(instances) < MaxInstances \/ Len(instances) = 0
      BY <1>0, <2>2
    <3> HIDE DEF room, gone
    <3> QED BY <1>0, <3>1, <3>2
  <2> QED BY <2>1, <2>2
<1>4. Cardinality(Out)' = Cardinality(Out) - 1
  <2>1. StepTo(t, "instance", "idle")
    BY <1>1, ReturnFacts DEF StepTo, At, Idle
  <2>2. Holding({"instance"})' = Holding({"instance"}) - 1
    BY <2>1, StepCounts DEF In
  <2>3. Cardinality(Out)' = Holding({"instance"})'
    BY DEF Out, At, Holding
  <2> QED BY <2>2, <2>3, OutFacts
<1>5. \A u \in Out' : u \in Out /\ caller'[u] = caller[u]
  BY <1>1, ReturnFacts DEF Out, At, Idle
<1>6. \A i \in 1 .. Len(room) : room[i].uses > 1 => MaxUses > 2
  <2>1. \A j \in 1 .. Len(instances) : instances[j].uses > 1 => MaxUses > 2
    BY <1>0 DEF InstanceInv
  <2> QED BY <1>3, <2>1
<1> HIDE DEF full, room, gone, entry
<1>9. /\ Len(room) \in Nat /\ gone \in Nat /\ Len(room) = Len(instances) - gone
      /\ Len(instances) \in Nat /\ Cardinality(Out) \in Nat /\ total_recycled \in Nat
      /\ total_created = Len(instances) + Cardinality(Out) + total_recycled
      /\ total_created' = total_created
  BY <1>0, <1>1, <1>3
<1>10. /\ total_created' = (Len(room) + 1) + (Cardinality(Out) - 1) + (total_recycled + gone)
       /\ total_created' = Len(room) + (Cardinality(Out) - 1) + (total_recycled + gone + 1)
  BY <1>9
<1>7. CASE instances' = Append(room, entry) /\ total_recycled' = total_recycled + gone
  <2>1. /\ instances' \in Seq(Entry) /\ Len(instances') = Len(room) + 1
        /\ \A i \in 1 .. Len(room) : instances'[i] = room[i]
        /\ instances'[Len(room) + 1] = entry
    BY <1>2, <1>3, <1>7, AppendProperties
  <2>2. \A i \in DOMAIN instances' : instances'[i].uses > 1 => MaxUses > 2
    <3>1. DOMAIN instances' = 1 .. (Len(room) + 1)
      BY <2>1, LenProperties
    <3>2. \A i \in DOMAIN instances' : i \in 1 .. Len(room) \/ i = Len(room) + 1
      BY <1>3, <3>1
    <3> QED BY <1>2, <1>6, <2>1, <3>2
  <2>3. /\ total_created' \in Nat /\ total_recycled' \in Nat /\ Len(instances') <= MostInstances
    BY <1>0, <1>1, <1>3, <1>7, <2>1
  <2>4. total_created' = Len(instances') + Cardinality(Out)' + total_recycled'
    BY <1>4, <1>7, <1>10, <2>1
  <2> QED BY <1>5, <2>1, <2>2, <2>3, <2>4 DEF InstanceInv
<1>8. CASE instances' = room /\ total_recycled' = total_recycled + gone + 1
  <2>1. instances' \in Seq(Entry) /\ Len(instances') = Len(room) /\ DOMAIN instances' = 1 .. Len(room)
    BY <1>3, <1>8, LenProperties
  <2>3. /\ total_created' \in Nat /\ total_recycled' \in Nat /\ Len(instances') <= MostInstances
    BY <1>0, <1>1, <1>3, <1>8, <2>1
  <2>4. total_created' = Len(instances') + Cardinality(Out)' + total_recycled'
    BY <1>4, <1>8, <1>10, <2>1
  <2> QED BY <1>5, <1>6, <1>8, <2>1, <2>3, <2>4 DEF InstanceInv
<1> QED BY <1>1, <1>7, <1>8

LEMMA InstancesKept ==
  ASSUME CallersAtPart, InstanceInv, [Next]_vars
  PROVE  InstanceInv'
<1>0. CallersKnown /\ CallersAtPart'
  BY CallersStayAtPart DEF CallersAtPart
<1>1. /\ UNCHANGED part
      /\ \/ Still
         \/ \E t \in Caller : PartSteps(part, t) /\ OthersRest /\ Moves(t, PcsOf(part))
  BY NextSteps
<1>2. CASE Still
  <2>1. \A t \in Caller : \/ caller'[t] = caller[t]
                          \/ caller[t].pc # "instance" /\ caller'[t].pc # "instance"
    BY <1>2 DEF Still
  <2> QED BY <1>2, <2>1, InstanceStays DEF Still, poolVars
<1>3. CASE part = "instances" /\ \E t \in Caller : PartSteps(part, t)
  <2>1. PICK t \in Caller : GetInstance(t) \/ ReturnInstance(t)
    BY <1>3 DEF PartSteps, Pool
  <2> QED BY <1>0, <2>1, GetInstanceKept, ReturnInstanceKept
<1>4. CASE part # "instances" /\ OthersRest
  <2>1. ASSUME NEW t \in Caller
        PROVE  caller[t].pc # "instance" /\ caller'[t].pc # "instance"
    <3>1. caller[t].pc \in {"idle"} \cup PcsOf(part)
      BY DEF CallersAtPart
    <3>2. caller'[t].pc \in {"idle"} \cup PcsOf(part)
      BY <1>0, <1>1 DEF CallersAtPart
    <3> QED BY <1>4, <3>1, <3>2, PcsTellPart DEF InstancePcs
  <2> QED BY <1>4, <2>1, InstanceStays DEF OthersRest
<1> QED BY <1>1, <1>2, <1>3, <1>4

LEMMA InstancesAccountedFollows ==
  ASSUME InstanceInv
  PROVE  InstancesAccounted
BY DEF InstanceInv, InstancesAccounted, MostInstances

-----------------------------------------------------------------------------
(* The isolation backend. *)
(* FoldLeft adds over the subsets of the domain, the largest index last. *)
Adding(s, f) ==
  f = [r \in SUBSET (DOMAIN s) |-> IF r = {} THEN 0 ELSE f[r \ {Max(r)}] + s[Max(r)]]

LEMMA EmptyUsage ==
  ASSUME NEW p \in Plugin, pooled[p] = <<>>
  PROVE  usage(p) = 0
<1> DEFINE s == <<>>
           sums == CHOOSE f : Adding(s, f)
           g == [r \in SUBSET {} |-> 0]
<1>1. usage(p) = (CHOOSE f : f = [r \in SUBSET (DOMAIN s) |->
                    IF r = {} THEN 0 ELSE f[r \ {Max(r)}] + s[Max(r)]])[DOMAIN s]
  BY DEF usage, FoldLeft, MapThenFoldSet
<1>2. usage(p) = sums[DOMAIN s]
  BY <1>1 DEF Adding
<1>3. DOMAIN s = {} /\ \A r \in SUBSET {} : r = {} OBVIOUS
<1> HIDE DEF s
<1>4. Adding(s, g)
  BY <1>3 DEF Adding
<1>5. Adding(s, sums)
  <2> HIDE DEF g
  <2> QED BY <1>4
<1>6. sums[{}] = 0
  <2> HIDE DEF sums
  <2> QED BY <1>3, <1>5 DEF Adding
<1> QED BY <1>2, <1>3, <1>6

LEMMA SingleUsage ==
  ASSUME NEW p \in Plugin, NEW n \in Nat, pooled[p] = <<n>>
  PROVE  usage(p) = n
<1> DEFINE s == <<n>>
           sums == CHOOSE f : Adding(s, f)
           g == [r \in SUBSET {1} |-> IF r = {} THEN 0 ELSE n]
<1>1. usage(p) = (CHOOSE f : f = [r \in SUBSET (DOMAIN s) |->
                    IF r = {} THEN 0 ELSE f[r \ {Max(r)}] + s[Max(r)]])[DOMAIN s]
  BY DEF usage, FoldLeft, MapThenFoldSet
<1>2. usage(p) = sums[DOMAIN s]
  BY <1>1 DEF Adding
<1>3. DOMAIN s = {1} /\ s[1] = n /\ Max({1}) = 1
  BY DEF Max
<1>4. \A r \in SUBSET {1} : r = {} \/ r = {1} OBVIOUS
<1>5. Adding(s, g)
  <2>1. \A r \in SUBSET {1} : g[r] = IF r = {} THEN 0 ELSE g[r \ {Max(r)}] + s[Max(r)]
    <3>1. g[{}] = 0 /\ g[{1}] = n OBVIOUS
    <3>2. {1} \ {Max({1})} = {}
      BY <1>3
    <3> HIDE DEF g, s
    <3>3. n = 0 + n OBVIOUS
    <3>4. g[{1}] = g[{1} \ {Max({1})}] + s[Max({1})]
      BY <1>3, <3>1, <3>2, <3>3
    <3> QED BY <1>4, <3>1, <3>4
  <2>2. g = [r \in SUBSET {1} |-> g[r]] OBVIOUS
  <2> HIDE DEF g, s
  <2> QED BY <1>3, <2>1, <2>2 DEF Adding
<1>6. Adding(s, sums)
  <2> HIDE DEF g
  <2> QED BY <1>5
<1>7. sums[{1}] = n
  <2> HIDE DEF sums, s
  <2>1. sums = [r \in SUBSET {1} |-> IF r = {} THEN 0 ELSE sums[r \ {Max(r)}] + s[Max(r)]]
    BY <1>3, <1>6 DEF Adding
  <2>2. sums[{}] = 0
    BY <2>1
  <2>3. sums[{1}] = sums[{1} \ {Max({1})}] + s[Max({1})]
    BY <2>1
  <2>4. {1} \ {Max({1})} = {}
    BY <1>3
  <2> QED BY <1>3, <2>2, <2>3, <2>4
<1> QED BY <1>2, <1>3, <1>7

LifecycleState == {NoPlugin, "Loaded", "Running"}

(* A plugin that has run has one instance, unless its last call failed.     *)
IsolationInv ==
  /\ modules \subseteq Plugin /\ plugin_lifecycles \in [Plugin -> LifecycleState]
  /\ pooled \in [Plugin -> {NoPlugin} \cup Seq(Nat)] /\ since \in [Plugin -> Nat]
  /\ \A p \in Plugin :
       /\ p \in modules <=> plugin_lifecycles[p] # NoPlugin
       /\ pooled[p] # NoPlugin <=> plugin_lifecycles[p] = "Running"
       /\ plugin_lifecycles[p] = "Loaded" => since[p] = 0
       /\ pooled[p] = <<>> => since[p] = 0
       /\ pooled[p] \in {NoPlugin, <<>>, <<since[p]>>}

LEMMA IsolationInitInv ==
  ASSUME Init
  PROVE  IsolationInv
<1>1. NoPlugin \notin {"Loaded", "Running"} /\ NoPlugin # <<>>
  BY PoolAssumption, EmptySeq
<1> QED BY <1>1 DEF Init, IsolationInit, IsolationInv, LifecycleState

LEMMA IsolationStays ==
  ASSUME IsolationInv, UNCHANGED isolationVars
  PROVE  IsolationInv'
BY DEF IsolationInv, isolationVars, pooledVars

LEMMA IsolationCallKept ==
  ASSUME IsolationInv, NEW t \in Caller, IsolationCall(t)
  PROVE  IsolationInv'
<1>0. NoPlugin \notin {"Loaded", "Running"} /\ NoPlugin # <<>> /\ \A n \in Nat : NoPlugin # <<n>>
  <2>1. NoPlugin \notin {"Loaded", "Running"} /\ NoPlugin \notin Seq(Nat)
    BY PoolAssumption
  <2>2. <<>> \in Seq(Nat) /\ \A n \in Nat : <<n>> \in Seq(Nat) OBVIOUS
  <2> QED BY <2>1, <2>2
<1>1. CASE LoadPlugin(t)
  <2>1. PICK p \in Plugin :
          /\ plugin_lifecycles[p] = NoPlugin
          /\ modules' = modules \cup {p}
          /\ plugin_lifecycles' = [plugin_lifecycles EXCEPT ![p] = "Loaded"]
          /\ since' = [since EXCEPT ![p] = 0]
    BY <1>1 DEF LoadPlugin
  <2>2. pooled' = pooled
    BY <1>1 DEF LoadPlugin
  <2> QED BY <1>0, <2>1, <2>2 DEF IsolationInv, LifecycleState
<1>2. CASE UnloadPlugin(t)
  <2>1. PICK p \in Plugin :
          /\ plugin_lifecycles[p] # NoPlugin
          /\ pooled' = [pooled EXCEPT ![p] = NoPlugin]
          /\ modules' = modules \ {p}
          /\ plugin_lifecycles' = [plugin_lifecycles EXCEPT ![p] = NoPlugin]
    BY <1>2 DEF UnloadPlugin
  <2>2. since' = since
    BY <1>2 DEF UnloadPlugin
  <2> QED BY <1>0, <2>1, <2>2 DEF IsolationInv, LifecycleState
<1>3. CASE CallFunction(t)
  <2>1. PICK p \in modules, succeeds \in BOOLEAN :
          /\ can_call_function(plugin_lifecycles[p])
          /\ plugin_lifecycles' = [plugin_lifecycles EXCEPT ![p] = "Running"]
          /\ pooled' = [pooled EXCEPT ![p] = IF succeeds
                                              THEN return_instance(get_or_create_instance(p))
                                              ELSE get_or_create_instance(p).others]
          /\ since' = [since EXCEPT ![p] = IF succeeds THEN since[p] + 1 ELSE 0]
    BY <1>3 DEF CallFunction
  <2>2. modules' = modules /\ p \in Plugin /\ since[p] \in Nat
    BY <1>3, <2>1 DEF CallFunction, IsolationInv
  <2>3. get_or_create_instance(p).others = <<>> /\ get_or_create_instance(p).calls = since[p]
    <3>1. CASE pooled[p] \in {NoPlugin, <<>>}
      <4>1. since[p] = 0
        BY <2>1, <2>2, <3>1 DEF IsolationInv, can_call_function
      <4> QED BY <3>1, <4>1 DEF get_or_create_instance
    <3>2. CASE pooled[p] = <<since[p]>>
      <4>1. pooled[p] \notin {NoPlugin, <<>>}
        BY <1>0, <2>2, <3>2
      <4>2. Len(pooled[p]) = 1 /\ Last(pooled[p]) = since[p]
        BY <3>2 DEF Last
      <4>3. Front(pooled[p]) = <<>>
        BY <4>2, SubSeqEmpty DEF Front
      <4> QED BY <4>1, <4>2, <4>3 DEF get_or_create_instance
    <3> QED BY <2>2, <3>1, <3>2 DEF IsolationInv
  <2>4. return_instance(get_or_create_instance(p)) = <<since[p] + 1>>
    <3>1. Len(<<>>) < PoolSize
      BY PoolAssumption
    <3>2. Append(<<>>, since[p] + 1) = <<since[p] + 1>> OBVIOUS
    <3> QED BY <2>3, <3>1, <3>2 DEF return_instance
  <2>5. since[p] + 1 \in Nat /\ <<since[p] + 1>> \in Seq(Nat) /\ <<>> \in Seq(Nat)
    BY <2>2
  <2>6. /\ \A q \in Plugin : q # p => /\ plugin_lifecycles'[q] = plugin_lifecycles[q]
                                      /\ pooled'[q] = pooled[q] /\ since'[q] = since[q]
        /\ plugin_lifecycles'[p] = "Running"
        /\ \/ pooled'[p] = <<since[p] + 1>> /\ since'[p] = since[p] + 1
           \/ pooled'[p] = <<>> /\ since'[p] = 0
    BY <2>1, <2>2, <2>3, <2>4 DEF IsolationInv
  <2>7. /\ plugin_lifecycles' \in [Plugin -> LifecycleState]
        /\ pooled' \in [Plugin -> {NoPlugin} \cup Seq(Nat)] /\ since' \in [Plugin -> Nat]
    <3>1. plugin_lifecycles' \in [Plugin -> LifecycleState]
      BY <2>1 DEF IsolationInv, LifecycleState
    <3>2. pooled' \in [Plugin -> {NoPlugin} \cup Seq(Nat)]
      BY <2>1, <2>3, <2>4, <2>5 DEF IsolationInv
    <3>3. since' \in [Plugin -> Nat]
      BY <2>1, <2>5 DEF IsolationInv
    <3> QED BY <3>1, <3>2, <3>3
  <2>8. ASSUME NEW q \in Plugin
        PROVE  /\ q \in modules' <=> plugin_lifecycles'[q] # NoPlugin
               /\ pooled'[q] # NoPlugin <=> plugin_lifecycles'[q] = "Running"
               /\ plugin_lifecycles'[q] = "Loaded" => since'[q] = 0
               /\ pooled'[q] = <<>> => since'[q] = 0
               /\ pooled'[q] \in {NoPlugin, <<>>, <<since'[q]>>}
    <3>1. CASE q = p
      <4>1. <<since[p] + 1>> # NoPlugin /\ <<since[p] + 1>> # <<>> /\ "Running" # NoPlugin
        BY <1>0, <2>5
      <4> QED BY <1>0, <2>1, <2>2, <2>6, <3>1, <4>1
    <3>2. CASE q # p BY <2>2, <2>6, <3>2 DEF IsolationInv
    <3> QED BY <3>1, <3>2
  <2>9. modules' \subseteq Plugin
    BY <2>2 DEF IsolationInv
  <2> QED BY <2>7, <2>8, <2>9 DEF IsolationInv
<1> QED BY <1>1, <1>2, <1>3 DEF IsolationCall

LEMMA IsolationKept ==
  ASSUME CallersAtPart, IsolationInv, [Next]_vars
  PROVE  IsolationInv'
<1>1. /\ UNCHANGED part
      /\ \/ Still
         \/ \E t \in Caller : PartSteps(part, t) /\ OthersRest /\ Moves(t, PcsOf(part))
  BY NextSteps
<1>2. CASE Still BY <1>2, IsolationStays DEF Still
<1>3. CASE part = "isolation" /\ \E t \in Caller : PartSteps(part, t)
  BY <1>3, IsolationCallKept DEF PartSteps, Pool
<1>4. CASE part # "isolation" /\ OthersRest BY <1>4, IsolationStays DEF OthersRest
<1> QED BY <1>1, <1>2, <1>3, <1>4

LEMMA UsageKeptFollows ==
  ASSUME IsolationInv
  PROVE  UsageKept
<1>1. ASSUME NEW p \in Plugin, pooled[p] # NoPlugin
      PROVE  Len(pooled[p]) <= 1 /\ usage(p) = since[p]
  <2>1. since[p] \in Nat
    BY DEF IsolationInv
  <2>2. CASE pooled[p] = <<>> BY <2>2, EmptyUsage DEF IsolationInv
  <2>3. CASE pooled[p] = <<since[p]>> BY <2>1, <2>3, SingleUsage
  <2> QED BY <1>1, <2>2, <2>3 DEF IsolationInv
<1> QED BY <1>1 DEF IsolationInv, UsageKept

(* No resource, instance or count is lost that the statistics and usages do *)
(* not lose as well (resource.rs, instance.rs, backend.rs, pool.rs), for    *)
(* any number of threads, sizes of the pools and plugins.                   *)
THEOREM PoolsStayAccounted == Spec => []PoolsAccounted
<1>1. Init => CallersAtPart /\ ResourceInv /\ InstanceInv /\ IsolationInv
  BY InitCallers, ResourceInitInv, InstanceInitInv, IsolationInitInv
<1>2. CallersAtPart /\ ResourceInv /\ InstanceInv /\ IsolationInv /\ [Next]_vars
        => CallersAtPart' /\ ResourceInv' /\ InstanceInv' /\ IsolationInv'
  BY CallersStayAtPart, ResourcesKept, InstancesKept, IsolationKept
<1>3. ResourceInv /\ InstanceInv /\ IsolationInv => PoolsAccounted
  BY ResourcesAccountedFollows, InstancesAccountedFollows, UsageKeptFollows DEF PoolsAccounted
<1> QED BY <1>1, <1>2, <1>3, PTL DEF Spec
-----------------------------------------------------------------------------
(* The atomics. *)
LEMMA WordsWrap ==
  ASSUME NEW n \in Nat, n < WordSize + WordSize
  PROVE  n % WordSize = IF n < WordSize THEN n ELSE n - WordSize
BY WordsHoldCallers

(* Who was inside when the counter was reset is still to leave: the counter *)
(* goes below zero for at most these.                                       *)
CounterTells ==
  /\ history.forgotten \in 0 .. Cardinality(Caller)
  /\ word.counter = IF Holding({"inside"}) >= history.forgotten
                      THEN Holding({"inside"}) - history.forgotten
                      ELSE WordSize + Holding({"inside"}) - history.forgotten

FlagTells == word.flag \in BOOLEAN /\ Holding({"holds"}) = IF word.flag THEN 1 ELSE 0

Numbers(t) == caller[t].pc = "numbered"

NumbersTell ==
  /\ word.sequence \in Nat /\ history.era \in Nat
  /\ \A t \in Caller : Numbers(t) =>
       /\ caller[t].number \in Nat /\ caller[t].era \in Nat /\ caller[t].era <= history.era
       /\ caller[t].era = history.era => caller[t].number < word.sequence
  /\ \A t, u \in Caller :
       Numbers(t) /\ Numbers(u) /\ t # u /\ caller[t].era = caller[u].era
         => caller[t].number # caller[u].number

VersionTells ==
  /\ history.updates \in Nat /\ word.version = 1 + history.updates
  /\ \A t \in Caller : caller[t].pc = "versioned" =>
       caller[t].updates \in Nat /\ caller[t].seen = 1 + caller[t].updates

WordTyped ==
  /\ word = [counter |-> word.counter, flag |-> word.flag, sequence |-> word.sequence,
             version |-> word.version]
  /\ history = [forgotten |-> history.forgotten, era |-> history.era, updates |-> history.updates]

AtomicsInv == WordTyped /\ CounterTells /\ FlagTells /\ NumbersTell /\ VersionTells

LEMMA AtomicsInitInv ==
  ASSUME Init
  PROVE  AtomicsInv
<1>1. ASSUME NEW pc, pc # "idle"
      PROVE  Holding({pc}) = 0
  <2>1. {t \in Caller : caller[t].pc \in {pc}} = {}
    BY <1>1 DEF Init, CallsInit, Idle
  <2> QED BY <2>1, FS_EmptySet DEF Holding
<1>2. Holding({"inside"}) = 0 /\ Holding({"holds"}) = 0 /\ Cardinality(Caller) \in Nat
  BY <1>1, HoldingTyped
<1>3. \A t \in Caller : caller[t].pc = "idle"
  BY DEF Init, CallsInit, Idle
<1>4. /\ word = [counter |-> 0, flag |-> FALSE, sequence |-> 0, version |-> 1]
      /\ history = [forgotten |-> 0, era |-> 0, updates |-> 0]
  BY DEF Init, AtomicsInit
<1> QED BY <1>2, <1>3, <1>4
     DEF AtomicsInv, WordTyped, CounterTells, FlagTells, NumbersTell, Numbers, VersionTells

LEMMA AtomicsStay ==
  ASSUME AtomicsInv, UNCHANGED atomicVars,
         \A t \in Caller : \/ caller'[t] = caller[t]
                           \/ caller[t].pc \notin AtomicPcs /\ caller'[t].pc \notin AtomicPcs
  PROVE  AtomicsInv'
<1>1. ASSUME NEW pcs \in SUBSET AtomicPcs
      PROVE  Holding(pcs)' = Holding(pcs)
  <2>1. {t \in Caller : caller'[t].pc \in pcs} = {t \in Caller : caller[t].pc \in pcs} OBVIOUS
  <2> QED BY <2>1 DEF Holding
<1>2. Holding({"inside"})' = Holding({"inside"}) /\ Holding({"holds"})' = Holding({"holds"})
  BY <1>1 DEF AtomicPcs
<1>3. UNCHANGED <<word, history>>
  BY DEF atomicVars
<1> QED BY <1>2, <1>3
     DEF AtomicsInv, WordTyped, CounterTells, FlagTells, NumbersTell, Numbers, VersionTells, AtomicPcs

(* The counter goes up and down with those inside. *)
LEMMA CounterMoves ==
  ASSUME CounterTells, NEW up \in BOOLEAN, history'.forgotten = history.forgotten,
         word'.counter = IF up THEN (word.counter + 1) % WordSize
                         ELSE (word.counter + WordSize - 1) % WordSize,
         Holding({"inside"})' = IF up THEN Holding({"inside"}) + 1 ELSE Holding({"inside"}) - 1,
         Holding({"inside"})' \in Nat, Holding({"inside"})' <= Cardinality(Caller)
  PROVE  CounterTells'
<1>1. /\ Holding({"inside"}) \in Nat /\ Holding({"inside"}) <= Cardinality(Caller)
      /\ Cardinality(Caller) \in Nat \ {0} /\ WordSize \in Nat /\ Cardinality(Caller) < WordSize
      /\ history.forgotten \in 0 .. Cardinality(Caller)
  BY HoldingTyped, WordsHoldCallers DEF CounterTells
<1>2. word.counter \in Nat /\ word.counter < WordSize
  BY <1>1 DEF CounterTells
<1>3. CASE up
  <2>1. word'.counter = IF word.counter + 1 < WordSize THEN word.counter + 1 ELSE 0
    BY <1>1, <1>2, <1>3, WordsWrap
  <2> QED BY <1>1, <1>2, <1>3, <2>1 DEF CounterTells
<1>4. CASE ~up
  <2>1. word'.counter = IF word.counter = 0 THEN WordSize - 1 ELSE word.counter - 1
    BY <1>1, <1>2, <1>4, WordsWrap
  <2> QED BY <1>1, <1>2, <1>4, <2>1 DEF CounterTells
<1> QED BY <1>3, <1>4

(* What a step does not touch. *)
LEMMA AtomicRests ==
  ASSUME AtomicsInv, NEW t \in Caller, NEW pc, NEW next, StepTo(t, pc, next)
  PROVE  /\ /\ word'.counter = word.counter /\ history'.forgotten = history.forgotten
            /\ "inside" \notin {pc, next}
            => CounterTells'
         /\ word'.flag = word.flag /\ "holds" \notin {pc, next} => FlagTells'
         /\ word'.sequence = word.sequence /\ history'.era = history.era /\ next # "numbered"
            => NumbersTell'
         /\ word'.version = word.version /\ history'.updates = history.updates
            /\ next # "versioned" => VersionTells'
<1>1. \A pcs : Holding(pcs)' = Holding(pcs) + In(next, pcs) - In(pc, pcs) /\ Holding(pcs) \in Nat
  BY StepCounts
<1>2. "inside" \notin {pc, next} => Holding({"inside"})' = Holding({"inside"})
  BY <1>1 DEF In
<1>3. "holds" \notin {pc, next} => Holding({"holds"})' = Holding({"holds"})
  BY <1>1 DEF In
<1>4. \A u \in Caller : caller'[u].pc # next => caller'[u] = caller[u]
  BY DEF StepTo
<1>5. ASSUME word'.sequence = word.sequence, history'.era = history.era, next # "numbered"
      PROVE  NumbersTell'
  <2>1. \A u \in Caller : Numbers(u)' => Numbers(u) /\ caller'[u] = caller[u]
    BY <1>4, <1>5 DEF Numbers
  <2> QED BY <1>5, <2>1 DEF AtomicsInv, NumbersTell
<1>6. ASSUME word'.version = word.version, history'.updates = history.updates, next # "versioned"
      PROVE  VersionTells'
  <2>1. \A u \in Caller : caller'[u].pc = "versioned" => caller[u].pc = "versioned" /\ caller'[u] = caller[u]
    BY <1>4, <1>6
  <2> QED BY <1>6, <2>1 DEF AtomicsInv, VersionTells
<1> QED BY <1>2, <1>3, <1>5, <1>6 DEF AtomicsInv, CounterTells, FlagTells

LEMMA CountInKept ==
  ASSUME CallersKnown, AtomicsInv, NEW t \in Caller, CountIn(t) \/ CountOut(t)
  PROVE  AtomicsInv'
<1>0. /\ "pc" \in DOMAIN Idle /\ Idle.pc = "idle"
      /\ "pc" \in DOMAIN [pc |-> "inside"] /\ [pc |-> "inside"].pc = "inside"
  BY DEF Idle
<1>1. PICK up \in BOOLEAN :
        /\ StepTo(t, IF up THEN "idle" ELSE "inside", IF up THEN "inside" ELSE "idle")
        /\ word' = [word EXCEPT !.counter = IF up THEN (word.counter + 1) % WordSize
                                            ELSE (word.counter + WordSize - 1) % WordSize]
  <2>1. CASE CountIn(t)
    <3>1. StepTo(t, "idle", "inside")
      BY <1>0, <2>1, CallSteps DEF CountIn
    <3> QED BY <2>1, <3>1 DEF CountIn, Increment
  <2>2. CASE CountOut(t)
    <3>1. StepTo(t, "inside", "idle")
      BY <2>2, GotoPcSteps DEF CountOut
    <3> QED BY <2>2, <3>1 DEF CountOut, Decrement
  <2> QED BY <2>1, <2>2
<1>2. PICK pc \in {"idle", "inside"}, next \in {"idle", "inside"} :
        pc = (IF up THEN "idle" ELSE "inside") /\ next = (IF up THEN "inside" ELSE "idle")
  OBVIOUS
<1>3. StepTo(t, pc, next) /\ next # pc
  BY <1>1, <1>2
<1>4. history' = history
  BY DEF CountIn, CountOut
<1>5. /\ word'.counter = IF up THEN (word.counter + 1) % WordSize
                         ELSE (word.counter + WordSize - 1) % WordSize
      /\ word'.flag = word.flag /\ word'.sequence = word.sequence /\ word'.version = word.version
      /\ WordTyped'
  BY <1>1, <1>4 DEF AtomicsInv, WordTyped
<1>6. /\ Holding({"inside"})' = IF up THEN Holding({"inside"}) + 1 ELSE Holding({"inside"}) - 1
      /\ Holding({"inside"})' \in Nat /\ Holding({"inside"})' <= Cardinality(Caller)
  <2>1. Holding({"inside"})' = Holding({"inside"}) + In(next, {"inside"}) - In(pc, {"inside"})
        /\ Holding({"inside"}) \in Nat /\ Holding({"inside"})' \in Nat
    BY <1>3, StepCounts
  <2>2. Cardinality({u \in Caller : caller'[u].pc \in {"inside"}}) <= Cardinality(Caller)
    BY CallersAssumption, FS_Subset
  <2> QED BY <1>2, <2>1, <2>2 DEF In, Holding
<1>7. CounterTells'
  BY <1>4, <1>5, <1>6, CounterMoves DEF AtomicsInv
<1>8. FlagTells' /\ NumbersTell' /\ VersionTells'
  BY <1>2, <1>3, <1>4, <1>5, AtomicRests
<1> QED BY <1>5, <1>7, <1>8 DEF AtomicsInv

LEMMA ResetCounterKept ==
  ASSUME CallersKnown, AtomicsInv, NEW t \in Caller, ResetCounter(t)
  PROVE  AtomicsInv'
<1>1. StepTo(t, "idle", "idle")
  <2>1. "pc" \in DOMAIN Idle /\ Idle.pc = "idle" /\ Call(t, Idle)
    BY DEF Idle, ResetCounter, CallAtOnce
  <2> QED BY <2>1, CallSteps
<1>2. /\ word'.counter = 0 /\ history'.forgotten = Cardinality(Inside)
      /\ word'.flag = word.flag /\ word'.sequence = word.sequence /\ word'.version = word.version
      /\ history'.era = history.era /\ history'.updates = history.updates /\ WordTyped'
  BY DEF ResetCounter, AtomicsInv, WordTyped
<1>3. Cardinality(Inside) = Holding({"inside"})
  BY DEF Inside, At, Holding
<1>4. Holding({"inside"})' = Holding({"inside"}) /\ Holding({"inside"}) \in 0 .. Cardinality(Caller)
  <2>1. Holding({"inside"})' = Holding({"inside"}) + In("idle", {"inside"}) - In("idle", {"inside"})
        /\ Holding({"inside"}) \in Nat
    BY <1>1, StepCounts
  <2>2. Holding({"inside"}) <= Cardinality(Caller) /\ Cardinality(Caller) \in Nat
    BY HoldingTyped
  <2> QED BY <2>1, <2>2 DEF In
<1>5. CounterTells'
  BY <1>2, <1>3, <1>4 DEF CounterTells
<1>6. FlagTells' /\ NumbersTell' /\ VersionTells'
  BY <1>1, <1>2, AtomicRests
<1> QED BY <1>2, <1>5, <1>6 DEF AtomicsInv

(* The flag, and the thread that set it. *)
LEMMA FlagKept ==
  ASSUME CallersKnown, AtomicsInv, NEW t \in Caller, TrySet(t) \/ TrySetThen(t) \/ Unset(t)
  PROVE  AtomicsInv'
<1>0. /\ "pc" \in DOMAIN Idle /\ Idle.pc = "idle" /\ "pc" \in DOMAIN Swap
      /\ Swap.pc = IF word.flag THEN "idle" ELSE "holds"
  BY DEF Idle, Swap
<1>1. PICK pc \in {"idle", "found", "holds"}, next \in {"idle", "holds"} :
        /\ StepTo(t, pc, next)
        /\ \/ /\ pc \in {"idle", "found"} /\ word'.flag = TRUE
              /\ next = (IF word.flag THEN "idle" ELSE "holds")
           \/ pc = "holds" /\ word'.flag = FALSE /\ next = "idle"
  <2>1. CASE Unset(t)
    <3>1. StepTo(t, "holds", "idle")
      BY <2>1, GotoPcSteps DEF Unset
    <3>2. word'.flag = FALSE
      BY <2>1 DEF Unset, AtomicsInv, WordTyped
    <3> QED BY <3>1, <3>2
  <2>2. CASE TrySet(t) \/ TrySetThen(t)
    <3>1. PICK pc \in {"idle", "found"} : At(t, pc) /\ caller' = [caller EXCEPT ![t] = Swap]
      BY <2>2 DEF TrySet, TrySetThen, Call, Goto
    <3>2. StepTo(t, pc, Swap.pc)
      BY <1>0, <3>1, GotoFacts DEF StepTo, At
    <3>3. word'.flag = TRUE
      BY <2>2 DEF TrySet, TrySetThen, SetFlag, AtomicsInv, WordTyped
    <3>4. Swap.pc = (IF word.flag THEN "idle" ELSE "holds") /\ Swap.pc \in {"idle", "holds"}
      BY <1>0
    <3> QED BY <3>2, <3>3, <3>4
  <2> QED BY <2>1, <2>2
<1>2. /\ history' = history /\ word'.counter = word.counter /\ word'.sequence = word.sequence
      /\ word'.version = word.version /\ WordTyped'
  BY DEF TrySet, TrySetThen, Unset, SetFlag, AtomicsInv, WordTyped
<1>3. /\ Holding({"holds"})' = Holding({"holds"}) + In(next, {"holds"}) - In(pc, {"holds"})
      /\ Holding({"holds"}) \in Nat /\ Holding({"holds"})' \in Nat
  BY <1>1, StepCounts
<1>4. FlagTells'
  <2>1. word.flag \in BOOLEAN /\ Holding({"holds"}) = IF word.flag THEN 1 ELSE 0
    BY DEF AtomicsInv, FlagTells
  <2>2. word'.flag \in BOOLEAN
    BY <1>1
  <2>3. CASE pc = "holds"
    <3>1. Holding({"holds"})' = Holding({"holds"}) - 1 /\ word'.flag = FALSE
      BY <1>1, <1>3, <2>3 DEF In
    <3>2. Holding({"holds"})' = 0
      BY <1>3, <2>1, <3>1
    <3> QED BY <3>1, <3>2 DEF FlagTells
  <2>4. CASE pc # "holds" /\ word.flag
    <3>1. Holding({"holds"})' = Holding({"holds"}) /\ word'.flag = TRUE
      BY <1>1, <1>3, <2>4 DEF In
    <3> QED BY <2>1, <2>4, <3>1 DEF FlagTells
  <2>5. CASE pc # "holds" /\ ~word.flag
    <3>1. Holding({"holds"})' = Holding({"holds"}) + 1 /\ word'.flag = TRUE
      BY <1>1, <1>3, <2>5 DEF In
    <3>2. Holding({"holds"})' = 1
      BY <2>1, <2>5, <3>1
    <3> QED BY <3>1, <3>2 DEF FlagTells
  <2> QED BY <2>3, <2>4, <2>5
<1>5. CounterTells' /\ NumbersTell' /\ VersionTells'
  BY <1>1, <1>2, AtomicRests
<1> QED BY <1>2, <1>4, <1>5 DEF AtomicsInv

LEMMA QuietAtomics ==
  ASSUME CallersKnown, AtomicsInv, NEW t \in Caller, WaitForUnset(t) \/ Poll(t) \/ EndNumber(t)
  PROVE  AtomicsInv'
<1>0. /\ "pc" \in DOMAIN Idle /\ Idle.pc = "idle"
      /\ "pc" \in DOMAIN [pc |-> "polls"] /\ [pc |-> "polls"].pc = "polls"
  BY DEF Idle
<1>1. PICK pc \in {"idle", "polls", "numbered"}, next \in {"idle", "polls", "found"} :
        StepTo(t, pc, next)
  <2>1. CASE WaitForUnset(t) BY <1>0, <2>1, CallSteps DEF WaitForUnset
  <2>2. CASE Poll(t) BY <2>2, GotoPcSteps DEF Poll
  <2>3. CASE EndNumber(t) BY <2>3, GotoPcSteps DEF EndNumber
  <2> QED BY <2>1, <2>2, <2>3
<1>2. word' = word /\ history' = history
  BY DEF WaitForUnset, Poll, EndNumber, atomicVars
<1>3. CounterTells' /\ FlagTells' /\ NumbersTell' /\ VersionTells'
  BY <1>1, <1>2, AtomicRests
<1> QED BY <1>2, <1>3 DEF AtomicsInv, WordTyped

LEMMA SequenceKept ==
  ASSUME CallersKnown, AtomicsInv, NEW t \in Caller, NextNumber(t) \/ ResetSequence(t)
  PROVE  AtomicsInv'
<1>1. CASE NextNumber(t)
  <2> DEFINE state == [pc |-> "numbered", number |-> word.sequence, era |-> history.era]
  <2>1. /\ "pc" \in DOMAIN state /\ state.pc = "numbered" /\ Call(t, state)
        /\ state.number = word.sequence /\ state.era = history.era
    BY <1>1 DEF NextNumber
  <2> HIDE DEF state
  <2>2. StepTo(t, "idle", "numbered") /\ caller'[t] = state
    BY <2>1, CallSteps, GotoFacts DEF Call
  <2>3. /\ word'.sequence = word.sequence + 1 /\ history' = history /\ WordTyped'
        /\ word'.counter = word.counter /\ word'.flag = word.flag /\ word'.version = word.version
    BY <1>1 DEF NextNumber, AtomicsInv, WordTyped
  <2>4. CounterTells' /\ FlagTells' /\ VersionTells'
    BY <2>2, <2>3, AtomicRests
  <2>5. NumbersTell'
    <3>1. word.sequence \in Nat /\ history.era \in Nat
      BY DEF AtomicsInv, NumbersTell
    <3>2. /\ caller'[t].pc = "numbered" /\ caller'[t].number = word.sequence
          /\ caller'[t].era = history.era
      BY <2>1, <2>2
    <3>3. ASSUME NEW u \in Caller, Numbers(u)', u # t
          PROVE  /\ Numbers(u) /\ caller'[u] = caller[u] /\ caller[u].era <= history.era
                 /\ caller[u].number \in Nat /\ caller[u].era \in Nat
                 /\ caller[u].era = history.era => caller[u].number < word.sequence
      BY <2>2, <3>3 DEF StepTo, Numbers, AtomicsInv, NumbersTell
    <3>4. \A u \in Caller : Numbers(u)' =>
            /\ caller'[u].number \in Nat /\ caller'[u].era \in Nat /\ caller'[u].era <= history'.era
            /\ caller'[u].era = history'.era => caller'[u].number < word'.sequence
      <4>1. ASSUME NEW u \in Caller, Numbers(u)'
            PROVE  /\ caller'[u].number \in Nat /\ caller'[u].era \in Nat /\ caller'[u].era <= history'.era
                   /\ caller'[u].era = history'.era => caller'[u].number < word'.sequence
        <5>1. CASE u = t BY <2>3, <3>1, <3>2, <5>1
        <5>2. CASE u # t BY <2>3, <3>1, <3>3, <4>1, <5>2
        <5> QED BY <5>1, <5>2
      <4> QED BY <4>1
    <3>5. ASSUME NEW u \in Caller, NEW v \in Caller, Numbers(u)', Numbers(v)', u # v,
                 caller'[u].era = caller'[v].era
          PROVE  caller'[u].number # caller'[v].number
      <4>1. CASE u = t BY <3>1, <3>2, <3>3, <3>5, <4>1
      <4>2. CASE v = t BY <3>1, <3>2, <3>3, <3>5, <4>2
      <4>3. CASE u # t /\ v # t BY <3>3, <3>5, <4>3 DEF AtomicsInv, NumbersTell
      <4> QED BY <4>1, <4>2, <4>3
    <3> QED BY <2>3, <3>1, <3>4, <3>5 DEF NumbersTell
  <2> QED BY <2>3, <2>4, <2>5 DEF AtomicsInv
<1>2. CASE ResetSequence(t)
  <2>1. StepTo(t, "idle", "idle")
    <3>1. "pc" \in DOMAIN Idle /\ Idle.pc = "idle" /\ Call(t, Idle)
      BY <1>2 DEF Idle, ResetSequence, CallAtOnce
    <3> QED BY <3>1, CallSteps
  <2>2. /\ word'.sequence = 0 /\ history'.era = history.era + 1 /\ WordTyped'
        /\ word'.counter = word.counter /\ word'.flag = word.flag /\ word'.version = word.version
        /\ history'.forgotten = history.forgotten /\ history'.updates = history.updates
    BY <1>2 DEF ResetSequence, AtomicsInv, WordTyped
  <2>3. CounterTells' /\ FlagTells' /\ VersionTells'
    BY <2>1, <2>2, AtomicRests
  <2>4. NumbersTell'
    <3>1. \A u \in Caller : Numbers(u)' => Numbers(u) /\ caller'[u] = caller[u]
      BY <2>1 DEF StepTo, Numbers
    <3>2. word.sequence \in Nat /\ history.era \in Nat
      BY DEF AtomicsInv, NumbersTell
    <3>3. \A u \in Caller : Numbers(u)' =>
            /\ caller'[u].number \in Nat /\ caller'[u].era \in Nat /\ caller'[u].era <= history'.era
            /\ caller'[u].era # history'.era
      BY <2>2, <3>1, <3>2 DEF AtomicsInv, NumbersTell
    <3>4. \A u, v \in Caller :
            Numbers(u)' /\ Numbers(v)' /\ u # v /\ caller'[u].era = caller'[v].era
              => caller'[u].number # caller'[v].number
      BY <3>1 DEF AtomicsInv, NumbersTell
    <3> QED BY <2>2, <3>2, <3>3, <3>4 DEF NumbersTell
  <2> QED BY <2>2, <2>3, <2>4 DEF AtomicsInv
<1> QED BY <1>1, <1>2

LEMMA VersionKept ==
  ASSUME CallersKnown, AtomicsInv, NEW t \in Caller,
         GetVersion(t) \/ CheckAndUpdate(t) \/ AdvanceVersion(t)
  PROVE  AtomicsInv'
<1>0. history.updates \in Nat /\ word.version = 1 + history.updates
  BY DEF AtomicsInv, VersionTells
<1>1. CASE GetVersion(t)
  <2> DEFINE state == [pc |-> "versioned", seen |-> word.version, updates |-> history.updates]
  <2>1. /\ "pc" \in DOMAIN state /\ state.pc = "versioned" /\ Call(t, state)
        /\ state.seen = word.version /\ state.updates = history.updates
    BY <1>1 DEF GetVersion
  <2> HIDE DEF state
  <2>2. StepTo(t, "idle", "versioned") /\ caller'[t] = state
    BY <2>1, CallSteps, GotoFacts DEF Call
  <2>3. word' = word /\ history' = history
    BY <1>1 DEF GetVersion, atomicVars
  <2>4. CounterTells' /\ FlagTells' /\ NumbersTell'
    BY <2>2, <2>3, AtomicRests
  <2>5. VersionTells'
    BY <1>0, <2>1, <2>2, <2>3 DEF StepTo, AtomicsInv, VersionTells
  <2> QED BY <2>3, <2>4, <2>5 DEF AtomicsInv, WordTyped
<1>2. CASE CheckAndUpdate(t) \/ AdvanceVersion(t)
  <2>1. PICK pc \in {"idle", "versioned"} : StepTo(t, pc, "idle")
    <3>1. CASE CheckAndUpdate(t) BY <3>1, GotoPcSteps DEF CheckAndUpdate
    <3>2. CASE AdvanceVersion(t)
      <4>1. "pc" \in DOMAIN Idle /\ Idle.pc = "idle" /\ Call(t, Idle)
        BY <3>2 DEF Idle, AdvanceVersion, CallAtOnce
      <4> QED BY <4>1, CallSteps
    <3> QED BY <1>2, <3>1, <3>2
  <2>2. \/ word' = word /\ history' = history
        \/ NewVersion
    BY <1>2 DEF CheckAndUpdate, AdvanceVersion, atomicVars
  <2>3. /\ WordTyped' /\ word'.counter = word.counter /\ word'.flag = word.flag
        /\ word'.sequence = word.sequence /\ history'.forgotten = history.forgotten
        /\ history'.era = history.era
        /\ history'.updates \in {history.updates, history.updates + 1}
        /\ word'.version = 1 + history'.updates
    BY <1>0, <2>2 DEF NewVersion, AtomicsInv, WordTyped
  <2>4. CounterTells' /\ FlagTells' /\ NumbersTell'
    BY <2>1, <2>3, AtomicRests
  <2>5. \A u \in Caller : caller'[u].pc = "versioned" => caller[u].pc = "versioned" /\ caller'[u] = caller[u]
    BY <2>1 DEF StepTo
  <2>6. VersionTells'
    BY <1>0, <2>3, <2>5 DEF AtomicsInv, VersionTells
  <2> QED BY <2>3, <2>4, <2>6 DEF AtomicsInv
<1> QED BY <1>1, <1>2

LEMMA AtomicsKept ==
  ASSUME CallersAtPart, AtomicsInv, [Next]_vars
  PROVE  AtomicsInv'
<1>0. CallersKnown /\ CallersAtPart'
  BY CallersStayAtPart DEF CallersAtPart
<1>1. /\ UNCHANGED part
      /\ \/ Still
         \/ \E t \in Caller : PartSteps(part, t) /\ OthersRest /\ Moves(t, PcsOf(part))
  BY NextSteps
<1>2. CASE Still
  <2>1. \A t \in Caller : \/ caller'[t] = caller[t]
                          \/ caller[t].pc \notin AtomicPcs /\ caller'[t].pc \notin AtomicPcs
    BY <1>2 DEF Still, AtomicPcs
  <2> QED BY <1>2, <2>1, AtomicsStay DEF Still, syncVars
<1>3. CASE part = "atomics" /\ \E t \in Caller : PartSteps(part, t)
  <2>1. PICK t \in Caller : AtomicCall(t) \/ AtomicStep(t)
    BY <1>3 DEF PartSteps, Pool
  <2> QED
    BY <1>0, <2>1, CountInKept, ResetCounterKept, FlagKept, QuietAtomics, SequenceKept, VersionKept
       DEF AtomicCall, AtomicStep
<1>4. CASE part # "atomics" /\ OthersRest
  <2>1. ASSUME NEW t \in Caller
        PROVE  caller[t].pc \notin AtomicPcs /\ caller'[t].pc \notin AtomicPcs
    <3>1. caller[t].pc \in {"idle"} \cup PcsOf(part)
      BY DEF CallersAtPart
    <3>2. caller'[t].pc \in {"idle"} \cup PcsOf(part)
      BY <1>0, <1>1 DEF CallersAtPart
    <3> QED BY <1>4, <3>1, <3>2, PcsTellPart
  <2> QED BY <1>4, <2>1, AtomicsStay DEF OthersRest
<1> QED BY <1>1, <1>2, <1>3, <1>4

LEMMA AtomicsTellFollows ==
  ASSUME AtomicsInv
  PROVE  AtomicsTell
<1> DEFINE Holders == {t \in Caller : At(t, "holds")}
           Numbered == {t \in Caller : At(t, "numbered")}
<1>1. word.counter = (WordSize + Cardinality(Inside) - history.forgotten) % WordSize
  <2>1. Cardinality(Inside) = Holding({"inside"}) /\ Holding({"inside"}) \in Nat
        /\ Holding({"inside"}) <= Cardinality(Caller) /\ Cardinality(Caller) \in Nat
    BY HoldingTyped DEF Inside, At, Holding
  <2>2. /\ history.forgotten \in 0 .. Cardinality(Caller)
        /\ WordSize \in Nat /\ Cardinality(Caller) < WordSize
    BY WordsHoldCallers, <2>1 DEF AtomicsInv, CounterTells
  <2>3. WordSize + Cardinality(Inside) - history.forgotten \in Nat
        /\ WordSize + Cardinality(Inside) - history.forgotten < WordSize + WordSize
    BY <2>1, <2>2
  <2> DEFINE n == WordSize + Cardinality(Inside) - history.forgotten
  <2>4. n % WordSize = IF n < WordSize THEN n ELSE n - WordSize
    <3>1. n \in Nat /\ n < WordSize + WordSize
      BY <2>3
    <3> HIDE DEF n
    <3> QED BY <3>1, WordsWrap
  <2>5. word.counter = IF Holding({"inside"}) >= history.forgotten
                      THEN Holding({"inside"}) - history.forgotten
                      ELSE WordSize + Holding({"inside"}) - history.forgotten
    BY DEF AtomicsInv, CounterTells
  <2> QED BY <2>1, <2>2, <2>4, <2>5
<1>2. Cardinality(Holders) = IF word.flag THEN 1 ELSE 0
  BY DEF Holding, At, AtomicsInv, FlagTells
<1>3. \A t, u \in Numbered :
        t # u /\ caller[t].era = caller[u].era => caller[t].number # caller[u].number
  BY DEF At, AtomicsInv, NumbersTell, Numbers
<1>4. /\ word.version = 1 + history.updates
      /\ \A t \in Caller : At(t, "versioned") =>
           (HasChangedSince(caller[t].seen) <=> history.updates > caller[t].updates)
  BY DEF At, AtomicsInv, VersionTells, HasChangedSince
<1> QED BY <1>1, <1>2, <1>3, <1>4 DEF AtomicsTell

-----------------------------------------------------------------------------
(* The locks. *)
Stats == [acquisition_count : Nat, failed_count : Nat, total_hold : Nat, max_hold : Nat]

Asking == [pc : {"ask", "taken", "guard"}, lock : Lock, how : {"wait", "try", "timed"}]

Loading == [pc : {"load"}, lock : Lock, held : Nat]

Raising == [pc : {"raise"}, lock : Lock, held : Nat, seen : Nat]

Clearing == [pc : {"reset"}, lock : Lock]

LocksTyped ==
  /\ stats \in [Lock -> Stats] /\ longest \in [Lock -> Nat] /\ torn \in SUBSET Lock
  /\ \A t \in Caller : caller[t].pc \in LockPcs =>
       caller[t] \in Asking \cup Loading \cup Raising \cup Clearing

(* The guards that are out, those being dropped, and the resets under way. *)
GuardsOut(k) == {t \in Caller : caller[t].pc = "guard" /\ caller[t].lock = k}

Leaving(k) == {t \in Caller : caller[t].pc \in {"load", "raise"} /\ caller[t].lock = k}

Resetters(k) == {t \in Caller : caller[t].pc = "reset" /\ caller[t].lock = k}

Released(k) == stats[k].acquisition_count - Cardinality(GuardsOut(k))

(* The maximum is the longest time held, or a thread that held a guard so   *)
(* long is about to raise it.                                               *)
MaximumTells(k) ==
  /\ stats[k].max_hold <= longest[k]
  /\ stats[k].max_hold = longest[k] \/ \E t \in Leaving(k) : caller[t].held = longest[k]
  /\ \A t \in Leaving(k) : caller[t].held <= longest[k]

HoldsTell(k) ==
  /\ Released(k) \in Nat /\ longest[k] <= stats[k].total_hold
  /\ stats[k].total_hold <= longest[k] * Released(k)

(* A reset that tears nothing is alone and finds no guard out. *)
ResetTells(k) ==
  /\ GuardsOut(k) = {} /\ Leaving(k) = {} /\ stats[k].acquisition_count = 0
  /\ \A t, u \in Resetters(k) : t = u

StatsTell(k) ==
  /\ Resetters(k) # {} => ResetTells(k)
  /\ Resetters(k) = {} => HoldsTell(k) /\ MaximumTells(k)

RaisesGoUp == \A t \in Caller : caller[t].pc = "raise" => caller[t].seen < caller[t].held

LocksInv == LocksTyped /\ RaisesGoUp /\ \A k \in Lock \ torn : StatsTell(k)

LEMMA ResettingFacts ==
  ASSUME NEW k
  PROVE  /\ Resetting(k) <=> Resetters(k) # {}
         /\ Counted(k) = GuardsOut(k) \cup Leaving(k)
BY DEF Resetting, Resetters, Counted, Guards, GuardsOut, Leaving, At

LEMMA GuardsFinite ==
  ASSUME NEW k
  PROVE  IsFiniteSet(GuardsOut(k)) /\ Cardinality(GuardsOut(k)) \in Nat
<1>1. GuardsOut(k) \subseteq Caller
  BY DEF GuardsOut
<1> QED BY <1>1, CallersAssumption, FS_Subset, FS_CardinalityType

LEMMA LocksInitInv ==
  ASSUME Init
  PROVE  LocksInv
<1>1. \A t \in Caller : caller[t].pc = "idle"
  BY DEF Init, CallsInit, Idle
<1>2. stats = [k \in Lock |-> NoStats] /\ longest = [k \in Lock |-> 0] /\ torn = {}
  BY DEF Init, LocksInit
<1>3. NoStats \in Stats
  BY DEF NoStats, Stats
<1>4. LocksTyped
  BY <1>1, <1>2, <1>3 DEF LocksTyped, LockPcs
<1>5. ASSUME NEW k \in Lock
      PROVE  StatsTell(k)
  <2>1. GuardsOut(k) = {} /\ Leaving(k) = {} /\ Resetters(k) = {}
    BY <1>1 DEF GuardsOut, Leaving, Resetters
  <2>2. /\ stats[k].acquisition_count = 0 /\ stats[k].total_hold = 0 /\ stats[k].max_hold = 0
        /\ longest[k] = 0
    BY <1>2 DEF NoStats
  <2>3. Released(k) = 0
    BY <2>1, <2>2, FS_EmptySet DEF Released
  <2> QED BY <2>1, <2>2, <2>3 DEF StatsTell, HoldsTell, MaximumTells
<1>6. RaisesGoUp
  BY <1>1 DEF RaisesGoUp
<1> QED BY <1>4, <1>5, <1>6 DEF LocksInv

(* The thread t goes from its state to another; k is its lock before and after. *)
Involved == {"guard", "load", "raise", "reset"}

LockMove(t, k) ==
  /\ \A u \in Caller : u # t => caller'[u] = caller[u]
  /\ caller[t].pc \in Involved => caller[t].lock = k
  /\ caller'[t].pc \in Involved => caller'[t].lock = k

SameStats(k) ==
  /\ stats'[k].acquisition_count = stats[k].acquisition_count
  /\ stats'[k].total_hold = stats[k].total_hold
  /\ stats'[k].max_hold = stats[k].max_hold
  /\ longest'[k] = longest[k]

LEMMA GuardsMove ==
  ASSUME NEW t \in Caller, NEW k, LockMove(t, k)
  PROVE  /\ GuardsOut(k)' = (GuardsOut(k) \ {t}) \cup (IF caller'[t].pc = "guard" THEN {t} ELSE {})
         /\ Leaving(k)' = (Leaving(k) \ {t})
                            \cup (IF caller'[t].pc \in {"load", "raise"} THEN {t} ELSE {})
         /\ Resetters(k)' = (Resetters(k) \ {t})
                            \cup (IF caller'[t].pc = "reset" THEN {t} ELSE {})
         /\ \A u \in Caller \ {t} : caller'[u] = caller[u]
         /\ t \in GuardsOut(k) <=> caller[t].pc = "guard"
         /\ t \in Leaving(k) <=> caller[t].pc \in {"load", "raise"}
         /\ t \in Resetters(k) <=> caller[t].pc = "reset"
<1> USE DEF LockMove, Involved, GuardsOut, Leaving, Resetters
<1>1. GuardsOut(k)' = (GuardsOut(k) \ {t}) \cup (IF caller'[t].pc = "guard" THEN {t} ELSE {})
  OBVIOUS
<1>2. Leaving(k)' = (Leaving(k) \ {t}) \cup (IF caller'[t].pc \in {"load", "raise"} THEN {t} ELSE {})
  OBVIOUS
<1>3. Resetters(k)' = (Resetters(k) \ {t}) \cup (IF caller'[t].pc = "reset" THEN {t} ELSE {})
  OBVIOUS
<1> QED BY <1>1, <1>2, <1>3

LEMMA StatsStay ==
  ASSUME NEW k, StatsTell(k), SameStats(k),
         \A t \in Caller : \/ caller'[t] = caller[t]
                           \/ /\ caller[t].pc \in Involved => caller[t].lock # k
                              /\ caller'[t].pc \in Involved => caller'[t].lock # k
  PROVE  StatsTell(k)'
<1> USE DEF Involved
<1>1. GuardsOut(k)' = GuardsOut(k)
  BY DEF GuardsOut
<1>2. Leaving(k)' = Leaving(k) /\ \A t \in Leaving(k) : caller'[t] = caller[t]
  BY DEF Leaving
<1>3. Resetters(k)' = Resetters(k)
  BY DEF Resetters
<1>4. Released(k)' = Released(k)
  BY <1>1 DEF Released, SameStats
<1> QED BY <1>1, <1>2, <1>3, <1>4 DEF StatsTell, HoldsTell, MaximumTells, ResetTells, SameStats

(* A step with one lock leaves the others'. *)
LEMMA OtherLocks ==
  ASSUME LocksInv, NEW t \in Caller, NEW k \in Lock, LockMove(t, k),
         \A l \in Lock \ {k} : SameStats(l), torn \subseteq torn',
         k \notin torn' => StatsTell(k)'
  PROVE  \A l \in Lock \ torn' : StatsTell(l)'
<1> SUFFICES ASSUME NEW l \in Lock \ torn', l # k PROVE StatsTell(l)' OBVIOUS
<1>1. StatsTell(l) /\ SameStats(l)
  BY DEF LocksInv
<1>2. \A u \in Caller : \/ caller'[u] = caller[u]
                        \/ /\ caller[u].pc \in Involved => caller[u].lock # l
                           /\ caller'[u].pc \in Involved => caller'[u].lock # l
  BY DEF LockMove
<1> QED BY <1>1, <1>2, StatsStay

LEMMA AskingGoesOn ==
  ASSUME NEW t \in Caller, caller[t] \in Asking, NEW pc \in {"taken", "guard"}, GotoPc(t, pc),
         CallersKnown
  PROVE  /\ caller'[t] \in Asking /\ caller'[t].pc = pc /\ caller'[t].lock = caller[t].lock
         /\ \A u \in Caller : u # t => caller'[u] = caller[u]
<1> DEFINE state == [caller[t] EXCEPT !.pc = pc]
<1>1. state \in Asking /\ state.pc = pc /\ state.lock = caller[t].lock
  BY DEF Asking
<1>2. caller' = [caller EXCEPT ![t] = state]
  BY DEF GotoPc, Goto
<1> HIDE DEF state
<1> QED BY <1>1, <1>2 DEF CallersKnown

(* A step of t that leaves the statistics, or counts a failure. *)
LEMMA StatsUntouched ==
  ASSUME LocksInv, NEW t \in Caller, caller[t].pc \notin Involved, caller'[t].pc \notin Involved,
         \A u \in Caller : u # t => caller'[u] = caller[u],
         caller'[t].pc \in LockPcs =>
           caller'[t] \in Asking \cup Loading \cup Raising \cup Clearing,
         stats' \in [Lock -> Stats], UNCHANGED <<longest, torn>>,
         \A k \in Lock : SameStats(k)
  PROVE  LocksInv'
<1>1. LocksTyped'
  BY DEF LocksInv, LocksTyped
<1>2. RaisesGoUp'
  BY DEF LocksInv, RaisesGoUp, Involved
<1>3. \A k \in Lock \ torn' : StatsTell(k)'
  <2> SUFFICES ASSUME NEW k \in Lock \ torn' PROVE StatsTell(k)' OBVIOUS
  <2>1. StatsTell(k) /\ SameStats(k)
    BY DEF LocksInv
  <2> QED BY <2>1, StatsStay
<1> QED BY <1>1, <1>2, <1>3 DEF LocksInv

LEMMA AskForKept ==
  ASSUME CallersKnown, LocksInv, NEW t \in Caller, AskFor(t)
  PROVE  LocksInv'
<1>1. PICK k \in Lock, how \in {"wait", "try", "timed"} :
        Call(t, [pc |-> "ask", lock |-> k, how |-> how])
  BY DEF AskFor
<1> DEFINE state == [pc |-> "ask", lock |-> k, how |-> how]
<1>2. state \in Asking /\ state.pc = "ask" /\ "pc" \in DOMAIN state
  BY DEF Asking
<1>3. caller' = [caller EXCEPT ![t] = state] /\ caller[t].pc = "idle"
  BY <1>1 DEF Call, At
<1> HIDE DEF state
<1>4. caller'[t] = state /\ \A u \in Caller : u # t => caller'[u] = caller[u]
  BY <1>2, <1>3, GotoFacts
<1>5. UNCHANGED <<stats, longest, torn>>
  BY DEF AskFor, lockVars
<1>6. stats' \in [Lock -> Stats] /\ \A l \in Lock : SameStats(l)
  BY <1>5 DEF LocksInv, LocksTyped, SameStats
<1> QED BY <1>2, <1>3, <1>4, <1>5, <1>6, StatsUntouched DEF Involved

LEMMA TakeLockKept ==
  ASSUME CallersKnown, LocksInv, NEW t \in Caller, TakeLock(t)
  PROVE  LocksInv'
<1>1. caller[t].pc = "ask" /\ GotoPc(t, "taken") /\ UNCHANGED <<stats, longest, torn>>
  BY DEF TakeLock, At, lockVars
<1>2. caller[t] \in Asking
  BY <1>1 DEF LocksInv, LocksTyped, LockPcs, Asking, Loading, Raising, Clearing
<1>3. /\ caller'[t] \in Asking /\ caller'[t].pc = "taken"
      /\ \A u \in Caller : u # t => caller'[u] = caller[u]
  BY <1>1, <1>2, AskingGoesOn
<1>4. stats' \in [Lock -> Stats] /\ \A l \in Lock : SameStats(l)
  BY <1>1 DEF LocksInv, LocksTyped, SameStats
<1> QED BY <1>1, <1>3, <1>4, StatsUntouched DEF Involved

LEMMA MissLockKept ==
  ASSUME CallersKnown, LocksInv, NEW t \in Caller, MissLock(t)
  PROVE  LocksInv'
<1>1. caller[t].pc = "ask" /\ Return(t) /\ UNCHANGED <<longest, torn>>
  BY DEF MissLock, At
<1>2. caller[t].lock \in Lock
  BY <1>1 DEF LocksInv, LocksTyped, LockPcs, Asking, Loading, Raising, Clearing
<1>3. caller'[t].pc = "idle" /\ \A u \in Caller : u # t => caller'[u] = caller[u]
  BY <1>1, ReturnFacts DEF Idle
<1>4. stats \in [Lock -> Stats]
  BY DEF LocksInv, LocksTyped
<1>5. stats' = stats \/ stats' = [stats EXCEPT ![caller[t].lock].failed_count = @ + 1]
  BY DEF MissLock
<1>6. stats' \in [Lock -> Stats] /\ \A l \in Lock : SameStats(l)
  BY <1>1, <1>2, <1>4, <1>5 DEF Stats, SameStats
<1> QED BY <1>1, <1>3, <1>6, StatsUntouched DEF Involved, LockPcs

(* What a step with the lock k has to be shown to do. *)
LEMMA LockStepKept ==
  ASSUME LocksInv, NEW t \in Caller, NEW k \in Lock, LockMove(t, k),
         caller'[t].pc \in LockPcs =>
           caller'[t] \in Asking \cup Loading \cup Raising \cup Clearing,
         caller'[t].pc = "raise" => caller'[t].seen < caller'[t].held,
         stats' \in [Lock -> Stats], longest' \in [Lock -> Nat],
         torn \subseteq torn', torn' \subseteq Lock,
         \A l \in Lock \ {k} : SameStats(l),
         k \notin torn' => StatsTell(k)'
  PROVE  LocksInv'
<1>1. LocksTyped'
  BY DEF LocksInv, LocksTyped, LockMove
<1>2. RaisesGoUp'
  BY DEF LocksInv, RaisesGoUp, LockMove
<1>3. \A l \in Lock \ torn' : StatsTell(l)'
  BY OtherLocks
<1> QED BY <1>1, <1>2, <1>3 DEF LocksInv

LEMMA CountAcquisitionKept ==
  ASSUME CallersKnown, LocksInv, NEW t \in Caller, CountAcquisition(t)
  PROVE  LocksInv'
<1>1. caller[t].pc = "taken" /\ GotoPc(t, "guard")
  BY DEF CountAcquisition, At
<1>0. caller[t] \in Asking
  BY <1>1 DEF LocksInv, LocksTyped, LockPcs, Asking, Loading, Raising, Clearing
<1>2. PICK k \in Lock : k = caller[t].lock
  BY <1>0 DEF Asking
<1>3. /\ caller'[t] \in Asking /\ caller'[t].pc = "guard" /\ caller'[t].lock = k
      /\ \A u \in Caller : u # t => caller'[u] = caller[u]
  BY <1>0, <1>1, <1>2, AskingGoesOn
<1>4. LockMove(t, k)
  BY <1>1, <1>2, <1>3 DEF LockMove, Involved
<1>5. /\ stats' = [stats EXCEPT ![k].acquisition_count = @ + 1]
      /\ torn' = IF Resetting(k) THEN torn \cup {k} ELSE torn
      /\ longest' = longest
  BY <1>2 DEF CountAcquisition
<1>6. stats \in [Lock -> Stats] /\ longest \in [Lock -> Nat] /\ torn \subseteq Lock
  BY DEF LocksInv, LocksTyped
<1>7. /\ stats' \in [Lock -> Stats] /\ \A l \in Lock \ {k} : SameStats(l)
      /\ stats'[k].acquisition_count = stats[k].acquisition_count + 1
      /\ stats'[k].total_hold = stats[k].total_hold /\ stats'[k].max_hold = stats[k].max_hold
  BY <1>2, <1>5, <1>6 DEF Stats, SameStats
<1>8. ASSUME k \notin torn'
      PROVE  StatsTell(k)'
  <2>1. Resetters(k) = {} /\ k \notin torn
    BY <1>5, <1>8, ResettingFacts
  <2>2. HoldsTell(k) /\ MaximumTells(k)
    BY <1>2, <2>1 DEF LocksInv, StatsTell
  <2>3. /\ GuardsOut(k)' = GuardsOut(k) \cup {t} /\ Leaving(k)' = Leaving(k)
        /\ Resetters(k)' = {} /\ t \notin GuardsOut(k) /\ t \notin Leaving(k)
    BY <1>1, <1>3, <1>4, <2>1, GuardsMove
  <2>4. Cardinality(GuardsOut(k) \cup {t}) = Cardinality(GuardsOut(k)) + 1
        /\ Cardinality(GuardsOut(k)) \in Nat
    BY <2>3, GuardsFinite, FS_AddElement
  <2>5. stats[k].acquisition_count \in Nat
    BY <1>2, <1>6 DEF Stats
  <2>6. Released(k)' = Released(k)
    BY <1>7, <2>3, <2>4, <2>5 DEF Released
  <2>7. HoldsTell(k)'
    BY <1>5, <1>7, <2>2, <2>6 DEF HoldsTell
  <2>8. \A u \in Leaving(k) : caller'[u] = caller[u]
    BY <1>3, <2>3 DEF Leaving
  <2>9. MaximumTells(k)'
    BY <1>5, <1>7, <2>2, <2>3, <2>8 DEF MaximumTells
  <2> QED BY <2>3, <2>7, <2>9 DEF StatsTell
<1>9. caller'[t].pc # "raise" /\ torn \subseteq torn' /\ torn' \subseteq Lock
  BY <1>2, <1>3, <1>5, <1>6
<1> QED BY <1>2, <1>3, <1>4, <1>5, <1>6, <1>7, <1>8, <1>9, LockStepKept

(* The time held that one more release adds stays below the maximum. *)
LEMMA HoldsAdd ==
  ASSUME NEW total \in Nat, NEW d \in Nat, NEW most \in Nat, NEW above \in Nat, NEW n \in Nat,
         total <= most * n, most <= above, d <= above
  PROVE  total + d <= above * (n + 1)
<1>1. most * n <= above * n
  BY SMT
<1>2. above * (n + 1) = above * n + above
  BY SMT
<1>3. above * n \in Nat /\ most * n \in Nat
  BY SMT
<1> QED BY <1>1, <1>2, <1>3

LEMMA LongerOf ==
  ASSUME NEW a \in Nat, NEW b \in Nat
  PROVE  /\ Max({a, b}) \in {a, b} /\ a <= Max({a, b}) /\ b <= Max({a, b})
         /\ Max({a, b}) \in Nat
<1>1. \E x \in {a, b} : \A y \in {a, b} : x >= y
  <2>1. CASE a >= b BY <2>1
  <2>2. CASE b >= a BY <2>2
  <2> QED BY <2>1, <2>2
<1>2. Max({a, b}) \in {a, b} /\ \A y \in {a, b} : Max({a, b}) >= y
  BY <1>1 DEF Max
<1> QED BY <1>2

LEMMA DropGuardKept ==
  ASSUME CallersKnown, LocksInv, NEW t \in Caller, DropGuard(t)
  PROVE  LocksInv'
<1>1. caller[t].pc = "guard"
  BY DEF DropGuard, At
<1>2. caller[t] \in Asking
  BY <1>1 DEF LocksInv, LocksTyped, LockPcs, Asking, Loading, Raising, Clearing
<1>3. PICK k \in Lock : k = caller[t].lock
  BY <1>2 DEF Asking
<1>4. PICK d \in HoldTimes :
        /\ stats' = [stats EXCEPT ![k].total_hold = @ + d]
        /\ longest' = [longest EXCEPT ![k] = Max({@, d})]
        /\ Goto(t, [pc |-> "load", lock |-> k, held |-> d])
  BY <1>3 DEF DropGuard
<1>5. d \in Nat
  BY HoldsAreTimes
<1> DEFINE state == [pc |-> "load", lock |-> k, held |-> d]
<1>6. state \in Loading /\ state.pc = "load" /\ state.lock = k /\ state.held = d /\ "pc" \in DOMAIN state
  BY <1>5 DEF Loading
<1>7. caller' = [caller EXCEPT ![t] = state]
  BY <1>4 DEF Goto
<1> HIDE DEF state
<1>8. caller'[t] = state /\ \A u \in Caller : u # t => caller'[u] = caller[u]
  BY <1>6, <1>7, GotoFacts
<1>9. LockMove(t, k)
  BY <1>1, <1>3, <1>6, <1>8 DEF LockMove, Involved
<1>10. stats \in [Lock -> Stats] /\ longest \in [Lock -> Nat] /\ torn \subseteq Lock /\ torn' = torn
  BY DEF LocksInv, LocksTyped, DropGuard
<1> DEFINE above == Max({longest[k], d})
<1>11. /\ above \in {longest[k], d} /\ longest[k] <= above /\ d <= above /\ above \in Nat
       /\ longest[k] \in Nat
  BY <1>5, <1>10, LongerOf
<1>12. longest' = [longest EXCEPT ![k] = above]
  BY <1>4
<1> HIDE DEF above
<1>13. /\ stats' \in [Lock -> Stats] /\ \A l \in Lock \ {k} : SameStats(l)
       /\ longest' \in [Lock -> Nat] /\ longest'[k] = above
       /\ stats'[k].acquisition_count = stats[k].acquisition_count
       /\ stats'[k].total_hold = stats[k].total_hold + d /\ stats'[k].max_hold = stats[k].max_hold
  BY <1>4, <1>5, <1>10, <1>11, <1>12 DEF Stats, SameStats
<1>14. stats[k].acquisition_count \in Nat /\ stats[k].total_hold \in Nat /\ stats[k].max_hold \in Nat
  BY <1>10 DEF Stats
<1>15. ASSUME k \notin torn
       PROVE  StatsTell(k)'
  <2>1. t \in GuardsOut(k)
    BY <1>1, <1>9, GuardsMove
  <2>2. Resetters(k) = {} /\ HoldsTell(k) /\ MaximumTells(k)
    BY <1>15, <2>1 DEF LocksInv, StatsTell, ResetTells
  <2>3. /\ GuardsOut(k)' = GuardsOut(k) \ {t} /\ Leaving(k)' = Leaving(k) \cup {t}
        /\ Resetters(k)' = {} /\ t \notin Leaving(k)
    BY <1>1, <1>6, <1>8, <1>9, <2>2, GuardsMove
  <2>4. Cardinality(GuardsOut(k) \ {t}) = Cardinality(GuardsOut(k)) - 1
        /\ Cardinality(GuardsOut(k)) \in Nat
    BY <2>1, GuardsFinite, FS_RemoveElement
  <2>5. Released(k)' = Released(k) + 1
    BY <1>13, <1>14, <2>3, <2>4 DEF Released
  <2>6. /\ Released(k) \in Nat /\ longest[k] <= stats[k].total_hold
        /\ stats[k].total_hold <= longest[k] * Released(k)
    BY <2>2 DEF HoldsTell
  <2>7. stats[k].total_hold + d <= above * (Released(k) + 1)
    BY <1>5, <1>11, <1>14, <2>6, HoldsAdd
  <2>8. HoldsTell(k)'
    BY <1>5, <1>11, <1>13, <1>14, <2>5, <2>6, <2>7 DEF HoldsTell
  <2>9. \A u \in Leaving(k) : caller'[u] = caller[u]
    BY <1>8, <2>3 DEF Leaving
  <2>10. /\ stats[k].max_hold <= longest[k]
         /\ stats[k].max_hold = longest[k] \/ \E u \in Leaving(k) : caller[u].held = longest[k]
         /\ \A u \in Leaving(k) : caller[u].held <= longest[k]
    BY <2>2 DEF MaximumTells
  <2>11. \A u \in Leaving(k)' : caller'[u].held <= above
    <3>1. caller'[t].held <= above
      BY <1>6, <1>8, <1>11
    <3>2. ASSUME NEW u \in Leaving(k)
          PROVE  caller'[u].held <= above
      <4>1. caller[u].held <= longest[k] /\ caller'[u] = caller[u]
        BY <2>9, <2>10
      <4>2. caller[u].held \in Nat
        <5>1. u \in Caller /\ caller[u].pc \in {"load", "raise"}
          BY DEF Leaving
        <5> QED BY <5>1 DEF LocksInv, LocksTyped, LockPcs, Asking, Loading, Raising, Clearing
      <4> QED BY <1>11, <4>1, <4>2
    <3> QED BY <2>3, <3>1, <3>2
  <2>12. stats'[k].max_hold = above \/ \E u \in Leaving(k)' : caller'[u].held = above
    <3>1. CASE above = longest[k] BY <1>13, <2>3, <2>9, <2>10, <3>1
    <3>2. CASE above = d BY <1>6, <1>8, <2>3, <3>2
    <3> QED BY <1>11, <3>1, <3>2
  <2>13. stats'[k].max_hold <= above
    BY <1>11, <1>13, <1>14, <2>10
  <2>14. MaximumTells(k)'
    BY <1>13, <2>11, <2>12, <2>13 DEF MaximumTells
  <2> QED BY <2>3, <2>8, <2>14 DEF StatsTell
<1>16. caller'[t].pc # "raise"
  BY <1>6, <1>8
<1> QED BY <1>6, <1>8, <1>9, <1>10, <1>13, <1>15, <1>16, LockStepKept

(* Raising the maximum: a thread that is on its way out of the lock k. *)
Leaves(t, k) == caller[t] \in Loading \cup Raising /\ caller[t].lock = k

LEMMA LeavesTells ==
  ASSUME LocksInv, NEW k \in Lock, NEW t \in Caller, Leaves(t, k), k \notin torn
  PROVE  /\ t \in Leaving(k) /\ Resetters(k) = {} /\ HoldsTell(k) /\ MaximumTells(k)
         /\ caller[t].held \in Nat
<1>1. t \in Leaving(k) /\ caller[t].held \in Nat
  BY DEF Leaves, Leaving, Loading, Raising
<1> QED BY <1>1 DEF LocksInv, StatsTell, ResetTells

LEMMA CompareKept ==
  ASSUME CallersKnown, LocksInv, NEW k \in Lock, NEW t \in Caller, Leaves(t, k),
         CompareWith(t, stats[k].max_hold), UNCHANGED lockVars
  PROVE  LocksInv'
<1>1. UNCHANGED <<stats, longest, torn>>
  BY DEF lockVars
<1>2. stats \in [Lock -> Stats] /\ longest \in [Lock -> Nat] /\ torn \subseteq Lock
  BY DEF LocksInv, LocksTyped
<1>3. /\ stats[k].max_hold \in Nat /\ longest[k] \in Nat /\ caller[t].held \in Nat
      /\ caller[t].pc \in {"load", "raise"} /\ caller[t].lock = k
  BY <1>2 DEF Stats, Leaves, Loading, Raising
<1> DEFINE state == [pc |-> "raise", lock |-> caller[t].lock, held |-> caller[t].held,
                     seen |-> stats[k].max_hold]
<1>4. /\ state \in Raising /\ state.pc = "raise" /\ state.lock = k /\ "pc" \in DOMAIN state
      /\ state.held = caller[t].held /\ state.seen = stats[k].max_hold
  BY <1>3 DEF Raising
<1>5. \/ caller[t].held > stats[k].max_hold /\ caller' = [caller EXCEPT ![t] = state]
      \/ ~(caller[t].held > stats[k].max_hold) /\ Return(t)
  BY DEF CompareWith, Goto
<1> HIDE DEF state
<1>6. /\ \A u \in Caller : u # t => caller'[u] = caller[u]
      /\ \/ caller[t].held > stats[k].max_hold /\ caller'[t] = state
         \/ ~(caller[t].held > stats[k].max_hold) /\ caller'[t].pc = "idle"
  BY <1>4, <1>5, GotoFacts, ReturnFacts DEF Idle
<1>7. LockMove(t, k)
  BY <1>3, <1>4, <1>6 DEF LockMove, Involved
<1>8. \A l \in Lock : SameStats(l)
  BY <1>1 DEF SameStats
<1>9. ASSUME k \notin torn
      PROVE  StatsTell(k)'
  <2>1. /\ t \in Leaving(k) /\ Resetters(k) = {} /\ HoldsTell(k) /\ MaximumTells(k)
    BY <1>9, LeavesTells
  <2>2. /\ GuardsOut(k)' = GuardsOut(k) /\ Resetters(k)' = {}
        /\ \/ Leaving(k)' = Leaving(k) \ {t} /\ caller'[t].pc = "idle"
           \/ Leaving(k)' = Leaving(k) /\ caller'[t].held = caller[t].held
    <3>1. /\ GuardsOut(k)' = GuardsOut(k) /\ Resetters(k)' = {}
      BY <1>3, <1>4, <1>6, <1>7, <2>1, GuardsMove
    <3>2. CASE caller'[t] = state
      <4>1. Leaving(k)' = Leaving(k)
        BY <1>4, <1>7, <2>1, <3>2, GuardsMove
      <4> QED BY <1>4, <3>1, <3>2, <4>1
    <3>3. CASE caller'[t].pc = "idle"
      <4>1. Leaving(k)' = Leaving(k) \ {t}
        BY <1>7, <3>3, GuardsMove
      <4> QED BY <3>1, <3>3, <4>1
    <3> QED BY <1>6, <3>2, <3>3
  <2>3. HoldsTell(k)'
    BY <1>1, <2>1, <2>2 DEF HoldsTell, Released
  <2>4. \A u \in Leaving(k)' : caller'[u].held = caller[u].held /\ u \in Leaving(k)
    BY <1>6, <2>2 DEF Leaving
  <2>5. stats[k].max_hold = longest[k] \/ \E u \in Leaving(k)' : caller'[u].held = longest[k]
    <3>1. CASE caller'[t] = state
      <4>1. Leaving(k)' = Leaving(k)
        BY <1>4, <1>7, <2>1, <3>1, GuardsMove
      <4> QED BY <2>1, <2>4, <4>1 DEF MaximumTells
    <3>2. CASE ~(caller[t].held > stats[k].max_hold) /\ caller'[t].pc = "idle"
      <4>1. ASSUME NEW u \in Leaving(k), caller[u].held = longest[k], stats[k].max_hold # longest[k]
            PROVE  u \in Leaving(k)' /\ caller'[u].held = longest[k]
        <5>1. stats[k].max_hold <= longest[k]
          BY <2>1 DEF MaximumTells
        <5>2. u # t
          BY <1>3, <3>2, <4>1, <5>1
        <5> QED BY <1>6, <4>1, <5>2 DEF Leaving
      <4> QED BY <2>1, <4>1 DEF MaximumTells
    <3> QED BY <1>6, <3>1, <3>2
  <2>6. MaximumTells(k)'
    BY <1>1, <2>1, <2>4, <2>5 DEF MaximumTells
  <2> QED BY <2>2, <2>3, <2>6 DEF StatsTell
<1>10. caller'[t].pc = "raise" => caller'[t].seen < caller'[t].held
  BY <1>3, <1>4, <1>6
<1>11. caller'[t].pc \in LockPcs => caller'[t] \in Asking \cup Loading \cup Raising \cup Clearing
  BY <1>4, <1>6 DEF LockPcs
<1> QED BY <1>1, <1>2, <1>7, <1>8, <1>9, <1>10, <1>11, LockStepKept

LEMMA RaiseMaximumKept ==
  ASSUME CallersKnown, LocksInv, NEW t \in Caller, RaiseMaximum(t)
  PROVE  LocksInv'
<1>1. caller[t].pc = "raise"
  BY DEF RaiseMaximum, At
<1>2. caller[t] \in Raising
  BY <1>1 DEF LocksInv, LocksTyped, LockPcs, Asking, Loading, Raising, Clearing
<1>3. PICK k \in Lock : k = caller[t].lock
  BY <1>2 DEF Raising
<1>4. Leaves(t, k)
  BY <1>2, <1>3 DEF Leaves
<1>5. CASE CompareWith(t, stats[k].max_hold) /\ UNCHANGED stats
  <2>1. UNCHANGED lockVars
    BY <1>5 DEF RaiseMaximum, lockVars
  <2> QED BY <1>4, <1>5, <2>1, CompareKept
<1>6. CASE /\ stats[k].max_hold = caller[t].seen /\ Return(t)
           /\ stats' = [stats EXCEPT ![k].max_hold = caller[t].held]
  <2>1. longest' = longest /\ torn' = torn
    BY DEF RaiseMaximum
  <2>2. stats \in [Lock -> Stats] /\ longest \in [Lock -> Nat] /\ torn \subseteq Lock
    BY DEF LocksInv, LocksTyped
  <2>3. /\ caller[t].held \in Nat /\ caller[t].seen < caller[t].held /\ caller[t].seen \in Nat
        /\ longest[k] \in Nat
    BY <1>1, <1>2, <2>2 DEF LocksInv, RaisesGoUp, Raising
  <2>4. caller'[t].pc = "idle" /\ \A u \in Caller : u # t => caller'[u] = caller[u]
    BY <1>6, ReturnFacts DEF Idle
  <2>5. LockMove(t, k)
    BY <1>3, <2>4 DEF LockMove, Involved
  <2>6. /\ stats' \in [Lock -> Stats] /\ \A l \in Lock \ {k} : SameStats(l)
        /\ stats'[k].acquisition_count = stats[k].acquisition_count
        /\ stats'[k].total_hold = stats[k].total_hold /\ stats'[k].max_hold = caller[t].held
    BY <1>6, <2>1, <2>2, <2>3 DEF Stats, SameStats
  <2>7. ASSUME k \notin torn
        PROVE  StatsTell(k)'
    <3>1. t \in Leaving(k) /\ Resetters(k) = {} /\ HoldsTell(k) /\ MaximumTells(k)
      BY <1>4, <2>7, LeavesTells
    <3>2. GuardsOut(k)' = GuardsOut(k) /\ Resetters(k)' = {} /\ Leaving(k)' = Leaving(k) \ {t}
      BY <1>1, <2>4, <2>5, <3>1, GuardsMove
    <3>3. HoldsTell(k)'
      BY <2>1, <2>6, <3>1, <3>2 DEF HoldsTell, Released
    <3>4. \A u \in Leaving(k) \ {t} : caller'[u] = caller[u]
      BY <2>4 DEF Leaving
    <3>5. caller[t].held <= longest[k]
      BY <3>1 DEF MaximumTells
    <3>6. stats[k].max_hold # longest[k]
      BY <1>6, <2>3, <3>5
    <3>7. PICK u \in Leaving(k) : caller[u].held = longest[k]
      BY <3>1, <3>6 DEF MaximumTells
    <3>8. caller[t].held = longest[k]
          \/ \E w \in Leaving(k) \ {t} : caller'[w].held = longest[k]
      BY <3>4, <3>7
    <3>9. MaximumTells(k)'
      BY <2>1, <2>6, <3>1, <3>2, <3>4, <3>5, <3>8 DEF MaximumTells
    <3> QED BY <3>2, <3>3, <3>9 DEF StatsTell
  <2>8. caller'[t].pc # "raise" /\ caller'[t].pc \notin LockPcs
    BY <2>4 DEF LockPcs
  <2> QED BY <2>1, <2>2, <2>5, <2>6, <2>7, <2>8, LockStepKept
<1> QED BY <1>3, <1>5, <1>6 DEF RaiseMaximum

LEMMA LoadMaximumKept ==
  ASSUME CallersKnown, LocksInv, NEW t \in Caller, LoadMaximum(t)
  PROVE  LocksInv'
<1>1. caller[t].pc = "load"
  BY DEF LoadMaximum, At
<1>2. caller[t] \in Loading
  BY <1>1 DEF LocksInv, LocksTyped, LockPcs, Asking, Loading, Raising, Clearing
<1>3. PICK k \in Lock : k = caller[t].lock
  BY <1>2 DEF Loading
<1>4. Leaves(t, k) /\ CompareWith(t, stats[k].max_hold) /\ UNCHANGED lockVars
  BY <1>2, <1>3 DEF Leaves, LoadMaximum
<1> QED BY <1>4, CompareKept

LEMMA ResetCountsKept ==
  ASSUME CallersKnown, LocksInv, NEW t \in Caller, ResetCounts(t)
  PROVE  LocksInv'
<1>1. PICK k \in Lock :
        /\ Call(t, [pc |-> "reset", lock |-> k])
        /\ stats' = [stats EXCEPT ![k] = [@ EXCEPT !.acquisition_count = 0, !.failed_count = 0]]
        /\ torn' = IF Counted(k) # {} \/ Resetting(k) THEN torn \cup {k} ELSE torn
  BY DEF ResetCounts
<1> DEFINE state == [pc |-> "reset", lock |-> k]
<1>2. state \in Clearing /\ state.pc = "reset" /\ state.lock = k /\ "pc" \in DOMAIN state
  BY DEF Clearing
<1>3. caller' = [caller EXCEPT ![t] = state] /\ caller[t].pc = "idle"
  BY <1>1 DEF Call, At
<1> HIDE DEF state
<1>4. caller'[t] = state /\ \A u \in Caller : u # t => caller'[u] = caller[u]
  BY <1>2, <1>3, GotoFacts
<1>5. LockMove(t, k)
  BY <1>2, <1>3, <1>4 DEF LockMove, Involved
<1>6. /\ stats \in [Lock -> Stats] /\ longest \in [Lock -> Nat] /\ torn \subseteq Lock
      /\ longest' = longest
  BY DEF LocksInv, LocksTyped, ResetCounts
<1> DEFINE cleared == [stats[k] EXCEPT !.acquisition_count = 0, !.failed_count = 0]
<1>7. cleared \in Stats /\ cleared.acquisition_count = 0
  BY <1>6 DEF Stats
<1>8. stats' = [stats EXCEPT ![k] = cleared]
  BY <1>1
<1> HIDE DEF cleared
<1>9. /\ stats' \in [Lock -> Stats] /\ \A l \in Lock \ {k} : SameStats(l)
      /\ stats'[k].acquisition_count = 0
  BY <1>6, <1>7, <1>8 DEF SameStats
<1>10. ASSUME k \notin torn'
       PROVE  StatsTell(k)'
  <2>1. GuardsOut(k) = {} /\ Leaving(k) = {} /\ Resetters(k) = {}
    BY <1>1, <1>10, ResettingFacts
  <2>2. /\ GuardsOut(k)' = {} /\ Leaving(k)' = {} /\ Resetters(k)' = {t}
    BY <1>2, <1>4, <1>5, <2>1, GuardsMove
  <2>3. ResetTells(k)'
    BY <1>9, <2>2 DEF ResetTells
  <2> QED BY <2>2, <2>3 DEF StatsTell
<1>11. torn \subseteq torn' /\ torn' \subseteq Lock /\ caller'[t].pc # "raise"
  BY <1>1, <1>2, <1>4, <1>6
<1> QED BY <1>2, <1>4, <1>5, <1>6, <1>9, <1>10, <1>11, LockStepKept

LEMMA ResetTimesKept ==
  ASSUME CallersKnown, LocksInv, NEW t \in Caller, ResetTimes(t)
  PROVE  LocksInv'
<1>1. caller[t].pc = "reset" /\ Return(t) /\ torn' = torn
  BY DEF ResetTimes, At
<1>2. caller[t] \in Clearing
  BY <1>1 DEF LocksInv, LocksTyped, LockPcs, Asking, Loading, Raising, Clearing
<1>3. PICK k \in Lock : k = caller[t].lock
  BY <1>2 DEF Clearing
<1>4. /\ stats' = [stats EXCEPT ![k] = [@ EXCEPT !.total_hold = 0, !.max_hold = 0]]
      /\ longest' = [longest EXCEPT ![k] = 0]
  BY <1>3 DEF ResetTimes
<1>5. caller'[t].pc = "idle" /\ \A u \in Caller : u # t => caller'[u] = caller[u]
  BY <1>1, ReturnFacts DEF Idle
<1>6. LockMove(t, k)
  BY <1>3, <1>5 DEF LockMove, Involved
<1>7. stats \in [Lock -> Stats] /\ longest \in [Lock -> Nat] /\ torn \subseteq Lock
  BY DEF LocksInv, LocksTyped
<1> DEFINE cleared == [stats[k] EXCEPT !.total_hold = 0, !.max_hold = 0]
<1>8. /\ cleared \in Stats /\ cleared.acquisition_count = stats[k].acquisition_count
      /\ cleared.total_hold = 0 /\ cleared.max_hold = 0
  BY <1>7 DEF Stats
<1>9. stats' = [stats EXCEPT ![k] = cleared]
  BY <1>4
<1> HIDE DEF cleared
<1>10. /\ stats' \in [Lock -> Stats] /\ longest' \in [Lock -> Nat]
       /\ \A l \in Lock \ {k} : SameStats(l)
       /\ stats'[k].acquisition_count = stats[k].acquisition_count
       /\ stats'[k].total_hold = 0 /\ stats'[k].max_hold = 0 /\ longest'[k] = 0
  BY <1>4, <1>7, <1>8, <1>9 DEF SameStats
<1>11. ASSUME k \notin torn
       PROVE  StatsTell(k)'
  <2>1. t \in Resetters(k)
    BY <1>1, <1>6, GuardsMove
  <2>2. ResetTells(k)
    BY <1>11, <2>1 DEF LocksInv, StatsTell
  <2>3. Resetters(k) = {t} /\ GuardsOut(k) = {} /\ Leaving(k) = {}
    BY <2>1, <2>2 DEF ResetTells
  <2>4. GuardsOut(k)' = {} /\ Leaving(k)' = {} /\ Resetters(k)' = {}
    BY <1>5, <1>6, <2>3, GuardsMove
  <2>5. Released(k)' = 0
    BY <1>10, <2>2, <2>4, FS_EmptySet DEF Released, ResetTells
  <2>6. HoldsTell(k)' /\ MaximumTells(k)'
    BY <1>10, <2>4, <2>5 DEF HoldsTell, MaximumTells
  <2> QED BY <2>4, <2>6 DEF StatsTell
<1>12. caller'[t].pc # "raise" /\ caller'[t].pc \notin LockPcs
  BY <1>5 DEF LockPcs
<1> QED BY <1>1, <1>6, <1>7, <1>10, <1>11, <1>12, LockStepKept

LEMMA LocksStay ==
  ASSUME LocksInv, UNCHANGED lockVars,
         \A t \in Caller : \/ caller'[t] = caller[t]
                           \/ caller[t].pc \notin LockPcs /\ caller'[t].pc \notin LockPcs
  PROVE  LocksInv'
<1>1. UNCHANGED <<stats, longest, torn>>
  BY DEF lockVars
<1>2. LocksTyped' /\ RaisesGoUp'
  BY <1>1 DEF LocksInv, LocksTyped, RaisesGoUp, LockPcs
<1>3. ASSUME NEW k \in Lock \ torn'
      PROVE  StatsTell(k)'
  <2>1. StatsTell(k) /\ SameStats(k)
    BY <1>1 DEF LocksInv, SameStats
  <2>2. Involved \subseteq LockPcs
    BY DEF Involved, LockPcs
  <2> QED BY <2>1, <2>2, StatsStay
<1> QED BY <1>2, <1>3 DEF LocksInv

LEMMA LocksKept ==
  ASSUME CallersAtPart, LocksInv, [Next]_vars
  PROVE  LocksInv'
<1>0. CallersKnown /\ CallersAtPart'
  BY CallersStayAtPart DEF CallersAtPart
<1>1. /\ UNCHANGED part
      /\ \/ Still
         \/ \E t \in Caller : PartSteps(part, t) /\ OthersRest /\ Moves(t, PcsOf(part))
  BY NextSteps
<1>2. CASE Still
  <2>1. \A t \in Caller : \/ caller'[t] = caller[t]
                          \/ caller[t].pc \notin LockPcs /\ caller'[t].pc \notin LockPcs
    BY <1>2 DEF Still, LockPcs
  <2> QED BY <1>2, <2>1, LocksStay DEF Still, syncVars
<1>3. CASE part = "locks" /\ \E t \in Caller : PartSteps(part, t)
  <2>1. PICK t \in Caller : LockCall(t) \/ LockStep(t)
    BY <1>3 DEF PartSteps, Pool
  <2> QED
    BY <1>0, <2>1, AskForKept, TakeLockKept, MissLockKept, CountAcquisitionKept, DropGuardKept,
       LoadMaximumKept, RaiseMaximumKept, ResetCountsKept, ResetTimesKept
       DEF LockCall, LockStep
<1>4. CASE part # "locks" /\ OthersRest
  <2>1. ASSUME NEW t \in Caller
        PROVE  caller[t].pc \notin LockPcs /\ caller'[t].pc \notin LockPcs
    <3>1. caller[t].pc \in {"idle"} \cup PcsOf(part)
      BY DEF CallersAtPart
    <3>2. caller'[t].pc \in {"idle"} \cup PcsOf(part)
      BY <1>0, <1>1 DEF CallersAtPart
    <3> QED BY <1>4, <3>1, <3>2, PcsTellPart
  <2> QED BY <1>4, <2>1, LocksStay DEF OthersRest
<1> QED BY <1>1, <1>2, <1>3, <1>4

LEMMA LocksTellFollows ==
  ASSUME AtomicsInv, LocksInv
  PROVE  LocksTell
<1>1. AtomicsTell
  BY AtomicsTellFollows
<1>2. ASSUME NEW k \in Lock \ torn, ~Resetting(k),
             \A t \in Guards(k) : caller[t].pc \in {"taken", "guard"}
      PROVE  /\ stats[k].max_hold = longest[k]
             /\ stats[k].max_hold <= stats[k].total_hold
             /\ stats[k].total_hold
                  <= stats[k].max_hold * (stats[k].acquisition_count - Cardinality(Counted(k)))
  <2>1. HoldsTell(k) /\ MaximumTells(k)
    BY <1>2, ResettingFacts DEF LocksInv, StatsTell
  <2>2. Leaving(k) = {}
    BY <1>2 DEF Leaving, Guards
  <2>3. Counted(k) = GuardsOut(k)
    BY <2>2, ResettingFacts
  <2> QED BY <2>1, <2>2, <2>3 DEF HoldsTell, MaximumTells, Released
<1> QED BY <1>1, <1>2 DEF LocksTell

(* Whenever no guard of a lock is being dropped and no reset is under way,  *)
(* its maximum is the longest time a guard was held and the time held is at *)
(* most that for each release; a counter counts who is inside, a flag was   *)
(* set by one thread, no number is in use twice and a version tells of      *)
(* every update: for any threads, times and widths (lock.rs, atomic.rs).    *)
THEOREM LocksAreTold == Spec => []LocksTell
<1>1. Init => CallersAtPart /\ AtomicsInv /\ LocksInv
  BY InitCallers, AtomicsInitInv, LocksInitInv
<1>2. CallersAtPart /\ AtomicsInv /\ LocksInv /\ [Next]_vars
        => CallersAtPart' /\ AtomicsInv' /\ LocksInv'
  BY CallersStayAtPart, AtomicsKept, LocksKept
<1>3. AtomicsInv /\ LocksInv => LocksTell
  BY LocksTellFollows
<1> QED BY <1>1, <1>2, <1>3, PTL DEF Spec

-----------------------------------------------------------------------------
(* The rules.  What an evaluation answers is the decision of a rule of the  *)
(* highest priority among those that decide.                                *)
LEMMA LeastOf ==
  ASSUME NEW S \in SUBSET Nat, S # {}
  PROVE  Min(S) \in S /\ \A n \in S : Min(S) <= n
<1>1. PICK x \in S : \A y \in S : ~ (<<y, x>> \in OpToRel(<, Nat))
  BY NatLessThanWellFounded, WFMin
<1>2. \A y \in S : ~(y < x)
  BY <1>1 DEF OpToRel
<1>3. \E m \in S : \A n \in S : m =< n
  BY <1>2
<1> QED BY <1>3 DEF Min

LEMMA SortedFacts ==
  ASSUME NEW found, IsFiniteSet(found), NEW s \in Sorted(found)
  PROVE  /\ s \in [1 .. Cardinality(found) -> found]
         /\ \A x \in found : \E i \in 1 .. Cardinality(found) : s[i] = x
         /\ \A i, j \in 1 .. Cardinality(found) : i < j => s[i].priority >= s[j].priority
<1> DEFINE D == 1 .. Cardinality(found)
<1>1. Cardinality(found) \in Nat
  BY FS_CardinalityType
<1>2. IsFiniteSet(D) /\ Cardinality(D) = Cardinality(found)
  BY <1>1, FS_Interval
<1>3. s \in [D -> found] /\ \A i, j \in D : i # j => s[i] # s[j]
  BY DEF Sorted, SetToSeqs
<1>4. s \in Injection(D, found)
  BY <1>3 DEF Injection, IsInjective
<1>5. s \in Surjection(D, found)
  <2> HIDE DEF D
  <2> QED BY <1>2, <1>4, FS_Injection
<1>6. \A x \in found : \E i \in D : s[i] = x
  BY <1>5 DEF Surjection
<1>7. \A i, j \in D : i < j => s[i].priority >= s[j].priority
  BY <1>3 DEF Sorted
<1> QED BY <1>3, <1>6, <1>7

LEMMA DecisionIsOfBest ==
  ASSUME NEW found, IsFiniteSet(found), \A x \in found : x.priority \in Nat,
         NEW results, DOMAIN results = found, NEW answer \in Decisions(results)
  PROVE  \/ found = {} /\ answer = NoPolicy
         \/ found # {} /\ (\A x \in found : results[x] = Next_rule) /\ answer = Deny
         \/ \E x \in found :
              /\ results[x] # Next_rule /\ answer = results[x]
              /\ \A z \in found : results[z] # Next_rule => z.priority <= x.priority
<1>1. CASE found = {} BY <1>1 DEF Decisions
<1>2. CASE found # {}
  <2>1. PICK s \in Sorted(found) : answer = FirstDecision(s, results)
    BY <1>2 DEF Decisions
  <2> DEFINE D == 1 .. Cardinality(found)
             decide == {i \in DOMAIN s : results[s[i]] # Next_rule}
  <2>2. /\ s \in [D -> found] /\ \A x \in found : \E i \in D : s[i] = x
        /\ \A i, j \in D : i < j => s[i].priority >= s[j].priority
    BY SortedFacts
  <2>3. Cardinality(found) \in Nat
    BY FS_CardinalityType
  <2>4. DOMAIN s = D /\ D \subseteq Nat /\ \A i \in D : s[i] \in found
    BY <2>2, <2>3
  <2>5. decide = {i \in D : results[s[i]] # Next_rule}
    BY <2>4
  <2>6. answer = IF decide = {} THEN Deny ELSE results[s[Min(decide)]]
    BY <2>1 DEF FirstDecision
  <2> HIDE DEF decide
  <2>7. CASE decide = {}
    <3>1. \A x \in found : results[x] = Next_rule
      BY <2>2, <2>4, <2>5, <2>7
    <3> QED BY <1>2, <2>6, <2>7, <3>1
  <2>8. CASE decide # {}
    <3>1. decide \subseteq Nat /\ decide \subseteq D
      BY <2>4, <2>5
    <3> DEFINE i == Min(decide)
    <3>2. i \in decide /\ \A j \in decide : i <= j
      BY <2>8, <3>1, LeastOf
    <3>3. answer = results[s[i]]
      BY <2>6, <2>8
    <3> HIDE DEF i
    <3>4. i \in D /\ s[i] \in found /\ results[s[i]] # Next_rule
      BY <2>4, <2>5, <3>1, <3>2
    <3>5. ASSUME NEW z \in found, results[z] # Next_rule
          PROVE  z.priority <= s[i].priority
      <4>1. PICK j \in D : s[j] = z
        BY <2>2
      <4>2. j \in decide /\ i <= j /\ j \in Nat /\ i \in Nat
        BY <2>4, <2>5, <3>2, <3>4, <3>5, <4>1
      <4>3. z.priority \in Nat /\ s[i].priority \in Nat
        BY <3>4, <3>5
      <4>4. CASE i = j BY <4>1, <4>3, <4>4
      <4>5. CASE i < j BY <2>2, <3>4, <4>1, <4>3, <4>5
      <4> QED BY <4>2, <4>4, <4>5
    <3> QED BY <3>3, <3>4, <3>5
  <2> QED BY <2>7, <2>8
<1> QED BY <1>1, <1>2

(* A finite set can be listed by rank, *)
Ranked(S, rank) ==
  \E s \in SetToSeqs(S) : \A i, j \in 1 .. Cardinality(S) : i < j => rank[s[i]] >= rank[s[j]]

LEMMA RankedExists ==
  ASSUME NEW S, IsFiniteSet(S), NEW rank, \A x \in S : rank[x] \in Nat
  PROVE  Ranked(S, rank)
<1> DEFINE wrong == {n \in Nat : \E T \in SUBSET S : Cardinality(T) = n /\ ~Ranked(T, rank)}
<1>1. \A T \in SUBSET S : IsFiniteSet(T) /\ Cardinality(T) \in Nat
  BY FS_Subset, FS_CardinalityType
<1>2. ASSUME wrong # {}
      PROVE  FALSE
  <2>1. Min(wrong) \in wrong /\ \A n \in wrong : Min(wrong) <= n
    BY <1>2, LeastOf
  <2>2. PICK m \in wrong : \A n \in wrong : m <= n
    BY <2>1
  <2>3. PICK T \in SUBSET S : Cardinality(T) = m /\ ~Ranked(T, rank)
    BY <2>2
  <2>4. T # {}
    <3> SUFFICES ASSUME T = {} PROVE Ranked(T, rank)
      BY <2>3
    <3>1. Cardinality(T) = 0
      BY FS_EmptySet
    <3> DEFINE none == [i \in 1 .. 0 |-> 0]
    <3>2. none \in SetToSeqs(T)
      BY <3>1 DEF SetToSeqs
    <3> QED BY <3>1, <3>2 DEF Ranked
  <2>5. PICK w \in T : \A x \in T : rank[w] <= rank[x]
    <3> DEFINE ranks == {rank[x] : x \in T}
    <3>1. ranks \in SUBSET Nat /\ ranks # {}
      BY <2>4
    <3>2. Min(ranks) \in ranks /\ \A n \in ranks : Min(ranks) <= n
      <4> HIDE DEF ranks
      <4> QED BY <3>1, LeastOf
    <3>3. PICK k \in ranks : \A n \in ranks : k <= n
      BY <3>2
    <3> QED BY <3>3
  <2> DEFINE less == T \ {w}
  <2>6. less \in SUBSET S /\ Cardinality(less) = m - 1 /\ Cardinality(less) \in Nat /\ m \in Nat
    BY <1>1, <2>3, FS_RemoveElement
  <2>7. Ranked(less, rank)
    BY <2>2, <2>6
  <2> HIDE DEF less
  <2>8. PICK s \in SetToSeqs(less) : \A i, j \in 1 .. m - 1 : i < j => rank[s[i]] >= rank[s[j]]
    BY <2>6, <2>7 DEF Ranked
  <2>9. s \in [1 .. m - 1 -> less] /\ \A i, j \in 1 .. m - 1 : i # j => s[i] # s[j]
    BY <2>6, <2>8 DEF SetToSeqs
  <2> DEFINE longer == [i \in 1 .. m |-> IF i = m THEN w ELSE s[i]]
  <2>10. \A i \in 1 .. m : i # m => i \in 1 .. m - 1
    BY <2>6
  <2>11. /\ \A i \in 1 .. m : longer[i] = IF i = m THEN w ELSE s[i]
         /\ \A i \in 1 .. m : i # m => s[i] \in T /\ s[i] # w
    BY <2>9, <2>10 DEF less
  <2>12. longer \in [1 .. m -> T]
    BY <2>11
  <2> HIDE DEF longer
  <2>13. \A i, j \in 1 .. m : i # j => longer[i] # longer[j]
    BY <2>9, <2>10, <2>11
  <2>14. ASSUME NEW i \in 1 .. m, NEW j \in 1 .. m, i < j
         PROVE  rank[longer[i]] >= rank[longer[j]]
    <3>1. i # m /\ i \in 1 .. m - 1 /\ longer[i] = s[i] /\ s[i] \in T /\ rank[s[i]] \in Nat
      BY <2>6, <2>10, <2>11, <2>14
    <3>2. CASE j = m BY <2>5, <2>11, <3>1, <3>2
    <3>3. CASE j # m BY <2>8, <2>10, <2>11, <2>14, <3>1, <3>3
    <3> QED BY <3>2, <3>3
  <2>15. Ranked(T, rank)
    BY <2>3, <2>12, <2>13, <2>14 DEF Ranked, SetToSeqs
  <2> QED BY <2>3, <2>15
<1>3. Cardinality(S) \notin wrong
  BY <1>2
<1> QED BY <1>1, <1>3

(* so that any of the best that decide may be the one that does. *)
LEMMA BestDecides ==
  ASSUME NEW found, IsFiniteSet(found), \A x \in found : x.priority \in Nat,
         NEW results, DOMAIN results = found,
         NEW x \in found, results[x] # Next_rule,
         \A z \in found : results[z] # Next_rule => z.priority <= x.priority
  PROVE  results[x] \in Decisions(results)
<1> DEFINE rank == [z \in found |-> IF z = x THEN 2 * z.priority + 1 ELSE 2 * z.priority]
<1>1. \A z \in found : rank[z] = (IF z = x THEN 2 * z.priority + 1 ELSE 2 * z.priority) /\ rank[z] \in Nat
  OBVIOUS
<1> HIDE DEF rank
<1> DEFINE D == 1 .. Cardinality(found)
<1>2. PICK s \in SetToSeqs(found) : \A i, j \in D : i < j => rank[s[i]] >= rank[s[j]]
  BY <1>1, RankedExists DEF Ranked
<1>3. s \in [D -> found] /\ \A i, j \in D : i # j => s[i] # s[j]
  BY <1>2 DEF SetToSeqs
<1>4. D \subseteq Nat /\ DOMAIN s = D
  BY <1>3, FS_CardinalityType
<1>5. ASSUME NEW y \in found, NEW z \in found, rank[y] >= rank[z]
      PROVE  y.priority >= z.priority
  <2>1. y.priority \in Nat /\ z.priority \in Nat OBVIOUS
  <2>2. rank[y] \in {2 * y.priority, 2 * y.priority + 1} /\ rank[z] \in {2 * z.priority, 2 * z.priority + 1}
    BY <1>1
  <2> QED BY <1>5, <2>1, <2>2
<1> HIDE DEF D
<1>6. s \in Sorted(found)
  <2>1. \A i, j \in D : i < j => s[i].priority >= s[j].priority
    BY <1>2, <1>3, <1>5
  <2> QED BY <1>2, <1>4, <2>1 DEF Sorted
<1> DEFINE decide == {i \in DOMAIN s : results[s[i]] # Next_rule}
<1>7. PICK k \in D : s[k] = x
  BY <1>6, SortedFacts DEF D
<1>8. k \in decide /\ decide \subseteq D /\ decide \in SUBSET Nat
  BY <1>4, <1>7
<1> HIDE DEF decide
<1>9. Min(decide) \in decide /\ \A j \in decide : Min(decide) <= j
  BY <1>8, LeastOf
<1>10. PICK i \in decide : i = Min(decide) /\ i <= k
  BY <1>8, <1>9
<1>11. i = k
  <2> SUFFICES ASSUME i # k PROVE FALSE OBVIOUS
  <2>1. i \in D /\ k \in D /\ i < k /\ s[i] \in found /\ s[i] # x /\ results[s[i]] # Next_rule
    BY <1>3, <1>4, <1>7, <1>8, <1>10 DEF decide
  <2>2. rank[s[i]] >= rank[x]
    BY <1>2, <1>7, <2>1
  <2>3. s[i].priority <= x.priority /\ s[i].priority \in Nat /\ x.priority \in Nat
    BY <2>1
  <2>4. rank[s[i]] = 2 * s[i].priority /\ rank[x] = 2 * x.priority + 1
    BY <1>1, <2>1
  <2> QED BY <2>2, <2>3, <2>4
<1>12. FirstDecision(s, results) = results[x]
  <2>1. FirstDecision(s, results) = IF decide = {} THEN Deny ELSE results[s[Min(decide)]]
    BY DEF FirstDecision, decide
  <2> QED BY <1>7, <1>8, <1>10, <1>11, <2>1
<1> QED BY <1>6, <1>12 DEF Decisions

LEMMA SomethingDecides ==
  ASSUME NEW found, IsFiniteSet(found), \A x \in found : x.priority \in Nat,
         NEW results, DOMAIN results = found
  PROVE  /\ Decisions(results) # {}
         /\ found = {} => Decisions(results) = {NoPolicy}
         /\ found # {} /\ (\A x \in found : results[x] = Next_rule) => Decisions(results) = {Deny}
<1>1. found = {} => Decisions(results) = {NoPolicy}
  BY DEF Decisions
<1>2. ASSUME found # {}
      PROVE  Decisions(results) # {}
  <2> DEFINE rank == [z \in found |-> z.priority]
  <2>1. \A z \in found : rank[z] \in Nat /\ rank[z] = z.priority OBVIOUS
  <2> HIDE DEF rank
  <2>2. PICK s \in SetToSeqs(found) : \A i, j \in 1 .. Cardinality(found) : i < j => rank[s[i]] >= rank[s[j]]
    BY <2>1, RankedExists DEF Ranked
  <2>3. DOMAIN s = 1 .. Cardinality(found) /\ \A i \in 1 .. Cardinality(found) : s[i] \in found
    BY <2>2 DEF SetToSeqs
  <2>4. s \in Sorted(found)
    BY <2>1, <2>2, <2>3 DEF Sorted
  <2> QED BY <1>2, <2>4 DEF Decisions
<1>3. ASSUME found # {}, \A x \in found : results[x] = Next_rule
      PROVE  Decisions(results) = {Deny}
  <2>1. \A answer \in Decisions(results) : answer = Deny
    BY <1>3, DecisionIsOfBest
  <2> QED BY <1>2, <1>3, <2>1
<1> QED BY <1>1, <1>2, <1>3

LEMMA EvaluateRight ==
  ASSUME NEW found, IsFiniteSet(found), \A x \in found : x.priority \in Nat
  PROVE  /\ evaluate(found) # {}
         /\ \A answer \in evaluate(found) :
              \/ found = {} /\ answer = NoPolicy
              \/ found # {} /\ (\A x \in found : x.action = "Audit") /\ answer = Deny
              \/ \E x \in found :
                   /\ x.action # "Audit" /\ answer = result_of(x)
                   /\ \A z \in found : z.action # "Audit" => z.priority <= x.priority
         /\ found = {} => evaluate(found) = {NoPolicy}
         /\ found # {} /\ (\A x \in found : x.action = "Audit") => evaluate(found) = {Deny}
         /\ \A x \in found :
              x.action # "Audit" /\ (\A z \in found : z.action # "Audit" => z.priority <= x.priority)
                => result_of(x) \in evaluate(found)
<1> DEFINE results == [rule \in found |-> result_of(rule)]
<1>1. DOMAIN results = found /\ \A x \in found : results[x] = result_of(x) OBVIOUS
<1>2. \A x : result_of(x) = Next_rule <=> x.action = "Audit"
  BY DEF result_of, Next_rule, Allow, Deny, AllowWithConstraints
<1>3. evaluate(found) = Decisions(results)
  BY DEF evaluate
<1> HIDE DEF results
<1>4. \A x \in found : results[x] = Next_rule <=> x.action = "Audit"
  BY <1>1, <1>2
<1>5. ASSUME NEW answer \in evaluate(found)
      PROVE  \/ found = {} /\ answer = NoPolicy
             \/ found # {} /\ (\A x \in found : x.action = "Audit") /\ answer = Deny
             \/ \E x \in found :
                  /\ x.action # "Audit" /\ answer = result_of(x)
                  /\ \A z \in found : z.action # "Audit" => z.priority <= x.priority
  <2>1. answer \in Decisions(results)
    BY <1>3
  <2>2. \/ found = {} /\ answer = NoPolicy
        \/ found # {} /\ (\A x \in found : results[x] = Next_rule) /\ answer = Deny
        \/ \E x \in found :
             /\ results[x] # Next_rule /\ answer = results[x]
             /\ \A z \in found : results[z] # Next_rule => z.priority <= x.priority
    BY <1>1, <2>1, DecisionIsOfBest
  <2> QED BY <1>1, <1>4, <2>2
<1>6. ASSUME NEW x \in found, x.action # "Audit",
             \A z \in found : z.action # "Audit" => z.priority <= x.priority
      PROVE  result_of(x) \in evaluate(found)
  BY <1>1, <1>3, <1>4, <1>6, BestDecides
<1> QED BY <1>1, <1>3, <1>4, <1>5, <1>6, SomethingDecides

(* The rules found among some ids. *)
FoundIn(ids, q) == {rules[id] : id \in {i \in ids : rules[i] # NoRule /\ Matches(rules[i], q)}}

RulesTyped ==
  /\ IsFiniteSet(RuleId)
  /\ \A id \in RuleId : rules[id] # NoRule => IsRule(rules[id])
  /\ DOMAIN cached = CacheKeys /\ DOMAIN moments = Reader
  /\ \A reader \in Reader : rules \in moments[reader]

(* What is listed so far is what matches, unless the rules have changed;    *)
(* and nothing that was removed is about to be inserted.                    *)
CallSound(c) ==
  /\ c.pc = "insert" => c.id \in RuleId /\ c.rule \in NewRules /\ c.id \notin removed
  /\ c.pc = "clear" => c.todo \subseteq RuleId
  /\ c.pc = "listing" =>
       /\ {"pc", "query", "todo", "found"} \subseteq DOMAIN c
       /\ c.query \in Query /\ c.todo \subseteq RuleId
       /\ IsFiniteSet(c.found) /\ \A x \in c.found : IsRule(x)
       /\ cache_key(c.query) \notin unsettled => c.found = FoundIn(RuleId \ c.todo, c.query)

CachedSound ==
  \A e \in CacheKeys \ unsettled :
    cached[e] # NoAnswer =>
      \E held \in moments[e.reader], q \in Query : cache_key(q) = e /\ cached[e] \in Right(held, q)

RemovedSound == removed \subseteq RuleId /\ \A id \in removed : rules[id] = NoRule

PolicyInv ==
  /\ RulesTyped /\ CachedSound /\ RemovedSound
  /\ \A t \in Caller : CallSound(caller[t])

LEMMA QueryReader ==
  /\ \A q \in Query : q.reader \in Reader /\ cache_key(q).reader = q.reader /\ cache_key(q) \in CacheKeys
  /\ \A e \in CacheKeys : e.reader \in Reader
<1>1. ASSUME NEW q \in Query
      PROVE  q.reader \in Reader /\ cache_key(q).reader = q.reader /\ cache_key(q) \in CacheKeys
  BY DEF Query, cache_key, CacheKeys
<1> QED BY <1>1 DEF CacheKeys

(* An answer from all the rules is right for them. *)
LEMMA AnswerIsRight ==
  ASSUME RulesTyped, NEW q \in Query, NEW found, IsFiniteSet(found), found = FoundIn(RuleId, q),
         NEW answer \in Answers(found, q)
  PROVE  answer \in Right(rules, q)
<1>0. \A x \in InForce(rules) : IsRule(x)
  BY DEF InForce, RulesTyped, RuleId
<1>1. found = {x \in InForce(rules) : Matches(x, q)}
  BY DEF FoundIn, InForce, RuleId
<1>2. CASE q.reader = "resolver"
  <2>1. answer = <<"constraints", get_constraints(found)>>
    BY <1>2 DEF Answers
  <2>2. \A x : Matches(x, q) <=> same_kind(x, q.plugin, q.request)
    BY <1>2 DEF Matches
  <2>3. {x \in found : Constrains(x)}
          = {y \in InForce(rules) : Constrains(y) /\ same_kind(y, q.plugin, q.request)}
    BY <1>1, <2>2
  <2> QED BY <1>2, <2>1, <2>3 DEF get_constraints, Right
<1>3. CASE q.reader = "evaluator"
  <2> DEFINE apply == {x \in InForce(rules) :
                         /\ x.expiry # "past"
                         /\ x.subject.kind = "any" \/ q.plugin \in x.subject.ids
                         /\ object_matches(x.object, q.request)}
             decide == {x \in apply : x.action # "Audit"}
  <2>1. ASSUME NEW x \in InForce(rules)
        PROVE  Matches(x, q) <=> /\ x.expiry # "past"
                                 /\ x.subject.kind = "any" \/ q.plugin \in x.subject.ids
                                 /\ object_matches(x.object, q.request)
    <3>1. x.subject.kind \in {"any", "plugin", "plugins"}
      BY <1>0 DEF IsRule
    <3> QED BY <1>3, <3>1 DEF Matches, relevant, is_expired, names, lists
  <2>2. found = apply
    BY <1>1, <2>1
  <2>3. answer \in evaluate(found) /\ \A x \in found : x.priority \in Nat
    BY <1>0, <1>1, <1>3 DEF Answers, IsRule
  <2>4. Right(rules, q) = IF apply = {} THEN {NoPolicy} ELSE IF decide = {} THEN {Deny}
                         ELSE {result_of(x) : x \in {y \in decide :
                                               \A z \in decide : z.priority <= y.priority}}
    BY <1>3 DEF Right
  <2> HIDE DEF apply
  <2>5. CASE found = {} /\ answer = NoPolicy BY <2>2, <2>4, <2>5
  <2>6. CASE found # {} /\ (\A x \in found : x.action = "Audit") /\ answer = Deny
    BY <2>2, <2>4, <2>6
  <2>7. CASE \E x \in found :
               /\ x.action # "Audit" /\ answer = result_of(x)
               /\ \A z \in found : z.action # "Audit" => z.priority <= x.priority
    BY <2>2, <2>4, <2>7
  <2> QED BY <2>3, <2>5, <2>6, <2>7, EvaluateRight
<1> QED BY <1>2, <1>3, QueryReader DEF Reader

LEMMA PolicyInitInv ==
  ASSUME Init
  PROVE  PolicyInv
<1>1. \A t \in Caller : caller[t].pc = "idle"
  BY DEF Init, CallsInit, Idle
<1>2. PolicyInit(IF part = "policy" THEN Policies ELSE {<<>>})
  BY DEF Init
<1>3. IsFiniteSet(RuleId) /\ \A id \in RuleId : rules[id] # NoRule => IsRule(rules[id])
  <2>1. rules \in Policies \/ rules = <<>>
    BY <1>2 DEF PolicyInit
  <2>2. DOMAIN <<>> = {} /\ IsFiniteSet({})
    BY FS_EmptySet
  <2> QED BY <2>1, <2>2, PoliciesAreRules DEF RuleId
<1>4. \A t \in Caller : CallSound(caller[t])
  BY <1>1 DEF CallSound
<1> QED BY <1>2, <1>3, <1>4
     DEF PolicyInv, PolicyInit, RulesTyped, CachedSound, RemovedSound

LEMMA PolicyStays ==
  ASSUME PolicyInv, UNCHANGED policyVars,
         \A t \in Caller : caller'[t] = caller[t] \/ caller'[t].pc \notin PolicyPcs
  PROVE  PolicyInv'
<1>1. UNCHANGED <<rules, cached, moments, unsettled, removed>>
  BY DEF policyVars
<1>2. RulesTyped' /\ CachedSound' /\ RemovedSound'
  BY <1>1 DEF PolicyInv, RulesTyped, CachedSound, RemovedSound, RuleId
<1>3. ASSUME NEW t \in Caller
      PROVE  CallSound(caller[t])'
  <2>1. CASE caller'[t] = caller[t] BY <1>1, <2>1 DEF PolicyInv, CallSound, FoundIn, RuleId
  <2>2. CASE caller'[t].pc \notin PolicyPcs BY <2>2 DEF CallSound, PolicyPcs
  <2> QED BY <2>1, <2>2
<1> QED BY <1>2, <1>3 DEF PolicyInv

(* The calls of the others go on while the rules stay. *)
LEMMA OtherCallsSound ==
  ASSUME PolicyInv, NEW t \in Caller, \A u \in Caller : u # t => caller'[u] = caller[u],
         UNCHANGED rules, removed' \subseteq removed, CallSound(caller[t])',
         \A u \in Caller : caller[u].pc = "listing" /\ cache_key(caller[u].query) \in unsettled
                            => cache_key(caller[u].query) \in unsettled'
  PROVE  \A u \in Caller : CallSound(caller[u])'
<1> SUFFICES ASSUME NEW u \in Caller, u # t PROVE CallSound(caller[u])' OBVIOUS
<1>1. caller'[u] = caller[u] /\ CallSound(caller[u]) /\ RuleId' = RuleId
  BY DEF PolicyInv, RuleId
<1> QED BY <1>1 DEF CallSound, FoundIn

LEMMA IdleSound ==
  ASSUME NEW t \in Caller, Return(t) \/ CallAtOnce(t), CallersKnown
  PROVE  /\ CallSound(caller[t])' /\ \A u \in Caller : u # t => caller'[u] = caller[u]
         /\ caller'[t].pc = "idle"
BY ReturnFacts DEF CallSound, Idle

LEMMA AddRuleKept ==
  ASSUME CallersKnown, PolicyInv, NEW t \in Caller, AddRule(t) \/ UpdateRule(t)
  PROVE  PolicyInv'
<1>1. PICK id \in RuleId, rule \in NewRules :
        \/ CallAtOnce(t) /\ (removed' = removed \ {id} \/ removed' = removed)
        \/ /\ Call(t, [pc |-> "insert", id |-> id, rule |-> rule])
           /\ removed' = removed \ {id} \/ (removed' = removed /\ rules[id] # NoRule)
  BY DEF AddRule, UpdateRule, policyVars, CallAtOnce
<1>2. UNCHANGED <<rules, cached, moments, unsettled>>
  BY DEF AddRule, UpdateRule, policyVars
<1>3. removed' \subseteq removed /\ RuleId' = RuleId
  BY <1>1, <1>2 DEF RuleId
<1>4. CallSound(caller[t])' /\ \A u \in Caller : u # t => caller'[u] = caller[u]
  <2>1. CASE CallAtOnce(t) BY <2>1, IdleSound
  <2>2. CASE Call(t, [pc |-> "insert", id |-> id, rule |-> rule])
             /\ (removed' = removed \ {id} \/ (removed' = removed /\ rules[id] # NoRule))
    <3> DEFINE state == [pc |-> "insert", id |-> id, rule |-> rule]
    <3>1. "pc" \in DOMAIN state /\ state.pc = "insert" /\ state.id = id /\ state.rule = rule OBVIOUS
    <3>2. caller' = [caller EXCEPT ![t] = state]
      BY <2>2 DEF Call
    <3> HIDE DEF state
    <3>3. caller'[t] = state /\ \A u \in Caller : u # t => caller'[u] = caller[u]
      BY <3>1, <3>2, GotoFacts
    <3>4. id \notin removed'
      BY <2>2 DEF PolicyInv, RemovedSound
    <3> QED BY <1>3, <3>1, <3>3, <3>4 DEF CallSound
  <2> QED BY <1>1, <2>1, <2>2
<1>5. \A u \in Caller : CallSound(caller[u])'
  BY <1>2, <1>3, <1>4, OtherCallsSound
<1>6. RulesTyped' /\ CachedSound' /\ RemovedSound'
  BY <1>2, <1>3 DEF PolicyInv, RulesTyped, CachedSound, RemovedSound
<1> QED BY <1>5, <1>6 DEF PolicyInv

(* The store changes at an id; who lists is unsettled. *)
LEMMA ChangeKept ==
  ASSUME PolicyInv, NEW t, NEW id \in RuleId, NEW rule, rule # NoRule => IsRule(rule),
         Change([rules EXCEPT ![id] = rule]),
         \A u \in Caller : u # t => caller'[u] = caller[u],
         t \in Caller => CallSound(caller[t])',
         removed' \subseteq removed \cup {id}, rule # NoRule => id \notin removed',
         id \in removed' => id \in removed \/ \A u \in Caller : u # t /\ caller[u].pc = "insert" => caller[u].id # id
  PROVE  PolicyInv'
<1>1. /\ rules' = [rules EXCEPT ![id] = rule] /\ RuleId' = RuleId
      /\ cached' = cached
      /\ moments' = [reader \in Reader |-> moments[reader] \cup {rules'}]
      /\ unsettled' = unsettled \cup {cache_key(caller[u].query) : u \in {v \in Caller : At(v, "listing")}}
  BY DEF Change, RuleId
<1>2. RulesTyped'
  <2>1. \A i \in RuleId : rules'[i] # NoRule => IsRule(rules'[i])
    BY <1>1 DEF PolicyInv, RulesTyped, RuleId
  <2> QED BY <1>1, <2>1 DEF PolicyInv, RulesTyped
<1>3. CachedSound'
  <2> SUFFICES ASSUME NEW e \in CacheKeys \ unsettled', cached'[e] # NoAnswer
               PROVE  \E held \in moments'[e.reader], q \in Query :
                        cache_key(q) = e /\ cached'[e] \in Right(held, q)
    BY DEF CachedSound
  <2>1. e \in CacheKeys \ unsettled /\ cached[e] # NoAnswer
    BY <1>1
  <2>2. PICK held \in moments[e.reader], q \in Query : cache_key(q) = e /\ cached[e] \in Right(held, q)
    BY <2>1 DEF PolicyInv, CachedSound
  <2>3. held \in moments'[e.reader]
    BY <1>1, <2>1, <2>2, QueryReader
  <2> QED BY <1>1, <2>2, <2>3
<1>4. RemovedSound'
  BY <1>1 DEF PolicyInv, RemovedSound, RuleId
<1>5. ASSUME NEW u \in Caller
      PROVE  CallSound(caller[u])'
  <2>1. CASE u = t BY <2>1
  <2>2. CASE u # t
    <3>1. caller'[u] = caller[u] /\ CallSound(caller[u])
      BY <2>2 DEF PolicyInv
    <3>2. caller[u].pc = "insert" => caller[u].id \notin removed'
      BY <2>2, <3>1 DEF CallSound
    <3>3. caller[u].pc = "listing" => cache_key(caller[u].query) \in unsettled'
      BY <1>1 DEF At
    <3> QED BY <1>1, <3>1, <3>2, <3>3 DEF CallSound
  <2> QED BY <2>1, <2>2
<1> QED BY <1>2, <1>3, <1>4, <1>5 DEF PolicyInv

LEMMA InsertRuleKept ==
  ASSUME CallersKnown, PolicyInv, NEW t \in Caller, InsertRule(t)
  PROVE  PolicyInv'
<1>1. /\ caller[t].pc = "insert" /\ Return(t) /\ removed' = removed
      /\ Change([rules EXCEPT ![caller[t].id] = caller[t].rule])
  BY DEF InsertRule, At
<1>2. PICK id, rule : id = caller[t].id /\ rule = caller[t].rule OBVIOUS
<1>3. id \in RuleId /\ rule \in NewRules /\ id \notin removed /\ IsRule(rule)
  BY <1>1, <1>2, NewRulesAreRules DEF PolicyInv, CallSound
<1>4. CallSound(caller[t])' /\ \A u \in Caller : u # t => caller'[u] = caller[u]
  BY <1>1, IdleSound
<1>5. Change([rules EXCEPT ![id] = rule])
  BY <1>1, <1>2
<1> QED BY <1>1, <1>3, <1>4, <1>5, ChangeKept

LEMMA RemoveRuleKept ==
  ASSUME CallersKnown, PolicyInv, NEW t \in Caller, RemoveRule(t)
  PROVE  PolicyInv'
<1>1. PICK id \in RuleId :
        /\ Change([rules EXCEPT ![id] = NoRule])
        /\ removed' = IF Inserting(id) THEN removed ELSE removed \cup {id}
  BY DEF RemoveRule
<1>2. CallSound(caller[t])' /\ \A u \in Caller : u # t => caller'[u] = caller[u]
  BY IdleSound DEF RemoveRule
<1>3. /\ removed' \subseteq removed \cup {id}
      /\ id \in removed' => id \in removed
                            \/ \A u \in Caller : u # t /\ caller[u].pc = "insert" => caller[u].id # id
  BY <1>1 DEF Inserting, At
<1> QED BY <1>1, <1>2, <1>3, ChangeKept

LEMMA ClearRulesKept ==
  ASSUME CallersKnown, PolicyInv, NEW t \in Caller, ClearRules(t) \/ ClearRule(t)
  PROVE  PolicyInv'
<1>1. ASSUME NEW todo \in SUBSET RuleId, caller' = [caller EXCEPT ![t] = [pc |-> "clear", todo |-> todo]],
             RuleId' = RuleId
      PROVE  CallSound(caller[t])' /\ \A u \in Caller : u # t => caller'[u] = caller[u]
  <2> DEFINE state == [pc |-> "clear", todo |-> todo]
  <2>1. "pc" \in DOMAIN state /\ state.pc = "clear" /\ state.todo = todo OBVIOUS
  <2> HIDE DEF state
  <2>2. caller'[t] = state /\ \A u \in Caller : u # t => caller'[u] = caller[u]
    BY <1>1, <2>1, GotoFacts DEF state
  <2> QED BY <1>1, <2>1, <2>2 DEF CallSound
<1>2. CASE ClearRules(t)
  <2>1. UNCHANGED <<rules, cached, moments, unsettled, removed>> /\ RuleId' = RuleId
    BY <1>2 DEF ClearRules, policyVars, RuleId
  <2>2. caller' = [caller EXCEPT ![t] = [pc |-> "clear", todo |-> RuleId]]
    BY <1>2 DEF ClearRules, Call
  <2>3. CallSound(caller[t])' /\ \A u \in Caller : u # t => caller'[u] = caller[u]
    BY <1>1, <2>1, <2>2
  <2>4. \A u \in Caller : CallSound(caller[u])'
    BY <2>1, <2>3, OtherCallsSound
  <2> QED BY <2>1, <2>4 DEF PolicyInv, RulesTyped, CachedSound, RemovedSound
<1>3. CASE ClearRule(t)
  <2>1. PICK id \in caller[t].todo :
          /\ Change([rules EXCEPT ![id] = NoRule])
          /\ Goto(t, IF caller[t].todo = {id} THEN Idle
                     ELSE [pc |-> "clear", todo |-> caller[t].todo \ {id}])
    BY <1>3 DEF ClearRule
  <2>2. caller[t].pc = "clear" /\ caller[t].todo \subseteq RuleId /\ removed' = removed
    BY <1>3 DEF ClearRule, At, PolicyInv, CallSound
  <2>3. RuleId' = RuleId
    BY <2>1 DEF Change, RuleId
  <2>4. PICK todo \in SUBSET RuleId : todo = caller[t].todo \ {id}
    BY <2>2
  <2>5. Return(t) \/ caller' = [caller EXCEPT ![t] = [pc |-> "clear", todo |-> todo]]
    BY <2>1, <2>4 DEF Return, Goto
  <2>6. CallSound(caller[t])' /\ \A u \in Caller : u # t => caller'[u] = caller[u]
    BY <1>1, <2>3, <2>5, IdleSound
  <2> QED BY <2>1, <2>2, <2>6, ChangeKept
<1> QED BY <1>2, <1>3

(* A rule that expires is a rule. *)
LEMMA ExpireKept ==
  ASSUME PolicyInv, Expire
  PROVE  PolicyInv'
<1>1. PICK id \in RuleId :
        rules[id] # NoRule /\ Change([rules EXCEPT ![id] = [@ EXCEPT !.expiry = "past"]])
  BY DEF Expire
<1>2. removed' = removed /\ caller' = caller
  BY DEF Expire, callVars
<1> DEFINE rule == [rules[id] EXCEPT !.expiry = "past"]
<1>3. IsRule(rules[id])
  BY <1>1 DEF PolicyInv, RulesTyped
<1>4. IsRule(rule)
  BY <1>3 DEF IsRule
<1>5. Change([rules EXCEPT ![id] = rule])
  BY <1>1
<1>6. id \notin removed
  BY <1>1 DEF PolicyInv, RemovedSound
<1> HIDE DEF rule
<1>7. PICK t : t \notin Caller
  <2> DEFINE away == {u \in Caller : u \notin u}
  <2>1. away \notin Caller OBVIOUS
  <2> QED BY <2>1
<1> QED BY <1>2, <1>4, <1>5, <1>6, <1>7, ChangeKept

LEMMA AskKept ==
  ASSUME CallersKnown, PolicyInv, NEW t \in Caller, Ask(t)
  PROVE  PolicyInv'
<1>1. PICK q \in Query :
        \/ CallAtOnce(t)
        \/ Call(t, [pc |-> "listing", query |-> q, todo |-> RuleId, found |-> {}])
  BY DEF Ask, CallAtOnce
<1>2. UNCHANGED <<rules, cached, moments, unsettled, removed>> /\ RuleId' = RuleId
  BY DEF Ask, policyVars, RuleId
<1>3. CallSound(caller[t])' /\ \A u \in Caller : u # t => caller'[u] = caller[u]
  <2>1. CASE CallAtOnce(t) BY <2>1, IdleSound
  <2>2. CASE Call(t, [pc |-> "listing", query |-> q, todo |-> RuleId, found |-> {}])
    <3> DEFINE state == [pc |-> "listing", query |-> q, todo |-> RuleId, found |-> {}]
    <3>1. /\ {"pc", "query", "todo", "found"} \subseteq DOMAIN state /\ state.pc = "listing" /\ state.query = q
          /\ state.todo = RuleId /\ state.found = {}
      OBVIOUS
    <3>2. caller' = [caller EXCEPT ![t] = state]
      BY <2>2 DEF Call
    <3> HIDE DEF state
    <3>3. caller'[t] = state /\ \A u \in Caller : u # t => caller'[u] = caller[u]
      BY <3>1, <3>2, GotoFacts
    <3>4. IsFiniteSet({}) /\ FoundIn(RuleId \ RuleId, q) = {}
      BY FS_EmptySet DEF FoundIn
    <3>5. FoundIn(RuleId \ RuleId, q)' = {}
      BY <1>2, <3>4 DEF FoundIn
    <3> QED BY <1>2, <3>1, <3>3, <3>4, <3>5 DEF CallSound
  <2> QED BY <1>1, <2>1, <2>2
<1>4. \A u \in Caller : CallSound(caller[u])'
  BY <1>2, <1>3, OtherCallsSound
<1> QED BY <1>2, <1>4 DEF PolicyInv, RulesTyped, CachedSound, RemovedSound

LEMMA ListRuleKept ==
  ASSUME CallersKnown, PolicyInv, NEW t \in Caller, ListRule(t)
  PROVE  PolicyInv'
<1>1. PICK c : c = caller[t] OBVIOUS
<1>2. /\ {"pc", "query", "todo", "found"} \subseteq DOMAIN c
      /\ c.pc = "listing" /\ c.query \in Query /\ c.todo \subseteq RuleId
      /\ IsFiniteSet(c.found) /\ \A x \in c.found : IsRule(x)
      /\ cache_key(c.query) \notin unsettled => c.found = FoundIn(RuleId \ c.todo, c.query)
  BY <1>1 DEF ListRule, At, PolicyInv, CallSound
<1>3. UNCHANGED <<rules, cached, moments, unsettled, removed>> /\ RuleId' = RuleId
  BY DEF ListRule, policyVars, RuleId
<1>4. PICK id \in c.todo :
        Goto(t, [c EXCEPT !.todo = @ \ {id},
                          !.found = @ \cup (IF rules[id] # NoRule /\ Matches(rules[id], c.query)
                                             THEN {rules[id]} ELSE {})])
  BY <1>1 DEF ListRule
<1>5. PICK new : new = IF rules[id] # NoRule /\ Matches(rules[id], c.query) THEN {rules[id]} ELSE {}
  OBVIOUS
<1> DEFINE state == [c EXCEPT !.todo = @ \ {id}, !.found = @ \cup new]
<1>6. caller' = [caller EXCEPT ![t] = state]
  BY <1>4, <1>5 DEF Goto
<1>7. /\ {"pc", "query", "todo", "found"} \subseteq DOMAIN state
      /\ state.pc = "listing" /\ state.query = c.query
      /\ state.todo = c.todo \ {id} /\ state.found = c.found \cup new
  BY <1>2
<1> HIDE DEF state
<1>8. caller'[t] = state /\ \A u \in Caller : u # t => caller'[u] = caller[u]
  BY <1>6, <1>7, GotoFacts
<1>9. IsFiniteSet(c.found \cup new) /\ \A x \in c.found \cup new : IsRule(x)
  <2>1. CASE new = {} BY <1>2, <2>1
  <2>2. CASE new = {rules[id]} /\ rules[id] # NoRule
    <3>1. IsRule(rules[id])
      BY <1>2, <2>2 DEF PolicyInv, RulesTyped
    <3> QED BY <1>2, <2>2, <3>1, FS_AddElement
  <2> QED BY <1>5, <2>1, <2>2
<1>10. ASSUME cache_key(c.query) \notin unsettled
       PROVE  c.found \cup new = FoundIn(RuleId \ (c.todo \ {id}), c.query)
  <2>1. RuleId \ (c.todo \ {id}) = (RuleId \ c.todo) \cup {id}
    BY <1>2
  <2>2. c.found = FoundIn(RuleId \ c.todo, c.query)
    BY <1>2, <1>10
  <2>3. FoundIn((RuleId \ c.todo) \cup {id}, c.query) = FoundIn(RuleId \ c.todo, c.query) \cup new
    BY <1>5 DEF FoundIn
  <2> QED BY <2>1, <2>2, <2>3
<1>11. CallSound(caller[t])'
  <2>1. cache_key(caller'[t].query) \notin unsettled'
          => caller'[t].found = FoundIn(RuleId \ caller[t].todo, caller[t].query)'
    BY <1>3, <1>7, <1>8, <1>10 DEF FoundIn
  <2> QED BY <1>2, <1>3, <1>7, <1>8, <1>9, <2>1 DEF CallSound
<1>12. \A u \in Caller : CallSound(caller[u])'
  BY <1>3, <1>8, <1>11, OtherCallsSound
<1> QED BY <1>3, <1>12 DEF PolicyInv, RulesTyped, CachedSound, RemovedSound

LEMMA AnswerKept ==
  ASSUME CallersKnown, PolicyInv, NEW t \in Caller, Answer(t)
  PROVE  PolicyInv'
<1>1. PICK c : c = caller[t] OBVIOUS
<1>2. /\ c.query \in Query /\ c.todo = {} /\ IsFiniteSet(c.found)
      /\ cache_key(c.query) \notin unsettled => c.found = FoundIn(RuleId \ {}, c.query)
  BY <1>1 DEF Answer, At, PolicyInv, CallSound
<1>3. UNCHANGED <<rules, moments, unsettled, removed>> /\ RuleId' = RuleId /\ Return(t)
  BY DEF Answer, RuleId
<1>4. PICK answer \in Answers(c.found, c.query) : cached' = [cached EXCEPT ![cache_key(c.query)] = answer]
  BY <1>1 DEF Answer
<1>5. CallSound(caller[t])' /\ \A u \in Caller : u # t => caller'[u] = caller[u]
  BY <1>3, IdleSound
<1>6. \A u \in Caller : CallSound(caller[u])'
  BY <1>3, <1>5, OtherCallsSound
<1>7. RulesTyped
  BY DEF PolicyInv
<1>8. ASSUME cache_key(c.query) \notin unsettled
      PROVE  answer \in Right(rules, c.query)
  <2>1. c.found = FoundIn(RuleId, c.query)
    <3>1. RuleId \ {} = RuleId OBVIOUS
    <3> QED BY <1>2, <1>8, <3>1
  <2> QED BY <1>2, <1>4, <1>7, <2>1, AnswerIsRight
<1>9. CachedSound'
  <2> SUFFICES ASSUME NEW e \in CacheKeys \ unsettled, cached'[e] # NoAnswer
               PROVE  \E held \in moments[e.reader], q \in Query :
                        cache_key(q) = e /\ cached'[e] \in Right(held, q)
    BY <1>3 DEF CachedSound
  <2>1. CASE e = cache_key(c.query)
    <3>1. cached'[e] = answer
      BY <1>2, <1>4, <1>7, <2>1 DEF RulesTyped
    <3>2. rules \in moments[e.reader]
      BY <1>7, QueryReader DEF RulesTyped
    <3> QED BY <1>2, <1>3, <1>8, <2>1, <3>1, <3>2
  <2>2. CASE e # cache_key(c.query) BY <1>3, <1>4, <1>7, <2>2 DEF RulesTyped, PolicyInv, CachedSound
  <2> QED BY <2>1, <2>2
<1>10. RulesTyped' /\ RemovedSound'
  BY <1>3, <1>4, <1>7 DEF PolicyInv, RulesTyped, RemovedSound
<1> QED BY <1>6, <1>9, <1>10 DEF PolicyInv

LEMMA ClearCacheKept ==
  ASSUME CallersKnown, PolicyInv, NEW t \in Caller, ClearCache(t)
  PROVE  PolicyInv'
<1>1. PICK reader \in Reader :
        /\ Listing(reader) = {}
        /\ cached' = [e \in CacheKeys |-> IF e.reader = reader THEN NoAnswer ELSE cached[e]]
        /\ moments' = [moments EXCEPT ![reader] = {rules}]
        /\ unsettled' = {e \in unsettled : e.reader # reader}
  BY DEF ClearCache
<1>2. UNCHANGED <<rules, removed>> /\ RuleId' = RuleId /\ CallAtOnce(t)
  BY DEF ClearCache, RuleId
<1>3. CallSound(caller[t])' /\ \A u \in Caller : u # t => caller'[u] = caller[u]
  BY <1>2, IdleSound
<1>4. \A u \in Caller : caller[u].pc = "listing" /\ cache_key(caller[u].query) \in unsettled
                          => cache_key(caller[u].query) \in unsettled'
  BY <1>1, QueryReader DEF Listing, At, PolicyInv, CallSound
<1>5. \A u \in Caller : CallSound(caller[u])'
  BY <1>2, <1>3, <1>4, OtherCallsSound
<1>6. RulesTyped' /\ RemovedSound'
  BY <1>1, <1>2 DEF PolicyInv, RulesTyped, RemovedSound
<1>7. CachedSound'
  <2> SUFFICES ASSUME NEW e \in CacheKeys \ unsettled', cached'[e] # NoAnswer
               PROVE  \E held \in moments'[e.reader], q \in Query :
                        cache_key(q) = e /\ cached'[e] \in Right(held, q)
    BY DEF CachedSound
  <2>1. e.reader # reader /\ cached'[e] = cached[e] /\ e \notin unsettled
    BY <1>1
  <2>2. moments'[e.reader] = moments[e.reader]
    BY <1>1, <2>1
  <2> QED BY <2>1, <2>2 DEF PolicyInv, CachedSound
<1> QED BY <1>5, <1>6, <1>7 DEF PolicyInv

(* What a step does to the policies and the telemetry. *)
LEMMA DataSteps ==
  ASSUME CallersAtPart, [Next]_vars
  PROVE  \/ \E t \in Caller : PartSteps(part, t) /\ OthersRest /\ Moves(t, PcsOf(part))
         \/ \E t \in Caller : Unwinds(t)
         \/ part = "policy" /\ Expire /\ UNCHANGED observabilityVars
         \/ UNCHANGED <<callVars, policyVars, observabilityVars>>
<1> USE DEF dataVars
<1>1. ASSUME NEW t \in Caller, Begin(t) \/ Continue(t)
      PROVE  (PartSteps(part, t) /\ OthersRest /\ Moves(t, PcsOf(part))) \/ Unwinds(t)
  BY <1>1, ThreadSteps, PartMoves DEF CallersAtPart
<1>2. CASE \E w \in Worker : WorkerRuns(w) BY <1>2 DEF WorkerRuns
<1>3. CASE TimePasses BY <1>3 DEF TimePasses
<1>4. CASE UNCHANGED vars BY <1>4 DEF vars
<1> QED BY <1>1, <1>2, <1>3, <1>4 DEF Next

LEMMA PolicyKept ==
  ASSUME CallersAtPart, PolicyInv, [Next]_vars
  PROVE  PolicyInv'
<1>0. CallersKnown /\ CallersAtPart' /\ UNCHANGED part
  BY CallersStayAtPart, NextSteps DEF CallersAtPart
<1>1. CASE part = "policy" /\ \E t \in Caller : PartSteps(part, t)
  <2>1. PICK t \in Caller : PolicyCall(t) \/ PolicyStep(t)
    BY <1>1 DEF PartSteps, Pool
  <2> QED
    BY <1>0, <2>1, AddRuleKept, InsertRuleKept, RemoveRuleKept, ClearRulesKept, AskKept, ListRuleKept,
       AnswerKept, ClearCacheKept
       DEF PolicyCall, PolicyStep
<1>2. CASE part # "policy" /\ UNCHANGED policyVars
  <2>1. ASSUME NEW t \in Caller
        PROVE  caller'[t].pc \notin PolicyPcs
    <3>1. caller'[t].pc \in {"idle"} \cup PcsOf(part)
      BY <1>0 DEF CallersAtPart
    <3> QED BY <1>2, <3>1, PcsTellPart
  <2> QED BY <1>2, <2>1, PolicyStays
<1>3. CASE \E t \in Caller : Unwinds(t)
  <2>1. PICK t \in Caller : Unwinds(t)
    BY <1>3
  <2>2. UNCHANGED policyVars /\ \A u \in Caller : caller'[u] = caller[u] \/ caller'[u].pc = "idle"
    BY <1>0, <2>1, UnwindFacts
  <2> QED BY <2>2, PolicyStays DEF PolicyPcs
<1>4. CASE Expire BY <1>4, ExpireKept
<1>5. CASE UNCHANGED <<callVars, policyVars>> BY <1>5, PolicyStays DEF callVars
<1> QED BY <1>1, <1>2, <1>3, <1>4, <1>5, DataSteps DEF OthersRest

(* The readers agree on any rules. *)
Applying(held, plugin, r) == {x \in held : relevant(x, plugin, r)}

LEMMA InForceFacts ==
  ASSUME RulesTyped
  PROVE  IsFiniteSet(InForce(rules)) /\ \A x \in InForce(rules) : IsRule(x)
<1> DEFINE held == {i \in RuleId : rules[i] # NoRule}
           read == [id \in held |-> rules[id]]
<1>1. IsFiniteSet(held)
  <2>1. IsFiniteSet(RuleId) /\ held \subseteq RuleId
    BY DEF RulesTyped
  <2> QED BY <2>1, FS_Subset
<1>2. InForce(rules) = {rules[id] : id \in held}
  BY DEF InForce, RuleId
<1>3. read \in Surjection(held, InForce(rules))
  BY <1>2 DEF Surjection
<1>4. IsFiniteSet(InForce(rules))
  <2> HIDE DEF held, read
  <2> QED BY <1>1, <1>3, FS_Surjection
<1>5. \A x \in InForce(rules) : IsRule(x)
  BY DEF RulesTyped, InForce, RuleId
<1> QED BY <1>4, <1>5

(* Of plain rules the mapper finds what the evaluator does. *)
LEMMA MapperFindsRelevant ==
  ASSUME NEW x, IsRule(x), Plainly(x), NEW plugin, NEW r, r.kind \in {"file", "network"}
  PROVE  string_matches(x, plugin, r) <=> relevant(x, plugin, r)
<1>1. ~is_expired(x) /\ ~lists(x.subject, plugin)
  BY DEF Plainly, lists
<1>2. x.object.kind \in {"any", "file", "network", "custom"}
  BY DEF IsRule
<1>3. CASE x.object.kind = "any"
  BY <1>1, <1>3 DEF string_matches, same_kind, relevant, object_matches
<1>4. CASE x.object.kind = "file"
  <2>1. Below[x.object.path] = Prefixed[x.object.path]
    BY <1>4 DEF Plainly
  <2> QED BY <1>1, <1>4, <2>1 DEF string_matches, same_kind, relevant, object_matches
<1>5. CASE x.object.kind = "network"
  <2>1. host_matches(x.object, r)
    BY <1>5 DEF Plainly, host_matches
  <2> QED BY <1>1, <1>5, <2>1 DEF string_matches, same_kind, relevant, object_matches
<1>6. CASE x.object.kind = "custom"
  BY <1>6 DEF string_matches, same_kind, relevant, object_matches
<1> QED BY <1>2, <1>3, <1>4, <1>5, <1>6

AllowsOutside(r) == ~(r.kind = "file" /\ Top[r.path] \in {"/tmp", "/etc", "/var"})

(* Outside its three directories the resolver allows by a rule that the     *)
(* evaluator finds and that allows there, and denies by every rule to deny. *)
LEMMA ResolvedFacts ==
  ASSUME NEW x, IsRule(x), Plainly(x), NEW plugin, NEW r, r.kind \in {"file", "network"}, AllowsOutside(r),
         same_kind(x, plugin, r)
  PROVE  /\ is_allowed(Resolved(x, r)) =>
              relevant(x, plugin, r) /\ x.action \notin {"Audit", "Deny"}
         /\ x.action = "Deny" => Resolved(x, r) = Deny
<1> DEFINE top == IF r.kind = "file" THEN Top[r.path] ELSE "none"
           covers == r.kind = "file" /\ x.object.kind = "file" /\ r.path \in Prefixed[x.object.path]
<1>1. top \notin {"/tmp", "/etc", "/var"}
  BY DEF AllowsOutside
<1>2. ~is_allowed(Next_rule) /\ ~is_allowed(Deny)
  BY DEF is_allowed, Next_rule, Deny
<1>3. Resolved(x, r) =
        CASE x.action = "Allow" -> IF top = "/tmp" \/ covers THEN Allow ELSE Next_rule
          [] x.action = "Audit" -> Next_rule
          [] x.action = "Deny"  ->
               IF top = "/tmp" THEN Allow
               ELSE IF top = "/var" /\ ~(r.kind = "file" /\ r.write)
               THEN AllowReadOnly
               ELSE Deny
          [] Constrains(x) ->
               IF top = "/etc" /\ (covers \/ x.action = "AllowWithConstraints") THEN Deny
               ELSE IF top = "/tmp" THEN Allow
               ELSE IF top = "/var" /\ (r.kind = "file" /\ r.write) /\ covers THEN Deny
               ELSE IF x.object.kind = "any" \/ covers THEN AllowWithConstraints(x)
               ELSE Next_rule
  BY DEF Resolved
<1>4. x.action = "Deny" => Resolved(x, r) = Deny
  BY <1>1, <1>3 DEF Constrains
<1>5. x.action = "Audit" => Resolved(x, r) = Next_rule
  BY <1>3 DEF Constrains
<1>6. ASSUME x.object.kind = "any" \/ covers
      PROVE  relevant(x, plugin, r)
  <2>1. string_matches(x, plugin, r)
    BY <1>6 DEF string_matches
  <2> QED BY <2>1, MapperFindsRelevant
<1>7. x.action = "Allow" => Resolved(x, r) = IF covers THEN Allow ELSE Next_rule
  BY <1>1, <1>3 DEF Constrains
<1>8. x.action \in {"AllowWithConstraints", "TransformToConstraints"} =>
        Resolved(x, r) = IF x.object.kind = "any" \/ covers THEN AllowWithConstraints(x) ELSE Next_rule
  BY <1>1, <1>3 DEF Constrains
<1> HIDE DEF covers, top
<1>9. x.action \in {"Allow", "Deny", "Audit", "AllowWithConstraints", "TransformToConstraints"}
  BY DEF IsRule
<1> QED BY <1>2, <1>4, <1>5, <1>6, <1>7, <1>8, <1>9

LEMMA ResultsAllow ==
  ASSUME NEW x, IsRule(x)
  PROVE  /\ x.action \notin {"Audit", "Deny"} => is_allowed(result_of(x))
         /\ x.action = "Deny" => result_of(x) = Deny
BY DEF IsRule, result_of, is_allowed, Allow, Deny, AllowWithConstraints

LEMMA ResolverAllowsNoMore ==
  ASSUME NEW all, IsFiniteSet(all), \A x \in all : IsRule(x) /\ Plainly(x),
         NEW plugin, NEW r, r.kind \in {"file", "network"}, AllowsOutside(r),
         NEW result \in resolve({x \in all : same_kind(x, plugin, r)}, r), is_allowed(result)
  PROVE  \E answer \in evaluate(Applying(all, plugin, r)) : is_allowed(answer)
<1> DEFINE kinds == {x \in all : same_kind(x, plugin, r)}
           apply == Applying(all, plugin, r)
           results == [x \in kinds |-> Resolved(x, r)]
<1>1. IsFiniteSet(kinds) /\ IsFiniteSet(apply) /\ kinds \subseteq all /\ apply \subseteq kinds
  <2>1. kinds \subseteq all /\ apply \subseteq all
    BY DEF Applying
  <2>2. ASSUME NEW x \in apply PROVE x \in kinds
    <3>1. x \in all /\ relevant(x, plugin, r)
      BY DEF Applying
    <3>2. string_matches(x, plugin, r)
      BY <3>1, MapperFindsRelevant
    <3> QED BY <3>1, <3>2 DEF string_matches
  <2> HIDE DEF kinds, apply
  <2> QED BY <2>1, <2>2, FS_Subset
<1>2. DOMAIN results = kinds /\ \A x \in kinds : results[x] = Resolved(x, r) OBVIOUS
<1>3. result \in Decisions(results)
  BY DEF resolve
<1>4. \A x \in kinds : IsRule(x) /\ Plainly(x) /\ same_kind(x, plugin, r) /\ x.priority \in Nat
  BY DEF IsRule
<1>5. \A x : x \in apply <=> x \in all /\ relevant(x, plugin, r)
  BY DEF Applying
<1> HIDE DEF kinds, apply, results
<1>6. ~is_allowed(NoPolicy) /\ ~is_allowed(Deny) /\ Next_rule # Deny
  BY DEF is_allowed, NoPolicy, Deny, Next_rule
<1>7. PICK x \in kinds :
        /\ results[x] # Next_rule /\ result = results[x]
        /\ \A z \in kinds : results[z] # Next_rule => z.priority <= x.priority
  BY <1>1, <1>2, <1>3, <1>4, <1>6, DecisionIsOfBest
<1>8. x \in apply /\ x.action \notin {"Audit", "Deny"}
  <2>1. is_allowed(Resolved(x, r)) /\ IsRule(x) /\ Plainly(x) /\ same_kind(x, plugin, r)
    BY <1>2, <1>4, <1>7
  <2>2. relevant(x, plugin, r) /\ x.action \notin {"Audit", "Deny"}
    BY <2>1, ResolvedFacts
  <2> QED BY <1>1, <1>5, <2>2
<1>9. \A z \in apply : z.priority \in Nat /\ IsRule(z)
  BY <1>1, <1>4
<1>10. PICK answer \in evaluate(apply) : TRUE
  BY <1>1, <1>9, EvaluateRight
<1>11. PICK m \in apply :
         /\ m.action # "Audit" /\ answer = result_of(m)
         /\ \A z \in apply : z.action # "Audit" => z.priority <= m.priority
  BY <1>1, <1>8, <1>9, EvaluateRight
<1>12. CASE m.action = "Deny"
  <2>1. m \in kinds /\ IsRule(m) /\ Plainly(m) /\ same_kind(m, plugin, r)
    BY <1>1, <1>4
  <2>2. results[m] # Next_rule
    BY <1>2, <1>6, <1>12, <2>1, ResolvedFacts
  <2>3. m.priority <= x.priority /\ m.priority \in Nat /\ x.priority \in Nat
    BY <1>4, <1>7, <2>1, <2>2
  <2>4. \A z \in apply : z.action # "Audit" => z.priority <= x.priority
    BY <1>9, <1>11, <2>3
  <2>5. result_of(x) \in evaluate(apply)
    BY <1>1, <1>8, <1>9, <2>4, EvaluateRight
  <2> QED BY <1>8, <1>9, <2>5, ResultsAllow DEF apply
<1>13. CASE m.action # "Deny" BY <1>9, <1>10, <1>11, <1>13, ResultsAllow DEF apply
<1> QED BY <1>12, <1>13

(* The rules that are kept decide as all do. *)
LEMMA MergedDecideAlike ==
  ASSUME NEW all, IsFiniteSet(all), \A x \in all : IsRule(x), NEW plugin, NEW r,
         \A x, y \in all : Key(x) = Key(y) => is_expired(x) = is_expired(y),
         NEW kept \in merge_policies(all), NEW answer \in evaluate(Applying(kept, plugin, r))
  PROVE  answer \in evaluate(Applying(all, plugin, r))
<1> DEFINE some == Applying(kept, plugin, r)
           every == Applying(all, plugin, r)
<1>1. kept \subseteq all /\ some \subseteq every /\ every \subseteq all
  BY DEF merge_policies, Applying
<1>2. IsFiniteSet(some) /\ IsFiniteSet(every)
  <2> HIDE DEF some, every
  <2> QED BY <1>1, FS_Subset
<1>3. \A x \in every : x.priority \in Nat
  BY <1>1 DEF IsRule
<1>4. ASSUME NEW z \in every
      PROVE  \E y \in some : y.action = z.action /\ z.priority <= y.priority
  <2>1. z \in all /\ relevant(z, plugin, r)
    BY DEF Applying
  <2>2. Cardinality({y \in kept : Key(y) = Key(z)}) = 1
    BY <2>1 DEF merge_policies
  <2>3. PICK y \in kept : Key(y) = Key(z)
    BY <2>2, FS_EmptySet
  <2>4. y.subject = z.subject /\ y.object = z.object /\ y.action = z.action
    BY <2>3 DEF Key
  <2>5. is_expired(y) = is_expired(z)
    BY <1>1, <2>1, <2>3
  <2>6. relevant(y, plugin, r)
    BY <2>1, <2>4, <2>5 DEF relevant
  <2>7. y.priority >= z.priority /\ y.priority \in Nat /\ z.priority \in Nat
    BY <1>1, <1>3, <2>1, <2>3 DEF merge_policies, IsRule
  <2> QED BY <2>4, <2>6, <2>7 DEF Applying
<1> HIDE DEF some, every
<1>5. CASE some = {} BY <1>2, <1>3, <1>4, <1>5, EvaluateRight DEF some, every
<1>6. CASE some # {} /\ \A x \in some : x.action = "Audit"
  <2>1. every # {} /\ \A x \in every : x.action = "Audit"
    BY <1>1, <1>4, <1>6
  <2>2. evaluate(every) = {Deny}
    BY <1>2, <1>3, <2>1, EvaluateRight
  <2>3. evaluate(some) = {Deny}
    BY <1>1, <1>2, <1>3, <1>6, EvaluateRight
  <2> QED BY <2>2, <2>3 DEF some, every
<1>7. CASE \E x \in some : x.action # "Audit"
  <2>1. PICK x \in some :
          /\ x.action # "Audit" /\ answer = result_of(x)
          /\ \A z \in some : z.action # "Audit" => z.priority <= x.priority
    <3>1. answer \in evaluate(some) /\ \A x \in some : x.priority \in Nat
      BY <1>1, <1>3 DEF some
    <3> QED BY <1>2, <1>7, <3>1, EvaluateRight
  <2>2. ASSUME NEW z \in every, z.action # "Audit"
        PROVE  z.priority <= x.priority
    <3>1. PICK y \in some : y.action = z.action /\ z.priority <= y.priority
      BY <1>4
    <3>2. y.priority <= x.priority /\ y.priority \in Nat /\ z.priority \in Nat /\ x.priority \in Nat
      BY <1>1, <1>3, <2>1, <2>2, <3>1
    <3> QED BY <3>1, <3>2
  <2> QED BY <1>1, <1>2, <1>3, <2>1, <2>2, EvaluateRight DEF every
<1> QED BY <1>5, <1>6, <1>7

LEMMA RulesAgreeFollows ==
  ASSUME RulesTyped
  PROVE  RulesAgree
<1> SUFFICES ASSUME NEW plugin \in Asker, NEW r \in Request
             PROVE  LET all == InForce(rules)
                        allowed == {is_allowed(result) : result \in evaluate(Applying(all, plugin, r))}
                        strings == {x \in all : string_matches(x, plugin, r)}
                        kinds == {x \in all : same_kind(x, plugin, r)}
                    IN  /\ (\A x \in all : Plainly(x)) =>
                             /\ is_allowed_by_policy(strings) = allowed
                             /\ \/ r.kind = "file" /\ Top[r.path] \in {"/tmp", "/etc", "/var"}
                                \/ \A result \in resolve(kinds, r) : is_allowed(result) => TRUE \in allowed
                        /\ (\A x, y \in all : Key(x) = Key(y) => is_expired(x) = is_expired(y)) =>
                             \A kept \in merge_policies(all) :
                               evaluate(Applying(kept, plugin, r)) \subseteq evaluate(Applying(all, plugin, r))
  BY DEF RulesAgree, Applying
<1> DEFINE all == InForce(rules)
           allowed == {is_allowed(result) : result \in evaluate(Applying(all, plugin, r))}
           strings == {x \in all : string_matches(x, plugin, r)}
<1>1. IsFiniteSet(all) /\ (\A x \in all : IsRule(x)) /\ r.kind \in {"file", "network"}
  BY InForceFacts, RequestsHaveKinds
<1> HIDE DEF all
<1>2. ASSUME \A x \in all : Plainly(x)
      PROVE  is_allowed_by_policy(strings) = allowed
  <2>1. strings = Applying(all, plugin, r)
    <3>1. \A x \in all : string_matches(x, plugin, r) <=> relevant(x, plugin, r)
      BY <1>1, <1>2, MapperFindsRelevant
    <3> QED BY <3>1 DEF Applying
  <2> QED BY <2>1 DEF is_allowed_by_policy
<1>3. ASSUME \A x \in all : Plainly(x), AllowsOutside(r),
             NEW result \in resolve({x \in all : same_kind(x, plugin, r)}, r), is_allowed(result)
      PROVE  TRUE \in allowed
  <2>1. PICK answer \in evaluate(Applying(all, plugin, r)) : is_allowed(answer)
    BY <1>1, <1>3, ResolverAllowsNoMore
  <2>2. is_allowed(answer) = TRUE
    BY <2>1 DEF is_allowed
  <2> QED BY <2>2
<1>4. ASSUME \A x, y \in all : Key(x) = Key(y) => is_expired(x) = is_expired(y),
             NEW kept \in merge_policies(all)
      PROVE  evaluate(Applying(kept, plugin, r)) \subseteq evaluate(Applying(all, plugin, r))
  BY <1>1, <1>4, MergedDecideAlike
<1> QED BY <1>2, <1>3, <1>4 DEF AllowsOutside, all

(* What the evaluator and the resolver answer from their caches was right   *)
(* for a request with that key and the rules at a moment since the clear,   *)
(* unless rules changed under the listing (evaluator.rs:68); and a rule     *)
(* that was removed is back only by an insert (in_memory.rs:66): for any    *)
(* rules, requests and numbers of threads.                                  *)
THEOREM AnswersStayRight == Spec => []AnswersWereRight
<1>1. Init => CallersAtPart /\ PolicyInv
  BY InitCallers, PolicyInitInv
<1>2. CallersAtPart /\ PolicyInv /\ [Next]_vars => CallersAtPart' /\ PolicyInv'
  BY CallersStayAtPart, PolicyKept
<1>3. PolicyInv => AnswersWereRight
  BY DEF PolicyInv, CachedSound, RemovedSound, AnswersWereRight
<1> QED BY <1>1, <1>2, <1>3, PTL DEF Spec

(* For plain rules the mapper allows what the evaluator does                *)
(* (mapper.rs:124), and the resolver (resolver.rs:156) nothing more outside *)
(* its three directories; and the rules that merge_policies keeps           *)
(* (aggregator.rs:131) decide as all of them do, but for rules that have    *)
(* expired: for any rules in force and any request.                         *)
THEOREM RulesStayAgreed == Spec => []RulesAgree
<1>1. Init => CallersAtPart /\ PolicyInv
  BY InitCallers, PolicyInitInv
<1>2. CallersAtPart /\ PolicyInv /\ [Next]_vars => CallersAtPart' /\ PolicyInv'
  BY CallersStayAtPart, PolicyKept
<1>3. PolicyInv => RulesAgree
  BY RulesAgreeFollows DEF PolicyInv
<1> QED BY <1>1, <1>2, <1>3, PTL DEF Spec

-----------------------------------------------------------------------------
(* Sums.  A sum of numbers is the number of its units, whatever order it    *)
(* was made in.                                                             *)
Units(f, S) == {p \in S \X Nat : 1 <= p[2] /\ p[2] <= f[p[1]]}

Total(f, S) == Cardinality(Units(f, S))

LEMMA UnitsFinite ==
  ASSUME NEW S, IsFiniteSet(S), NEW f, \A x \in S : f[x] \in Nat
  PROVE  IsFiniteSet(Units(f, S)) /\ Total(f, S) \in Nat
<1> DEFINE column == [x \in S |-> {x} \X (1 .. f[x])]
           columns == {column[x] : x \in S}
<1>1. \A x \in S : IsFiniteSet(column[x])
  <2> SUFFICES ASSUME NEW x \in S PROVE IsFiniteSet({x} \X (1 .. f[x])) OBVIOUS
  <2>1. f[x] \in Int /\ 1 \in Int OBVIOUS
  <2>2. IsFiniteSet(1 .. f[x])
    BY <2>1, FS_Interval
  <2>3. IsFiniteSet({x})
    BY FS_Singleton
  <2> QED BY <2>2, <2>3, FS_Product
<1>2. IsFiniteSet(columns)
  <2>1. column \in Surjection(S, columns)
    BY DEF Surjection
  <2> HIDE DEF column, columns
  <2> QED BY <2>1, FS_Surjection
<1>3. \A T \in columns : IsFiniteSet(T)
  BY <1>1
<1>4. IsFiniteSet(UNION columns)
  <2> HIDE DEF columns
  <2> QED BY <1>2, <1>3, FS_UNION
<1>5. Units(f, S) \subseteq UNION columns
  <2> SUFFICES ASSUME NEW p \in Units(f, S) PROVE p \in UNION columns OBVIOUS
  <2>1. p \in S \X Nat /\ 1 <= p[2] /\ p[2] <= f[p[1]]
    BY DEF Units
  <2>2. p \in column[p[1]] /\ p[1] \in S
    BY <2>1
  <2> QED BY <2>2
<1> HIDE DEF columns
<1> QED BY <1>4, <1>5, FS_Subset, FS_CardinalityType DEF Total

LEMMA TotalOfNone ==
  ASSUME NEW f
  PROVE  Total(f, {}) = 0
<1>1. Units(f, {}) = {}
  BY DEF Units
<1> QED BY <1>1, FS_EmptySet DEF Total

LEMMA TotalSplits ==
  ASSUME NEW S, IsFiniteSet(S), NEW f, \A x \in S : f[x] \in Nat, NEW x \in S
  PROVE  Total(f, S) = f[x] + Total(f, S \ {x})
<1> DEFINE rest == Units(f, S \ {x})
           mine == {x} \X (1 .. f[x])
<1>1. IsFiniteSet(S \ {x}) /\ \A y \in S \ {x} : f[y] \in Nat
  BY FS_Difference
<1>2. IsFiniteSet(rest) /\ Cardinality(rest) = Total(f, S \ {x}) /\ Total(f, S \ {x}) \in Nat
  BY <1>1, UnitsFinite DEF Total
<1>3. IsFiniteSet(mine) /\ Cardinality(mine) = f[x]
  <2>1. IsFiniteSet({x}) /\ Cardinality({x}) = 1
    BY FS_Singleton
  <2>2. IsFiniteSet(1 .. f[x]) /\ Cardinality(1 .. f[x]) = f[x]
    BY FS_Interval
  <2>3. IsFiniteSet(mine) /\ Cardinality(mine) = Cardinality({x}) * Cardinality(1 .. f[x])
    BY <2>1, <2>2, FS_Product
  <2> QED BY <2>1, <2>2, <2>3
<1>4. Units(f, S) = mine \cup rest
  <2>1. \A p \in S \X Nat : p[1] = x => (p \in mine <=> 1 <= p[2] /\ p[2] <= f[p[1]]) OBVIOUS
  <2>2. \A p \in mine : p \in S \X Nat /\ p[1] = x OBVIOUS
  <2>3. \A p : p \in rest <=> p \in S \X Nat /\ p[1] # x /\ 1 <= p[2] /\ p[2] <= f[p[1]]
    BY DEF Units
  <2>4. \A p : p \in Units(f, S) <=> p \in S \X Nat /\ 1 <= p[2] /\ p[2] <= f[p[1]]
    BY DEF Units
  <2> HIDE DEF mine, rest
  <2> QED BY <2>1, <2>2, <2>3, <2>4
<1>5. mine \cap rest = {}
  BY DEF Units
<1>6. Cardinality(mine \cap rest) = 0
  BY <1>5, FS_EmptySet
<1> HIDE DEF mine, rest
<1>7. Cardinality(mine \cup rest) = Cardinality(mine) + Cardinality(rest) - Cardinality(mine \cap rest)
  BY <1>2, <1>3, FS_Union
<1> QED BY <1>2, <1>3, <1>4, <1>6, <1>7 DEF Total

LEMMA TotalAgrees ==
  ASSUME NEW S, NEW f, NEW g, \A x \in S : f[x] = g[x]
  PROVE  Total(f, S) = Total(g, S)
<1>1. Units(f, S) = Units(g, S)
  BY DEF Units
<1> QED BY <1>1 DEF Total

(* The fold of Sum adds what it takes out of the set. *)
Taken(s) == CHOOSE x \in s : TRUE

Adds(f, S, g) ==
  g = [s \in SUBSET S |-> IF s = {} THEN 0 ELSE f[Taken(s)] + g[s \ {Taken(s)}]]

LEMMA AddsTotal ==
  ASSUME NEW S, IsFiniteSet(S), NEW f, \A x \in S : f[x] \in Nat, NEW g, Adds(f, S, g)
  PROVE  g[S] = Total(f, S)
<1> DEFINE wrong == {n \in Nat : \E s \in SUBSET S : Cardinality(s) = n /\ g[s] # Total(f, s)}
<1>1. \A s \in SUBSET S : IsFiniteSet(s) /\ Cardinality(s) \in Nat /\ \A x \in s : f[x] \in Nat
  BY FS_Subset, FS_CardinalityType
<1>2. ASSUME wrong # {}
      PROVE  FALSE
  <2>1. Min(wrong) \in wrong /\ \A n \in wrong : Min(wrong) <= n
    BY <1>2, LeastOf
  <2>2. PICK m \in wrong : \A n \in wrong : m <= n
    BY <2>1
  <2>3. PICK s \in SUBSET S : Cardinality(s) = m /\ g[s] # Total(f, s)
    BY <2>2
  <2>4. g[s] = IF s = {} THEN 0 ELSE f[Taken(s)] + g[s \ {Taken(s)}]
    BY DEF Adds
  <2>5. s # {}
    BY <2>3, <2>4, TotalOfNone
  <2>6. Taken(s) \in s
    BY <2>5 DEF Taken
  <2> DEFINE less == s \ {Taken(s)}
  <2>7. Cardinality(less) = m - 1 /\ Cardinality(less) \in Nat /\ less \in SUBSET S /\ m \in Nat
    BY <1>1, <2>3, <2>6, FS_RemoveElement
  <2>8. Total(f, s) = f[Taken(s)] + Total(f, less)
    BY <1>1, <2>6, TotalSplits
  <2>9. g[less] # Total(f, less)
    BY <2>3, <2>4, <2>5, <2>8
  <2>10. Cardinality(less) \in wrong
    BY <2>7, <2>9
  <2> HIDE DEF wrong, less
  <2> QED BY <2>2, <2>7, <2>10
<1>3. Cardinality(S) \notin wrong
  BY <1>2
<1> QED BY <1>1, <1>3

LEMMA TotalAdds ==
  ASSUME NEW S, IsFiniteSet(S), NEW f, \A x \in S : f[x] \in Nat
  PROVE  Adds(f, S, [s \in SUBSET S |-> Total(f, s)])
<1> DEFINE g == [s \in SUBSET S |-> Total(f, s)]
<1>1. ASSUME NEW s \in SUBSET S
      PROVE  Total(f, s) = IF s = {} THEN 0 ELSE f[Taken(s)] + g[s \ {Taken(s)}]
  <2>1. CASE s = {} BY <2>1, TotalOfNone
  <2>2. CASE s # {}
    <3>1. Taken(s) \in s
      BY <2>2 DEF Taken
    <3>2. IsFiniteSet(s) /\ \A x \in s : f[x] \in Nat
      BY FS_Subset
    <3>3. Total(f, s) = f[Taken(s)] + Total(f, s \ {Taken(s)})
      BY <3>1, <3>2, TotalSplits
    <3>4. g[s \ {Taken(s)}] = Total(f, s \ {Taken(s)}) OBVIOUS
    <3> QED BY <2>2, <3>3, <3>4
  <2> QED BY <2>1, <2>2
<1>2. g = [s \in SUBSET S |-> IF s = {} THEN 0 ELSE f[Taken(s)] + g[s \ {Taken(s)}]]
  BY <1>1
<1> QED BY <1>2 DEF Adds

LEMMA SumIsTotal ==
  ASSUME NEW S, IsFiniteSet(S), NEW f, DOMAIN f = S, \A x \in S : f[x] \in Nat
  PROVE  Sum(f) = Total(f, S)
<1> DEFINE g == CHOOSE g : Adds(f, S, g)
<1>1. Sum(f) = (CHOOSE iter : iter = [s \in SUBSET (DOMAIN f) |->
                  IF s = {} THEN 0
                  ELSE f[CHOOSE x \in s : TRUE] + iter[s \ {CHOOSE x \in s : TRUE}]])[DOMAIN f]
  BY DEF Sum, FoldFunction, FoldFunctionOnSet, MapThenFoldSet
<1>2. Sum(f) = g[S]
  BY <1>1 DEF Adds, Taken
<1>3. Adds(f, S, g)
  <2>1. Adds(f, S, [s \in SUBSET S |-> Total(f, s)])
    BY TotalAdds
  <2> QED BY <2>1
<1> HIDE DEF g
<1> QED BY <1>2, <1>3, AddsTotal

-----------------------------------------------------------------------------
(* Contexts: at every depth of with_current that no panic was caught at,    *)
(* what is kept there, or current at the innermost, is what was entered.    *)
Writer == Author \cup {Unknown}

ContextSet == [plugin : Writer, spans : Nat]

ScopeSet == [kept : ContextSet, entered : ContextSet]

Restores(first, now, stack, caught) ==
  \A depth \in 0 .. Len(stack) :
    depth \notin caught =>
      (IF depth = Len(stack) THEN now ELSE stack[depth + 1].kept)
        = (IF depth = 0 THEN first ELSE stack[depth].entered)

ContextsInv ==
  /\ context \in [Caller -> ContextSet]
  /\ outside \in [Caller -> ContextSet]
  /\ scopes \in [Caller -> Seq(ScopeSet)]
  /\ leaks = [t \in Caller |-> leaks[t]]
  /\ \A t \in Caller : Restores(outside[t], context[t], scopes[t], leaks[t])

LEMMA EnterRestores ==
  ASSUME NEW now \in ContextSet, NEW stack \in Seq(ScopeSet), NEW caught, NEW first,
         Restores(first, now, stack, caught), NEW entered \in ContextSet
  PROVE  LET longer == Append(stack, [kept |-> now, entered |-> entered])
         IN  longer \in Seq(ScopeSet) /\ Restores(first, entered, longer, caught)
<1> DEFINE scope == [kept |-> now, entered |-> entered]
           longer == Append(stack, scope)
<1>1. scope \in ScopeSet /\ scope.kept = now /\ scope.entered = entered
  BY DEF ScopeSet
<1> HIDE DEF scope
<1>2. /\ longer \in Seq(ScopeSet) /\ Len(longer) = Len(stack) + 1 /\ longer[Len(stack) + 1] = scope
      /\ Len(stack) \in Nat /\ \A i \in 1 .. Len(stack) : longer[i] = stack[i]
  BY <1>1
<1> HIDE DEF longer
<1>3. ASSUME NEW depth \in 0 .. Len(longer), depth \notin caught
      PROVE  (IF depth = Len(longer) THEN entered ELSE longer[depth + 1].kept)
               = (IF depth = 0 THEN first ELSE longer[depth].entered)
  <2>1. depth \in Nat /\ depth <= Len(stack) + 1
    BY <1>2
  <2>2. CASE depth = Len(stack) + 1 BY <1>1, <1>2, <2>2
  <2>3. CASE depth <= Len(stack)
    <3>1. (IF depth = Len(stack) THEN now ELSE stack[depth + 1].kept)
             = (IF depth = 0 THEN first ELSE stack[depth].entered)
      BY <1>2, <1>3, <2>1, <2>3 DEF Restores
    <3>2. depth # Len(longer) /\ longer[depth + 1].kept = (IF depth = Len(stack) THEN now ELSE stack[depth + 1].kept)
      BY <1>1, <1>2, <2>1, <2>3
    <3>3. depth # 0 => longer[depth] = stack[depth]
      BY <1>2, <2>1, <2>3
    <3> QED BY <3>1, <3>2, <3>3
  <2> QED BY <1>2, <2>1, <2>2, <2>3
<1>4. Restores(first, entered, longer, caught)
  BY <1>3 DEF Restores
<1> QED BY <1>2, <1>4 DEF longer, scope

LEMMA ShorterRestores ==
  ASSUME NEW now \in ContextSet, NEW stack \in Seq(ScopeSet), NEW caught, NEW first,
         Restores(first, now, stack, caught),
         NEW depth \in 0 .. Len(stack) - 1, NEW next, NEW left,
         next = stack[depth + 1].kept \/ depth \in left,
         \A d \in 0 .. depth : d \notin left => d \notin caught
  PROVE  SubSeq(stack, 1, depth) \in Seq(ScopeSet) /\ Restores(first, next, SubSeq(stack, 1, depth), left)
<1> DEFINE shorter == SubSeq(stack, 1, depth)
<1>0. Len(stack) \in Nat /\ depth \in Nat /\ depth <= Len(stack) - 1 OBVIOUS
<1>1. /\ shorter \in Seq(ScopeSet) /\ Len(shorter) = depth
      /\ \A i \in 1 .. depth : shorter[i] = stack[i]
  <2>1. 1 \in Int /\ depth \in Int /\ \A i \in 1 .. depth : stack[i] \in ScopeSet
    BY <1>0
  <2>2. /\ shorter \in Seq(ScopeSet)
        /\ Len(shorter) = IF 1 <= depth THEN depth - 1 + 1 ELSE 0
        /\ \A i \in 1 .. depth - 1 + 1 : shorter[i] = stack[1 + i - 1]
    BY <2>1, SubSeqProperties
  <2> HIDE DEF shorter
  <2>3. depth - 1 + 1 = depth /\ \A i \in 1 .. depth : 1 + i - 1 = i
    BY <1>0
  <2> QED BY <1>0, <2>2, <2>3
<1> HIDE DEF shorter
<1>2. ASSUME NEW d \in 0 .. Len(shorter), d \notin left
      PROVE  (IF d = Len(shorter) THEN next ELSE shorter[d + 1].kept)
               = (IF d = 0 THEN first ELSE shorter[d].entered)
  <2>1. d \in Nat /\ d <= depth /\ d \in 0 .. depth /\ d \in 0 .. Len(stack) /\ d # Len(stack)
    BY <1>0, <1>1
  <2>2. stack[d + 1].kept = (IF d = 0 THEN first ELSE stack[d].entered)
    BY <1>2, <2>1 DEF Restores
  <2>3. d # 0 => shorter[d] = stack[d]
    BY <1>0, <1>1, <2>1
  <2>4. CASE d = depth BY <1>1, <1>2, <2>2, <2>3, <2>4
  <2>5. CASE d < depth
    <3>1. shorter[d + 1] = stack[d + 1] /\ d # Len(shorter)
      BY <1>0, <1>1, <2>1, <2>5
    <3> QED BY <2>2, <2>3, <3>1
  <2> QED BY <1>0, <2>1, <2>4, <2>5
<1> QED BY <1>1, <1>2 DEF Restores, shorter

LEMMA ContextsStay ==
  ASSUME ContextsInv, UNCHANGED contextVars
  PROVE  ContextsInv'
BY DEF ContextsInv, contextVars

LEMMA ContextsInitInv ==
  ASSUME Init
  PROVE  ContextsInv
<1>1. NoContext \in ContextSet
  BY DEF NoContext, Context, ContextSet, Writer
<1>2. Restores(NoContext, NoContext, <<>>, {})
  BY DEF Restores
<1>3. /\ context = [t \in Caller |-> NoContext] /\ scopes = [t \in Caller |-> <<>>]
      /\ leaks = [t \in Caller |-> {}] /\ outside = [t \in Caller |-> NoContext]
  BY DEF Init, ObservabilityInit
<1> QED BY <1>1, <1>2, <1>3 DEF ContextsInv

LEMMA EnterKept ==
  ASSUME ContextsInv, NEW t \in Caller, NEW entered \in ContextSet, Enter(t, entered)
  PROVE  ContextsInv'
<1> DEFINE longer == Append(scopes[t], [kept |-> context[t], entered |-> entered])
<1>1. /\ context' = [context EXCEPT ![t] = entered] /\ scopes' = [scopes EXCEPT ![t] = longer]
      /\ UNCHANGED <<outside, leaks>>
  BY DEF Enter
<1>2. /\ context[t] \in ContextSet /\ scopes[t] \in Seq(ScopeSet)
      /\ Restores(outside[t], context[t], scopes[t], leaks[t])
  BY DEF ContextsInv
<1>3. longer \in Seq(ScopeSet) /\ Restores(outside[t], entered, longer, leaks[t])
  BY <1>2, EnterRestores
<1> HIDE DEF longer
<1> QED BY <1>1, <1>3 DEF ContextsInv

LEMMA EntersKept ==
  ASSUME ContextsInv, NEW t \in Caller, WithCurrent(t) \/ WithSpan(t)
  PROVE  ContextsInv'
<1>1. PICK entered : Enter(t, entered) /\ entered \in ContextSet
  <2>1. context[t].plugin \in Writer /\ context[t].spans + 1 \in Nat
    BY DEF ContextsInv, ContextSet
  <2>2. \A p \in Writer : \A n \in Nat : Context(p, n) \in ContextSet
    BY DEF Context, ContextSet
  <2>3. Author \subseteq Writer /\ Unknown \in Writer
    BY DEF Writer
  <2>4. NoContext \in ContextSet
    BY <2>2, <2>3 DEF NoContext
  <2>5. CASE WithCurrent(t) BY <2>2, <2>3, <2>4, <2>5 DEF WithCurrent
  <2>6. CASE WithSpan(t) BY <2>1, <2>2, <2>3, <2>6 DEF WithSpan
  <2> QED BY <2>5, <2>6
<1> QED BY <1>1, EnterKept

(* A set_current leaves the innermost with_current and enters it again.     *)
LEMMA SetCurrentKept ==
  ASSUME ContextsInv, NEW t \in Caller, SetCurrent(t)
  PROVE  ContextsInv'
<1> DEFINE n == Len(scopes[t])
           left == leaks[t] \ {n}
<1>1. /\ context[t] \in ContextSet /\ scopes[t] \in Seq(ScopeSet) /\ n \in Nat
      /\ Restores(outside[t], context[t], scopes[t], leaks[t])
  BY DEF ContextsInv
<1>2. PICK c \in {Context(p, 0) : p \in Author} \cup {NoContext} :
        /\ context' = [context EXCEPT ![t] = c]
        /\ IF scopes[t] = <<>>
             THEN outside' = [outside EXCEPT ![t] = c] /\ UNCHANGED scopes
             ELSE /\ scopes' = [scopes EXCEPT
                       ![t] = Append(Front(@), [kept |-> Last(@).kept, entered |-> c])]
                  /\ UNCHANGED outside
  BY DEF SetCurrent
<1>3. c \in ContextSet
  BY DEF NoContext, Context, ContextSet, Writer
<1>4. leaks' = [leaks EXCEPT ![t] = left]
  BY DEF SetCurrent
<1>5. CASE scopes[t] = <<>>
  <2>1. Restores(c, c, scopes[t], left)
    BY <1>5 DEF Restores
  <2> HIDE DEF left
  <2> QED BY <1>2, <1>3, <1>4, <1>5, <2>1 DEF ContextsInv
<1>6. CASE scopes[t] # <<>>
  <2>1. n - 1 \in 0 .. n - 1 /\ n - 1 + 1 = n /\ n \in DOMAIN scopes[t]
    BY <1>1, <1>6
  <2>2. PICK kept \in ContextSet : kept = scopes[t][n].kept
    <3>1. scopes[t][n] \in ScopeSet
      BY <1>1, <2>1
    <3> QED BY <3>1 DEF ScopeSet
  <2>3. PICK front : front = SubSeq(scopes[t], 1, n - 1) OBVIOUS
  <2>4. \A d \in 0 .. n - 1 : d \notin left => d \notin leaks[t]
    BY <1>1
  <2> HIDE DEF left
  <2>5. front \in Seq(ScopeSet) /\ Restores(outside[t], kept, front, left)
    BY <1>1, <2>1, <2>2, <2>3, <2>4, ShorterRestores
  <2> DEFINE longer == Append(front, [kept |-> kept, entered |-> c])
  <2>6. longer \in Seq(ScopeSet) /\ Restores(outside[t], c, longer, left)
    BY <1>3, <2>2, <2>5, EnterRestores
  <2>7. scopes' = [scopes EXCEPT ![t] = longer] /\ outside' = outside
    BY <1>2, <1>6, <2>2, <2>3 DEF Front, Last
  <2> HIDE DEF longer
  <2> QED BY <1>2, <1>3, <1>4, <2>6, <2>7 DEF ContextsInv
<1> QED BY <1>5, <1>6

LEMMA ContextStepKept ==
  ASSUME ContextsInv, NEW t \in Caller, ContextStep(t)
  PROVE  ContextsInv'
<1>1. /\ context[t] \in ContextSet /\ scopes[t] \in Seq(ScopeSet) /\ Len(scopes[t]) \in Nat
      /\ Restores(outside[t], context[t], scopes[t], leaks[t])
  BY DEF ContextsInv
<1>2. ASSUME NEW depth \in 0 .. Len(scopes[t]) - 1, NEW next \in ContextSet, NEW left,
             next = scopes[t][depth + 1].kept \/ depth \in left,
             \A d \in 0 .. depth : d \notin left => d \notin leaks[t],
             context' = [context EXCEPT ![t] = next],
             scopes' = [scopes EXCEPT ![t] = SubSeq(@, 1, depth)],
             leaks' = [leaks EXCEPT ![t] = left], outside' = outside
      PROVE  ContextsInv'
  <2>1. /\ SubSeq(scopes[t], 1, depth) \in Seq(ScopeSet)
        /\ Restores(outside[t], next, SubSeq(scopes[t], 1, depth), left)
    BY <1>1, <1>2, ShorterRestores
  <2> QED BY <1>2, <2>1 DEF ContextsInv
<1>3. CASE LeaveContext(t)
  <2> DEFINE depth == Len(scopes[t]) - 1
             left == leaks[t] \ {Len(scopes[t])}
  <2>1. scopes[t] # <<>>
    BY <1>3 DEF LeaveContext
  <2>2. depth \in 0 .. Len(scopes[t]) - 1 /\ depth + 1 = Len(scopes[t]) /\ Len(scopes[t]) \in DOMAIN scopes[t]
    BY <1>1, <2>1
  <2>3. scopes[t][Len(scopes[t])].kept \in ContextSet
    <3>1. scopes[t][Len(scopes[t])] \in ScopeSet
      BY <1>1, <2>2
    <3> QED BY <3>1 DEF ScopeSet
  <2>4. \A d \in 0 .. depth : d \notin left => d \notin leaks[t]
    BY <1>1
  <2>5. /\ context' = [context EXCEPT ![t] = scopes[t][Len(scopes[t])].kept]
        /\ scopes' = [scopes EXCEPT ![t] = SubSeq(@, 1, depth)]
        /\ leaks' = [leaks EXCEPT ![t] = left] /\ outside' = outside
    BY <1>3 DEF LeaveContext, Last, Front
  <2> HIDE DEF depth, left
  <2> QED BY <1>2, <2>2, <2>3, <2>4, <2>5
<1>4. CASE Panic(t)
  <2>1. PICK depth \in 0 .. Len(scopes[t]) - 1 :
          /\ scopes' = [scopes EXCEPT ![t] = SubSeq(@, 1, depth)]
          /\ leaks' = [leaks EXCEPT ![t] = (@ \cap 0 .. depth) \cup {depth}]
    BY <1>4 DEF Panic
  <2> DEFINE left == (leaks[t] \cap 0 .. depth) \cup {depth}
  <2>2. depth \in left /\ \A d \in 0 .. depth : d \notin left => d \notin leaks[t] OBVIOUS
  <2>3. leaks' = [leaks EXCEPT ![t] = left]
    BY <2>1
  <2>4. context' = [context EXCEPT ![t] = context[t]] /\ outside' = outside
    BY <1>4 DEF Panic, ContextsInv
  <2> HIDE DEF left
  <2> QED BY <1>1, <1>2, <2>1, <2>2, <2>3, <2>4
<1> QED BY <1>3, <1>4 DEF ContextStep

LEMMA ContextsRestoredFollows ==
  ASSUME ContextsInv
  PROVE  ContextsRestored
<1> SUFFICES ASSUME NEW t \in Caller, Len(scopes[t]) \notin leaks[t] PROVE context[t] = Entered(t)
  BY DEF ContextsRestored
<1>1. scopes[t] \in Seq(ScopeSet) /\ Restores(outside[t], context[t], scopes[t], leaks[t])
  BY DEF ContextsInv
<1>2. Len(scopes[t]) \in Nat /\ Len(scopes[t]) \in 0 .. Len(scopes[t]) /\ (scopes[t] = <<>> <=> Len(scopes[t]) = 0)
  BY <1>1
<1>3. context[t] = IF Len(scopes[t]) = 0 THEN outside[t] ELSE scopes[t][Len(scopes[t])].entered
  BY <1>1, <1>2 DEF Restores
<1> QED BY <1>2, <1>3 DEF Entered, Last

-----------------------------------------------------------------------------
(* Events: what waits in the buffer and what the flushes under way carry.   *)
LogPcs == {"buffer", "flush", "walking"}

MetricPcs == {"export_count", "export_gauge"}

Lengths == [p \in Writer |-> Len(buffer[p])]

Buffered == Total(Lengths, Writer)

Carried == [t \in Caller |-> InFlush(t)]

Flushing == Total(Carried, Caller)

LogCall(c) ==
  /\ c.pc = "buffer" => c.plugin \in Writer /\ c.level \in Level
  /\ c.pc = "flush" => c.events \in Seq(Level)
  /\ c.pc = "walking" => c.plugin \in Writer /\ c.found = buffer[c.plugin]

LogsInv ==
  /\ buffer \in [Writer -> Seq(Level)]
  /\ accepted \in Nat /\ written \in Nat /\ lost \in Nat
  /\ \A t \in Caller : LogCall(caller[t])
  /\ accepted = written + lost + Buffered + Flushing
  /\ \A p \in Writer : Len(buffer[p]) <= MaxBuffer

LEMMA TotalChanges ==
  ASSUME NEW S, IsFiniteSet(S), NEW f, NEW g, \A x \in S : f[x] \in Nat /\ g[x] \in Nat,
         NEW x \in S, \A y \in S : y # x => g[y] = f[y]
  PROVE  /\ Total(f, S) \in Nat /\ Total(g, S) \in Nat
         /\ Total(g, S) + f[x] = Total(f, S) + g[x]
<1>1. Total(f, S) = f[x] + Total(f, S \ {x}) /\ Total(g, S) = g[x] + Total(g, S \ {x})
  BY TotalSplits
<1>2. Total(f, S \ {x}) = Total(g, S \ {x})
  BY TotalAgrees
<1>3. Total(f, S \ {x}) \in Nat /\ Total(f, S) \in Nat /\ Total(g, S) \in Nat
  <2>1. IsFiniteSet(S \ {x})
    BY FS_Difference
  <2> QED BY <2>1, UnitsFinite
<1> QED BY <1>1, <1>2, <1>3

LEMMA WriterFinite == IsFiniteSet(Writer)
<1>1. IsFiniteSet({Unknown})
  BY FS_Singleton
<1> QED BY <1>1, AuthorsAreFinite, FS_Union DEF Writer

LEMMA InFlushTyped ==
  ASSUME \A t \in Caller : LogCall(caller[t])
  PROVE  \A t \in Caller : InFlush(t) \in Nat /\ Carried[t] = InFlush(t)
<1> SUFFICES ASSUME NEW t \in Caller PROVE InFlush(t) \in Nat
  BY DEF Carried
<1>1. caller[t].pc = "flush" => caller[t].events \in Seq(Level)
  BY DEF LogCall
<1> QED BY <1>1 DEF InFlush, At

LEMMA SumsTyped ==
  ASSUME LogsInv
  PROVE  /\ Buffered \in Nat /\ Flushing \in Nat
         /\ \A p \in Writer : Len(buffer[p]) \in Nat /\ Lengths[p] = Len(buffer[p])
<1>1. \A p \in Writer : Len(buffer[p]) \in Nat /\ Lengths[p] = Len(buffer[p])
  BY DEF LogsInv, Lengths
<1>2. Buffered \in Nat
  BY <1>1, WriterFinite, UnitsFinite DEF Buffered
<1>3. \A t \in Caller : Carried[t] \in Nat
  BY InFlushTyped DEF LogsInv
<1>4. Flushing \in Nat
  BY <1>3, CallersAssumption, UnitsFinite DEF Flushing
<1> QED BY <1>1, <1>2, <1>4

(* What a thread carries changes, and what a plugin has waiting. *)
LEMMA FlushingMoves ==
  ASSUME LogsInv, NEW t \in Caller, \A u \in Caller : u # t => caller'[u] = caller[u],
         InFlush(t)' \in Nat
  PROVE  Flushing' \in Nat /\ Flushing' + InFlush(t) = Flushing + InFlush(t)'
<1> DEFINE next == [u \in Caller |-> InFlush(u)']
<1>1. \A u \in Caller : Carried[u] \in Nat /\ Carried[u] = InFlush(u)
  BY InFlushTyped DEF LogsInv
<1>2. \A u \in Caller : u # t => next[u] = Carried[u]
  BY <1>1 DEF InFlush, At
<1>3. \A u \in Caller : next[u] \in Nat
  BY <1>1, <1>2
<1>4. Carried' = next /\ next[t] = InFlush(t)'
  BY DEF Carried
<1> HIDE DEF next
<1>5. /\ Total(Carried, Caller) \in Nat /\ Total(next, Caller) \in Nat
      /\ Total(next, Caller) + Carried[t] = Total(Carried, Caller) + next[t]
  BY <1>1, <1>2, <1>3, CallersAssumption, TotalChanges
<1>6. Flushing' = Total(next, Caller)
  BY <1>4 DEF Flushing, Total, Units
<1> QED BY <1>1, <1>4, <1>5, <1>6 DEF Flushing

LEMMA BufferedMoves ==
  ASSUME LogsInv, NEW p \in Writer, NEW events \in Seq(Level), buffer' = [buffer EXCEPT ![p] = events]
  PROVE  /\ buffer' \in [Writer -> Seq(Level)] /\ Buffered' \in Nat
         /\ Buffered' + Len(buffer[p]) = Buffered + Len(events)
<1>0. buffer' \in [Writer -> Seq(Level)] /\ buffer'[p] = events
      /\ \A q \in Writer : q # p => buffer'[q] = buffer[q]
  BY DEF LogsInv
<1> DEFINE next == [q \in Writer |-> Len(buffer'[q])]
<1>1. \A q \in Writer : Lengths[q] \in Nat /\ Lengths[q] = Len(buffer[q])
  BY SumsTyped
<1>2. \A q \in Writer : next[q] \in Nat /\ (q # p => next[q] = Lengths[q])
  BY <1>0, <1>1
<1>3. Lengths' = next /\ next[p] = Len(events)
  BY <1>0 DEF Lengths
<1> HIDE DEF next
<1>4. /\ Total(next, Writer) \in Nat
      /\ Total(next, Writer) + Lengths[p] = Total(Lengths, Writer) + next[p]
  BY <1>1, <1>2, WriterFinite, TotalChanges
<1>5. Buffered' = Total(next, Writer)
  BY <1>3 DEF Buffered, Total, Units, Writer
<1> QED BY <1>0, <1>1, <1>3, <1>4, <1>5 DEF Buffered

(* A change of the buffer waits for its shard, which the threads hold that  *)
(* walk through it.                                                         *)
LEMMA OthersWalk ==
  ASSUME LogsInv, NEW t \in Caller, \A u \in Caller : u # t => caller'[u] = caller[u],
         LogCall(caller[t])', \A p \in Writer : buffer'[p] = buffer[p] \/ ShardFree(p)
  PROVE  \A u \in Caller : LogCall(caller[u])'
<1> SUFFICES ASSUME NEW u \in Caller, u # t PROVE LogCall(caller[u])' OBVIOUS
<1>1. caller'[u] = caller[u] /\ LogCall(caller[u])
  BY DEF LogsInv
<1>2. ASSUME caller[u].pc = "walking"
      PROVE  caller[u].plugin \in Writer /\ caller[u].found = buffer'[caller[u].plugin]
  <2>1. PICK p \in Writer : p = caller[u].plugin /\ caller[u].found = buffer[p]
    BY <1>1, <1>2 DEF LogCall
  <2>2. ~ShardFree(p)
    BY <1>2, <2>1 DEF ShardFree, Walks, At
  <2> QED BY <2>1, <2>2
<1> QED BY <1>1, <1>2 DEF LogCall, Writer

EntriesKnown == entries \subseteq Writer

LEMMA LogsStay ==
  ASSUME LogsInv, UNCHANGED logVars,
         \A t \in Caller : \/ caller'[t] = caller[t]
                           \/ caller[t].pc \notin LogPcs /\ caller'[t].pc \notin LogPcs
  PROVE  LogsInv'
<1>1. UNCHANGED <<buffer, accepted, written, lost>>
  BY DEF logVars
<1>2. ASSUME NEW t \in Caller
      PROVE  LogCall(caller[t])' /\ InFlush(t)' = InFlush(t)
  <2>1. CASE caller'[t] = caller[t] BY <1>1, <2>1 DEF LogsInv, LogCall, InFlush, At, Writer
  <2>2. CASE caller[t].pc \notin LogPcs /\ caller'[t].pc \notin LogPcs
    BY <2>2 DEF LogCall, InFlush, At, LogPcs
  <2> QED BY <2>1, <2>2
<1>3. Carried' = Carried /\ Lengths' = Lengths
  BY <1>1, <1>2 DEF Carried, Lengths, Writer
<1>4. Buffered' = Buffered /\ Flushing' = Flushing
  BY <1>3 DEF Buffered, Flushing, Total, Units, Writer
<1> QED BY <1>1, <1>2, <1>4 DEF LogsInv, Writer

LEMMA LogsInitInv ==
  ASSUME Init
  PROVE  LogsInv
<1>1. /\ buffer = [p \in Writer |-> <<>>] /\ accepted = 0 /\ written = 0 /\ lost = 0
      /\ \A t \in Caller : caller[t].pc = "idle"
  BY DEF Init, ObservabilityInit, CallsInit, Idle, Writer
<1>2. \A t \in Caller : LogCall(caller[t]) /\ InFlush(t) = 0
  BY <1>1 DEF LogCall, InFlush, At
<1>3. Units(Lengths, Writer) = {} /\ Units(Carried, Caller) = {}
  <2>1. \A p \in Writer : Lengths[p] = 0
    BY <1>1 DEF Lengths
  <2>2. \A t \in Caller : Carried[t] = 0
    BY <1>2 DEF Carried
  <2>3. ASSUME NEW S, NEW f, \A x \in S : f[x] = 0
        PROVE  Units(f, S) = {}
    <3> SUFFICES ASSUME NEW p \in Units(f, S) PROVE FALSE OBVIOUS
    <3>1. p[1] \in S /\ p[2] \in Nat /\ 1 <= p[2] /\ p[2] <= f[p[1]]
      BY DEF Units
    <3> QED BY <2>3, <3>1
  <2> QED BY <2>1, <2>2, <2>3
<1>4. Buffered = 0 /\ Flushing = 0
  BY <1>3, FS_EmptySet DEF Buffered, Flushing, Total
<1>5. MaxBuffer \in Nat /\ \A p \in Writer : Len(buffer[p]) = 0
  BY <1>1, BufferHasSize
<1> QED BY <1>1, <1>2, <1>4, <1>5 DEF LogsInv

LEMMA LogKept ==
  ASSUME CallersKnown, ContextsInv, LogsInv, NEW t \in Caller, Log(t)
  PROVE  LogsInv'
<1>1. PICK level \in Level :
        IF MayLog(t, level)
          THEN CallAtOnce(t) /\ accepted' = accepted + 1 /\ written' = written + 1
          ELSE /\ Call(t, [pc |-> "buffer", plugin |-> context[t].plugin, level |-> level])
               /\ UNCHANGED <<accepted, written>>
  BY DEF Log
<1>2. UNCHANGED <<buffer, lost>> /\ caller[t].pc = "idle"
  BY DEF Log, CallAtOnce, Call, At
<1> DEFINE state == [pc |-> "buffer", plugin |-> context[t].plugin, level |-> level]
<1>3. /\ \A u \in Caller : u # t => caller'[u] = caller[u]
      /\ \/ caller'[t] = Idle /\ accepted' = accepted + 1 /\ written' = written + 1
         \/ caller'[t] = state /\ UNCHANGED <<accepted, written>>
  <2>1. CASE MayLog(t, level) BY <1>1, <2>1, ReturnFacts
  <2>2. CASE ~MayLog(t, level)
    <3>1. "pc" \in DOMAIN state /\ Call(t, state)
      BY <1>1, <2>2
    <3> HIDE DEF state
    <3>2. caller'[t] = state /\ \A u \in Caller : u # t => caller'[u] = caller[u]
      BY <3>1, GotoFacts DEF Call
    <3> QED BY <1>1, <2>2, <3>2
  <2> QED BY <2>1, <2>2
<1>4. context[t].plugin \in Writer
  BY DEF ContextsInv, ContextSet
<1>5. LogCall(caller[t])' /\ InFlush(t)' = 0 /\ InFlush(t) = 0
  BY <1>2, <1>3, <1>4 DEF LogCall, InFlush, At, Idle
<1>6. \A u \in Caller : LogCall(caller[u])'
  BY <1>2, <1>3, <1>5, OthersWalk
<1>7. Flushing' \in Nat /\ Flushing' = Flushing /\ Buffered' = Buffered /\ Buffered \in Nat
  <2>1. Flushing' \in Nat /\ Flushing' + InFlush(t) = Flushing + InFlush(t)'
    BY <1>3, <1>5, FlushingMoves
  <2>2. Buffered' = Buffered
    BY <1>2 DEF Buffered, Lengths, Total, Units, Writer
  <2> QED BY <1>5, <2>1, <2>2, SumsTyped
<1>8. accepted' = written' + lost' + Buffered' + Flushing' /\ accepted' \in Nat /\ written' \in Nat
  <2>1. /\ accepted = written + lost + Buffered + Flushing
        /\ accepted \in Nat /\ written \in Nat /\ lost \in Nat /\ Flushing \in Nat
    BY SumsTyped DEF LogsInv
  <2> QED BY <1>2, <1>3, <1>7, <2>1
<1> QED BY <1>2, <1>6, <1>8 DEF LogsInv, Writer

LEMMA BufferKept ==
  ASSUME CallersKnown, LogsInv, NEW t \in Caller, Buffer(t)
  PROVE  LogsInv'
<1>1. PICK p \in Writer : p = caller[t].plugin
  BY DEF Buffer, At, LogsInv, LogCall
<1>2. PICK level \in Level : level = caller[t].level
  BY DEF Buffer, At, LogsInv, LogCall
<1>3. /\ caller'[t] = Idle /\ \A u \in Caller : u # t => caller'[u] = caller[u]
      /\ caller[t].pc = "buffer" /\ ShardFree(p) /\ UNCHANGED <<written, lost>>
  BY <1>1, ReturnFacts DEF Buffer, At
<1>4. LogCall(caller[t])' /\ InFlush(t)' = 0 /\ InFlush(t) = 0
  BY <1>3 DEF LogCall, InFlush, At, Idle
<1>5. Flushing' \in Nat /\ Flushing' = Flushing
  <2>1. Flushing' \in Nat /\ Flushing' + InFlush(t) = Flushing + InFlush(t)'
    BY <1>3, <1>4, FlushingMoves
  <2> QED BY <1>4, <2>1, SumsTyped
<1>6. /\ accepted = written + lost + Buffered + Flushing
      /\ accepted \in Nat /\ written \in Nat /\ lost \in Nat /\ Flushing \in Nat /\ Buffered \in Nat
      /\ buffer \in [Writer -> Seq(Level)] /\ MaxBuffer \in Nat
      /\ \A q \in Writer : Len(buffer[q]) <= MaxBuffer
  BY SumsTyped, BufferHasSize DEF LogsInv
<1>7. CASE Len(buffer[p]) < MaxBuffer
  <2>1. buffer' = [buffer EXCEPT ![p] = Append(buffer[p], level)] /\ accepted' = accepted + 1
    BY <1>1, <1>2, <1>7 DEF Buffer
  <2>2. /\ Append(buffer[p], level) \in Seq(Level) /\ Len(buffer[p]) \in Nat
        /\ Len(Append(buffer[p], level)) = Len(buffer[p]) + 1
    BY <1>6
  <2>3. /\ buffer' \in [Writer -> Seq(Level)] /\ Buffered' \in Nat
        /\ Buffered' + Len(buffer[p]) = Buffered + Len(Append(buffer[p], level))
    BY <2>1, <2>2, BufferedMoves
  <2>4. Buffered' = Buffered + 1
    BY <1>6, <2>2, <2>3
  <2>5. accepted' = written' + lost' + Buffered' + Flushing' /\ accepted' \in Nat
    BY <1>3, <1>5, <1>6, <2>1, <2>4
  <2>6. /\ \A q \in Writer : buffer'[q] = buffer[q] \/ ShardFree(q)
        /\ \A q \in Writer : q # p => buffer'[q] = buffer[q]
        /\ buffer'[p] = Append(buffer[p], level)
    BY <1>3, <1>6, <2>1
  <2>7. \A u \in Caller : LogCall(caller[u])'
    BY <1>3, <1>4, <2>6, OthersWalk
  <2>8. \A q \in Writer : Len(buffer'[q]) <= MaxBuffer
    BY <1>6, <1>7, <2>2, <2>6
  <2> QED BY <1>3, <1>6, <2>3, <2>5, <2>7, <2>8 DEF LogsInv, Writer
<1>8. CASE ~(Len(buffer[p]) < MaxBuffer)
  <2>1. UNCHANGED <<buffer, accepted>>
    BY <1>1, <1>8 DEF Buffer
  <2>2. Buffered' = Buffered
    BY <2>1 DEF Buffered, Lengths, Total, Units, Writer
  <2>3. \A u \in Caller : LogCall(caller[u])'
    BY <1>3, <1>4, <2>1, OthersWalk
  <2> QED BY <1>3, <1>5, <1>6, <2>1, <2>2, <2>3 DEF LogsInv, Writer
<1> QED BY <1>7, <1>8

LEMMA FlushPluginKept ==
  ASSUME CallersKnown, EntriesKnown, LogsInv, NEW t \in Caller, FlushPlugin(t)
  PROVE  LogsInv'
<1>1. PICK p \in Writer :
        /\ ShardFree(p) /\ Call(t, [pc |-> "flush", events |-> buffer[p]])
        /\ buffer' = [buffer EXCEPT ![p] = <<>>]
  BY DEF FlushPlugin, EntriesKnown
<1>2. /\ accepted = written + lost + Buffered + Flushing
      /\ accepted \in Nat /\ written \in Nat /\ lost \in Nat /\ Flushing \in Nat /\ Buffered \in Nat
      /\ buffer \in [Writer -> Seq(Level)] /\ MaxBuffer \in Nat
      /\ \A q \in Writer : Len(buffer[q]) <= MaxBuffer
  BY SumsTyped, BufferHasSize DEF LogsInv
<1>3. UNCHANGED <<accepted, written, lost>> /\ buffer[p] \in Seq(Level) /\ Len(buffer[p]) \in Nat
  BY <1>2 DEF FlushPlugin
<1> DEFINE state == [pc |-> "flush", events |-> buffer[p]]
<1>4. /\ caller'[t] = state /\ caller[t].pc = "idle" /\ \A u \in Caller : u # t => caller'[u] = caller[u]
  <2>1. "pc" \in DOMAIN state /\ Call(t, state)
    BY <1>1
  <2> HIDE DEF state
  <2> QED BY <2>1, GotoFacts DEF Call, At
<1>5. LogCall(caller[t])' /\ InFlush(t)' = Len(buffer[p]) /\ InFlush(t) = 0
  BY <1>3, <1>4 DEF LogCall, InFlush, At
<1>6. Flushing' \in Nat /\ Flushing' = Flushing + Len(buffer[p])
  <2>1. Flushing' \in Nat /\ Flushing' + InFlush(t) = Flushing + InFlush(t)'
    BY <1>3, <1>4, <1>5, FlushingMoves
  <2> QED BY <1>2, <1>3, <1>5, <2>1
<1>7. buffer' \in [Writer -> Seq(Level)] /\ Buffered' \in Nat /\ Buffered' + Len(buffer[p]) = Buffered
  <2>1. <<>> \in Seq(Level) /\ Len(<<>>) = 0 OBVIOUS
  <2>2. /\ buffer' \in [Writer -> Seq(Level)] /\ Buffered' \in Nat
        /\ Buffered' + Len(buffer[p]) = Buffered + Len(<<>>)
    BY <1>1, <2>1, BufferedMoves
  <2> QED BY <1>2, <2>1, <2>2
<1>8. accepted' = written' + lost' + Buffered' + Flushing'
  <2>1. /\ Buffered' \in Nat /\ Flushing' \in Nat /\ Buffered' + Len(buffer[p]) = Buffered
        /\ Flushing' = Flushing + Len(buffer[p])
    BY <1>6, <1>7
  <2>2. written + lost + Buffered + Flushing = written + lost + Buffered' + Flushing'
    <3>1. PICK a \in Nat, b \in Nat, c \in Nat, d \in Nat, n \in Nat, z \in Nat, k \in Nat :
            /\ a = written /\ b = lost /\ c = Buffered /\ d = Flushing /\ n = Len(buffer[p])
            /\ z = Buffered' /\ k = Flushing'
      BY <1>2, <1>3, <2>1
    <3>2. z + n = c /\ k = d + n
      BY <2>1, <3>1
    <3>3. a + b + c + d = a + b + z + k
      BY <3>2
    <3> QED BY <3>1, <3>3
  <2>3. accepted' = accepted /\ written' = written /\ lost' = lost
    BY <1>3
  <2> QED BY <1>2, <2>2, <2>3
<1>9. /\ \A q \in Writer : buffer'[q] = buffer[q] \/ ShardFree(q)
      /\ \A q \in Writer : buffer'[q] = buffer[q] \/ buffer'[q] = <<>>
  BY <1>1, <1>2
<1>10. \A u \in Caller : LogCall(caller[u])'
  BY <1>4, <1>5, <1>9, OthersWalk
<1>11. \A q \in Writer : Len(buffer'[q]) <= MaxBuffer
  BY <1>2, <1>9
<1> QED BY <1>2, <1>3, <1>7, <1>8, <1>10, <1>11 DEF LogsInv, Writer

LEMMA FlushNextKept ==
  ASSUME CallersKnown, LogsInv, NEW t \in Caller, FlushNext(t)
  PROVE  LogsInv'
<1>1. caller[t].pc = "flush" /\ UNCHANGED <<buffer, accepted>>
  BY DEF FlushNext, At
<1>2. PICK events \in Seq(Level) : events = caller[t].events
  BY <1>1 DEF LogsInv, LogCall
<1>3. /\ accepted = written + lost + Buffered + Flushing
      /\ accepted \in Nat /\ written \in Nat /\ lost \in Nat /\ Flushing \in Nat /\ Buffered \in Nat
      /\ Len(events) \in Nat /\ InFlush(t) = Len(events)
  BY <1>1, <1>2, SumsTyped DEF LogsInv, InFlush, At
<1>4. Buffered' = Buffered
  BY <1>1 DEF Buffered, Lengths, Total, Units, Writer
<1>5. /\ \A u \in Caller : u # t => caller'[u] = caller[u]
      /\ LogCall(caller[t])' /\ InFlush(t)' \in Nat
      /\ written' \in Nat /\ lost' \in Nat
      /\ written' + lost' + InFlush(t)' = written + lost + Len(events)
  <2>1. CASE events = <<>>
    <3>1. Return(t) /\ UNCHANGED <<written, lost>>
      BY <1>2, <2>1 DEF FlushNext
    <3>2. caller'[t] = Idle /\ \A u \in Caller : u # t => caller'[u] = caller[u]
      BY <3>1, ReturnFacts
    <3> QED BY <1>3, <2>1, <3>1, <3>2 DEF LogCall, InFlush, At, Idle
  <2>2. CASE events # <<>> /\ MayLog(t, Head(events))
    <3> DEFINE state == [pc |-> "flush", events |-> Tail(events)]
    <3>1. Goto(t, state) /\ written' = written + 1 /\ UNCHANGED lost /\ "pc" \in DOMAIN state
      BY <1>2, <2>2 DEF FlushNext
    <3>2. state.pc = "flush" /\ state.events = Tail(events) OBVIOUS
    <3> HIDE DEF state
    <3>3. caller'[t] = state /\ \A u \in Caller : u # t => caller'[u] = caller[u]
      BY <3>1, GotoFacts DEF Goto
    <3>4. Tail(events) \in Seq(Level) /\ Len(Tail(events)) = Len(events) - 1 /\ Len(Tail(events)) \in Nat
      BY <2>2
    <3>5. LogCall(caller[t])' /\ InFlush(t)' = Len(Tail(events))
      BY <3>2, <3>3, <3>4 DEF LogCall, InFlush, At
    <3> QED BY <1>3, <3>1, <3>3, <3>4, <3>5
  <2>3. CASE events # <<>> /\ ~MayLog(t, Head(events))
    <3>1. Return(t) /\ lost' = lost + Len(events) /\ UNCHANGED written
      BY <1>2, <2>3 DEF FlushNext
    <3>2. caller'[t] = Idle /\ \A u \in Caller : u # t => caller'[u] = caller[u]
      BY <3>1, ReturnFacts
    <3>3. LogCall(caller[t])' /\ InFlush(t)' = 0
      BY <3>2 DEF LogCall, InFlush, At, Idle
    <3> QED BY <1>3, <3>1, <3>2, <3>3
  <2> QED BY <2>1, <2>2, <2>3
<1>6. Flushing' \in Nat /\ Flushing' + Len(events) = Flushing + InFlush(t)'
  BY <1>3, <1>5, FlushingMoves
<1>7. accepted' = written' + lost' + Buffered' + Flushing'
  <2>1. written + lost + Buffered + Flushing = written' + lost' + Buffered + Flushing'
    <3>1. PICK a \in Nat, b \in Nat, c \in Nat, d \in Nat, n \in Nat, x \in Nat, y \in Nat, z \in Nat, k \in Nat :
            /\ a = written /\ b = lost /\ c = Buffered /\ d = Flushing /\ n = Len(events)
            /\ x = written' /\ y = lost' /\ z = InFlush(t)' /\ k = Flushing'
      BY <1>3, <1>5, <1>6
    <3>2. x + y + z = a + b + n /\ k + n = d + z
      BY <1>5, <1>6, <3>1
    <3>3. a + b + c + d = x + y + c + k
      BY <3>2
    <3> QED BY <3>1, <3>3
  <2> QED BY <1>1, <1>3, <1>4, <2>1
<1>8. \A u \in Caller : LogCall(caller[u])'
  BY <1>1, <1>5, OthersWalk
<1> QED BY <1>1, <1>5, <1>7, <1>8 DEF LogsInv, Writer

LEMMA FlushAllKept ==
  ASSUME CallersKnown, EntriesKnown, LogsInv, NEW t \in Caller, FlushAll(t)
  PROVE  LogsInv'
<1>1. UNCHANGED <<buffer, accepted, written, lost>>
  BY DEF FlushAll, logVars
<1>2. /\ \A u \in Caller : u # t => caller'[u] = caller[u]
      /\ LogCall(caller[t])' /\ InFlush(t)' = 0 /\ InFlush(t) = 0
  <2>1. CASE CallAtOnce(t)
    <3>1. caller[t].pc = "idle" /\ caller'[t] = Idle /\ \A u \in Caller : u # t => caller'[u] = caller[u]
      BY <2>1, ReturnFacts DEF CallAtOnce, Call, At
    <3> QED BY <3>1 DEF LogCall, InFlush, At, Idle
  <2>2. CASE ~CallAtOnce(t)
    <3>1. PICK p \in Writer : Call(t, [pc |-> "walking", plugin |-> p, found |-> buffer[p]])
      BY <2>2 DEF FlushAll, EntriesKnown
    <3> DEFINE state == [pc |-> "walking", plugin |-> p, found |-> buffer[p]]
    <3>2. /\ "pc" \in DOMAIN state /\ Call(t, state)
          /\ state.pc = "walking" /\ state.plugin = p /\ state.found = buffer[p]
      BY <3>1
    <3> HIDE DEF state
    <3>3. caller[t].pc = "idle" /\ caller'[t] = state /\ \A u \in Caller : u # t => caller'[u] = caller[u]
      BY <3>2, GotoFacts DEF Call, At
    <3> QED BY <1>1, <3>2, <3>3 DEF LogCall, InFlush, At, Writer
  <2> QED BY <2>1, <2>2
<1>3. Flushing' = Flushing /\ Buffered' = Buffered
  <2>1. Flushing' \in Nat /\ Flushing' + InFlush(t) = Flushing + InFlush(t)'
    BY <1>2, FlushingMoves
  <2>2. Buffered' = Buffered
    BY <1>1 DEF Buffered, Lengths, Total, Units, Writer
  <2> QED BY <1>2, <2>1, <2>2, SumsTyped
<1>4. \A u \in Caller : LogCall(caller[u])'
  BY <1>1, <1>2, OthersWalk
<1> QED BY <1>1, <1>3, <1>4 DEF LogsInv, Writer

LEMMA EventsAccountedFollows ==
  ASSUME LogsInv
  PROVE  EventsAccounted
<1>1. DOMAIN buffer = Writer
  BY DEF LogsInv
<1>2. Sum([p \in DOMAIN buffer |-> Len(buffer[p])]) = Buffered
  <2>1. \A p \in Writer : Lengths[p] \in Nat
    BY SumsTyped
  <2>2. DOMAIN Lengths = Writer /\ Lengths = [p \in DOMAIN buffer |-> Len(buffer[p])]
    BY <1>1 DEF Lengths
  <2> QED BY <2>1, <2>2, WriterFinite, SumIsTotal DEF Buffered
<1>3. Sum([t \in Caller |-> InFlush(t)]) = Flushing
  <2>1. \A t \in Caller : Carried[t] \in Nat
    BY InFlushTyped DEF LogsInv
  <2>2. DOMAIN Carried = Caller /\ Carried = [t \in Caller |-> InFlush(t)]
    BY DEF Carried
  <2> QED BY <2>1, <2>2, CallersAssumption, SumIsTotal DEF Flushing
<1>4. \A t \in Caller : At(t, "walking") => buffer[caller[t].plugin] = caller[t].found
  BY DEF LogsInv, LogCall, At
<1> QED BY <1>1, <1>2, <1>3, <1>4 DEF EventsAccounted, LogsInv

-----------------------------------------------------------------------------
(* Metrics: the counters add up to what is exported and about to be, and a  *)
(* thread that is about to export a gauge brings its value, unless another  *)
(* sets it as well.                                                         *)
Kind == {"counter", "gauge"}

Metric == [kind : Kind, value : Nat]

Readings == [h \in DOMAIN metrics |-> metrics[h].value]

CounterTotal == Total(Readings, Handles("counter"))

GaugeCall(t) ==
  caller[t].pc = "export_gauge" =>
    LET h == caller[t].handle
    IN  /\ h \in Handles("gauge") /\ caller[t].value \in Nat
        /\ h \notin exporter.raced => /\ caller[t].value = metrics[h].value
                                      /\ \A u \in Setting(h) : u = t

LastExport ==
  LET h == exporter.last
  IN  h # 0 /\ Setting(h) = {} /\ h \notin exporter.raced => exported["gauge"] = metrics[h].value

MetricsInv ==
  /\ metrics \in Seq(Metric)
  /\ exported \in [Kind -> Nat]
  /\ exporter = [last |-> exporter.last, raced |-> exporter.raced]
  /\ exporter.last \in {0} \cup Handles("gauge")
  /\ CounterTotal = exported["counter"] + Holding({"export_count"})
  /\ \A t \in Caller : GaugeCall(t)
  /\ LastExport

LEMMA HandlesTyped ==
  ASSUME metrics \in Seq(Metric)
  PROVE  /\ \A kind : Handles(kind) \subseteq DOMAIN metrics /\ IsFiniteSet(Handles(kind))
         /\ \A h \in DOMAIN metrics : Readings[h] = metrics[h].value /\ metrics[h].value \in Nat
                                      /\ metrics[h].kind \in Kind /\ h \in Nat \ {0}
         /\ Handles("counter") \cap Handles("gauge") = {}
<1>1. DOMAIN metrics = 1 .. Len(metrics) /\ Len(metrics) \in Int /\ 1 \in Int OBVIOUS
<1>2. IsFiniteSet(DOMAIN metrics)
  BY <1>1, FS_Interval
<1>3. \A kind : Handles(kind) \subseteq DOMAIN metrics
  BY DEF Handles
<1>4. \A kind : IsFiniteSet(Handles(kind))
  BY <1>2, <1>3, FS_Subset
<1>5. ASSUME NEW h \in DOMAIN metrics
      PROVE  Readings[h] = metrics[h].value /\ metrics[h].value \in Nat /\ metrics[h].kind \in Kind /\ h \in Nat \ {0}
  <2>1. metrics[h] \in Metric /\ h \in Nat \ {0}
    BY <1>1
  <2> QED BY <2>1 DEF Readings, Metric
<1>6. Handles("counter") \cap Handles("gauge") = {}
  BY DEF Handles
<1> QED BY <1>3, <1>4, <1>5, <1>6

LEMMA CounterTotalTyped ==
  ASSUME metrics \in Seq(Metric)
  PROVE  CounterTotal \in Nat
BY HandlesTyped, UnitsFinite DEF CounterTotal

(* One value changes. *)
LEMMA ValueChanges ==
  ASSUME metrics \in Seq(Metric), NEW h \in DOMAIN metrics, NEW value \in Nat,
         metrics' = [metrics EXCEPT ![h].value = value]
  PROVE  /\ metrics' \in Seq(Metric) /\ DOMAIN metrics' = DOMAIN metrics
         /\ metrics'[h].value = value
         /\ \A g \in DOMAIN metrics : g # h => metrics'[g] = metrics[g]
         /\ \A kind : Handles(kind)' = Handles(kind)
         /\ h \notin Handles("counter") => CounterTotal' = CounterTotal
         /\ h \in Handles("counter") =>
              CounterTotal' \in Nat /\ CounterTotal' + metrics[h].value = CounterTotal + value
<1> DEFINE entry == [metrics[h] EXCEPT !.value = value]
<1>1. metrics[h] \in Metric /\ metrics' = [metrics EXCEPT ![h] = entry] OBVIOUS
<1>2. entry \in Metric /\ entry.kind = metrics[h].kind /\ entry.value = value
  BY <1>1 DEF Metric
<1> HIDE DEF entry
<1>3. /\ metrics' \in Seq(Metric) /\ DOMAIN metrics' = DOMAIN metrics /\ metrics'[h] = entry
      /\ \A g \in DOMAIN metrics : g # h => metrics'[g] = metrics[g]
  BY <1>1, <1>2
<1>4. \A g \in DOMAIN metrics : metrics'[g].kind = metrics[g].kind
  BY <1>2, <1>3
<1>5. \A kind : Handles(kind)' = Handles(kind)
  BY <1>3, <1>4 DEF Handles
<1> DEFINE next == [g \in DOMAIN metrics |-> metrics'[g].value]
           S == Handles("counter")
<1>6. Readings' = next
  BY <1>3 DEF Readings
<1>7. /\ IsFiniteSet(S) /\ S \subseteq DOMAIN metrics
      /\ \A g \in S : Readings[g] \in Nat /\ next[g] \in Nat /\ (g # h => next[g] = Readings[g])
      /\ Readings[h] = metrics[h].value /\ next[h] = value
  <2>1. \A g \in DOMAIN metrics : next[g] = metrics'[g].value OBVIOUS
  <2>2. \A g \in DOMAIN metrics : Readings[g] = metrics[g].value /\ metrics[g].value \in Nat
    BY HandlesTyped
  <2> HIDE DEF next
  <2> QED BY <1>2, <1>3, <2>1, <2>2, HandlesTyped
<1>8. CounterTotal' = Total(next, S)
  BY <1>5, <1>6 DEF CounterTotal, Total, Units
<1> HIDE DEF next, S
<1>9. ASSUME h \notin S PROVE CounterTotal' = CounterTotal
  <2>1. Total(next, S) = Total(Readings, S)
    BY <1>7, <1>9, TotalAgrees
  <2> QED BY <1>8, <2>1 DEF CounterTotal, S
<1>10. ASSUME h \in S
       PROVE  CounterTotal' \in Nat /\ CounterTotal' + metrics[h].value = CounterTotal + value
  <2>1. /\ Total(next, S) \in Nat
        /\ Total(next, S) + Readings[h] = Total(Readings, S) + next[h]
    BY <1>7, <1>10, TotalChanges
  <2> QED BY <1>7, <1>8, <2>1 DEF CounterTotal, S
<1> QED BY <1>2, <1>3, <1>5, <1>9, <1>10 DEF S

(* A metric is added. *)
LEMMA MetricAdded ==
  ASSUME metrics \in Seq(Metric), NEW kind \in Kind, metrics' = Append(metrics, [kind |-> kind, value |-> 0])
  PROVE  /\ metrics' \in Seq(Metric) /\ CounterTotal' = CounterTotal
         /\ \A h \in DOMAIN metrics : h \in DOMAIN metrics' /\ metrics'[h] = metrics[h]
         /\ Handles("gauge") \subseteq Handles("gauge")'
<1> DEFINE entry == [kind |-> kind, value |-> 0]
           last == Len(metrics) + 1
<1>1. entry \in Metric /\ entry.kind = kind /\ entry.value = 0
  BY DEF Metric
<1> HIDE DEF entry
<1>2. /\ metrics' \in Seq(Metric) /\ DOMAIN metrics' = DOMAIN metrics \cup {last}
      /\ metrics'[last] = entry /\ last \notin DOMAIN metrics
      /\ \A h \in DOMAIN metrics : metrics'[h] = metrics[h]
  <2>1. metrics' = Append(metrics, entry)
    BY DEF entry
  <2>2. Len(metrics) \in Nat /\ DOMAIN metrics = 1 .. Len(metrics) OBVIOUS
  <2>3. /\ metrics' \in Seq(Metric) /\ Len(metrics') = Len(metrics) + 1 /\ metrics'[Len(metrics) + 1] = entry
        /\ \A h \in 1 .. Len(metrics) : metrics'[h] = metrics[h]
    BY <1>1, <2>1
  <2>4. DOMAIN metrics' = 1 .. Len(metrics) + 1
    BY <2>3
  <2> QED BY <2>2, <2>3, <2>4
<1> HIDE DEF last
<1>3. /\ Handles("gauge") \subseteq Handles("gauge")'
      /\ Handles("counter")' = Handles("counter") \/ Handles("counter")' = Handles("counter") \cup {last}
      /\ last \notin Handles("counter")
  BY <1>1, <1>2 DEF Handles
<1> DEFINE S == Handles("counter")
           T == Handles("counter") \cup {last}
           next == [h \in DOMAIN metrics \cup {last} |-> metrics'[h].value]
<1>4. Readings' = next
  BY <1>2 DEF Readings
<1>5. /\ IsFiniteSet(S) /\ S \subseteq DOMAIN metrics /\ last \notin S
      /\ \A h \in S : next[h] = Readings[h] /\ next[h] \in Nat
      /\ next[last] = 0
  <2>1. \A h \in DOMAIN metrics \cup {last} : next[h] = metrics'[h].value OBVIOUS
  <2> HIDE DEF next
  <2> QED BY <1>1, <1>2, <1>3, <2>1, HandlesTyped
<1>6. Total(next, S) = CounterTotal
  <2> HIDE DEF next
  <2> QED BY <1>5, TotalAgrees DEF CounterTotal
<1>7. Total(next, T) = Total(next, S)
  <2>1. IsFiniteSet(T) /\ T \ {last} = S /\ last \in T /\ \A h \in T : next[h] \in Nat
    <3>1. IsFiniteSet({last}) /\ IsFiniteSet(S)
      BY <1>5, FS_Singleton
    <3>2. IsFiniteSet(T)
      BY <3>1, FS_Union
    <3> HIDE DEF next
    <3> QED BY <1>5, <3>2
  <2> HIDE DEF next, T, S
  <2>2. Total(next, T) = next[last] + Total(next, T \ {last})
    BY <2>1, TotalSplits
  <2>3. Total(next, S) \in Nat
    BY <1>5, UnitsFinite
  <2>4. next[last] = 0 /\ T \ {last} = S
    BY <1>5, <2>1
  <2>5. Total(next, T) = 0 + Total(next, S)
    BY <2>2, <2>4
  <2> QED BY <2>3, <2>5
<1>8. CounterTotal' = CounterTotal
  <2>1. CounterTotal' = Total(next, S) \/ CounterTotal' = Total(next, T)
    BY <1>3, <1>4 DEF CounterTotal, Total, Units
  <2> QED BY <1>6, <1>7, <2>1
<1> QED BY <1>2, <1>3, <1>8

LEMMA MetricsStay ==
  ASSUME MetricsInv, UNCHANGED metricVars,
         \A t \in Caller : \/ caller'[t] = caller[t]
                           \/ caller[t].pc \notin MetricPcs /\ caller'[t].pc \notin MetricPcs
  PROVE  MetricsInv'
<1>1. UNCHANGED <<metrics, exported, exporter>>
  BY DEF metricVars
<1>2. \A kind : Handles(kind)' = Handles(kind)
  BY <1>1 DEF Handles
<1>3. CounterTotal' = CounterTotal
  BY <1>1, <1>2 DEF CounterTotal, Readings, Total, Units
<1>4. Holding({"export_count"})' = Holding({"export_count"})
  <2>1. {t \in Caller : caller'[t].pc \in {"export_count"}} = {t \in Caller : caller[t].pc \in {"export_count"}}
    BY DEF MetricPcs
  <2> QED BY <2>1 DEF Holding
<1>5. \A h : Setting(h)' = Setting(h)
  BY DEF Setting, At, MetricPcs
<1>6. ASSUME NEW t \in Caller PROVE GaugeCall(t)'
  <2>1. GaugeCall(t)
    BY DEF MetricsInv
  <2> QED BY <1>1, <1>2, <1>5, <2>1 DEF GaugeCall, MetricPcs
<1>7. LastExport'
  BY <1>1, <1>5 DEF MetricsInv, LastExport
<1> QED BY <1>1, <1>2, <1>3, <1>4, <1>6, <1>7 DEF MetricsInv

LEMMA MetricsInitInv ==
  ASSUME Init
  PROVE  MetricsInv
<1>1. /\ metrics = <<>> /\ exported = [kind \in Kind |-> 0] /\ exporter = [last |-> 0, raced |-> {}]
      /\ \A t \in Caller : caller[t].pc = "idle"
  BY DEF Init, ObservabilityInit, CallsInit, Idle, Kind
<1>2. metrics \in Seq(Metric) /\ Handles("counter") = {}
  BY <1>1 DEF Handles
<1>3. CounterTotal = 0
  BY <1>2, TotalOfNone DEF CounterTotal
<1>4. Holding({"export_count"}) = 0
  <2>1. {t \in Caller : caller[t].pc \in {"export_count"}} = {}
    BY <1>1
  <2> QED BY <2>1, FS_EmptySet DEF Holding
<1> QED BY <1>1, <1>2, <1>3, <1>4 DEF MetricsInv, GaugeCall, LastExport, Kind

LEMMA CreateMetricKept ==
  ASSUME CallersKnown, MetricsInv, NEW t \in Caller, CreateMetric(t)
  PROVE  MetricsInv'
<1>1. PICK kind \in Kind : metrics' = Append(metrics, [kind |-> kind, value |-> 0])
  BY DEF CreateMetric, MetricsInv
<1>2. /\ caller'[t] = Idle /\ caller[t].pc = "idle" /\ \A u \in Caller : u # t => caller'[u] = caller[u]
      /\ UNCHANGED <<exported, exporter>>
  BY ReturnFacts DEF CreateMetric, CallAtOnce, Call, At
<1>3. /\ metrics' \in Seq(Metric) /\ CounterTotal' = CounterTotal
      /\ \A h \in DOMAIN metrics : h \in DOMAIN metrics' /\ metrics'[h] = metrics[h]
      /\ Handles("gauge") \subseteq Handles("gauge")'
  BY <1>1, MetricAdded DEF MetricsInv
<1>4. Holding({"export_count"})' = Holding({"export_count"})
  <2>1. StepTo(t, "idle", "idle")
    BY <1>2 DEF StepTo, Idle
  <2> QED BY <2>1, StepCounts DEF In
<1>5. /\ \A h : Setting(h)' = Setting(h)
      /\ \A u \in Caller : caller[u].pc # "export_gauge" => caller'[u].pc # "export_gauge"
      /\ \A u \in Caller : caller[u].pc = "export_gauge" => caller'[u] = caller[u]
  BY <1>2 DEF Setting, At, Idle
<1>6. ASSUME NEW u \in Caller PROVE GaugeCall(u)'
  <2>1. GaugeCall(u) /\ Handles("gauge") \subseteq DOMAIN metrics
    BY DEF MetricsInv, Handles
  <2> QED BY <1>2, <1>3, <1>5, <2>1 DEF GaugeCall
<1>7. LastExport'
  <2>1. LastExport /\ exporter.last \in {0} \cup Handles("gauge") /\ Handles("gauge") \subseteq DOMAIN metrics
    BY DEF MetricsInv, Handles
  <2> QED BY <1>2, <1>3, <1>5, <2>1 DEF LastExport
<1> QED BY <1>2, <1>3, <1>4, <1>6, <1>7 DEF MetricsInv

LEMMA CountUpKept ==
  ASSUME CallersKnown, MetricsInv, NEW t \in Caller, CountUp(t)
  PROVE  MetricsInv'
<1>0. metrics \in Seq(Metric)
  BY DEF MetricsInv
<1>1. PICK h \in Handles("counter") :
        metrics' = [metrics EXCEPT ![h].value = @ + 1] /\ Call(t, [pc |-> "export_count"])
  BY DEF CountUp
<1>2. h \in DOMAIN metrics /\ h \notin Handles("gauge") /\ metrics[h].value \in Nat
  BY <1>0, <1>1, HandlesTyped
<1>3. metrics' = [metrics EXCEPT ![h].value = metrics[h].value + 1] /\ metrics[h].value + 1 \in Nat
  BY <1>1, <1>2
<1>4. /\ metrics' \in Seq(Metric)
      /\ \A g \in DOMAIN metrics : g # h => metrics'[g] = metrics[g]
      /\ \A kind : Handles(kind)' = Handles(kind)
      /\ CounterTotal' \in Nat /\ CounterTotal' + metrics[h].value = CounterTotal + (metrics[h].value + 1)
  BY <1>0, <1>1, <1>2, <1>3, ValueChanges
<1>5. /\ caller'[t] = [pc |-> "export_count"] /\ caller[t].pc = "idle"
      /\ \A u \in Caller : u # t => caller'[u] = caller[u]
      /\ UNCHANGED <<exported, exporter>>
  <2> DEFINE state == [pc |-> "export_count"]
  <2>1. "pc" \in DOMAIN state /\ Call(t, state)
    BY <1>1
  <2> HIDE DEF state
  <2>2. /\ caller'[t] = state /\ caller[t].pc = "idle"
        /\ \A u \in Caller : u # t => caller'[u] = caller[u]
    BY <2>1, GotoFacts DEF Call, At
  <2> QED BY <2>2 DEF CountUp, state
<1>6. Holding({"export_count"})' = Holding({"export_count"}) + 1
  <2>1. StepTo(t, "idle", "export_count")
    BY <1>5 DEF StepTo
  <2>2. In("export_count", {"export_count"}) = 1 /\ In("idle", {"export_count"}) = 0
    BY DEF In
  <2> QED BY <2>1, <2>2, StepCounts
<1>7. CounterTotal' = exported'["counter"] + Holding({"export_count"})'
  <2>1. CounterTotal \in Nat /\ CounterTotal' \in Nat
    BY <1>0, <1>4, CounterTotalTyped
  <2>2. CounterTotal' = CounterTotal + 1
    BY <1>2, <1>4, <2>1
  <2>3. /\ CounterTotal = exported["counter"] + Holding({"export_count"}) /\ exported["counter"] \in Nat
        /\ Holding({"export_count"}) \in Nat
    BY HoldingTyped DEF MetricsInv, Kind
  <2> QED BY <1>5, <1>6, <2>2, <2>3
<1>8. /\ \A g : Setting(g)' = Setting(g)
      /\ \A u \in Caller : caller[u].pc # "export_gauge" => caller'[u].pc # "export_gauge"
      /\ \A u \in Caller : caller[u].pc = "export_gauge" => caller'[u] = caller[u]
  BY <1>5 DEF Setting, At
<1>9. \A g \in Handles("gauge") : metrics'[g] = metrics[g]
  BY <1>2, <1>4 DEF Handles
<1>10. ASSUME NEW u \in Caller PROVE GaugeCall(u)'
  <2>1. GaugeCall(u)
    BY DEF MetricsInv
  <2> QED BY <1>4, <1>5, <1>8, <1>9, <2>1 DEF GaugeCall
<1>11. LastExport'
  <2>1. LastExport /\ exporter.last \in {0} \cup Handles("gauge")
    BY DEF MetricsInv
  <2> QED BY <1>5, <1>8, <1>9, <2>1 DEF LastExport
<1> QED BY <1>4, <1>5, <1>7, <1>10, <1>11 DEF MetricsInv

LEMMA ExportCountKept ==
  ASSUME CallersKnown, MetricsInv, NEW t \in Caller, ExportCount(t)
  PROVE  MetricsInv'
<1>1. /\ caller'[t] = Idle /\ caller[t].pc = "export_count"
      /\ \A u \in Caller : u # t => caller'[u] = caller[u]
      /\ exported' = [exported EXCEPT !["counter"] = exported["counter"] + 1]
      /\ UNCHANGED <<metrics, exporter>>
  BY ReturnFacts DEF ExportCount, Export, At
<1>2. /\ Holding({"export_count"})' = Holding({"export_count"}) - 1
      /\ Holding({"export_count"}) \in Nat
  <2>1. StepTo(t, "export_count", "idle")
    BY <1>1 DEF StepTo, Idle
  <2>2. In("export_count", {"export_count"}) = 1 /\ In("idle", {"export_count"}) = 0
    BY DEF In
  <2> QED BY <2>1, <2>2, StepCounts
<1>3. /\ exported["counter"] \in Nat /\ exported \in [Kind -> Nat]
      /\ CounterTotal = exported["counter"] + Holding({"export_count"})
  BY DEF MetricsInv, Kind
<1>4. /\ exported' \in [Kind -> Nat] /\ exported'["counter"] = exported["counter"] + 1
      /\ exported'["gauge"] = exported["gauge"]
  BY <1>1, <1>3 DEF Kind
<1>5. CounterTotal' = CounterTotal /\ \A kind : Handles(kind)' = Handles(kind)
  BY <1>1 DEF CounterTotal, Readings, Total, Units, Handles
<1>6. CounterTotal' = exported'["counter"] + Holding({"export_count"})'
  BY <1>2, <1>3, <1>4, <1>5
<1>7. /\ \A g : Setting(g)' = Setting(g)
      /\ \A u \in Caller : caller[u].pc # "export_gauge" => caller'[u].pc # "export_gauge"
      /\ \A u \in Caller : caller[u].pc = "export_gauge" => caller'[u] = caller[u]
  BY <1>1 DEF Setting, At, Idle
<1>8. ASSUME NEW u \in Caller PROVE GaugeCall(u)'
  <2>1. GaugeCall(u)
    BY DEF MetricsInv
  <2> QED BY <1>1, <1>5, <1>7, <2>1 DEF GaugeCall
<1>9. LastExport'
  BY <1>1, <1>4, <1>7 DEF MetricsInv, LastExport
<1> QED BY <1>1, <1>4, <1>5, <1>6, <1>8, <1>9 DEF MetricsInv

(* The sets under way of the other gauges are as they were, and a set of    *)
(* this one at the same time is remembered.                                 *)
LEMMA RacesKept ==
  ASSUME MetricsInv, NEW t \in Caller, NEW h \in Handles("gauge"), caller[t].pc = "idle",
         \A u \in Caller : u # t => caller'[u] = caller[u],
         caller'[t].pc = "export_gauge" => caller'[t].handle = h,
         exporter'.raced = RacedBy(h),
         \A g \in DOMAIN metrics : g # h => metrics'[g] = metrics[g],
         Handles("gauge")' = Handles("gauge")
  PROVE  /\ \A u \in Caller : u # t => GaugeCall(u)'
         /\ h \notin exporter'.raced => Setting(h) = {}
         /\ \A g : g # h => Setting(g)' = Setting(g)
         /\ exporter.raced \subseteq exporter'.raced
<1>1. /\ exporter.raced \subseteq exporter'.raced /\ (h \notin exporter'.raced => Setting(h) = {})
  BY DEF RacedBy
<1>2. ASSUME NEW g, g # h
      PROVE  Setting(g)' = Setting(g)
  BY <1>2 DEF Setting, At
<1>3. ASSUME NEW u \in Caller, u # t, caller[u].pc = "export_gauge"
      PROVE  \E g \in Handles("gauge") :
               /\ g = caller[u].handle /\ caller[u].value \in Nat
               /\ g \notin exporter'.raced => /\ caller[u].value = metrics'[g].value
                                              /\ \A w \in Setting(g)' : w = u
  <2>1. GaugeCall(u) /\ Handles("gauge") \subseteq DOMAIN metrics
    BY DEF MetricsInv, Handles
  <2>2. PICK g \in Handles("gauge") :
          /\ g = caller[u].handle /\ caller[u].value \in Nat
          /\ g \notin exporter.raced => /\ caller[u].value = metrics[g].value
                                        /\ \A w \in Setting(g) : w = u
    BY <1>3, <2>1 DEF GaugeCall
  <2>3. g \notin exporter'.raced => g # h
    BY <1>1, <1>3, <2>2 DEF Setting, At
  <2> QED BY <1>1, <1>2, <2>1, <2>2, <2>3
<1>4. ASSUME NEW u \in Caller, u # t
      PROVE  GaugeCall(u)'
  BY <1>3, <1>4 DEF GaugeCall
<1> QED BY <1>1, <1>2, <1>4

LEMMA SetGaugeKept ==
  ASSUME CallersKnown, MetricsInv, NEW t \in Caller, SetGauge(t)
  PROVE  MetricsInv'
<1>0. metrics \in Seq(Metric)
  BY DEF MetricsInv
<1>1. PICK h \in Handles("gauge"), value \in {1, 2} :
        /\ metrics' = [metrics EXCEPT ![h].value = value]
        /\ Call(t, [pc |-> "export_gauge", handle |-> h, value |-> value])
        /\ exporter' = [exporter EXCEPT !.raced = RacedBy(h)]
  BY DEF SetGauge
<1>2. h \in DOMAIN metrics /\ h \notin Handles("counter") /\ value \in Nat
  BY <1>0, <1>1, HandlesTyped
<1>3. /\ metrics' \in Seq(Metric) /\ metrics'[h].value = value
      /\ \A g \in DOMAIN metrics : g # h => metrics'[g] = metrics[g]
      /\ \A kind : Handles(kind)' = Handles(kind)
      /\ CounterTotal' = CounterTotal
  BY <1>0, <1>1, <1>2, ValueChanges
<1>4. /\ caller'[t].pc = "export_gauge" /\ caller'[t].handle = h /\ caller'[t].value = value
      /\ caller[t].pc = "idle"
      /\ \A u \in Caller : u # t => caller'[u] = caller[u]
      /\ UNCHANGED exported
  <2> DEFINE state == [pc |-> "export_gauge", handle |-> h, value |-> value]
  <2>1. /\ "pc" \in DOMAIN state /\ Call(t, state)
        /\ state.pc = "export_gauge" /\ state.handle = h /\ state.value = value
    BY <1>1
  <2> HIDE DEF state
  <2>2. /\ caller'[t] = state /\ caller[t].pc = "idle"
        /\ \A u \in Caller : u # t => caller'[u] = caller[u]
    BY <2>1, GotoFacts DEF Call, At
  <2> QED BY <2>1, <2>2 DEF SetGauge
<1>5. exporter' = [last |-> exporter.last, raced |-> RacedBy(h)]
  BY <1>1 DEF MetricsInv
<1>6. exporter'.last = exporter.last /\ exporter'.raced = RacedBy(h)
      /\ exporter' = [last |-> exporter'.last, raced |-> exporter'.raced]
  BY <1>5
<1>7. /\ \A u \in Caller : u # t => GaugeCall(u)'
      /\ h \notin exporter'.raced => Setting(h) = {}
      /\ \A g : g # h => Setting(g)' = Setting(g)
      /\ exporter.raced \subseteq exporter'.raced
  BY <1>3, <1>4, <1>6, RacesKept
<1>8. GaugeCall(t)'
  <2>1. h \notin exporter'.raced => \A u \in Setting(h)' : u = t
    BY <1>4, <1>7 DEF Setting, At
  <2> QED BY <1>2, <1>3, <1>4, <2>1 DEF GaugeCall
<1>9. Holding({"export_count"})' = Holding({"export_count"})
  <2>1. StepTo(t, "idle", "export_gauge")
    BY <1>4 DEF StepTo
  <2>2. In("export_gauge", {"export_count"}) = 0 /\ In("idle", {"export_count"}) = 0
    BY DEF In
  <2> QED BY <2>1, <2>2, StepCounts
<1>10. LastExport'
  <2>1. LastExport /\ exporter.last \in {0} \cup Handles("gauge") /\ Handles("gauge") \subseteq DOMAIN metrics
    BY DEF MetricsInv, Handles
  <2>2. Setting(h)' # {}
    BY <1>4 DEF Setting, At
  <2>3. CASE exporter.last = h BY <1>6, <2>2, <2>3 DEF LastExport
  <2>4. CASE exporter.last # h BY <1>3, <1>4, <1>6, <1>7, <2>1, <2>4 DEF LastExport
  <2> QED BY <2>3, <2>4
<1> QED BY <1>3, <1>4, <1>6, <1>7, <1>8, <1>9, <1>10 DEF MetricsInv

LEMMA ExportGaugeKept ==
  ASSUME CallersKnown, MetricsInv, NEW t \in Caller, ExportGauge(t)
  PROVE  MetricsInv'
<1>1. /\ caller'[t] = Idle /\ caller[t].pc = "export_gauge"
      /\ \A u \in Caller : u # t => caller'[u] = caller[u]
      /\ exported' = [exported EXCEPT !["gauge"] = caller[t].value]
      /\ exporter' = [exporter EXCEPT !.last = caller[t].handle]
      /\ UNCHANGED metrics
  BY ReturnFacts DEF ExportGauge, Export, At
<1>2. PICK h \in Handles("gauge") :
        /\ h = caller[t].handle /\ caller[t].value \in Nat
        /\ h \notin exporter.raced => /\ caller[t].value = metrics[h].value
                                      /\ \A u \in Setting(h) : u = t
  BY <1>1 DEF MetricsInv, GaugeCall
<1>3. exporter' = [last |-> h, raced |-> exporter.raced]
  BY <1>1, <1>2 DEF MetricsInv
<1>4. /\ exporter'.last = h /\ exporter'.raced = exporter.raced
      /\ exporter' = [last |-> exporter'.last, raced |-> exporter'.raced]
  BY <1>3
<1>5. /\ exported' \in [Kind -> Nat] /\ exported'["gauge"] = caller[t].value
      /\ exported'["counter"] = exported["counter"]
  <2>1. exported \in [Kind -> Nat]
    BY DEF MetricsInv
  <2> QED BY <1>1, <1>2, <2>1 DEF Kind
<1>6. CounterTotal' = CounterTotal /\ \A kind : Handles(kind)' = Handles(kind)
  BY <1>1 DEF CounterTotal, Readings, Total, Units, Handles
<1>7. Holding({"export_count"})' = Holding({"export_count"})
  <2>1. StepTo(t, "export_gauge", "idle")
    BY <1>1 DEF StepTo, Idle
  <2>2. In("export_gauge", {"export_count"}) = 0 /\ In("idle", {"export_count"}) = 0
    BY DEF In
  <2> QED BY <2>1, <2>2, StepCounts
<1>8. /\ \A g : Setting(g)' \subseteq Setting(g)
      /\ \A u \in Caller : caller'[u].pc = "export_gauge" => caller[u].pc = "export_gauge" /\ caller'[u] = caller[u]
  BY <1>1 DEF Setting, At, Idle
<1>9. ASSUME NEW u \in Caller PROVE GaugeCall(u)'
  <2>1. GaugeCall(u)
    BY DEF MetricsInv
  <2> QED BY <1>1, <1>4, <1>6, <1>8, <2>1 DEF GaugeCall
<1>10. LastExport'
  BY <1>1, <1>2, <1>4, <1>5 DEF LastExport
<1> QED BY <1>1, <1>2, <1>4, <1>5, <1>6, <1>7, <1>9, <1>10 DEF MetricsInv

LEMMA AddToGaugeKept ==
  ASSUME CallersKnown, MetricsInv, NEW t \in Caller, AddToGauge(t)
  PROVE  MetricsInv'
<1>0. metrics \in Seq(Metric)
  BY DEF MetricsInv
<1>1. PICK h \in Handles("gauge") :
        /\ metrics' = [metrics EXCEPT ![h].value = metrics[h].value + 1]
        /\ Export("gauge", metrics[h].value + 1)
        /\ exporter' = [last |-> h, raced |-> RacedBy(h)]
  BY DEF AddToGauge
<1>2. h \in DOMAIN metrics /\ h \notin Handles("counter") /\ metrics[h].value + 1 \in Nat
  BY <1>0, <1>1, HandlesTyped
<1>3. /\ metrics' \in Seq(Metric) /\ metrics'[h].value = metrics[h].value + 1
      /\ \A g \in DOMAIN metrics : g # h => metrics'[g] = metrics[g]
      /\ \A kind : Handles(kind)' = Handles(kind)
      /\ CounterTotal' = CounterTotal
  BY <1>0, <1>1, <1>2, ValueChanges
<1>4. /\ caller'[t] = Idle /\ caller[t].pc = "idle"
      /\ \A u \in Caller : u # t => caller'[u] = caller[u]
  BY ReturnFacts DEF AddToGauge, CallAtOnce, Call, At
<1>5. exporter'.last = h /\ exporter'.raced = RacedBy(h)
      /\ exporter' = [last |-> exporter'.last, raced |-> exporter'.raced]
  BY <1>1
<1>6. \A u \in Caller : u # t => GaugeCall(u)'
  BY <1>3, <1>4, <1>5, RacesKept DEF Idle
<1>7. GaugeCall(t)'
  BY <1>4 DEF GaugeCall, Idle
<1>8. /\ exported' \in [Kind -> Nat] /\ exported'["gauge"] = metrics[h].value + 1
      /\ exported'["counter"] = exported["counter"]
  <2>1. exported \in [Kind -> Nat]
    BY DEF MetricsInv
  <2> QED BY <1>1, <1>2, <2>1 DEF Export, Kind
<1>9. Holding({"export_count"})' = Holding({"export_count"})
  <2>1. StepTo(t, "idle", "idle")
    BY <1>4 DEF StepTo, Idle
  <2> QED BY <2>1, StepCounts DEF In
<1>10. LastExport'
  BY <1>3, <1>5, <1>8 DEF LastExport
<1> QED BY <1>1, <1>3, <1>5, <1>6, <1>7, <1>8, <1>9, <1>10 DEF MetricsInv

LEMMA MetricsAgreeFollows ==
  ASSUME MetricsInv
  PROVE  MetricsAgree
<1> DEFINE f == [h \in Handles("counter") |-> metrics[h].value]
           S == Handles("counter")
<1>1. /\ IsFiniteSet(S) /\ DOMAIN f = S /\ \A h \in S : f[h] \in Nat /\ f[h] = Readings[h]
  BY HandlesTyped DEF MetricsInv
<1> HIDE DEF f, S
<1>2. Sum(f) = Total(f, S) /\ Total(f, S) = Total(Readings, S)
  BY <1>1, SumIsTotal, TotalAgrees
<1>3. Sum([h \in Handles("counter") |-> metrics[h].value]) = CounterTotal
  BY <1>2 DEF f, S, CounterTotal
<1>4. {t \in Caller : At(t, "export_count")} = {t \in Caller : caller[t].pc \in {"export_count"}}
  BY DEF At
<1>5. Cardinality({t \in Caller : At(t, "export_count")}) = Holding({"export_count"})
  BY <1>4 DEF Holding
<1> QED BY <1>3, <1>5 DEF MetricsInv, MetricsAgree, LastExport

-----------------------------------------------------------------------------
(* Of the contexts, the events and the metrics a step changes one. *)
TelemetryInv == ContextsInv /\ EntriesKnown /\ LogsInv /\ MetricsInv

(* A step that is not one of the buffer, or of the metrics, leaves the      *)
(* calls under way there alone.                                             *)
LEMMA OtherTelemetry ==
  ASSUME CallersKnown, NEW t \in Caller
  PROVE  /\ SetCurrent(t) \/ WithCurrent(t) \/ WithSpan(t) \/ ContextStep(t) =>
              \A u \in Caller : caller'[u] = caller[u] \/ (caller[u].pc = "idle" /\ caller'[u].pc = "idle")
         /\ CreateMetric(t) \/ CountUp(t) \/ SetGauge(t) \/ AddToGauge(t) \/ ExportCount(t) \/ ExportGauge(t) =>
              \A u \in Caller : \/ caller'[u] = caller[u]
                                \/ caller[u].pc \notin LogPcs /\ caller'[u].pc \notin LogPcs
         /\ Log(t) \/ FlushPlugin(t) \/ FlushAll(t) \/ Buffer(t) \/ FlushNext(t) =>
              \A u \in Caller : \/ caller'[u] = caller[u]
                                \/ caller[u].pc \notin MetricPcs /\ caller'[u].pc \notin MetricPcs
<1>1. ASSUME SetCurrent(t) \/ WithCurrent(t) \/ WithSpan(t) \/ ContextStep(t)
      PROVE  \A u \in Caller : caller'[u] = caller[u] \/ (caller[u].pc = "idle" /\ caller'[u].pc = "idle")
  <2>1. (Return(t) \/ CallAtOnce(t)) /\ caller[t].pc = "idle"
    BY <1>1 DEF SetCurrent, WithCurrent, WithSpan, Enter, ContextStep, LeaveContext, Panic, CallAtOnce, Call, At
  <2> QED BY <2>1, ReturnFacts DEF Idle
<1>2. ASSUME NEW state, "pc" \in DOMAIN state, Call(t, state) \/ Goto(t, state)
      PROVE  caller'[t] = state /\ \A u \in Caller : u # t => caller'[u] = caller[u]
  BY <1>2, GotoFacts DEF Call, Goto
<1>3. ASSUME Return(t) \/ CallAtOnce(t)
      PROVE  caller'[t].pc = "idle" /\ \A u \in Caller : u # t => caller'[u] = caller[u]
  BY <1>3, ReturnFacts DEF Idle
<1>4. ASSUME CreateMetric(t) \/ CountUp(t) \/ SetGauge(t) \/ AddToGauge(t) \/ ExportCount(t) \/ ExportGauge(t)
      PROVE  /\ caller[t].pc \notin LogPcs /\ caller'[t].pc \notin LogPcs
             /\ \A u \in Caller : u # t => caller'[u] = caller[u]
  <2>1. caller[t].pc \in {"idle", "export_count", "export_gauge"}
    BY <1>4 DEF CreateMetric, CountUp, SetGauge, AddToGauge, ExportCount, ExportGauge, CallAtOnce, Call, At
  <2>2. CASE CreateMetric(t) \/ AddToGauge(t) \/ ExportCount(t) \/ ExportGauge(t)
    BY <1>3, <2>1, <2>2 DEF CreateMetric, AddToGauge, ExportCount, ExportGauge, LogPcs
  <2>3. CASE CountUp(t)
    <3> DEFINE state == [pc |-> "export_count"]
    <3>1. Call(t, state) /\ "pc" \in DOMAIN state /\ state.pc = "export_count"
      BY <2>3 DEF CountUp
    <3> HIDE DEF state
    <3> QED BY <1>2, <2>1, <3>1 DEF LogPcs
  <2>4. CASE SetGauge(t)
    <3>1. PICK h, value : Call(t, [pc |-> "export_gauge", handle |-> h, value |-> value])
      BY <2>4 DEF SetGauge
    <3> DEFINE state == [pc |-> "export_gauge", handle |-> h, value |-> value]
    <3>2. Call(t, state) /\ "pc" \in DOMAIN state /\ state.pc = "export_gauge"
      BY <3>1
    <3> HIDE DEF state
    <3> QED BY <1>2, <2>1, <3>2 DEF LogPcs
  <2> QED BY <1>4, <2>2, <2>3, <2>4
<1>5. ASSUME Log(t) \/ FlushPlugin(t) \/ FlushAll(t) \/ Buffer(t) \/ FlushNext(t)
      PROVE  /\ caller[t].pc \notin MetricPcs /\ caller'[t].pc \notin MetricPcs
             /\ \A u \in Caller : u # t => caller'[u] = caller[u]
  <2>1. caller[t].pc \in {"idle", "buffer", "flush"}
    BY <1>5 DEF Log, FlushPlugin, FlushAll, Buffer, FlushNext, CallAtOnce, Call, At
  <2>2. ASSUME Return(t) \/ CallAtOnce(t)
        PROVE  caller'[t].pc \notin MetricPcs /\ \A u \in Caller : u # t => caller'[u] = caller[u]
    BY <1>3, <2>2 DEF MetricPcs
  <2>3. ASSUME NEW state, "pc" \in DOMAIN state, state.pc \in LogPcs, Call(t, state) \/ Goto(t, state)
        PROVE  caller'[t].pc \notin MetricPcs /\ \A u \in Caller : u # t => caller'[u] = caller[u]
    BY <1>2, <2>3 DEF MetricPcs, LogPcs
  <2>4. CASE Log(t)
    <3>1. PICK plugin, level : CallAtOnce(t) \/ Call(t, [pc |-> "buffer", plugin |-> plugin, level |-> level])
      BY <2>4 DEF Log
    <3> DEFINE state == [pc |-> "buffer", plugin |-> plugin, level |-> level]
    <3>2. (CallAtOnce(t) \/ Call(t, state)) /\ "pc" \in DOMAIN state /\ state.pc \in LogPcs
      BY <3>1 DEF LogPcs
    <3> HIDE DEF state
    <3> QED BY <2>1, <2>2, <2>3, <3>2 DEF MetricPcs
  <2>5. CASE FlushPlugin(t) \/ FlushNext(t)
    <3>1. PICK events : \/ Call(t, [pc |-> "flush", events |-> events]) \/ Return(t)
                        \/ Goto(t, [pc |-> "flush", events |-> events])
      BY <2>5 DEF FlushPlugin, FlushNext
    <3> DEFINE state == [pc |-> "flush", events |-> events]
    <3>2. (Return(t) \/ Call(t, state) \/ Goto(t, state)) /\ "pc" \in DOMAIN state /\ state.pc \in LogPcs
      BY <3>1 DEF LogPcs
    <3> HIDE DEF state
    <3> QED BY <2>1, <2>2, <2>3, <3>2 DEF MetricPcs
  <2>6. CASE FlushAll(t)
    <3>1. PICK p, found : CallAtOnce(t) \/ Call(t, [pc |-> "walking", plugin |-> p, found |-> found])
      BY <2>6 DEF FlushAll
    <3> DEFINE state == [pc |-> "walking", plugin |-> p, found |-> found]
    <3>2. (CallAtOnce(t) \/ Call(t, state)) /\ "pc" \in DOMAIN state /\ state.pc \in LogPcs
      BY <3>1 DEF LogPcs
    <3> HIDE DEF state
    <3> QED BY <2>1, <2>2, <2>3, <3>2 DEF MetricPcs
  <2>7. CASE Buffer(t) BY <2>1, <2>2, <2>7 DEF Buffer, MetricPcs
  <2> QED BY <1>5, <2>4, <2>5, <2>6, <2>7
<1> QED BY <1>1, <1>4, <1>5

LEMMA TelemetryStepKept ==
  ASSUME CallersKnown, TelemetryInv, NEW t \in Caller,
         ObservabilityCall(t) \/ ObservabilityStep(t)
  PROVE  TelemetryInv'
<1> USE DEF TelemetryInv
<1>1. CASE /\ SetCurrent(t) \/ WithCurrent(t) \/ WithSpan(t) \/ ContextStep(t)
           /\ UNCHANGED <<logVars, metricVars>>
  <2>1. \A u \in Caller : caller'[u] = caller[u] \/ (caller[u].pc = "idle" /\ caller'[u].pc = "idle")
    BY <1>1, OtherTelemetry
  <2>2. LogsInv' /\ MetricsInv'
    BY <1>1, <2>1, LogsStay, MetricsStay DEF LogPcs, MetricPcs
  <2> QED BY <1>1, <2>2, SetCurrentKept, EntersKept, ContextStepKept DEF EntriesKnown, logVars
<1>2. CASE /\ Log(t) \/ FlushPlugin(t) \/ FlushAll(t) \/ Buffer(t) \/ FlushNext(t)
           /\ UNCHANGED <<contextVars, metricVars>>
  <2>1. ContextsInv' /\ MetricsInv'
    BY <1>2, OtherTelemetry, ContextsStay, MetricsStay
  <2>2. EntriesKnown'
    <3>1. \A u \in Caller : caller[u].pc = "buffer" => caller[u].plugin \in Writer
      BY DEF LogsInv, LogCall
    <3>2. \/ entries' \subseteq entries
          \/ caller[t].pc = "buffer" /\ entries' = entries \cup {caller[t].plugin}
      <4>1. CASE Buffer(t) BY <4>1 DEF Buffer, At
      <4>2. CASE FlushPlugin(t) BY <4>2 DEF FlushPlugin
      <4>3. CASE Log(t) \/ FlushAll(t) \/ FlushNext(t)
        BY <4>3 DEF Log, FlushAll, FlushNext, logVars
      <4> QED BY <1>2, <4>1, <4>2, <4>3
    <3> QED BY <3>1, <3>2 DEF EntriesKnown
  <2> QED BY <1>2, <2>1, <2>2, LogKept, FlushPluginKept, FlushAllKept, BufferKept, FlushNextKept
<1>3. CASE /\ CreateMetric(t) \/ CountUp(t) \/ SetGauge(t) \/ AddToGauge(t) \/ ExportCount(t) \/ ExportGauge(t)
           /\ UNCHANGED <<contextVars, logVars>>
  <2>1. ContextsInv' /\ LogsInv' /\ EntriesKnown'
    BY <1>3, OtherTelemetry, ContextsStay, LogsStay DEF EntriesKnown, logVars
  <2> QED
    BY <1>3, <2>1, CreateMetricKept, CountUpKept, SetGaugeKept, AddToGaugeKept, ExportCountKept, ExportGaugeKept
<1> QED BY <1>1, <1>2, <1>3
     DEF ObservabilityCall, ObservabilityStep, ContextStep, LogStep, MetricStep

LEMMA TelemetryStays ==
  ASSUME TelemetryInv, UNCHANGED observabilityVars,
         \A t \in Caller : \/ caller'[t] = caller[t]
                           \/ caller[t].pc \notin TelemetryPcs /\ caller'[t].pc \notin TelemetryPcs
  PROVE  TelemetryInv'
<1>1. LogPcs \subseteq TelemetryPcs /\ MetricPcs \subseteq TelemetryPcs
  BY DEF LogPcs, MetricPcs, TelemetryPcs
<1> QED
  BY <1>1, ContextsStay, LogsStay, MetricsStay
     DEF TelemetryInv, EntriesKnown, observabilityVars, logVars

LEMMA TelemetryInvKept ==
  ASSUME CallersAtPart, TelemetryInv, [Next]_vars
  PROVE  TelemetryInv'
<1>0. CallersKnown /\ CallersAtPart' /\ UNCHANGED part
  BY CallersStayAtPart, NextSteps DEF CallersAtPart
<1>1. CASE part = "telemetry" /\ \E t \in Caller : PartSteps(part, t)
  BY <1>0, <1>1, TelemetryStepKept DEF PartSteps, Pool
<1>2. CASE part # "telemetry" /\ UNCHANGED observabilityVars
  <2>1. ASSUME NEW t \in Caller
        PROVE  caller[t].pc \notin TelemetryPcs /\ caller'[t].pc \notin TelemetryPcs
    <3>1. caller[t].pc \in {"idle"} \cup PcsOf(part) /\ caller'[t].pc \in {"idle"} \cup PcsOf(part)
      BY <1>0 DEF CallersAtPart
    <3> QED BY <1>2, <3>1, PcsTellPart
  <2> QED BY <1>2, <2>1, TelemetryStays
<1>3. CASE \E t \in Caller : Unwinds(t)
  BY <1>0, <1>3, TelemetryStepKept DEF Unwinds, ObservabilityStep
<1>4. CASE Expire /\ UNCHANGED observabilityVars BY <1>4, TelemetryStays DEF Expire, callVars
<1>5. CASE UNCHANGED <<callVars, observabilityVars>> BY <1>5, TelemetryStays DEF callVars
<1> QED BY <1>1, <1>2, <1>3, <1>4, <1>5, DataSteps DEF OthersRest

(* A thread runs under the context that was last set where it is, unless a  *)
(* panic was caught there (context.rs:242); every event that was taken is   *)
(* written, waits, or was lost with a flush that was refused                *)
(* (logging.rs:443); and what the metrics export is what was counted and    *)
(* set, but for what is under way or overlapped (metrics.rs:451): for any   *)
(* number of threads, plugins and metrics.                                  *)
THEOREM TelemetryIsKept == Spec => []TelemetryKept
<1>1. Init => CallersAtPart /\ TelemetryInv
  BY InitCallers, ContextsInitInv, LogsInitInv, MetricsInitInv
     DEF TelemetryInv, EntriesKnown, Init, ObservabilityInit
<1>2. CallersAtPart /\ TelemetryInv /\ [Next]_vars => CallersAtPart' /\ TelemetryInv'
  BY CallersStayAtPart, TelemetryInvKept
<1>3. TelemetryInv => TelemetryKept
  BY ContextsRestoredFollows, EventsAccountedFollows, MetricsAgreeFollows DEF TelemetryInv, TelemetryKept
<1> QED BY <1>1, <1>2, <1>3, PTL DEF Spec

-----------------------------------------------------------------------------
(* The configurations.  A step to a key or to an index. *)
Char == UNION {Range(path) : path \in Paths}

Part == {KeyPart(w) : w \in Seq(Char)} \cup {IndexPart(n) : n \in Nat}

LEMMA PartsTold ==
  ASSUME NEW leg \in Part
  PROVE  /\ IsKey(leg) => leg = KeyPart(leg.key)
         /\ ~IsKey(leg) => leg.index \in Nat /\ leg = IndexPart(leg.index)
BY DEF Part, KeyPart, IndexPart, IsKey

LEMMA PartsDiffer ==
  ASSUME NEW leg \in Part, NEW other \in Part, leg # other, IsKey(leg) = IsKey(other)
  PROVE  IF IsKey(leg) THEN leg.key # other.key ELSE leg.index # other.index
BY PartsTold

LEMMA KindsTold ==
  /\ \A m : IsMap(Map(m)) /\ ~IsArray(Map(m)) /\ Map(m).map = m /\ Map(m) # NoValue
  /\ \A s : IsArray(Array(s)) /\ ~IsMap(Array(s)) /\ Array(s).array = s /\ Array(s) # NoValue
  /\ ~IsMap(NoValue) /\ ~IsArray(NoValue)
BY DEF IsMap, IsArray, Map, Array, NoValue

LEMMA IndexesTold ==
  ASSUME NEW n \in Nat
  PROVE  IndexPart(n) \in Part /\ ~IsKey(IndexPart(n)) /\ IndexPart(n).index = n
BY DEF Part, IndexPart, IsKey

LEMMA NoneHasNone ==
  ASSUME NEW leg
  PROVE  Child(NoValue, leg) = NoValue
BY KindsTold DEF Child

(* The way along a path. *)
Leads(value, p, n, f) ==
  f = [k \in 0 .. n |-> IF k = 0 THEN value ELSE Child(f[k - 1], p[k])]

LEMMA LeadsExist ==
  ASSUME NEW value, NEW p, NEW n \in Nat
  PROVE  \E f : Leads(value, p, n, f)
<1> DEFINE Bad == {m \in Nat : ~ \E f : Leads(value, p, m, f)}
<1>1. SUFFICES ASSUME Bad # {} PROVE FALSE OBVIOUS
<1>2. Bad \in SUBSET Nat OBVIOUS
<1>3. PICK m \in Bad : \A j \in Bad : m <= j
  <2> HIDE DEF Bad
  <2> QED BY <1>1, <1>2, LeastOf
<1>4. m # 0
  <2> DEFINE f == [k \in 0 .. 0 |-> value]
  <2>1. Leads(value, p, 0, f)
    BY DEF Leads
  <2> QED BY <1>3, <2>1
<1>5. m \in Nat /\ m - 1 \in Nat /\ m - 1 \notin Bad
  BY <1>3, <1>4
<1>6. PICK f : Leads(value, p, m - 1, f)
  BY <1>5
<1> DEFINE g == [k \in 0 .. m |-> IF k = m THEN Child(f[m - 1], p[m]) ELSE f[k]]
<1>7. ASSUME NEW k \in 0 .. m
      PROVE  g[k] = IF k = 0 THEN value ELSE Child(g[k - 1], p[k])
  <2>1. CASE k = 0 BY <1>4, <1>5, <1>6, <2>1 DEF Leads
  <2>2. CASE k = m BY <1>4, <1>5, <2>2
  <2>3. CASE k \in 1 .. m - 1 BY <1>5, <1>6, <2>3 DEF Leads
  <2> QED BY <1>5, <2>1, <2>2, <2>3
<1>8. Leads(value, p, m, g)
  <2>1. g = [k \in 0 .. m |-> g[k]] OBVIOUS
  <2> HIDE DEF g
  <2> QED BY <1>7, <2>1 DEF Leads
<1> QED BY <1>3, <1>8

LEMMA ReachedIs ==
  ASSUME NEW value, NEW p \in Seq(Part)
  PROVE  /\ Reached(value, p)[0] = value
         /\ \A k \in 1 .. Len(p) : Reached(value, p)[k] = Child(Reached(value, p)[k - 1], p[k])
<1> DEFINE f == Reached(value, p)
<1>1. f = CHOOSE g : Leads(value, p, Len(p), g)
  BY DEF Reached, Leads
<1>2. Len(p) \in Nat OBVIOUS
<1>3. Leads(value, p, Len(p), f)
  BY <1>1, <1>2, LeadsExist
<1> HIDE DEF f
<1>4. f[0] = value
  BY <1>2, <1>3 DEF Leads
<1>5. \A k \in 1 .. Len(p) : f[k] = Child(f[k - 1], p[k])
  BY <1>2, <1>3 DEF Leads
<1> QED BY <1>4, <1>5 DEF f

SameParts(p, q, m, n) == \A k \in m + 1 .. n : p[k] = q[k]

(* From where two ways agree they go on together. *)
LEMMA WaysAgree ==
  ASSUME NEW v, NEW w, NEW p \in Seq(Part), NEW q \in Seq(Part), NEW m \in Nat, NEW n \in Nat,
         m <= n, n <= Len(p), n <= Len(q), Reached(v, p)[m] = Reached(w, q)[m],
         SameParts(p, q, m, n)
  PROVE  Reached(v, p)[n] = Reached(w, q)[n]
<1> DEFINE Bad == {k \in m .. n : Reached(v, p)[k] # Reached(w, q)[k]}
<1>1. SUFFICES ASSUME Bad # {} PROVE FALSE OBVIOUS
<1>2. Bad \in SUBSET Nat OBVIOUS
<1>3. PICK k \in Bad : \A j \in Bad : k <= j
  <2> HIDE DEF Bad
  <2> QED BY <1>1, <1>2, LeastOf
<1>4. k \in m + 1 .. n /\ k - 1 \in m .. n /\ k - 1 \notin Bad
  BY <1>3
<1>5. Reached(v, p)[k - 1] = Reached(w, q)[k - 1] /\ p[k] = q[k]
  BY <1>4 DEF SameParts
<1>6. k \in 1 .. Len(p) /\ k \in 1 .. Len(q)
  BY <1>4
<1> QED BY <1>3, <1>5, <1>6, ReachedIs

LEMMA PrefixAgrees ==
  ASSUME NEW v, NEW p \in Seq(Part), NEW q \in Seq(Part), NEW n \in Nat,
         n <= Len(p), n <= Len(q), \A k \in 1 .. n : p[k] = q[k]
  PROVE  Reached(v, p)[n] = Reached(v, q)[n]
<1>1. Reached(v, p)[0] = Reached(v, q)[0]
  BY ReachedIs
<1> DEFINE m == 0
<1>2. m \in Nat /\ m <= n /\ SameParts(p, q, m, n)
  BY DEF SameParts
<1>3. Reached(v, p)[m] = Reached(v, q)[m]
  BY <1>1
<1> HIDE DEF m
<1> QED BY <1>2, <1>3, WaysAgree

LEMMA RestAgrees ==
  ASSUME NEW v, NEW w, NEW p \in Seq(Part), NEW q \in Seq(Part), Len(p) = Len(q), NEW m \in Nat,
         m <= Len(q), Reached(v, p)[m] = Reached(w, q)[m], SameParts(p, q, m, Len(q))
  PROVE  Get(v, p) = Get(w, q)
<1> DEFINE n == Len(q)
<1>1. n \in Nat /\ m <= n /\ n <= Len(p) /\ n <= Len(q) /\ SameParts(p, q, m, n)
  BY DEF SameParts
<1> HIDE DEF n
<1>2. Reached(v, p)[n] = Reached(w, q)[n]
  BY <1>1, WaysAgree
<1> QED BY <1>2 DEF Get, n

LEMMA NoneStays ==
  ASSUME NEW v, NEW p \in Seq(Part), NEW m \in Nat, NEW n \in Nat, m <= n, n <= Len(p),
         Reached(v, p)[m] = NoValue
  PROVE  Reached(v, p)[n] = NoValue
<1> DEFINE Bad == {k \in m .. n : Reached(v, p)[k] # NoValue}
<1>1. SUFFICES ASSUME Bad # {} PROVE FALSE OBVIOUS
<1>2. Bad \in SUBSET Nat OBVIOUS
<1>3. PICK k \in Bad : \A j \in Bad : k <= j
  <2> HIDE DEF Bad
  <2> QED BY <1>1, <1>2, LeastOf
<1>4. k \in m + 1 .. n /\ k - 1 \in m .. n /\ k - 1 \notin Bad
  BY <1>3
<1>5. Reached(v, p)[k - 1] = NoValue
  BY <1>4
<1>6. k \in 1 .. Len(p)
  BY <1>4
<1> QED BY <1>3, <1>5, <1>6, ReachedIs, NoneHasNone

(* What comes to stand along a path, from its end. *)
Stands(value, p, k, inner) ==
  Placed(Held(Reached(value, p)[k - 1], p[k]), p[k], inner, Filler(p, k))

Rebuilds(value, p, new, n, f) ==
  f = [k \in n .. Len(p) + 1 |->
         IF k = Len(p) + 1 THEN new ELSE Stands(value, p, k, f[k + 1])]

LEMMA RebuildsExist ==
  ASSUME NEW value, NEW p \in Seq(Part), NEW new, NEW n \in Nat, n <= Len(p)
  PROVE  \E f : Rebuilds(value, p, new, Len(p) + 1 - n, f)
<1> DEFINE last == Len(p)
           Bad == {m \in 0 .. last : ~ \E f : Rebuilds(value, p, new, last + 1 - m, f)}
<1>0. last \in Nat OBVIOUS
<1>1. SUFFICES ASSUME Bad # {} PROVE FALSE OBVIOUS
<1>2. Bad \in SUBSET Nat OBVIOUS
<1>3. PICK m \in Bad : \A j \in Bad : m <= j
  <2> HIDE DEF Bad
  <2> QED BY <1>1, <1>2, LeastOf
<1>4. m # 0
  <2> DEFINE f == [k \in last + 1 .. last + 1 |-> new]
  <2>1. Rebuilds(value, p, new, last + 1, f)
    BY <1>0 DEF Rebuilds
  <2>2. last + 1 - 0 = last + 1
    BY <1>0
  <2> HIDE DEF f
  <2> QED BY <1>3, <2>1, <2>2
<1> DEFINE a == last + 1 - m
<1>5. m \in 1 .. last /\ m - 1 \in 0 .. last /\ m - 1 \notin Bad /\ a \in 1 .. last
      /\ last + 1 - (m - 1) = a + 1
  <2>1. m \in 1 .. last
    BY <1>0, <1>3, <1>4
  <2>2. m - 1 \in 0 .. last /\ ~(m <= m - 1) /\ a \in 1 .. last /\ last + 1 - (m - 1) = a + 1
    BY <1>0, <2>1
  <2> HIDE DEF Bad, a
  <2> QED BY <1>3, <2>1, <2>2
<1>6. PICK f : Rebuilds(value, p, new, a + 1, f)
  BY <1>5
<1> DEFINE g == [k \in a .. last + 1 |-> IF k = a THEN Stands(value, p, a, f[a + 1]) ELSE f[k]]
<1> HIDE DEF a, last
<1>7. ASSUME NEW k \in a .. last + 1
      PROVE  g[k] = IF k = last + 1 THEN new ELSE Stands(value, p, k, g[k + 1])
  <2>1. CASE k = a
    <3>1. g[k] = Stands(value, p, k, f[k + 1]) /\ k + 1 \in a .. last + 1 /\ k + 1 # a /\ k # last + 1
      BY <1>0, <1>5, <2>1
    <3>2. g[k + 1] = f[k + 1]
      BY <3>1
    <3> QED BY <3>1, <3>2
  <2>2. CASE k = last + 1 BY <1>0, <1>5, <1>6, <2>2 DEF Rebuilds, last
  <2>3. CASE k \in a + 1 .. last
    <3>1. f[k] = Stands(value, p, k, f[k + 1])
      BY <1>0, <1>5, <1>6, <2>3 DEF Rebuilds, last
    <3>2. g[k] = f[k] /\ g[k + 1] = f[k + 1] /\ k # last + 1
      BY <1>0, <1>5, <2>3
    <3> QED BY <3>1, <3>2
  <2> QED BY <1>0, <1>5, <2>1, <2>2, <2>3
<1>8. Rebuilds(value, p, new, a, g)
  <2>1. g = [k \in a .. last + 1 |-> g[k]] OBVIOUS
  <2> HIDE DEF g
  <2> QED BY <1>7, <2>1 DEF Rebuilds, last
<1> QED BY <1>3, <1>8 DEF a

LEMMA RebuiltIs ==
  ASSUME NEW value, NEW p \in Seq(Part), NEW new
  PROVE  /\ Rebuilt(value, p, new)[Len(p) + 1] = new
         /\ \A k \in 1 .. Len(p) :
              Rebuilt(value, p, new)[k] = Stands(value, p, k, Rebuilt(value, p, new)[k + 1])
<1> DEFINE f == Rebuilt(value, p, new)
<1>1. f = CHOOSE g : Rebuilds(value, p, new, 1, g)
  BY DEF Rebuilt, Rebuilds, Stands
<1>2. Len(p) \in Nat /\ Len(p) <= Len(p) /\ Len(p) + 1 - Len(p) = 1 OBVIOUS
<1>3. \E g : Rebuilds(value, p, new, 1, g)
  BY <1>2, RebuildsExist
<1>4. Rebuilds(value, p, new, 1, f)
  BY <1>1, <1>3
<1> HIDE DEF f
<1>5. f[Len(p) + 1] = new
  BY <1>2, <1>4 DEF Rebuilds
<1>6. \A k \in 1 .. Len(p) : f[k] = Stands(value, p, k, f[k + 1])
  BY <1>2, <1>4 DEF Rebuilds
<1> QED BY <1>5, <1>6 DEF f

(* Values: what they hold are values, at any depth. *)
IsValue(value) == \E values : Closed(values) /\ value \in values

LEMMA ValuesTold ==
  ASSUME NEW value, IsValue(value)
  PROVE  /\ value # NoValue
         /\ IsMap(value) => \A key \in DOMAIN value.map : IsValue(value.map[key])
         /\ IsArray(value) => /\ Len(value.array) \in Nat
                              /\ \E S : value.array \in Seq(S)
                              /\ \A i \in 1 .. Len(value.array) : IsValue(value.array[i])
<1>1. PICK values : Closed(values) /\ value \in values
  BY DEF IsValue
<1>2. value # NoValue
  BY <1>1 DEF Closed, NoValue
<1>3. ASSUME IsMap(value)
      PROVE  \A key \in DOMAIN value.map : IsValue(value.map[key])
  BY <1>1, <1>3 DEF Closed, IsValue
<1>4. ASSUME IsArray(value)
      PROVE  /\ Len(value.array) \in Nat
             /\ \E S : value.array \in Seq(S)
             /\ \A i \in 1 .. Len(value.array) : IsValue(value.array[i])
  <2>1. value.array \in Seq(values)
    BY <1>1, <1>4 DEF Closed
  <2>2. \A i \in 1 .. Len(value.array) : value.array[i] \in values
    BY <2>1
  <2> QED BY <1>1, <2>1, <2>2 DEF IsValue
<1> QED BY <1>2, <1>3, <1>4

LEMMA ChildIsValue ==
  ASSUME NEW value, IsValue(value), NEW leg \in Part, Child(value, leg) # NoValue
  PROVE  IsValue(Child(value, leg))
<1>1. CASE IsKey(leg) BY <1>1, ValuesTold DEF Child
<1>2. CASE ~IsKey(leg)
  <2>1. leg.index \in Nat /\ IsArray(value) /\ leg.index < Len(value.array)
        /\ Child(value, leg) = value.array[leg.index + 1]
    BY <1>2, PartsTold DEF Child
  <2>2. leg.index + 1 \in 1 .. Len(value.array)
    BY <2>1, ValuesTold
  <2> QED BY <2>1, <2>2, ValuesTold
<1> QED BY <1>1, <1>2

(* Sets that are closed, put together. *)
LEMMA ClosedTogether ==
  ASSUME NEW sets, \A values \in sets : Closed(values)
  PROVE  Closed(UNION sets)
<1> SUFFICES ASSUME NEW values \in sets, NEW value \in values
             PROVE  /\ value.kind # "none"
                    /\ IsMap(value) => \A key \in DOMAIN value.map : value.map[key] \in UNION sets
                    /\ IsArray(value) => value.array \in Seq(UNION sets)
  BY DEF Closed
<1>1. /\ value.kind # "none"
      /\ IsMap(value) => \A key \in DOMAIN value.map : value.map[key] \in values
      /\ IsArray(value) => value.array \in Seq(values)
  BY DEF Closed
<1>2. values \subseteq UNION sets OBVIOUS
<1>3. ASSUME IsArray(value)
      PROVE  value.array \in Seq(UNION sets)
  BY <1>1, <1>3, <1>2
<1> QED BY <1>1, <1>2, <1>3

LEMMA OneMore ==
  ASSUME NEW values, Closed(values), NEW value, value.kind # "none",
         IsMap(value) => \A key \in DOMAIN value.map : value.map[key] \in values,
         IsArray(value) => value.array \in Seq(values)
  PROVE  IsValue(value)
<1> DEFINE U == values \cup {value}
<1>1. values \subseteq U OBVIOUS
<1>2. ASSUME NEW v \in U
      PROVE  /\ v.kind # "none"
             /\ IsMap(v) => \A key \in DOMAIN v.map : v.map[key] \in U
             /\ IsArray(v) => v.array \in Seq(U)
  <2>1. /\ v.kind # "none"
        /\ IsMap(v) => \A key \in DOMAIN v.map : v.map[key] \in values
        /\ IsArray(v) => v.array \in Seq(values)
    BY <1>2 DEF Closed
  <2>2. ASSUME IsArray(v) PROVE v.array \in Seq(U)
    <3>1. v.array \in Seq(values)
      BY <2>1, <2>2
    <3> HIDE DEF U
    <3> QED BY <1>1, <3>1
  <2> QED BY <1>1, <2>1, <2>2
<1>3. Closed(U)
  BY <1>2 DEF Closed
<1> QED BY <1>3 DEF IsValue

LEMMA NewValues ==
  ASSUME NEW parts, \A v \in parts : IsValue(v)
  PROVE  \E values : Closed(values) /\ parts \subseteq values
<1> DEFINE Of(v) == CHOOSE values : Closed(values) /\ v \in values
           sets == {Of(v) : v \in parts}
<1>1. \A v \in parts : Closed(Of(v)) /\ v \in Of(v)
  BY DEF IsValue
<1>2. Closed(UNION sets)
  <2>1. \A values \in sets : Closed(values)
    BY <1>1
  <2> HIDE DEF sets
  <2> QED BY <2>1, ClosedTogether
<1>3. parts \subseteq UNION sets
  BY <1>1
<1> QED BY <1>2, <1>3

LEMMA MapIsValue ==
  ASSUME NEW m, \A key \in DOMAIN m : IsValue(m[key])
  PROVE  IsValue(Map(m))
<1>1. PICK values : Closed(values) /\ {m[key] : key \in DOMAIN m} \subseteq values
  <2>1. \A v \in {m[key] : key \in DOMAIN m} : IsValue(v) OBVIOUS
  <2> QED BY <2>1, NewValues
<1>2. Map(m).kind # "none"
  BY DEF Map
<1> QED BY <1>1, <1>2, KindsTold, OneMore

LEMMA ArrayIsValue ==
  ASSUME NEW n \in Nat, NEW s, s = [i \in 1 .. n |-> s[i]], \A i \in 1 .. n : IsValue(s[i])
  PROVE  IsValue(Array(s))
<1>1. PICK values : Closed(values) /\ {s[i] : i \in 1 .. n} \subseteq values
  <2>1. \A v \in {s[i] : i \in 1 .. n} : IsValue(v) OBVIOUS
  <2> QED BY <2>1, NewValues
<1>2. s \in Seq(values)
  BY <1>1
<1>3. Array(s).kind # "none"
  BY DEF Array
<1> QED BY <1>1, <1>2, <1>3, KindsTold, OneMore

LEMMA SimpleValues ==
  IsValue(Null) /\ IsValue(Map(<<>>)) /\ IsValue(Array(<<>>))
<1>1. IsValue(Null)
  <2>1. Closed({}) /\ Null.kind # "none" /\ ~IsMap(Null) /\ ~IsArray(Null)
    BY DEF Closed, Null, IsMap, IsArray
  <2> QED BY <2>1, OneMore
<1>2. IsValue(Map(<<>>))
  <2>1. DOMAIN <<>> = {} OBVIOUS
  <2> QED BY <2>1, MapIsValue
<1>3. IsValue(Array(<<>>))
  <2>1. <<>> \in Seq({}) /\ Closed({}) /\ Array(<<>>).kind # "none"
    BY DEF Closed, Array
  <2> QED BY <2>1, KindsTold, OneMore
<1> QED BY <1>1, <1>2, <1>3

(* What is held where a part is set, and what is found in it. *)
LEMMA HeldIs ==
  ASSUME NEW value, NEW leg \in Part
  PROVE  /\ IF IsKey(leg) THEN IsMap(Held(value, leg)) ELSE IsArray(Held(value, leg))
         /\ value = NoValue \/ IsValue(value) => IsValue(Held(value, leg))
         /\ Child(value, leg) # NoValue => Held(value, leg) = value
<1>1. /\ IsKey(leg) => IsMap(Empty(leg))
      /\ ~IsKey(leg) => IsArray(Empty(leg))
      /\ IsValue(Empty(leg))
  BY KindsTold, SimpleValues DEF Empty
<1> QED BY <1>1, KindsTold DEF Held, Child

LEMMA HeldHas ==
  ASSUME NEW value, NEW leg \in Part, NEW other \in Part, IsKey(other) = IsKey(leg)
  PROVE  Child(Held(value, leg), other) = Child(value, other)
<1>1. CASE IF IsKey(leg) THEN IsMap(value) ELSE IsArray(value) BY <1>1 DEF Held
<1>2. CASE ~ IF IsKey(leg) THEN IsMap(value) ELSE IsArray(value)
  <2>1. Child(value, other) = NoValue
    BY <1>2 DEF Child
  <2>2. Child(Empty(leg), other) = NoValue
    <3>1. CASE IsKey(leg) BY <3>1, KindsTold DEF Empty, Child
    <3>2. CASE ~IsKey(leg)
      <4>1. Empty(leg) = Array(<<>>) /\ Array(<<>>).array = <<>> /\ Len(<<>>) = 0
        BY <3>2, KindsTold DEF Empty
      <4>2. other.index \in Nat /\ ~(other.index < 0)
        BY <3>2, PartsTold
      <4> QED BY <3>2, <4>1, <4>2 DEF Child
    <3> QED BY <3>1, <3>2
  <2> QED BY <1>2, <2>1, <2>2 DEF Held
<1> QED BY <1>1, <1>2

LEMMA PlacedMap ==
  ASSUME NEW held, NEW leg \in Part, IsKey(leg), NEW inner, NEW filler
  PROVE  LET map == Placed(held, leg, inner, filler).map
         IN  /\ IsMap(Placed(held, leg, inner, filler))
             /\ DOMAIN map = DOMAIN held.map \cup {leg.key}
             /\ map[leg.key] = inner
             /\ \A key \in DOMAIN held.map : key # leg.key => map[key] = held.map[key]
<1> DEFINE m == Overlaid(held.map, [key \in {leg.key} |-> inner])
<1>1. /\ DOMAIN m = DOMAIN held.map \cup {leg.key}
      /\ m[leg.key] = inner
      /\ \A key \in DOMAIN held.map : key # leg.key => m[key] = held.map[key]
  BY DEF Overlaid
<1>2. Placed(held, leg, inner, filler) = Map(m)
  BY DEF Placed
<1> HIDE DEF m
<1> QED BY <1>1, <1>2, KindsTold

ArrayPlaced(held, leg, inner, filler, n, s) ==
  LET extent == Len(held.array)
      at == leg.index + 1
  IN  /\ Placed(held, leg, inner, filler) = Array(s)
      /\ n = IF at > extent THEN at ELSE extent
      /\ n \in Nat /\ extent \in Nat /\ Len(s) = n /\ s = [i \in 1 .. n |-> s[i]]
      /\ \A i \in 1 .. n : s[i] = IF i = at THEN inner
                                  ELSE IF i > extent THEN filler ELSE held.array[i]

LEMMA PlacedArray ==
  ASSUME NEW held, \E S : held.array \in Seq(S), NEW leg \in Part, ~IsKey(leg),
         NEW inner, NEW filler
  PROVE  \E n, s : ArrayPlaced(held, leg, inner, filler, n, s)
<1> DEFINE extent == Len(held.array)
           at == leg.index + 1
           n == IF at > extent THEN at ELSE extent
           s == [i \in 1 .. n |-> IF i = at THEN inner ELSE IF i > extent THEN filler ELSE held.array[i]]
<1>1. extent \in Nat /\ at \in Nat /\ n \in Nat
  BY PartsTold
<1>2. Placed(held, leg, inner, filler) = Array(s)
  BY DEF Placed
<1>3. Len(s) = n
  <2> DEFINE T == {s[i] : i \in 1 .. n}
  <2>1. s \in [1 .. n -> T] OBVIOUS
  <2> HIDE DEF s, n
  <2>2. s \in Seq(T)
    BY <1>1, <2>1
  <2> QED BY <1>1, <2>1, <2>2
<1>4. s = [i \in 1 .. n |-> s[i]] OBVIOUS
<1>5. \A i \in 1 .. n : s[i] = IF i = at THEN inner ELSE IF i > extent THEN filler ELSE held.array[i]
  OBVIOUS
<1> HIDE DEF s
<1>6. ArrayPlaced(held, leg, inner, filler, n, s)
  BY <1>1, <1>2, <1>3, <1>4, <1>5 DEF ArrayPlaced
<1> QED BY <1>6

(* What was set is found; another part of the kind finds what it found, or  *)
(* what an array was filled with; one of the other kind finds nothing.      *)
LEMMA PlacedHas ==
  ASSUME NEW held, IsValue(held), NEW leg \in Part,
         IF IsKey(leg) THEN IsMap(held) ELSE IsArray(held),
         NEW inner, NEW filler, NEW other \in Part
  PROVE  Child(Placed(held, leg, inner, filler), other) =
           IF other = leg THEN inner
           ELSE IF IsKey(other) # IsKey(leg) THEN NoValue
           ELSE IF ~IsKey(leg) /\ other.index < leg.index /\ Child(held, other) = NoValue
             THEN filler
           ELSE Child(held, other)
<1> DEFINE placed == Placed(held, leg, inner, filler)
<1>1. CASE IsKey(leg)
  <2>1. /\ IsMap(placed) /\ DOMAIN placed.map = DOMAIN held.map \cup {leg.key}
        /\ placed.map[leg.key] = inner
        /\ \A key \in DOMAIN held.map : key # leg.key => placed.map[key] = held.map[key]
    BY <1>1, PlacedMap
  <2> HIDE DEF placed
  <2>2. CASE ~IsKey(other) BY <2>1, <1>1, <2>2 DEF IsMap, IsArray, Child, placed
  <2>3. CASE IsKey(other) /\ other # leg BY <1>1, <2>3, PartsDiffer, <2>1 DEF Child, placed
  <2>4. CASE other = leg BY <1>1, <2>1, <2>4 DEF Child, placed
  <2> QED BY <2>2, <2>3, <2>4
<1>2. CASE ~IsKey(leg)
  <2> DEFINE extent == Len(held.array)
             at == leg.index + 1
             n == IF at > extent THEN at ELSE extent
  <2>1. extent \in Nat /\ (\E S : held.array \in Seq(S)) /\ leg.index \in Nat
    BY <1>2, ValuesTold, PartsTold
  <2>5. PICK m, s : ArrayPlaced(held, leg, inner, filler, m, s)
    BY <1>2, <2>1, PlacedArray
  <2>2. /\ placed = Array(s) /\ Len(s) = n
        /\ \A i \in 1 .. n : s[i] = IF i = at THEN inner
                                    ELSE IF i > extent THEN filler ELSE held.array[i]
    BY <2>5 DEF ArrayPlaced
  <2>0. IsArray(placed) /\ ~IsMap(placed) /\ placed.array = s
    BY <2>2, KindsTold
  <2> HIDE DEF placed
  <2>3. CASE IsKey(other) BY <1>2, <2>0, <2>3 DEF Child, placed
  <2>4. CASE ~IsKey(other)
    <3> DEFINE j == other.index + 1
    <3>1. other.index \in Nat /\ (other # leg => other.index # leg.index)
      BY <1>2, <2>4, PartsTold, PartsDiffer
    <3>2. Child(placed, other) = IF other.index < n THEN s[j] ELSE NoValue
      BY <2>0, <2>2, <2>4 DEF Child
    <3>3. Child(held, other) = IF other.index < extent THEN held.array[j] ELSE NoValue
      BY <1>2, <2>4 DEF Child
    <3>4. other.index < extent => held.array[j] # NoValue
      BY <1>2, <2>1, <3>1, ValuesTold
    <3>5. other.index < n => j \in 1 .. n
      BY <2>1, <3>1
    <3>6. CASE other = leg
      <4>1. other.index < n /\ j = at
        BY <2>1, <3>1, <3>6
      <4>2. s[j] = inner
        BY <2>2, <3>5, <4>1
      <4> QED BY <3>2, <3>6, <4>1, <4>2 DEF placed
    <3>7. CASE other # leg
      <4>1. j # at /\ (other.index < n <=> other.index < extent \/ other.index < leg.index)
        BY <2>1, <3>1, <3>7
      <4>2. other.index < extent => ~(j > extent)
        BY <2>1, <3>1
      <4>3. CASE other.index < extent
        <5> HIDE DEF n, j, extent, at
        <5>1. other.index < n /\ j \in 1 .. n /\ ~(j > extent) /\ j # at
          BY <3>5, <4>1, <4>2, <4>3
        <5>2. s[j] = held.array[j]
          BY <2>2, <5>1
        <5>3. Child(placed, other) = Child(held, other) /\ Child(held, other) # NoValue
          BY <3>2, <3>3, <3>4, <4>3, <5>1, <5>2
        <5> QED BY <1>2, <2>4, <3>7, <5>3 DEF placed, IsKey
      <4>4. CASE ~(other.index < extent)
        <5>1. j > extent
          BY <2>1, <3>1, <4>4
        <5> HIDE DEF n, j, extent, at
        <5> QED BY <1>2, <2>2, <2>4, <3>2, <3>3, <3>5, <3>7, <4>1, <4>4, <5>1 DEF placed, IsKey
      <4> QED BY <4>3, <4>4
    <3> QED BY <3>6, <3>7
  <2> QED BY <2>3, <2>4
<1> QED BY <1>1, <1>2

LEMMA PlacedIsValue ==
  ASSUME NEW held, IsValue(held), NEW leg \in Part,
         IF IsKey(leg) THEN IsMap(held) ELSE IsArray(held),
         NEW inner, IsValue(inner), NEW filler, IsValue(filler)
  PROVE  IsValue(Placed(held, leg, inner, filler))
<1>1. CASE IsKey(leg)
  <2> DEFINE m == Overlaid(held.map, [key \in {leg.key} |-> inner])
  <2>1. \A key \in DOMAIN m : m[key] = inner \/ (key \in DOMAIN held.map /\ m[key] = held.map[key])
    BY DEF Overlaid
  <2>2. Placed(held, leg, inner, filler) = Map(m)
    BY <1>1 DEF Placed
  <2> HIDE DEF m
  <2>3. \A key \in DOMAIN m : IsValue(m[key])
    BY <1>1, <2>1, ValuesTold
  <2> QED BY <2>2, <2>3, MapIsValue
<1>2. CASE ~IsKey(leg)
  <2> DEFINE extent == Len(held.array)
             at == leg.index + 1
  <2>1. PICK n, s : ArrayPlaced(held, leg, inner, filler, n, s)
    BY <1>2, ValuesTold, PlacedArray
  <2>2. /\ Placed(held, leg, inner, filler) = Array(s)
        /\ n \in Nat /\ extent \in Nat /\ s = [i \in 1 .. n |-> s[i]]
        /\ \A i \in 1 .. n : s[i] = IF i = at THEN inner
                                    ELSE IF i > extent THEN filler ELSE held.array[i]
    BY <2>1 DEF ArrayPlaced
  <2>3. \A i \in 1 .. n : IsValue(s[i])
    <3> SUFFICES ASSUME NEW i \in 1 .. n PROVE IsValue(s[i]) OBVIOUS
    <3>1. s[i] \in {inner, filler} \/ (i \in 1 .. extent /\ s[i] = held.array[i])
      BY <2>2
    <3>2. i \in 1 .. extent => IsValue(held.array[i])
      BY <1>2, ValuesTold DEF extent
    <3> QED BY <3>1, <3>2
  <2> QED BY <2>2, <2>3, ArrayIsValue
<1> QED BY <1>1, <1>2

-----------------------------------------------------------------------------
(* A value put where a path leads, and what other paths find then. *)
LEMMA FillerIsValue ==
  ASSUME NEW p \in Seq(Part), NEW k \in 1 .. Len(p)
  PROVE  IsValue(Filler(p, k)) /\ \A leg \in Part : Child(Filler(p, k), leg) = NoValue
<1>1. IsValue(Null) /\ \A leg \in Part : Child(Null, leg) = NoValue
  BY SimpleValues DEF Null, Child, IsMap, IsArray
<1>2. \A leg \in Part : IsValue(Empty(leg)) /\ \A other \in Part : Child(Empty(leg), other) = NoValue
  <2> SUFFICES ASSUME NEW leg \in Part, NEW other \in Part
               PROVE  IsValue(Empty(leg)) /\ Child(Empty(leg), other) = NoValue
    OBVIOUS
  <2>1. DOMAIN <<>> = {} /\ Len(<<>>) = 0 OBVIOUS
  <2>2. ~IsKey(other) => other.index \in Nat /\ ~(other.index < 0)
    BY PartsTold
  <2> QED BY <2>1, <2>2, KindsTold, SimpleValues DEF Empty, Child
<1>3. k # Len(p) => p[k + 1] \in Part OBVIOUS
<1> QED BY <1>1, <1>2, <1>3 DEF Filler

LEMMA ReachedIsValue ==
  ASSUME NEW value, IsValue(value), NEW p \in Seq(Part), NEW n \in 0 .. Len(p)
  PROVE  Reached(value, p)[n] = NoValue \/ IsValue(Reached(value, p)[n])
<1> DEFINE Bad == {k \in 0 .. n : ~(Reached(value, p)[k] = NoValue \/ IsValue(Reached(value, p)[k]))}
<1>1. SUFFICES ASSUME Bad # {} PROVE FALSE OBVIOUS
<1>2. Bad \in SUBSET Nat OBVIOUS
<1>3. PICK k \in Bad : \A j \in Bad : k <= j
  <2> HIDE DEF Bad
  <2> QED BY <1>1, <1>2, LeastOf
<1>4. k # 0
  BY <1>3, ReachedIs
<1>5. k - 1 \in 0 .. n /\ k - 1 \notin Bad /\ k \in 1 .. Len(p)
  BY <1>3, <1>4
<1>6. Reached(value, p)[k - 1] = NoValue \/ IsValue(Reached(value, p)[k - 1])
  BY <1>5
<1>7. Reached(value, p)[k] = Child(Reached(value, p)[k - 1], p[k]) /\ p[k] \in Part
  BY <1>5, ReachedIs
<1>8. IsValue(Reached(value, p)[k - 1]) => Reached(value, p)[k] = NoValue \/ IsValue(Reached(value, p)[k])
  BY <1>7, ChildIsValue
<1> QED BY <1>3, <1>6, <1>7, <1>8, NoneHasNone

(* The map or array that is at the k-th part, before it is set. *)
HeldAt(value, p, k) == Held(Reached(value, p)[k - 1], p[k])

LEMMA HeldAtIs ==
  ASSUME NEW value, IsValue(value), NEW p \in Seq(Part), NEW k \in 1 .. Len(p)
  PROVE  /\ IsValue(HeldAt(value, p, k))
         /\ IF IsKey(p[k]) THEN IsMap(HeldAt(value, p, k)) ELSE IsArray(HeldAt(value, p, k))
         /\ \A other \in Part : IsKey(other) = IsKey(p[k]) =>
              Child(HeldAt(value, p, k), other) = Child(Reached(value, p)[k - 1], other)
<1>1. k - 1 \in 0 .. Len(p) /\ p[k] \in Part OBVIOUS
<1>2. Reached(value, p)[k - 1] = NoValue \/ IsValue(Reached(value, p)[k - 1])
  BY <1>1, ReachedIsValue
<1> QED BY <1>1, <1>2, HeldIs, HeldHas DEF HeldAt

LEMMA StandsIsValue ==
  ASSUME NEW value, IsValue(value), NEW p \in Seq(Part), NEW k \in 1 .. Len(p),
         NEW inner, IsValue(inner)
  PROVE  IsValue(Stands(value, p, k, inner))
<1>1. p[k] \in Part OBVIOUS
<1> QED BY <1>1, HeldAtIs, FillerIsValue, PlacedIsValue DEF Stands, HeldAt

LEMMA StandsHas ==
  ASSUME NEW value, IsValue(value), NEW p \in Seq(Part), NEW k \in 1 .. Len(p),
         NEW inner, NEW other \in Part
  PROVE  Child(Stands(value, p, k, inner), other) =
           IF other = p[k] THEN inner
           ELSE IF IsKey(other) # IsKey(p[k]) THEN NoValue
           ELSE IF /\ ~IsKey(p[k]) /\ other.index < p[k].index
                   /\ Child(Reached(value, p)[k - 1], other) = NoValue
             THEN Filler(p, k)
           ELSE Child(Reached(value, p)[k - 1], other)
<1>1. p[k] \in Part OBVIOUS
<1>2. Stands(value, p, k, inner) = Placed(HeldAt(value, p, k), p[k], inner, Filler(p, k))
  BY DEF Stands, HeldAt
<1>3. /\ IsValue(HeldAt(value, p, k))
      /\ IF IsKey(p[k]) THEN IsMap(HeldAt(value, p, k)) ELSE IsArray(HeldAt(value, p, k))
      /\ IsKey(other) = IsKey(p[k]) =>
           Child(HeldAt(value, p, k), other) = Child(Reached(value, p)[k - 1], other)
  BY HeldAtIs
<1>4. Child(Stands(value, p, k, inner), other) =
        IF other = p[k] THEN inner
        ELSE IF IsKey(other) # IsKey(p[k]) THEN NoValue
        ELSE IF ~IsKey(p[k]) /\ other.index < p[k].index /\ Child(HeldAt(value, p, k), other) = NoValue
          THEN Filler(p, k)
        ELSE Child(HeldAt(value, p, k), other)
  BY <1>1, <1>2, <1>3, PlacedHas
<1> QED BY <1>3, <1>4

LEMMA RebuiltIsValue ==
  ASSUME NEW value, IsValue(value), NEW p \in Seq(Part), NEW new, IsValue(new)
  PROVE  \A k \in 1 .. Len(p) + 1 : IsValue(Rebuilt(value, p, new)[k])
<1> DEFINE last == Len(p)
           f == Rebuilt(value, p, new)
           Bad == {m \in 0 .. last : ~IsValue(f[last + 1 - m])}
<1>0. last \in Nat OBVIOUS
<1>1. Bad = {}
  <2>1. SUFFICES ASSUME Bad # {} PROVE FALSE OBVIOUS
  <2>2. Bad \in SUBSET Nat OBVIOUS
  <2>3. PICK m \in Bad : \A j \in Bad : m <= j
    <3> HIDE DEF Bad
    <3> QED BY <2>1, <2>2, LeastOf
  <2>4. f[last + 1] = new /\ \A k \in 1 .. last : f[k] = Stands(value, p, k, f[k + 1])
    BY RebuiltIs
  <2> HIDE DEF f, last
  <2>5. m # 0
    BY <1>0, <2>3, <2>4
  <2> DEFINE a == last + 1 - m
  <2>6. a \in 1 .. last /\ m - 1 \in 0 .. last /\ m - 1 \notin Bad /\ last + 1 - (m - 1) = a + 1
    <3>1. m \in 0 .. last /\ m - 1 < m
      BY <2>3
    <3>2. m - 1 \in 0 .. last
      BY <1>0, <2>5, <3>1
    <3>3. m - 1 \notin Bad
      BY <2>3, <3>1, <3>2
    <3> HIDE DEF Bad
    <3> QED BY <1>0, <2>5, <3>1, <3>2, <3>3
  <2>7. IsValue(f[a + 1])
    BY <2>6
  <2>8. f[a] = Stands(value, p, a, f[a + 1])
    BY <2>4, <2>6
  <2>9. IsValue(f[a])
    BY <2>6, <2>7, <2>8, StandsIsValue DEF last
  <2> QED BY <2>3, <2>9
<1> HIDE DEF f
<1>2. ASSUME NEW k \in 1 .. last + 1 PROVE IsValue(f[k])
  <2>1. last + 1 - k \in 0 .. last /\ last + 1 - (last + 1 - k) = k
    BY <1>0
  <2> QED BY <1>1, <2>1
<1> QED BY <1>2 DEF f

LEMMA PutIsValue ==
  ASSUME NEW value, IsValue(value), NEW p \in Seq(Part), NEW new, IsValue(new)
  PROVE  IsValue(Put(value, p, new))
BY RebuiltIsValue DEF Put

(* Along the path that was set stands what was rebuilt. *)
LEMMA PutLeads ==
  ASSUME NEW value, IsValue(value), NEW p \in Seq(Part), NEW new, NEW n \in 0 .. Len(p)
  PROVE  Reached(Put(value, p, new), p)[n] = Rebuilt(value, p, new)[n + 1]
<1> DEFINE f == Rebuilt(value, p, new)
           after == Put(value, p, new)
           Bad == {k \in 0 .. n : Reached(after, p)[k] # f[k + 1]}
<1>1. SUFFICES ASSUME Bad # {} PROVE FALSE OBVIOUS
<1>2. Bad \in SUBSET Nat OBVIOUS
<1>3. PICK k \in Bad : \A j \in Bad : k <= j
  <2> HIDE DEF Bad
  <2> QED BY <1>1, <1>2, LeastOf
<1>4. k # 0
  BY <1>3, ReachedIs DEF Put
<1>5. k - 1 \in 0 .. n /\ k - 1 \notin Bad /\ k \in 1 .. Len(p) /\ k - 1 + 1 = k
  BY <1>3, <1>4
<1>6. Reached(after, p)[k - 1] = f[k]
  BY <1>5
<1>7. f[k] = Stands(value, p, k, f[k + 1]) /\ p[k] \in Part
  BY <1>5, RebuiltIs
<1>8. Reached(after, p)[k] = Child(Reached(after, p)[k - 1], p[k])
  BY <1>5, ReachedIs
<1> HIDE DEF f, after
<1>9. Child(Stands(value, p, k, f[k + 1]), p[k]) = f[k + 1]
  BY <1>5, <1>7, StandsHas
<1> QED BY <1>3, <1>6, <1>7, <1>8, <1>9

LEMMA PutReads ==
  ASSUME NEW value, IsValue(value), NEW p \in Seq(Part), NEW new
  PROVE  Get(Put(value, p, new), p) = new
<1>1. Len(p) \in 0 .. Len(p) OBVIOUS
<1> QED BY <1>1, PutLeads, RebuiltIs DEF Get

LEMMA PutApart ==
  ASSUME NEW value, IsValue(value), NEW p \in Seq(Part), NEW new, NEW q \in Seq(Part),
         NEW n \in Nat, n < Len(p), n < Len(q), \A k \in 1 .. n : p[k] = q[k],
         p[n + 1] # q[n + 1]
  PROVE  Reached(Put(value, p, new), q)[n + 1] =
           IF IsKey(q[n + 1]) # IsKey(p[n + 1]) THEN NoValue
           ELSE IF /\ ~IsKey(p[n + 1]) /\ q[n + 1].index < p[n + 1].index
                   /\ Reached(value, q)[n + 1] = NoValue
             THEN Filler(p, n + 1)
           ELSE Reached(value, q)[n + 1]
<1> DEFINE after == Put(value, p, new)
           inner == Rebuilt(value, p, new)[n + 2]
<1>1. /\ n \in 0 .. Len(p) /\ n + 1 \in 1 .. Len(p) /\ n + 1 \in 1 .. Len(q) /\ n + 1 - 1 = n
      /\ n + 1 + 1 = n + 2 /\ q[n + 1] \in Part /\ p[n + 1] \in Part
  OBVIOUS
<1>3. Reached(after, q)[n] = Reached(after, p)[n] /\ Reached(value, q)[n] = Reached(value, p)[n]
  <2>1. n <= Len(p) /\ n <= Len(q)
    BY <1>1
  <2> HIDE DEF after
  <2> QED BY <2>1, PrefixAgrees
<1>4. Reached(after, p)[n] = Stands(value, p, n + 1, inner)
  BY <1>1, PutLeads, RebuiltIs
<1>5. /\ Reached(after, q)[n + 1] = Child(Reached(after, q)[n], q[n + 1])
      /\ Reached(value, q)[n + 1] = Child(Reached(value, q)[n], q[n + 1])
  <2>1. PICK l \in 1 .. Len(q) : l = n + 1 /\ l - 1 = n
    BY <1>1
  <2>2. \A v : Reached(v, q)[l] = Child(Reached(v, q)[l - 1], q[l])
    BY ReachedIs
  <2> QED BY <2>1, <2>2
<1> HIDE DEF after, inner
<1>6. Child(Stands(value, p, n + 1, inner), q[n + 1]) =
        IF IsKey(q[n + 1]) # IsKey(p[n + 1]) THEN NoValue
        ELSE IF /\ ~IsKey(p[n + 1]) /\ q[n + 1].index < p[n + 1].index
                /\ Child(Reached(value, p)[n], q[n + 1]) = NoValue
          THEN Filler(p, n + 1)
        ELSE Child(Reached(value, p)[n], q[n + 1])
  BY <1>1, StandsHas
<1> QED BY <1>3, <1>4, <1>5, <1>6 DEF after

(* Where the path exists already, what leaves it stays. *)
LEMMA LowerIsThere ==
  ASSUME NEW value, NEW leg \in Part, NEW other \in Part, Child(value, leg) # NoValue,
         value = NoValue \/ IsValue(value)
  PROVE  /\ IsKey(other) # IsKey(leg) => Child(value, other) = NoValue
         /\ ~IsKey(leg) /\ ~IsKey(other) /\ other.index < leg.index => Child(value, other) # NoValue
<1>0. IsValue(value)
  BY NoneHasNone
<1>1. ASSUME IsKey(other) # IsKey(leg) PROVE Child(value, other) = NoValue
  <2>1. IsKey(leg) => IsMap(value) /\ ~IsArray(value)
    BY DEF Child, IsMap, IsArray
  <2>2. ~IsKey(leg) => IsArray(value) /\ ~IsMap(value)
    BY DEF Child, IsMap, IsArray
  <2> QED BY <1>1, <2>1, <2>2 DEF Child, IsKey
<1>2. ASSUME ~IsKey(leg), ~IsKey(other), other.index < leg.index
      PROVE  Child(value, other) # NoValue
  <2>1. IsArray(value) /\ leg.index < Len(value.array)
    BY <1>2 DEF Child
  <2>2. other.index \in Nat /\ leg.index \in Nat /\ Len(value.array) \in Nat
    BY <1>0, <1>2, <2>1, PartsTold, ValuesTold
  <2>3. other.index + 1 \in 1 .. Len(value.array) /\ other.index < Len(value.array)
    BY <1>2, <2>1, <2>2
  <2> QED BY <1>0, <1>2, <2>1, <2>3, ValuesTold DEF Child
<1> QED BY <1>1, <1>2

LEMMA PutThere ==
  ASSUME NEW value, IsValue(value), NEW p \in Seq(Part), NEW new, NEW q \in Seq(Part),
         NEW n \in Nat, n < Len(p), n < Len(q), \A k \in 1 .. n : p[k] = q[k],
         p[n + 1] # q[n + 1], Reached(value, p)[n + 1] # NoValue
  PROVE  Get(Put(value, p, new), q) = Get(value, q)
<1> DEFINE after == Put(value, p, new)
<1>1. /\ n \in 0 .. Len(p) /\ n + 1 \in 1 .. Len(p) /\ n + 1 \in 1 .. Len(q) /\ n + 1 - 1 = n
      /\ q[n + 1] \in Part /\ p[n + 1] \in Part
  OBVIOUS
<1>2. Reached(value, q)[n] = Reached(value, p)[n]
  BY <1>1, PrefixAgrees
<1>3. /\ Reached(value, p)[n + 1] = Child(Reached(value, p)[n], p[n + 1])
      /\ Reached(value, q)[n + 1] = Child(Reached(value, q)[n], q[n + 1])
  BY <1>1, ReachedIs
<1>4. Reached(value, p)[n] = NoValue \/ IsValue(Reached(value, p)[n])
  BY <1>1, ReachedIsValue
<1>5. /\ IsKey(q[n + 1]) # IsKey(p[n + 1]) => Reached(value, q)[n + 1] = NoValue
      /\ ~IsKey(p[n + 1]) /\ ~IsKey(q[n + 1]) /\ q[n + 1].index < p[n + 1].index
           => Reached(value, q)[n + 1] # NoValue
  BY <1>1, <1>2, <1>3, <1>4, LowerIsThere
<1>6. Reached(after, q)[n + 1] = Reached(value, q)[n + 1]
  <2>1. Reached(after, q)[n + 1] =
           IF IsKey(q[n + 1]) # IsKey(p[n + 1]) THEN NoValue
           ELSE IF /\ ~IsKey(p[n + 1]) /\ q[n + 1].index < p[n + 1].index
                   /\ Reached(value, q)[n + 1] = NoValue
             THEN Filler(p, n + 1)
           ELSE Reached(value, q)[n + 1]
    BY PutApart
  <2> HIDE DEF after
  <2> QED BY <1>5, <2>1
<1>7. n + 1 \in Nat /\ n + 1 <= Len(q) /\ SameParts(q, q, n + 1, Len(q))
  BY <1>1 DEF SameParts
<1> HIDE DEF after
<1>8. PICK m \in Nat : m = n + 1
  BY <1>7
<1>9. m <= Len(q) /\ SameParts(q, q, m, Len(q)) /\ Reached(after, q)[m] = Reached(value, q)[m]
  BY <1>6, <1>7, <1>8
<1>10. Get(after, q) = Get(value, q)
  BY <1>9, RestAgrees
<1> QED BY <1>10 DEF after

(* How far two paths go together. *)
LEMMA LeastOfTwo ==
  ASSUME NEW a \in Nat, NEW b \in Nat
  PROVE  Min({a, b}) = IF a <= b THEN a ELSE b
<1>1. {a, b} \in SUBSET Nat /\ {a, b} # {} OBVIOUS
<1>2. Min({a, b}) \in {a, b} /\ \A n \in {a, b} : Min({a, b}) <= n
  BY <1>1, LeastOf
<1> QED BY <1>2

LEMMA GreatestOf ==
  ASSUME NEW S \in SUBSET Nat, S # {}, NEW bound \in Nat, \A n \in S : n <= bound
  PROVE  Max(S) \in S /\ \A n \in S : n <= Max(S)
<1> DEFINE Bounds == {b \in Nat : \A n \in S : n <= b}
<1>1. Bounds \in SUBSET Nat /\ Bounds # {} OBVIOUS
<1>2. PICK b \in Bounds : \A c \in Bounds : b <= c
  <2> HIDE DEF Bounds
  <2> QED BY <1>1, LeastOf
<1>3. b \in S
  <2>1. SUFFICES ASSUME b \notin S PROVE FALSE OBVIOUS
  <2>2. \A n \in S : n < b
    BY <1>2, <2>1
  <2>3. b # 0
    <3>1. PICK n \in S : TRUE OBVIOUS
    <3> QED BY <2>2, <3>1
  <2>4. b - 1 \in Bounds
    BY <1>2, <2>2, <2>3
  <2> QED BY <1>2, <2>4
<1>4. \E m \in S : \A n \in S : m >= n
  BY <1>2, <1>3
<1> QED BY <1>4 DEF Max

LEMMA PathsPart ==
  ASSUME NEW p \in Seq(Part), NEW q \in Seq(Part), Apart(p, q)
  PROVE  \E n \in Nat : /\ SharedParts(p, q) = n /\ n < Len(p) /\ n < Len(q)
                        /\ \A k \in 1 .. n : p[k] = q[k]
                        /\ p[n + 1] # q[n + 1]
<1> DEFINE m == Min({Len(p), Len(q)})
           S == {0} \cup {n \in 1 .. m : SubSeq(p, 1, n) = SubSeq(q, 1, n)}
           n == Max(S)
<1>1. m \in Nat /\ m <= Len(p) /\ m <= Len(q)
  BY LeastOfTwo
<1>2. S \in SUBSET Nat /\ S # {} /\ \A i \in S : i <= m
  <2> HIDE DEF m
  <2> QED BY <1>1
<1>3. n \in S /\ \A i \in S : i <= n
  <2> HIDE DEF S, m
  <2> QED BY <1>1, <1>2, GreatestOf
<1>4. SharedParts(p, q) = n /\ n < m
  BY DEF Apart, SharedParts
<1> HIDE DEF m
<1>5. n \in Nat /\ n < Len(p) /\ n < Len(q)
  BY <1>1, <1>3, <1>4
<1> HIDE DEF n
<1>6. \A k \in 1 .. n : p[k] = q[k]
  <2> SUFFICES ASSUME NEW k \in 1 .. n PROVE p[k] = q[k] OBVIOUS
  <2>1. SubSeq(p, 1, n) = SubSeq(q, 1, n)
    BY <1>3, <1>5
  <2>2. SubSeq(p, 1, n)[k] = p[k] /\ SubSeq(q, 1, n)[k] = q[k]
    BY <1>5
  <2> QED BY <2>1, <2>2
<1>7. ASSUME p[n + 1] = q[n + 1] PROVE FALSE
  <2>1. \A k \in 1 .. n + 1 : p[k] = q[k]
    BY <1>5, <1>6, <1>7
  <2>2. SubSeq(p, 1, n + 1) = SubSeq(q, 1, n + 1)
    BY <1>5, <2>1
  <2>3. n + 1 \in 1 .. m
    BY <1>1, <1>4, <1>5
  <2>4. n + 1 \in S
    BY <2>2, <2>3
  <2> QED BY <1>3, <1>5, <2>4
<1> QED BY <1>4, <1>5, <1>6, <1>7

(* What is left where a part was taken away. *)
LEMMA RemovedAt ==
  ASSUME NEW S, NEW s \in Seq(S), NEW i \in 1 .. Len(s)
  PROVE  /\ RemoveAt(s, i) \in Seq(S)
         /\ Len(RemoveAt(s, i)) = Len(s) - 1
         /\ \A j \in 1 .. Len(s) - 1 : RemoveAt(s, i)[j] = IF j < i THEN s[j] ELSE s[j + 1]
<1> DEFINE a == SubSeq(s, 1, i - 1)
           b == SubSeq(s, i + 1, Len(s))
<1>1. Len(s) \in Nat /\ i \in Nat /\ 1 <= i /\ i <= Len(s) OBVIOUS
<1>2. a \in Seq(S) /\ Len(a) = i - 1 /\ \A j \in 1 .. i - 1 : a[j] = s[j]
  BY <1>1
<1>3. b \in Seq(S) /\ Len(b) = Len(s) - i /\ \A j \in 1 .. Len(s) - i : b[j] = s[j + i]
  BY <1>1
<1>4. RemoveAt(s, i) = a \o b
  BY DEF RemoveAt
<1> HIDE DEF a, b
<1>5. /\ a \o b \in Seq(S) /\ Len(a \o b) = Len(s) - 1
      /\ \A j \in 1 .. Len(s) - 1 : (a \o b)[j] = IF j <= i - 1 THEN a[j] ELSE b[j - (i - 1)]
  <2>1. /\ a \o b \in Seq(S) /\ Len(a \o b) = Len(a) + Len(b)
        /\ \A j \in 1 .. Len(a) + Len(b) : (a \o b)[j] = IF j <= Len(a) THEN a[j] ELSE b[j - Len(a)]
    BY <1>2, <1>3, ConcatProperties
  <2>2. Len(a) = i - 1 /\ Len(a) + Len(b) = Len(s) - 1
    BY <1>1, <1>2, <1>3
  <2> QED BY <2>1, <2>2
<1>6. ASSUME NEW j \in 1 .. Len(s) - 1
      PROVE  (a \o b)[j] = IF j < i THEN s[j] ELSE s[j + 1]
  <2>1. CASE j < i BY <1>1, <1>2, <1>5, <2>1
  <2>2. CASE ~(j < i)
    <3>1. j - (i - 1) \in 1 .. Len(s) - i /\ j - (i - 1) + i = j + 1
      BY <1>1, <2>2
    <3>2. b[j - (i - 1)] = s[j - (i - 1) + i]
      BY <1>3, <3>1
    <3> QED BY <1>1, <1>5, <2>2, <3>1, <3>2
  <2> QED BY <2>1, <2>2
<1> QED BY <1>4, <1>5, <1>6

LEMMA WithoutIs ==
  ASSUME NEW value, IsValue(value), NEW leg \in Part, Child(value, leg) # NoValue
  PROVE  /\ IsValue(Without(value, leg))
         /\ \A other \in Part :
              Child(Without(value, leg), other) =
                IF other = leg /\ IsKey(leg) THEN NoValue
                ELSE IF ~IsKey(leg) /\ ~IsKey(other) /\ leg.index <= other.index
                  THEN Child(value, IndexPart(other.index + 1))
                ELSE Child(value, other)
<1>1. CASE IsKey(leg)
  <2> DEFINE m == Restrict(value.map, DOMAIN value.map \ {leg.key})
  <2>1. Without(value, leg) = Map(m) /\ IsMap(value)
    BY <1>1 DEF Without, Child
  <2>2. /\ DOMAIN m = DOMAIN value.map \ {leg.key}
        /\ \A key \in DOMAIN value.map : key # leg.key => m[key] = value.map[key]
    BY DEF Restrict
  <2> HIDE DEF m
  <2>3. IsValue(Map(m))
    BY <2>1, <2>2, ValuesTold, MapIsValue
  <2>4. ASSUME NEW other \in Part
        PROVE  Child(Map(m), other) = IF other = leg THEN NoValue ELSE Child(value, other)
    <3>1. CASE ~IsKey(other) BY <1>1, <2>1, <3>1, KindsTold DEF IsMap, IsArray, Child
    <3>2. CASE other = leg BY <1>1, <2>2, <3>2, KindsTold DEF Child
    <3>3. CASE IsKey(other) /\ other # leg BY <1>1, <3>3, PartsTold, <2>1, <2>2, KindsTold DEF Child
    <3> QED BY <3>1, <3>2, <3>3
  <2> QED BY <1>1, <2>1, <2>3, <2>4
<1>2. CASE ~IsKey(leg)
  <2>1. /\ IsArray(value) /\ ~IsMap(value) /\ leg.index \in Nat /\ leg.index < Len(value.array)
        /\ Len(value.array) \in Nat
    BY <1>2, PartsTold, ValuesTold DEF Child, IsMap, IsArray
  <2>2. PICK S : value.array \in Seq(S)
    BY <2>1, ValuesTold
  <2> DEFINE i == leg.index + 1
             s == RemoveAt(value.array, i)
             n == Len(value.array) - 1
  <2>3. i \in 1 .. Len(value.array) /\ n \in Nat
    BY <2>1
  <2>4. Without(value, leg) = Array(s)
    BY <1>2 DEF Without
  <2>5. /\ s \in Seq(S) /\ Len(s) = n
        /\ \A j \in 1 .. n : s[j] = IF j < i THEN value.array[j] ELSE value.array[j + 1]
    <3> HIDE DEF i
    <3> QED BY <2>2, <2>3, RemovedAt
  <2> HIDE DEF s
  <2>6. IsValue(Array(s))
    <3>1. s = [j \in 1 .. n |-> s[j]]
      BY <2>5
    <3>2. \A j \in 1 .. n : IsValue(s[j])
      <4> SUFFICES ASSUME NEW j \in 1 .. n PROVE IsValue(s[j]) OBVIOUS
      <4>1. j \in 1 .. Len(value.array) /\ j + 1 \in 1 .. Len(value.array)
        BY <2>1
      <4> QED BY <2>1, <2>5, <4>1, ValuesTold
    <3> HIDE DEF n
    <3> QED BY <2>3, <3>1, <3>2, ArrayIsValue
  <2>7. ASSUME NEW other \in Part
        PROVE  Child(Array(s), other) =
                 IF ~IsKey(other) /\ leg.index <= other.index
                   THEN Child(value, IndexPart(other.index + 1)) ELSE Child(value, other)
    <3>1. CASE IsKey(other) BY <2>1, <3>1, KindsTold DEF Child
    <3>2. CASE ~IsKey(other)
      <4>1. other.index \in Nat
        BY <3>2, PartsTold
      <4>2. Child(Array(s), other) = IF other.index < n THEN s[other.index + 1] ELSE NoValue
        BY <2>5, <3>2, KindsTold DEF Child
      <4>3. CASE leg.index <= other.index
        <5>1. other.index + 1 \in Nat
          BY <4>1
        <5>2. ~IsKey(IndexPart(other.index + 1)) /\ IndexPart(other.index + 1).index = other.index + 1
          BY <5>1, IndexesTold
        <5>3. Child(value, IndexPart(other.index + 1)) =
                IF other.index + 1 < Len(value.array) THEN value.array[other.index + 1 + 1] ELSE NoValue
          BY <2>1, <5>2 DEF Child
        <5>4. other.index < n <=> other.index + 1 < Len(value.array)
          BY <2>1, <4>1
        <5>5. other.index < n => s[other.index + 1] = value.array[other.index + 1 + 1]
          <6> SUFFICES ASSUME other.index < n PROVE s[other.index + 1] = value.array[other.index + 1 + 1]
            OBVIOUS
          <6>1. other.index + 1 \in 1 .. n /\ ~(other.index + 1 < i)
            BY <2>1, <4>1, <4>3
          <6> QED BY <2>5, <6>1
        <5> QED BY <3>2, <4>2, <4>3, <5>3, <5>4, <5>5
      <4>4. CASE ~(leg.index <= other.index)
        <5>1. other.index < n /\ other.index + 1 \in 1 .. n /\ other.index + 1 < i
              /\ other.index < Len(value.array)
          BY <2>1, <4>1, <4>4
        <5>2. s[other.index + 1] = value.array[other.index + 1]
          BY <2>5, <5>1
        <5>3. Child(value, other) = value.array[other.index + 1]
          BY <2>1, <3>2, <5>1 DEF Child
        <5> QED BY <3>2, <4>2, <4>4, <5>1, <5>2, <5>3
      <4> QED BY <4>3, <4>4
    <3> QED BY <3>1, <3>2
  <2> QED BY <1>2, <2>4, <2>6, <2>7
<1> QED BY <1>1, <1>2

-----------------------------------------------------------------------------
(* What set and remove keep. *)
PathsRead == \A path \in Paths : Parts[path] \in Seq(Part)

LEMMA SetKeepsFollows ==
  ASSUME PathsRead, IsValue(config), NEW path \in Paths, NEW value, IsValue(value)
  PROVE  SetKeeps(path, value)
<1> DEFINE p == Parts[path]
           after == set(config, path, value)
<1>1. p \in Seq(Part) /\ after = Put(config, p, value)
  BY DEF PathsRead, set
<1>2. get(after, path) = value
  BY <1>1, PutReads DEF get
<1>3. value # NoValue
  BY ValuesTold
<1>4. FromConfigValue(value.kind, value) = value.is
  BY <1>3 DEF FromConfigValue
<1>5. ASSUME NEW other \in Paths, Apart(p, Parts[other])
      PROVE  LET q == Parts[other]
                 leaves == SharedParts(p, q) + 1
                 was == get(config, other)
                 is == get(after, other)
             IN  CASE was # NoValue ->
                        is = IF IsKey(p[leaves]) = IsKey(q[leaves]) THEN was ELSE NoValue
                   [] was = NoValue /\ is # NoValue ->
                        /\ ~IsKey(p[leaves]) /\ ~IsKey(q[leaves]) /\ Len(q) = leaves
                        /\ q[leaves].index < p[leaves].index
                   [] OTHER -> TRUE
  <2> DEFINE q == Parts[other]
             was == get(config, other)
             is == get(after, other)
  <2>1. q \in Seq(Part)
    BY DEF PathsRead
  <2>2. PICK n \in Nat : /\ SharedParts(p, q) = n /\ n < Len(p) /\ n < Len(q)
                         /\ \A k \in 1 .. n : p[k] = q[k]
                         /\ p[n + 1] # q[n + 1]
    BY <1>1, <1>5, <2>1, PathsPart
  <2>3. was = Get(config, q) /\ is = Get(Put(config, p, value), q)
    BY <1>1 DEF get
  <2> HIDE DEF p, q, was, is
  <2> DEFINE now == Reached(Put(config, p, value), q)[n + 1]
             before == Reached(config, q)[n + 1]
  <2>4. now = IF IsKey(q[n + 1]) # IsKey(p[n + 1]) THEN NoValue
              ELSE IF /\ ~IsKey(p[n + 1]) /\ q[n + 1].index < p[n + 1].index
                      /\ before = NoValue
                THEN Filler(p, n + 1)
              ELSE before
    BY <1>1, <2>1, <2>2, PutApart
  <2>5. PICK m \in Nat : m = n + 1 /\ m <= Len(q) /\ m \in 1 .. Len(p) /\ SameParts(q, q, m, Len(q))
    BY <1>1, <2>1, <2>2 DEF SameParts
  <2>6. now = NoValue => is = NoValue
    BY <2>1, <2>3, <2>5, NoneStays DEF Get
  <2>7. before = NoValue => was = NoValue
    BY <2>1, <2>3, <2>5, NoneStays DEF Get
  <2>8. now = before => is = was
    <3> SUFFICES ASSUME now = before PROVE is = was OBVIOUS
    <3>1. Reached(Put(config, p, value), q)[m] = Reached(config, q)[m]
      BY <2>5
    <3>2. Get(Put(config, p, value), q) = Get(config, q)
      BY <2>1, <2>5, <3>1, RestAgrees
    <3> QED BY <2>3, <3>2
  <2>9. now = Filler(p, n + 1) /\ Len(q) # n + 1 => is = NoValue
    <3> SUFFICES ASSUME now = Filler(p, n + 1), Len(q) # n + 1 PROVE is = NoValue OBVIOUS
    <3>1. n + 2 \in 1 .. Len(q) /\ n + 2 - 1 = n + 1 /\ n + 2 \in Nat /\ q[n + 2] \in Part
      BY <2>1, <2>2
    <3>2. Reached(Put(config, p, value), q)[n + 2] = Child(now, q[n + 2])
      BY <2>1, <3>1, ReachedIs
    <3>3. Child(now, q[n + 2]) = NoValue
      BY <1>1, <2>5, <3>1, FillerIsValue
    <3>4. PICK l \in Nat : l = n + 2 /\ l <= Len(q)
      BY <3>1
    <3>5. Reached(Put(config, p, value), q)[l] = NoValue
      BY <3>2, <3>3, <3>4
    <3> QED BY <2>1, <2>3, <3>4, <3>5, NoneStays DEF Get
  <2> HIDE DEF now, before
  <2>10. CASE was # NoValue
    <3>1. before # NoValue
      BY <2>7, <2>10
    <3>2. IsKey(p[n + 1]) = IsKey(q[n + 1]) => is = was
      BY <2>4, <2>8, <3>1
    <3>3. IsKey(p[n + 1]) # IsKey(q[n + 1]) => is = NoValue
      BY <2>4, <2>6
    <3>4. is = IF IsKey(p[n + 1]) = IsKey(q[n + 1]) THEN was ELSE NoValue
      BY <3>2, <3>3
    <3> QED BY <2>2, <2>10, <3>4 DEF p, q, was, is
  <2>11. CASE was = NoValue /\ is # NoValue
    <3>1. now # NoValue /\ now # before
      BY <2>6, <2>8, <2>11
    <3>2. /\ IsKey(q[n + 1]) = IsKey(p[n + 1]) /\ ~IsKey(p[n + 1])
          /\ q[n + 1].index < p[n + 1].index /\ now = Filler(p, n + 1)
      BY <2>4, <3>1
    <3>3. Len(q) = n + 1
      BY <2>9, <2>11, <3>2
    <3> QED BY <2>2, <2>11, <3>2, <3>3 DEF p, q, was, is
  <2>12. CASE was = NoValue /\ is = NoValue BY <2>12 DEF was, is
  <2> QED BY <2>10, <2>11, <2>12
<1> QED BY <1>2, <1>4, <1>5 DEF SetKeeps

(* What Moved of RemoveKeeps says. *)
LEMMA RemoveKeepsFollows ==
  ASSUME PathsRead, IsValue(config), NEW path \in Paths, Addresses(path)
  PROVE  RemoveKeeps(path)
<1> SUFFICES ASSUME path # <<>> PROVE RemoveKeeps(path)
  BY DEF RemoveKeeps
<1> DEFINE p == Parts[path]
           after == remove(config, path)
           Moved(q) ==
             IF /\ get(config, path) # NoValue /\ Len(q) >= Len(p)
                /\ SubSeq(q, 1, Len(p) - 1) = Front(p)
                /\ ~IsKey(Last(p)) /\ ~IsKey(q[Len(p)]) /\ q[Len(p)].index >= Last(p).index
               THEN [q EXCEPT ![Len(p)] = IndexPart(q[Len(p)].index + 1)]
               ELSE q
<1>1. p \in Seq(Part) /\ p # <<>> /\ get(config, path) = Get(config, p)
  BY DEF PathsRead, Addresses, get
<1>2. Len(p) \in Nat /\ Len(p) # 0
  BY <1>1, EmptySeq
<1> SUFFICES ASSUME NEW other \in Paths
             PROVE  LET q == Parts[other]
                    IN  IF IsPrefix(p, q) /\ IsKey(Last(p)) THEN get(after, other) = NoValue
                        ELSE IsPrefix(p, q) \/ Apart(p, q) => get(after, other) = Get(config, Moved(q))
  BY DEF RemoveKeeps
<1> DEFINE q == Parts[other]
<1>3. q \in Seq(Part) /\ get(after, other) = Get(after, q)
  BY DEF PathsRead, get
<1> HIDE DEF p, q
<1>4. IsPrefix(p, q) => Len(p) <= Len(q) /\ \A k \in 1 .. Len(p) : p[k] = q[k]
  <2> SUFFICES ASSUME IsPrefix(p, q), NEW k \in 1 .. Len(p) PROVE Len(p) <= Len(q) /\ p[k] = q[k]
    BY DEF IsPrefix
  <2>1. Len(p) <= Len(q) /\ SubSeq(p, 1, Len(p)) = SubSeq(q, 1, Len(p))
    BY DEF IsPrefix
  <2>2. SubSeq(p, 1, Len(p))[k] = p[k] /\ SubSeq(q, 1, Len(p))[k] = q[k]
    BY <1>1, <1>3, <2>1
  <2> QED BY <2>1, <2>2
<1>5. CASE get(config, path) = NoValue
  <2>1. after = config /\ Moved(q) = q
    BY <1>5 DEF remove
  <2>2. IsPrefix(p, q) => Get(config, q) = NoValue
    <3> SUFFICES ASSUME IsPrefix(p, q) PROVE Get(config, q) = NoValue OBVIOUS
    <3>1. Reached(config, q)[Len(p)] = Reached(config, p)[Len(p)]
      BY <1>1, <1>2, <1>3, <1>4, PrefixAgrees
    <3>2. Reached(config, q)[Len(p)] = NoValue
      BY <1>1, <1>5, <3>1 DEF Get
    <3> QED BY <1>2, <1>3, <1>4, <3>2, NoneStays DEF Get
  <2> QED BY <1>3, <2>1, <2>2 DEF q
<1>6. CASE get(config, path) # NoValue
  <2> DEFINE f == Front(p)
             m == Len(p) - 1
             leg == Last(p)
             whole == Get(config, f)
             less == Without(whole, leg)
  <2>1. /\ m \in Nat /\ f \in Seq(Part) /\ Len(f) = m /\ (\A k \in 1 .. m : f[k] = p[k])
        /\ leg \in Part /\ leg = p[m + 1] /\ m + 1 = Len(p)
    <3>1. m \in Nat /\ m + 1 = Len(p) /\ leg = p[m + 1] /\ f = SubSeq(p, 1, m)
      BY <1>2 DEF Front, Last
    <3> HIDE DEF m, f, leg
    <3> QED BY <1>1, <3>1
  <2>2. after = Put(config, f, less)
    BY <1>6, <1>1 DEF remove, Cut, p
  <2> HIDE DEF f, leg, less, m
  <2>3. whole = Reached(config, f)[m] /\ whole = Reached(config, p)[m]
    <3>1. Reached(config, f)[m] = Reached(config, p)[m]
      BY <2>1, <1>1, PrefixAgrees
    <3> QED BY <2>1, <3>1 DEF Get
  <2>4. Child(whole, leg) # NoValue
    BY <1>1, <1>2, <2>1, ReachedIs, <1>6, <2>3 DEF Get
  <2>5. IsValue(whole)
    <3>1. m \in 0 .. Len(p)
      BY <1>2, <2>1
    <3>2. whole = NoValue \/ IsValue(whole)
      BY <1>1, <2>3, <3>1, ReachedIsValue
    <3> QED BY <2>4, <3>2, NoneHasNone
  <2>6. \A k \in 0 .. Len(p) : Reached(config, p)[k] # NoValue
    <3> SUFFICES ASSUME NEW k \in 0 .. Len(p), Reached(config, p)[k] = NoValue PROVE FALSE OBVIOUS
    <3>1. k \in Nat /\ k <= Len(p) /\ Len(p) <= Len(p)
      BY <1>2
    <3> QED BY <1>1, <1>2, <1>6, <3>1, NoneStays DEF Get
  <2> HIDE DEF whole, after
  <2>7. ASSUME Len(q) >= Len(p), \A k \in 1 .. m : q[k] = p[k]
        PROVE  /\ Reached(config, q)[m] = whole
               /\ Reached(after, q)[m + 1] = Child(less, q[m + 1])
               /\ q[m + 1] \in Part
    <3>0. m <= Len(q) /\ m <= Len(f) /\ (\A k \in 1 .. m : q[k] = f[k])
          /\ m + 1 \in 1 .. Len(q) /\ m + 1 - 1 = m /\ m \in 0 .. Len(f)
      BY <1>2, <1>3, <2>1, <2>7
    <3>1. Reached(config, q)[m] = Reached(config, f)[m] /\ Reached(after, q)[m] = Reached(after, f)[m]
      BY <1>3, <2>1, <3>0, PrefixAgrees
    <3>2. Reached(after, f)[m] = Rebuilt(config, f, less)[m + 1]
      BY <2>1, <2>2, <3>0, PutLeads
    <3>3. Rebuilt(config, f, less)[m + 1] = less
      BY <2>1, RebuiltIs
    <3>4. Reached(after, q)[m + 1] = Child(Reached(after, q)[m], q[m + 1])
      BY <1>3, <3>0, ReachedIs
    <3>5. Reached(after, q)[m] = less
      BY <3>1, <3>2, <3>3
    <3>6. Reached(config, q)[m] = whole
      BY <2>3, <3>1
    <3>7. q[m + 1] \in Part
      BY <1>3, <3>0
    <3> QED BY <3>4, <3>5, <3>6, <3>7
  <2>8. /\ IsValue(less)
        /\ \A o \in Part :
             Child(less, o) = IF o = leg /\ IsKey(leg) THEN NoValue
                              ELSE IF ~IsKey(leg) /\ ~IsKey(o) /\ leg.index <= o.index
                                THEN Child(whole, IndexPart(o.index + 1))
                              ELSE Child(whole, o)
    BY <2>1, <2>4, <2>5, WithoutIs DEF less
  <2> DEFINE at == q[m + 1]
             shifts == ~IsKey(leg) /\ ~IsKey(at) /\ at.index >= leg.index
  <2>9. ASSUME Len(q) >= Len(p), \A k \in 1 .. m : q[k] = p[k]
        PROVE  /\ Moved(q) = IF shifts THEN [q EXCEPT ![m + 1] = IndexPart(at.index + 1)] ELSE q
               /\ at = leg => IF IsKey(leg) THEN Get(after, q) = NoValue ELSE shifts
               /\ at # leg \/ shifts => Get(after, q) = Get(config, Moved(q))
    <3>1. SubSeq(q, 1, m) = f
      <4>1. PICK s \in Seq(Part) : s = SubSeq(q, 1, m) /\ Len(s) = m /\ \A k \in 1 .. m : s[k] = q[k]
        BY <1>2, <1>3, <2>1, <2>9
      <4>2. f \in Seq(Part) /\ Len(f) = m /\ \A k \in 1 .. m : s[k] = f[k]
        BY <2>1, <2>9, <4>1
      <4> QED BY <4>1, <4>2, SeqEqual
    <3>2. Moved(q) = IF shifts THEN [q EXCEPT ![m + 1] = IndexPart(at.index + 1)] ELSE q
      <4>1. m + 1 = Len(p) /\ Len(p) - 1 = m
        BY <1>2, <2>1
      <4> QED BY <1>6, <2>9, <3>1, <4>1 DEF f, leg
    <3>3. /\ Reached(config, q)[m] = whole /\ at \in Part
          /\ Reached(after, q)[m + 1] = Child(less, at)
      BY <2>7, <2>9
    <3>4. Reached(config, q)[m + 1] = Child(whole, at) /\ m + 1 \in 1 .. Len(q) /\ m + 1 \in Nat
      <4>1. m + 1 \in 1 .. Len(q) /\ m + 1 - 1 = m
        BY <1>2, <1>3, <2>1, <2>9
      <4>2. \A k \in 1 .. Len(q) : Reached(config, q)[k] = Child(Reached(config, q)[k - 1], q[k])
        BY <1>3, ReachedIs
      <4> QED BY <2>1, <3>3, <4>1, <4>2
    <3>5. PICK l \in Nat : l = m + 1 /\ l <= Len(q) /\ l \in 1 .. Len(q)
      BY <1>3, <3>4
    <3>6. ASSUME shifts
          PROVE  Get(after, q) = Get(config, Moved(q))
      <4> DEFINE r == [q EXCEPT ![m + 1] = IndexPart(at.index + 1)]
                 next == IndexPart(at.index + 1)
      <4>1. at.index \in Nat /\ at.index + 1 \in Nat /\ leg.index \in Nat
        BY <2>1, <3>3, <3>6, PartsTold
      <4>2. next \in Part
        BY <4>1, IndexesTold
      <4>3. /\ r \in Seq(Part) /\ Len(r) = Len(q) /\ r[m + 1] = next
            /\ \A k \in 1 .. Len(q) : k # m + 1 => r[k] = q[k]
        BY <1>3, <3>4, <4>2
      <4>4. Moved(q) = r
        BY <3>2, <3>6
      <4> HIDE DEF r, Moved, next
      <4>5. Reached(config, r)[m] = Reached(config, q)[m]
        <5>1. m <= Len(r) /\ m <= Len(q) /\ \A k \in 1 .. m : r[k] = q[k]
          BY <1>3, <2>1, <3>4, <4>3
        <5>2. m \in Nat /\ r \in Seq(Part) /\ q \in Seq(Part)
          BY <1>3, <2>1, <4>3
        <5> QED BY <5>1, <5>2, PrefixAgrees
      <4>6. Reached(config, r)[m + 1] = Child(whole, next)
        <5>1. m + 1 \in 1 .. Len(r) /\ m + 1 - 1 = m
          BY <2>1, <3>4, <4>3
        <5>2. \A k \in 1 .. Len(r) : Reached(config, r)[k] = Child(Reached(config, r)[k - 1], r[k])
          BY <4>3, ReachedIs
        <5>3. Reached(config, r)[m + 1] = Child(Reached(config, r)[m], r[m + 1])
          <6>1. PICK n \in 1 .. Len(r) : n = m + 1 /\ n - 1 = m
            BY <2>1, <5>1
          <6>2. Reached(config, r)[n] = Child(Reached(config, r)[n - 1], r[n])
            BY <5>2
          <6> QED BY <6>1, <6>2
        <5> QED BY <3>3, <4>3, <4>5, <5>1, <5>3
      <4>7. Child(less, at) = Child(whole, next)
        BY <2>8, <3>3, <3>6, <4>1 DEF next
      <4>8. Reached(after, q)[l] = Reached(config, r)[l]
        BY <3>3, <3>5, <4>6, <4>7
      <4>9. l <= Len(r) /\ Len(q) = Len(r) /\ SameParts(q, r, l, Len(r))
        BY <1>3, <3>5, <4>3 DEF SameParts
      <4>10. Get(after, q) = Get(config, r)
        BY <1>3, <3>5, <4>3, <4>8, <4>9, RestAgrees
      <4> QED BY <4>4, <4>10
    <3>7. ASSUME ~shifts, at # leg
          PROVE  Get(after, q) = Get(config, Moved(q))
      <4>1. ~(~IsKey(leg) /\ ~IsKey(at) /\ leg.index <= at.index)
        BY <2>1, <3>3, PartsTold, <3>7
      <4>2. Child(less, at) = Child(whole, at)
        BY <2>8, <3>3, <3>7, <4>1
      <4>3. Reached(after, q)[l] = Reached(config, q)[l]
        BY <3>3, <3>4, <3>5, <4>2
      <4>4. SameParts(q, q, l, Len(q))
        BY DEF SameParts
      <4>5. Get(after, q) = Get(config, q)
        BY <1>3, <3>5, <4>3, <4>4, RestAgrees
      <4> QED BY <3>2, <3>7, <4>5
    <3>8. ASSUME at = leg
          PROVE  IF IsKey(leg) THEN Get(after, q) = NoValue ELSE shifts
      <4>1. CASE ~IsKey(leg) BY <2>1, <3>8, <4>1, PartsTold
      <4>2. CASE IsKey(leg)
        <5>1. Reached(after, q)[l] = NoValue
          BY <2>8, <3>3, <3>5, <3>8, <4>2
        <5>2. l <= Len(q) /\ Len(q) \in Nat /\ Len(q) <= Len(q)
          BY <1>3, <3>5
        <5> QED BY <1>3, <3>5, <4>2, <5>1, <5>2, NoneStays DEF Get
      <4> QED BY <4>1, <4>2
    <3> QED BY <3>2, <3>6, <3>7, <3>8
  <2>10. ASSUME NEW n \in Nat, n < m, n < Len(q), \A k \in 1 .. n : p[k] = q[k], p[n + 1] # q[n + 1]
         PROVE  Get(after, q) = Get(config, Moved(q)) /\ ~IsPrefix(p, q)
    <3>1. n < Len(f) /\ n + 1 \in 1 .. m /\ n + 1 \in 0 .. Len(p) /\ n + 1 \in 1 .. Len(p)
      BY <1>2, <2>1, <2>10
    <3>2. (\A k \in 1 .. n : f[k] = q[k]) /\ f[n + 1] # q[n + 1]
      BY <2>1, <2>10, <3>1
    <3>3. Reached(config, f)[n + 1] = Reached(config, p)[n + 1]
      <4>1. PICK l \in Nat : l = n + 1 /\ l <= Len(f) /\ l <= Len(p) /\ \A k \in 1 .. l : f[k] = p[k]
        BY <2>1, <2>10, <3>1
      <4>2. Reached(config, f)[l] = Reached(config, p)[l]
        BY <1>1, <2>1, <4>1, PrefixAgrees
      <4> QED BY <4>1, <4>2
    <3>4. Reached(config, f)[n + 1] # NoValue
      BY <2>6, <3>1, <3>3
    <3>5. Get(Put(config, f, less), q) = Get(config, q)
      BY <1>3, <2>1, <2>10, <3>1, <3>2, <3>4, PutThere
    <3>6. Moved(q) = q
      <4>1. SUFFICES ASSUME Len(q) >= Len(p), SubSeq(q, 1, m) = f PROVE FALSE
        BY <1>2, <2>1 DEF f
      <4>2. SubSeq(q, 1, m)[n + 1] = q[n + 1]
        BY <1>2, <1>3, <2>1, <3>1, <4>1
      <4> QED BY <3>2, <4>1, <4>2
    <3>7. ~IsPrefix(p, q)
      BY <1>4, <2>10, <3>1
    <3> QED BY <2>2, <3>5, <3>6, <3>7
  <2> HIDE DEF shifts, Moved
  <2>11. CASE IsPrefix(p, q)
    <3>1. Len(q) >= Len(p) /\ (\A k \in 1 .. m : q[k] = p[k]) /\ at = leg
      BY <1>2, <1>4, <2>1, <2>11
    <3>2. IsKey(leg) => Get(after, q) = NoValue
      BY <2>9, <3>1
    <3>3. ~IsKey(leg) => Get(after, q) = Get(config, Moved(q))
      BY <2>9, <3>1
    <3> QED BY <1>3, <2>11, <3>2, <3>3 DEF leg, Moved, q
  <2>12. CASE ~IsPrefix(p, q) /\ Apart(p, q)
    <3>1. PICK n \in Nat : /\ n < Len(p) /\ n < Len(q)
                           /\ \A k \in 1 .. n : p[k] = q[k]
                           /\ p[n + 1] # q[n + 1]
      BY <1>1, <1>3, <2>12, PathsPart
    <3>2. CASE n < m BY <2>10, <3>1, <3>2, <1>3, <2>12 DEF Moved, q
    <3>3. CASE n = m
      <4>1. Len(q) >= Len(p) /\ (\A k \in 1 .. m : q[k] = p[k]) /\ at # leg
        BY <1>2, <1>3, <2>1, <3>1, <3>3
      <4>2. Get(after, q) = Get(config, Moved(q))
        BY <2>9, <4>1
      <4> QED BY <1>3, <2>12, <4>2 DEF Moved, q
    <3> QED BY <1>2, <2>1, <3>1, <3>2, <3>3
  <2>13. CASE ~IsPrefix(p, q) /\ ~Apart(p, q) BY <2>13 DEF q
  <2> QED BY <2>11, <2>12, <2>13
<1> QED BY <1>5, <1>6

-----------------------------------------------------------------------------
(* What is read of a path. *)
Midway == [parts : Seq(Part), word : Seq(Char), in : BOOLEAN]

LEMMA ReadsOn ==
  ASSUME NEW s \in Midway, NEW c \in Char
  PROVE  ReadOn(s, c) \in Midway /\ WithKey(s) \in Seq(Part)
<1>1. s.parts \in Seq(Part) /\ s.word \in Seq(Char) /\ s.in \in BOOLEAN
  BY DEF Midway
<1>2. WithKey(s) \in Seq(Part)
  BY <1>1 DEF Part, WithKey
<1>3. WithIndex(s) \in Seq(Part)
  BY PathsAssumption, <1>1 DEF Part, WithIndex
<1>4. \A parts \in Seq(Part), in \in BOOLEAN : Began(parts, in) \in Midway
  BY DEF Began, Midway
<1>5. [s EXCEPT !.word = Append(@, c)] \in Midway
  <2>0. PICK w \in Seq(Char) : w = s.word
    BY <1>1
  <2>1. PICK longer \in Seq(Char) : longer = Append(s.word, c)
    <3>1. Append(w, c) \in Seq(Char) OBVIOUS
    <3> QED BY <2>0, <3>1
  <2>2. [s EXCEPT !.word = longer] \in Midway
    BY DEF Midway
  <2> QED BY <2>1, <2>2
<1> QED BY <1>2, <1>3, <1>4, <1>5 DEF ReadOn

Reads(path, n, f) ==
  f = [k \in 0 .. n |-> IF k = 0 THEN Began(<<>>, FALSE) ELSE ReadOn(f[k - 1], path[k])]

LEMMA ReadsExist ==
  ASSUME NEW path, NEW n \in Nat
  PROVE  \E f : Reads(path, n, f)
<1> DEFINE Bad == {m \in Nat : ~ \E f : Reads(path, m, f)}
<1>1. SUFFICES ASSUME Bad # {} PROVE FALSE OBVIOUS
<1>2. Bad \in SUBSET Nat OBVIOUS
<1>3. PICK m \in Bad : \A j \in Bad : m <= j
  <2> HIDE DEF Bad
  <2> QED BY <1>1, <1>2, LeastOf
<1>4. m # 0
  <2> DEFINE f == [k \in 0 .. 0 |-> Began(<<>>, FALSE)]
  <2>1. Reads(path, 0, f)
    BY DEF Reads
  <2> QED BY <1>3, <2>1
<1>5. m \in Nat /\ m - 1 \in Nat /\ m - 1 \notin Bad
  BY <1>3, <1>4
<1>6. PICK f : Reads(path, m - 1, f)
  BY <1>5
<1> DEFINE g == [k \in 0 .. m |-> IF k = m THEN ReadOn(f[m - 1], path[m]) ELSE f[k]]
<1>7. ASSUME NEW k \in 0 .. m
      PROVE  g[k] = IF k = 0 THEN Began(<<>>, FALSE) ELSE ReadOn(g[k - 1], path[k])
  <2>1. CASE k = 0 BY <1>4, <1>5, <1>6, <2>1 DEF Reads
  <2>2. CASE k = m BY <1>4, <1>5, <2>2
  <2>3. CASE k \in 1 .. m - 1
    <3>0. k \in 0 .. m - 1 /\ k # 0 /\ k # m /\ k - 1 \in 0 .. m /\ k - 1 # m
      BY <1>5, <2>3
    <3>1. f[k] = ReadOn(f[k - 1], path[k])
      BY <1>6, <3>0, Zenon DEF Reads
    <3>2. g[k] = f[k] /\ g[k - 1] = f[k - 1]
      BY <3>0
    <3> QED BY <3>0, <3>1, <3>2, Zenon
  <2>4. k = 0 \/ k = m \/ k \in 1 .. m - 1
    BY <1>5
  <2> QED BY <2>1, <2>2, <2>3, <2>4, Zenon
<1>8. Reads(path, m, g)
  <2>1. g = [k \in 0 .. m |-> g[k]] OBVIOUS
  <2> HIDE DEF g
  <2> QED BY <1>7, <2>1 DEF Reads
<1> QED BY <1>3, <1>8

LEMMA PathsAreRead == PathsRead
<1> SUFFICES ASSUME NEW path \in Paths PROVE parse_path(path) \in Seq(Part)
  BY DEF PathsRead, Parts
<1>1. path \in Seq(Char)
  BY PathsAssumption DEF Char
<1>2. Len(path) \in Nat
  BY <1>1
<1> DEFINE f == Read(path)
<1>3. Reads(path, Len(path), f)
  BY <1>2, ReadsExist DEF Read, Reads
<1> HIDE DEF f
<1>4. f[0] = Began(<<>>, FALSE) /\ \A k \in 1 .. Len(path) : f[k] = ReadOn(f[k - 1], path[k])
  BY <1>2, <1>3 DEF Reads
<1> DEFINE Bad == {k \in 0 .. Len(path) : f[k] \notin Midway}
<1>5. Bad = {}
  <2>1. SUFFICES ASSUME Bad # {} PROVE FALSE OBVIOUS
  <2>2. Bad \in SUBSET Nat
    BY <1>2
  <2>3. PICK k \in Bad : \A j \in Bad : k <= j
    <3> HIDE DEF Bad
    <3> QED BY <2>1, <2>2, LeastOf
  <2>4. Began(<<>>, FALSE) \in Midway
    BY DEF Began, Midway
  <2>5. k # 0
    BY <1>4, <2>3, <2>4
  <2>6. k \in 1 .. Len(path) /\ k - 1 \in 0 .. Len(path) /\ k - 1 \notin Bad
    BY <1>2, <2>3, <2>5
  <2>7. f[k - 1] \in Midway /\ path[k] \in Char
    BY <1>1, <2>6
  <2> QED BY <1>4, <2>3, <2>6, <2>7, ReadsOn
<1>6. f[Len(path)] \in Midway
  BY <1>2, <1>5
<1>7. f[Len(path)].parts \in Seq(Part) /\ WithKey(f[Len(path)]) \in Seq(Part)
  <2>1. f[Len(path)].parts \in Seq(Part)
    BY <1>6 DEF Midway
  <2>2. WithKey(f[Len(path)]) \in Seq(Part)
    <3>1. f[Len(path)].word \in Seq(Char)
      BY <1>6 DEF Midway
    <3>2. KeyPart(f[Len(path)].word) \in Part
      BY <3>1 DEF Part
    <3> QED BY <2>1, <3>2 DEF WithKey
  <2> QED BY <2>1, <2>2
<1> QED BY <1>7 DEF parse_path, f

-----------------------------------------------------------------------------
(* The versions. *)
Identifier == [numeric : BOOLEAN, is : Nat]

IsVersion(v) ==
  /\ v.major \in 0 .. MaxPart /\ v.minor \in 0 .. MaxPart /\ v.patch \in 0 .. MaxPart
  /\ v.prerelease \in Seq(Identifier)

LEMMA VersionsAreRead == \A v \in Versions : IsVersion(v)
BY VersionsAssumption DEF IsVersion, Identifier

Signs == {"Less", "Equal", "Greater"}

(* The first sign that is not Equal decides. *)
Decides(signs, i, sign) ==
  signs[i] = sign /\ \A j \in DOMAIN signs : j < i => signs[j] = "Equal"

LEMMA FirstDecides ==
  ASSUME NEW signs, NEW n \in Nat, DOMAIN signs = 1 .. n, \A i \in 1 .. n : signs[i] \in Signs
  PROVE  \/ FirstThatDiffers(signs) = "Equal" /\ \A i \in 1 .. n : signs[i] = "Equal"
         \/ \E i \in 1 .. n : /\ FirstThatDiffers(signs) # "Equal"
                              /\ Decides(signs, i, FirstThatDiffers(signs))
<1> DEFINE D == {i \in 1 .. n : signs[i] # "Equal"}
<1>1. FirstThatDiffers(signs) = IF D = {} THEN "Equal" ELSE signs[Min(D)]
  BY DEF FirstThatDiffers
<1>2. CASE D = {} BY <1>1, <1>2
<1>3. CASE D # {}
  <2>1. Min(D) \in D /\ \A k \in D : Min(D) <= k
    <3>1. D \in SUBSET Nat /\ D # {}
      BY <1>3
    <3> HIDE DEF D
    <3> QED BY <3>1, LeastOf
  <2>2. \A j \in 1 .. n : j < Min(D) => signs[j] = "Equal"
    BY <2>1
  <2> QED BY <1>1, <1>3, <2>1, <2>2 DEF Decides
<1> QED BY <1>2, <1>3

(* Two versions compared field by field: a prerelease that ends counts less *)
(* at its end, and one that is empty more.                                  *)
IdentifierAt(a, b, i) ==
  CASE i <= Len(a) /\ i <= Len(b) -> IdentifierSign(a[i], b[i])
    [] i > Len(a) /\ i <= Len(b) -> "Less"
    [] i <= Len(a) /\ i > Len(b) -> "Greater"
    [] OTHER -> "Equal"

PrereleaseAt(a, b, i) ==
  IF i = 0
    THEN CASE a = <<>> /\ b # <<>> -> "Greater" [] a # <<>> /\ b = <<>> -> "Less" [] OTHER -> "Equal"
    ELSE IdentifierAt(a, b, i)

(* Three values of which the signs are in order. *)
InOrder(xy, yz, xz) ==
  /\ xy \in Signs /\ yz \in Signs /\ xz \in Signs
  /\ xy = "Equal" => xz = yz
  /\ yz = "Equal" => xz = xy
  /\ xy = "Less" /\ yz = "Less" => xz = "Less"

LEMMA SignsOrdered ==
  ASSUME NEW a \in Nat, NEW b \in Nat, NEW c \in Nat
  PROVE  /\ Sign(a, b) \in Signs
         /\ Sign(b, a) = Opposite(Sign(a, b))
         /\ InOrder(Sign(a, b), Sign(b, c), Sign(a, c))
         /\ Sign(a, b) = "Equal" <=> a = b
         /\ Sign(a, b) = "Less" <=> a < b
BY DEF Sign, Opposite, InOrder, Signs

LEMMA IdentifiersOrdered ==
  ASSUME NEW a \in Identifier, NEW b \in Identifier, NEW c \in Identifier
  PROVE  /\ IdentifierSign(a, b) \in Signs
         /\ IdentifierSign(b, a) = Opposite(IdentifierSign(a, b))
         /\ InOrder(IdentifierSign(a, b), IdentifierSign(b, c), IdentifierSign(a, c))
         /\ IdentifierSign(a, b) = "Equal" =>
              a = b \/ a.is > MaxIdentifier \/ b.is > MaxIdentifier
<1>1. \A x \in {a, b, c} : x.numeric \in BOOLEAN /\ x.is \in Nat /\ Number(x) \in Nat
  BY VersionsAssumption DEF Identifier, Number
<1>2. IdentifierSign(a, b) \in Signs /\ IdentifierSign(b, a) = Opposite(IdentifierSign(a, b))
  BY <1>1, SignsOrdered DEF IdentifierSign, Signs, Opposite
<1>3. InOrder(IdentifierSign(a, b), IdentifierSign(b, c), IdentifierSign(a, c))
  BY <1>1, SignsOrdered DEF IdentifierSign, InOrder, Signs
<1>4. ASSUME IdentifierSign(a, b) = "Equal", ~(a.is > MaxIdentifier), ~(b.is > MaxIdentifier)
      PROVE  a = b
  BY <1>1, <1>4, SignsOrdered DEF IdentifierSign, Number, Identifier
<1> QED BY <1>2, <1>3, <1>4

LEMMA PrereleaseOrdered ==
  ASSUME NEW a \in Seq(Identifier), NEW b \in Seq(Identifier),
         NEW c \in Seq(Identifier), NEW i \in Nat
  PROVE  /\ PrereleaseAt(a, b, i) \in Signs
         /\ PrereleaseAt(b, a, i) = Opposite(PrereleaseAt(a, b, i))
         /\ InOrder(PrereleaseAt(a, b, i), PrereleaseAt(b, c, i), PrereleaseAt(a, c, i))
<1>1. CASE i = 0 BY <1>1 DEF PrereleaseAt, Opposite, InOrder, Signs
<1>2. CASE i # 0
  <2>1. Len(a) \in Nat /\ Len(b) \in Nat /\ Len(c) \in Nat OBVIOUS
  <2>2. \A s \in {a, b, c} : i <= Len(s) => s[i] \in Identifier
    BY <1>2
  <2>3. IdentifierAt(a, b, i) \in Signs /\ IdentifierAt(b, a, i) = Opposite(IdentifierAt(a, b, i))
    BY <2>1, <2>2, IdentifiersOrdered DEF IdentifierAt, Opposite, Signs
  <2>4. InOrder(IdentifierAt(a, b, i), IdentifierAt(b, c, i), IdentifierAt(a, c, i))
    <3>1. CASE i <= Len(a) /\ i <= Len(b) /\ i <= Len(c)
      BY <2>1, <2>2, <3>1, IdentifiersOrdered DEF IdentifierAt
    <3>2. CASE ~(i <= Len(a) /\ i <= Len(b) /\ i <= Len(c))
      BY <2>2, IdentifiersOrdered, <2>1, <3>2 DEF IdentifierAt, InOrder, Signs
    <3> QED BY <3>1, <3>2
  <2> QED BY <1>2, <2>3, <2>4 DEF PrereleaseAt
<1> QED BY <1>1, <1>2

(* The order of two versions at each of their places. *)
VersionAt(v, w, i) ==
  CASE i = 0 -> Sign(v.major, w.major)
    [] i = 1 -> Sign(v.minor, w.minor)
    [] i = 2 -> Sign(v.patch, w.patch)
    [] OTHER -> PrereleaseAt(v.prerelease, w.prerelease, i - 3)

Same(v, w) == \A i \in Nat : VersionAt(v, w, i) = "Equal"

Differ(v, w, i) == VersionAt(v, w, i) # "Equal" /\ \A j \in Nat : j < i => VersionAt(v, w, j) = "Equal"

LEMMA PlacesOrdered ==
  ASSUME NEW v, NEW w, NEW x, IsVersion(v), IsVersion(w), IsVersion(x), NEW i \in Nat
  PROVE  /\ VersionAt(v, w, i) \in Signs
         /\ VersionAt(w, v, i) = Opposite(VersionAt(v, w, i))
         /\ InOrder(VersionAt(v, w, i), VersionAt(w, x, i), VersionAt(v, x, i))
<1>0. \A u \in {v, w, x} : /\ u.major \in Nat /\ u.minor \in Nat /\ u.patch \in Nat
                           /\ u.prerelease \in Seq(Identifier)
  BY VersionsAssumption DEF IsVersion
<1>1. CASE i = 0 BY <1>1, <1>0, SignsOrdered DEF VersionAt
<1>2. CASE i = 1 BY <1>2, <1>0, SignsOrdered DEF VersionAt
<1>3. CASE i = 2 BY <1>3, <1>0, SignsOrdered DEF VersionAt
<1>4. CASE i > 2
  <2>1. i - 3 \in Nat
    BY <1>4
  <2>2. \A u, z \in {v, w, x} : VersionAt(u, z, i) = PrereleaseAt(u.prerelease, z.prerelease, i - 3)
    BY <1>4 DEF VersionAt
  <2>3. PICK j \in Nat : j = i - 3
    BY <2>1
  <2>4. /\ v.prerelease \in Seq(Identifier) /\ w.prerelease \in Seq(Identifier)
        /\ x.prerelease \in Seq(Identifier)
    BY <1>0
  <2>5. LET Way(u, z) == PrereleaseAt(u.prerelease, z.prerelease, j)
        IN  /\ Way(v, w) \in Signs /\ Way(w, v) = Opposite(Way(v, w))
            /\ InOrder(Way(v, w), Way(w, x), Way(v, x))
    BY <2>4, PrereleaseOrdered
  <2> QED BY <2>2, <2>3, <2>5
<1> QED BY <1>1, <1>2, <1>3, <1>4

(* Prereleases: the first place that differs is the one that decides. *)
LEMMA PrereleaseDecides ==
  ASSUME NEW a \in Seq(Identifier), NEW b \in Seq(Identifier)
  PROVE  \/ /\ PrereleaseSign(a, b) = "Equal"
            /\ \A i \in Nat : PrereleaseAt(a, b, i) = "Equal"
         \/ \E i \in Nat : /\ PrereleaseAt(a, b, i) = PrereleaseSign(a, b)
                           /\ PrereleaseSign(a, b) # "Equal"
                           /\ \A j \in Nat : j < i => PrereleaseAt(a, b, j) = "Equal"
<1>0. Len(a) \in Nat /\ Len(b) \in Nat OBVIOUS
<1>1. CASE a = <<>> /\ b = <<>> BY <1>1 DEF PrereleaseSign, Sign, PrereleaseAt, IdentifierAt
<1>2. CASE a = <<>> /\ b # <<>>
  <2>1. Len(a) = 0 /\ Len(b) > 0
    BY <1>2, EmptySeq
  <2>2. PrereleaseSign(a, b) = "Greater" /\ PrereleaseAt(a, b, 0) = "Greater"
    BY <1>2, <2>1 DEF PrereleaseSign, Sign, PrereleaseAt
  <2> QED BY <2>2
<1>3. CASE a # <<>> /\ b = <<>>
  <2>1. Len(b) = 0 /\ Len(a) > 0
    BY <1>3, EmptySeq
  <2>2. PrereleaseSign(a, b) = "Less" /\ PrereleaseAt(a, b, 0) = "Less"
    BY <1>3, <2>1 DEF PrereleaseSign, Sign, PrereleaseAt
  <2> QED BY <2>2
<1>4. CASE a # <<>> /\ b # <<>>
  <2> DEFINE m == Min({Len(a), Len(b)})
             ids == [i \in 1 .. m |-> IdentifierSign(a[i], b[i])]
             signs == ids \o <<Sign(Len(a), Len(b))>>
  <2>1. m \in Nat /\ m <= Len(a) /\ m <= Len(b) /\ (m = Len(a) \/ m = Len(b))
    <3>1. {Len(a), Len(b)} \in SUBSET Nat /\ {Len(a), Len(b)} # {}
      BY <1>0
    <3> QED BY <1>0, <3>1, LeastOf
  <2>2. \A i \in 1 .. m : ids[i] = PrereleaseAt(a, b, i) /\ ids[i] \in Signs
    <3> SUFFICES ASSUME NEW i \in 1 .. m
                 PROVE  ids[i] = PrereleaseAt(a, b, i) /\ ids[i] \in Signs
      OBVIOUS
    <3>1. i <= Len(a) /\ i <= Len(b) /\ i # 0 /\ i \in Nat /\ a[i] \in Identifier /\ b[i] \in Identifier
      BY <1>0, <2>1
    <3> HIDE DEF m
    <3> QED BY <3>1, IdentifiersOrdered DEF PrereleaseAt, IdentifierAt
  <2>3. ids \in Seq(Signs) /\ Len(ids) = m
    <3> HIDE DEF m
    <3> QED BY <2>1, <2>2
  <2>4. Sign(Len(a), Len(b)) \in Signs
    BY <1>0, SignsOrdered
  <2>5. /\ DOMAIN signs = 1 .. m + 1
        /\ \A i \in 1 .. m : signs[i] = ids[i]
        /\ signs[m + 1] = Sign(Len(a), Len(b))
    <3> HIDE DEF m, ids
    <3> QED BY <2>1, <2>3, <2>4
  <2>6. PrereleaseSign(a, b) = FirstThatDiffers(signs)
    BY <1>4 DEF PrereleaseSign
  <2>7. PrereleaseAt(a, b, 0) = "Equal"
    BY <1>4 DEF PrereleaseAt
  <2>8. Sign(Len(a), Len(b)) = PrereleaseAt(a, b, m + 1)
    <3> HIDE DEF m
    <3> QED BY <1>0, <2>1 DEF PrereleaseAt, IdentifierAt, Sign
  <2> HIDE DEF m, ids, signs
  <2>9. \A i \in 1 .. m + 1 : signs[i] = PrereleaseAt(a, b, i) /\ signs[i] \in Signs
    <3> SUFFICES ASSUME NEW i \in 1 .. m + 1
                 PROVE  signs[i] = PrereleaseAt(a, b, i) /\ signs[i] \in Signs
      OBVIOUS
    <3>1. CASE i = m + 1 BY <2>4, <2>5, <2>8, <3>1
    <3>2. CASE i \in 1 .. m BY <2>2, <2>5, <3>2
    <3> QED BY <2>1, <3>1, <3>2
  <2>10. CASE FirstThatDiffers(signs) = "Equal" /\ \A i \in 1 .. m + 1 : signs[i] = "Equal"
    <3>1. Len(a) = Len(b) /\ m = Len(a)
      BY <1>0, <2>1, <2>5, <2>10, SignsOrdered
    <3>2. ASSUME NEW i \in Nat
          PROVE  PrereleaseAt(a, b, i) = "Equal"
      <4>1. CASE i \in 1 .. m BY <2>1, <2>9, <2>10, <4>1
      <4>2. CASE i = 0 BY <2>7, <4>2
      <4>3. CASE i > m BY <1>0, <3>1, <4>3 DEF PrereleaseAt, IdentifierAt
      <4> QED BY <2>1, <4>1, <4>2, <4>3
    <3> QED BY <2>6, <2>10, <3>2
  <2>11. CASE \E i \in 1 .. m + 1 : /\ FirstThatDiffers(signs) # "Equal"
                                    /\ Decides(signs, i, FirstThatDiffers(signs))
    <3>1. PICK i \in 1 .. m + 1 : /\ FirstThatDiffers(signs) # "Equal"
                                  /\ Decides(signs, i, FirstThatDiffers(signs))
      BY <2>11
    <3>2. i \in Nat /\ PrereleaseAt(a, b, i) = PrereleaseSign(a, b) /\ PrereleaseSign(a, b) # "Equal"
      BY <2>1, <2>6, <2>9, <3>1 DEF Decides
    <3>3. ASSUME NEW j \in Nat, j < i
          PROVE  PrereleaseAt(a, b, j) = "Equal"
      <4>1. CASE j = 0 BY <2>7, <4>1
      <4>2. CASE j # 0 BY <2>1, <3>3, <4>2, <2>5, <2>9, <3>1 DEF Decides
      <4> QED BY <4>1, <4>2
    <3> QED BY <3>2, <3>3
  <2>12. m + 1 \in Nat /\ DOMAIN signs = 1 .. m + 1 /\ \A i \in 1 .. m + 1 : signs[i] \in Signs
    BY <2>1, <2>5, <2>9
  <2> QED BY <2>10, <2>11, <2>12, FirstDecides
<1> QED BY <1>1, <1>2, <1>3, <1>4

LEMMA CmpDecides ==
  ASSUME NEW v, NEW w, IsVersion(v), IsVersion(w)
  PROVE  \/ cmp(v, w) = "Equal" /\ Same(v, w)
         \/ \E i \in Nat : /\ cmp(v, w) = VersionAt(v, w, i) /\ Differ(v, w, i)
<1> DEFINE p == PrereleaseSign(v.prerelease, w.prerelease)
           signs == <<Sign(v.major, w.major), Sign(v.minor, w.minor), Sign(v.patch, w.patch), p>>
<1>1. /\ v.major \in Nat /\ v.minor \in Nat /\ v.patch \in Nat
      /\ w.major \in Nat /\ w.minor \in Nat /\ w.patch \in Nat
      /\ v.prerelease \in Seq(Identifier) /\ w.prerelease \in Seq(Identifier)
  BY VersionsAssumption DEF IsVersion
<1>2. \A i \in 0 .. 2 : signs[i + 1] = VersionAt(v, w, i) /\ signs[i + 1] \in Signs
  <2>1. /\ VersionAt(v, w, 0) = Sign(v.major, w.major) /\ VersionAt(v, w, 0) \in Signs
        /\ VersionAt(v, w, 1) = Sign(v.minor, w.minor) /\ VersionAt(v, w, 1) \in Signs
        /\ VersionAt(v, w, 2) = Sign(v.patch, w.patch) /\ VersionAt(v, w, 2) \in Signs
    <3>1. /\ VersionAt(v, w, 0) = Sign(v.major, w.major)
          /\ VersionAt(v, w, 1) = Sign(v.minor, w.minor)
          /\ VersionAt(v, w, 2) = Sign(v.patch, w.patch)
      BY DEF VersionAt
    <3>2. \A x, y \in Nat : Sign(x, y) \in Signs
      BY DEF Sign, Signs
    <3> QED BY <1>1, <3>1, <3>2
  <2>2. /\ signs[1] = VersionAt(v, w, 0) /\ signs[2] = VersionAt(v, w, 1)
        /\ signs[3] = VersionAt(v, w, 2)
    BY <2>1
  <2> HIDE DEF signs
  <2> QED BY <2>1, <2>2
<1>3. DOMAIN signs = 1 .. 4 /\ signs[4] = p OBVIOUS
<1>4. cmp(v, w) = FirstThatDiffers(signs)
  BY DEF cmp
<1>5. \A i \in Nat : i > 2 => VersionAt(v, w, i) = PrereleaseAt(v.prerelease, w.prerelease, i - 3)
  BY DEF VersionAt
<1>6. \/ p = "Equal" /\ \A i \in Nat : PrereleaseAt(v.prerelease, w.prerelease, i) = "Equal"
      \/ \E i \in Nat : /\ PrereleaseAt(v.prerelease, w.prerelease, i) = p /\ p # "Equal"
                        /\ \A j \in Nat : j < i => PrereleaseAt(v.prerelease, w.prerelease, j) = "Equal"
  BY <1>1, PrereleaseDecides
<1>7. p \in Signs
  BY <1>1, <1>6, PrereleaseOrdered DEF Signs
<1> HIDE DEF p, signs
<1>8. \A i \in 1 .. 4 : signs[i] \in Signs
  BY <1>2, <1>3, <1>7
<1>9. CASE FirstThatDiffers(signs) = "Equal" /\ \A i \in 1 .. 4 : signs[i] = "Equal"
  <2>1. p = "Equal" /\ signs[1] = "Equal" /\ signs[2] = "Equal" /\ signs[3] = "Equal"
    BY <1>3, <1>9
  <2>2. ASSUME NEW i \in Nat
        PROVE  VersionAt(v, w, i) = "Equal"
    <3>1. CASE i \in 0 .. 2 BY <1>2, <1>9, <3>1
    <3>2. CASE i > 2 BY <3>2, <1>5, <1>6, <2>1
    <3> QED BY <3>1, <3>2
  <2> QED BY <1>4, <1>9, <2>2 DEF Same
<1>10. CASE \E i \in 1 .. 4 : /\ FirstThatDiffers(signs) # "Equal"
                              /\ Decides(signs, i, FirstThatDiffers(signs))
  <2>1. PICK i \in 1 .. 4 : /\ FirstThatDiffers(signs) # "Equal"
                            /\ Decides(signs, i, FirstThatDiffers(signs))
    BY <1>10
  <2>2. CASE i \in 1 .. 3
    <3> DEFINE k == i - 1
    <3>1. k \in Nat /\ k \in 0 .. 2 /\ signs[k + 1] = cmp(v, w) /\ cmp(v, w) # "Equal"
      BY <1>4, <2>1, <2>2 DEF Decides
    <3>2. \A j \in Nat : j < k => VersionAt(v, w, j) = "Equal"
      <4> SUFFICES ASSUME NEW j \in Nat, j < k PROVE VersionAt(v, w, j) = "Equal" OBVIOUS
      <4>1. j \in 0 .. 2 /\ j + 1 \in 1 .. 4 /\ j + 1 < i
        BY <2>2
      <4> QED BY <1>2, <1>3, <2>1, <4>1 DEF Decides
    <3> QED BY <1>2, <3>1, <3>2 DEF Differ
  <2>3. CASE i = 4
    <3>1. signs[4] = p /\ p = cmp(v, w) /\ p # "Equal" /\ \A j \in 1 .. 3 : signs[j] = "Equal"
      BY <1>3, <1>4, <2>1, <2>3 DEF Decides
    <3>2. PICK k \in Nat :
            /\ PrereleaseAt(v.prerelease, w.prerelease, k) = p
            /\ \A j \in Nat : j < k => PrereleaseAt(v.prerelease, w.prerelease, j) = "Equal"
      BY <1>6, <3>1
    <3>3. k + 3 \in Nat /\ VersionAt(v, w, k + 3) = p
      BY <1>5, <3>2
    <3>4. ASSUME NEW j \in Nat, j < k + 3
          PROVE  VersionAt(v, w, j) = "Equal"
      <4>1. CASE j \in 0 .. 2 BY <1>2, <3>1, <4>1
      <4>2. CASE j > 2 BY <3>4, <4>2, <1>5, <3>2
      <4> QED BY <4>1, <4>2
    <3> QED BY <3>1, <3>3, <3>4 DEF Differ
  <2> QED BY <2>1, <2>2, <2>3
<1> QED BY <1>3, <1>8, <1>9, <1>10, FirstDecides

LEMMA CmpIn ==
  ASSUME NEW v, NEW w, IsVersion(v), IsVersion(w)
  PROVE  /\ cmp(v, w) \in Signs
         /\ cmp(v, w) = "Equal" <=> Same(v, w)
         /\ \A i \in Nat : Differ(v, w, i) => cmp(v, w) = VersionAt(v, w, i)
<1>1. \A i \in Nat : VersionAt(v, w, i) \in Signs
  BY PlacesOrdered
<1>2. \A i, j \in Nat : Differ(v, w, i) /\ Differ(v, w, j) => i = j
  BY DEF Differ
<1>3. Same(v, w) => \A i \in Nat : ~Differ(v, w, i)
  BY DEF Same, Differ
<1> QED BY <1>1, <1>2, <1>3, CmpDecides DEF Signs, Differ

LEMMA CmpOpposite ==
  ASSUME NEW v, NEW w, IsVersion(v), IsVersion(w)
  PROVE  cmp(w, v) = Opposite(cmp(v, w))
<1>1. \A i \in Nat : /\ VersionAt(v, w, i) \in Signs
                     /\ VersionAt(w, v, i) = Opposite(VersionAt(v, w, i))
  BY PlacesOrdered
<1>2. CASE Same(v, w) BY <1>1, <1>2, CmpIn DEF Same, Opposite
<1>3. ASSUME NEW i \in Nat, Differ(v, w, i)
      PROVE  cmp(w, v) = Opposite(cmp(v, w))
  BY <1>1, <1>3, CmpIn DEF Differ, Opposite, Signs
<1> QED BY <1>2, <1>3, CmpDecides

LEMMA CmpTransitive ==
  ASSUME NEW v, NEW w, NEW x, IsVersion(v), IsVersion(w), IsVersion(x),
         cmp(v, w) # "Greater", cmp(w, x) # "Greater"
  PROVE  cmp(v, x) # "Greater"
<1>1. \A i \in Nat : InOrder(VersionAt(v, w, i), VersionAt(w, x, i), VersionAt(v, x, i))
  BY PlacesOrdered
<1>2. CASE Same(v, w) /\ Same(w, x) BY <1>1, <1>2, CmpIn DEF Same, InOrder
<1>3. ASSUME NEW i \in Nat,
             \A j \in Nat : j < i => VersionAt(v, w, j) = "Equal" /\ VersionAt(w, x, j) = "Equal",
             VersionAt(v, w, i) # "Greater", VersionAt(w, x, i) # "Greater",
             VersionAt(v, w, i) = "Less" \/ VersionAt(w, x, i) = "Less"
      PROVE  cmp(v, x) # "Greater"
  <2>1. \A j \in Nat : j < i => VersionAt(v, x, j) = "Equal"
    BY <1>1, <1>3 DEF InOrder
  <2>2. VersionAt(v, x, i) = "Less"
    BY <1>1, <1>3 DEF InOrder, Signs
  <2> QED BY <2>1, <2>2, CmpIn DEF Differ
<1>4. ASSUME NEW i \in Nat, Differ(v, w, i), Same(w, x)
      PROVE  cmp(v, x) # "Greater"
  BY <1>4, CmpIn, PlacesOrdered, <1>3 DEF Signs, Differ, Same
<1>5. ASSUME NEW i \in Nat, Same(v, w), Differ(w, x, i)
      PROVE  cmp(v, x) # "Greater"
  BY <1>5, CmpIn, PlacesOrdered, <1>3 DEF Signs, Differ, Same
<1>6. ASSUME NEW i \in Nat, NEW j \in Nat, Differ(v, w, i), Differ(w, x, j)
      PROVE  cmp(v, x) # "Greater"
  <2>1. VersionAt(v, w, i) = "Less" /\ VersionAt(w, x, j) = "Less"
    BY <1>6, CmpIn, PlacesOrdered DEF Signs, Differ
  <2>2. CASE i <= j
    <3>1. VersionAt(w, x, i) # "Greater"
      BY <1>6, <2>1, <2>2 DEF Differ
    <3>2. \A k \in Nat : k < i => VersionAt(v, w, k) = "Equal" /\ VersionAt(w, x, k) = "Equal"
      BY <1>6, <2>2 DEF Differ
    <3> QED BY <1>3, <2>1, <3>1, <3>2
  <2>3. CASE j < i
    <3>1. VersionAt(v, w, j) # "Greater"
      BY <1>6, <2>3 DEF Differ
    <3>2. \A k \in Nat : k < j => VersionAt(v, w, k) = "Equal" /\ VersionAt(w, x, k) = "Equal"
      BY <1>6, <2>3 DEF Differ
    <3> QED BY <1>3, <2>1, <3>1, <3>2
  <2> QED BY <2>2, <2>3
<1> QED BY <1>2, <1>4, <1>5, <1>6, CmpDecides

(* Two that are equal tell apart no more than the numbers that u64 cannot   *)
(* hold.                                                                    *)
LEMMA SameVersions ==
  ASSUME NEW v, NEW w, IsVersion(v), IsVersion(w), cmp(v, w) = "Equal"
  PROVE  /\ <<v.major, v.minor, v.patch>> = <<w.major, w.minor, w.patch>>
         /\ Len(v.prerelease) = Len(w.prerelease)
         /\ \A i \in DOMAIN w.prerelease :
              \/ v.prerelease[i] = w.prerelease[i]
              \/ v.prerelease[i].is > MaxIdentifier
              \/ w.prerelease[i].is > MaxIdentifier
<1> DEFINE a == v.prerelease
           b == w.prerelease
<1>1. /\ v.major \in Nat /\ v.minor \in Nat /\ v.patch \in Nat
      /\ w.major \in Nat /\ w.minor \in Nat /\ w.patch \in Nat
      /\ a \in Seq(Identifier) /\ b \in Seq(Identifier)
  BY VersionsAssumption DEF IsVersion
<1>2. \A i \in Nat : VersionAt(v, w, i) = "Equal"
  BY CmpIn DEF Same
<1>3. v.major = w.major /\ v.minor = w.minor /\ v.patch = w.patch
  <2>1. Sign(v.major, w.major) = "Equal" /\ Sign(v.minor, w.minor) = "Equal"
    BY <1>2 DEF VersionAt
  <2>2. VersionAt(v, w, 2) = Sign(v.patch, w.patch)
    BY DEF VersionAt
  <2> QED BY <1>1, <1>2, <2>1, <2>2, SignsOrdered
<1>4. \A i \in Nat : PrereleaseAt(a, b, i) = "Equal"
  <2> SUFFICES ASSUME NEW i \in Nat PROVE PrereleaseAt(a, b, i) = "Equal" OBVIOUS
  <2>1. i + 3 \in Nat /\ (i + 3) - 3 = i /\ VersionAt(v, w, i + 3) = PrereleaseAt(a, b, (i + 3) - 3)
    BY DEF VersionAt
  <2> QED BY <1>2, <2>1
<1> HIDE DEF a, b
<1>5. \A i \in Nat : i # 0 => IdentifierAt(a, b, i) = "Equal"
  BY <1>4 DEF PrereleaseAt
<1>6. Len(a) \in Nat /\ Len(b) \in Nat
  BY <1>1
<1>7. Len(a) = Len(b)
  <2>1. ~(Len(a) < Len(b))
    BY <1>5, <1>6 DEF IdentifierAt
  <2>2. ~(Len(b) < Len(a))
    BY <1>5, <1>6 DEF IdentifierAt
  <2> QED BY <1>6, <2>1, <2>2
<1>8. ASSUME NEW i \in DOMAIN b
      PROVE  a[i] = b[i] \/ a[i].is > MaxIdentifier \/ b[i].is > MaxIdentifier
  <2>1. i \in 1 .. Len(b) /\ a[i] \in Identifier /\ b[i] \in Identifier
    BY <1>1, <1>7, <1>8
  <2>2. IdentifierSign(a[i], b[i]) = "Equal"
    BY <1>5, <1>6, <1>7, <2>1 DEF IdentifierAt
  <2> QED BY <2>1, <2>2, IdentifiersOrdered
<1> QED BY <1>3, <1>7, <1>8 DEF a, b

LEMMA CompatibleTransitive ==
  ASSUME NEW v, NEW w, NEW x, IsVersion(v), IsVersion(w), IsVersion(x),
         is_compatible_with(v, w), is_compatible_with(w, x)
  PROVE  is_compatible_with(v, x)
BY CmpTransitive DEF is_compatible_with

LEMMA IncrementsAreVersions ==
  ASSUME NEW v, IsVersion(v), NEW later \in Increments(v)
  PROVE  IsVersion(later)
<1>1. \A n \in 0 .. MaxPart : Next32(n) \in 0 .. MaxPart
  BY VersionsAssumption DEF Next32
<1>2. <<>> \in Seq(Identifier) /\ 0 \in 0 .. MaxPart
  BY VersionsAssumption
<1>3. \A m, n, p \in 0 .. MaxPart : IsVersion(Plain(m, n, p))
  BY <1>2 DEF Plain, IsVersion
<1>4. v.major \in 0 .. MaxPart /\ v.minor \in 0 .. MaxPart /\ v.patch \in 0 .. MaxPart
  BY DEF IsVersion
<1> QED BY <1>1, <1>2, <1>3, <1>4 DEF Increments, increment_major, increment_minor, increment_patch

LEMMA IncrementsAreLater ==
  ASSUME NEW v, IsVersion(v), MaxPart \notin {v.major, v.minor, v.patch},
         NEW later \in Increments(v)
  PROVE  /\ cmp(v, later) = "Less"
         /\ is_compatible_with(v, later) <=>
              later.major = v.major /\ (v.major = 0 => later.minor = v.minor)
<1>1. \A n \in 0 .. MaxPart : n # MaxPart => Next32(n) = n + 1
  BY VersionsAssumption DEF Next32
<1>2. /\ v.major \in Nat /\ v.minor \in Nat /\ v.patch \in Nat
      /\ Next32(v.major) = v.major + 1 /\ Next32(v.minor) = v.minor + 1
      /\ Next32(v.patch) = v.patch + 1
  BY <1>1, VersionsAssumption DEF IsVersion
<1>3. IsVersion(later)
  BY IncrementsAreVersions
<1>4. \E i \in Nat : Differ(v, later, i) /\ VersionAt(v, later, i) = "Less"
  <2>1. CASE later = increment_major(v)
    <3>1. later.major = v.major + 1
      BY <1>2, <2>1 DEF increment_major, Plain
    <3>2. VersionAt(v, later, 0) = "Less"
      BY <1>2, <3>1 DEF VersionAt, Sign
    <3> QED BY <3>2 DEF Differ
  <2>2. CASE later = increment_minor(v)
    <3>1. later.major = v.major /\ later.minor = v.minor + 1
      BY <1>2, <2>2 DEF increment_minor, Plain
    <3>2. VersionAt(v, later, 0) = "Equal" /\ VersionAt(v, later, 1) = "Less"
      BY <1>2, <3>1 DEF VersionAt, Sign
    <3>3. \A j \in Nat : j < 1 => j = 0 OBVIOUS
    <3>4. Differ(v, later, 1)
      BY <3>2, <3>3 DEF Differ
    <3> QED BY <3>2, <3>4
  <2>3. CASE later = increment_patch(v)
    <3>1. later.major = v.major /\ later.minor = v.minor /\ later.patch = v.patch + 1
      BY <1>2, <2>3 DEF increment_patch, Plain
    <3>2. VersionAt(v, later, 0) = "Equal" /\ VersionAt(v, later, 1) = "Equal"
      BY <1>2, <3>1 DEF VersionAt, Sign
    <3>3. VersionAt(v, later, 2) = "Less"
      BY <1>2, <3>1 DEF VersionAt, Sign
    <3>4. \A j \in Nat : j < 2 => j \in {0, 1} OBVIOUS
    <3>5. Differ(v, later, 2)
      BY <3>2, <3>3, <3>4 DEF Differ
    <3> QED BY <3>3, <3>5
  <2> QED BY <2>1, <2>2, <2>3 DEF Increments
<1>5. cmp(v, later) = "Less"
  BY <1>3, <1>4, CmpIn
<1> QED BY <1>5 DEF is_compatible_with

LEMMA VersionsAgreeFollows ==
  ASSUME version = NoVersion \/ IsVersion(version)
  PROVE  VersionsAgree
<1> SUFFICES ASSUME version # NoVersion PROVE VersionsAgree
  BY DEF VersionsAgree
<1>1. IsVersion(version) /\ \A w \in Versions : IsVersion(w)
  BY VersionsAreRead
<1>2. ASSUME NEW w \in Versions
      PROVE  /\ cmp(w, version) = Opposite(cmp(version, w))
             /\ cmp(version, w) = "Equal" =>
                  /\ <<version.major, version.minor, version.patch>> = <<w.major, w.minor, w.patch>>
                  /\ Len(version.prerelease) = Len(w.prerelease)
                  /\ \A i \in DOMAIN w.prerelease :
                       \/ version.prerelease[i] = w.prerelease[i]
                       \/ version.prerelease[i].is > MaxIdentifier
                       \/ w.prerelease[i].is > MaxIdentifier
  BY <1>1, CmpOpposite, SameVersions
<1>3. ASSUME NEW w \in Versions, NEW x \in Versions
      PROVE  /\ cmp(version, w) # "Greater" /\ cmp(w, x) # "Greater" => cmp(version, x) # "Greater"
             /\ is_compatible_with(version, w) /\ is_compatible_with(w, x)
                  => is_compatible_with(version, x)
  BY <1>1, CmpTransitive, CompatibleTransitive
<1>4. ASSUME MaxPart \notin {version.major, version.minor, version.patch},
             NEW later \in Increments(version)
      PROVE  /\ cmp(version, later) = "Less"
             /\ is_compatible_with(version, later) <=>
                  later.major = version.major /\ (version.major = 0 => later.minor = version.minor)
  BY <1>1, <1>4, IncrementsAreLater
<1> QED BY <1>2, <1>3, <1>4 DEF VersionsAgree

-----------------------------------------------------------------------------
(* Every configuration that calls lead to is a value.                       *)
ConfigInv ==
  /\ config = NoConfig \/ IsValue(config)
  /\ version = NoVersion \/ IsVersion(version)

LEMMA GivenValues == \A value \in Values : IsValue(value)
BY ValuesAssumption DEF IsValue

LEMMA SetIsValue ==
  ASSUME IsValue(config), NEW path \in Paths, NEW value \in Values
  PROVE  IsValue(set(config, path, value))
<1>1. Parts[path] \in Seq(Part)
  BY PathsAreRead DEF PathsRead
<1> QED BY <1>1, GivenValues, PutIsValue DEF set

LEMMA RemoveIsValue ==
  ASSUME IsValue(config), NEW path \in Paths, Addresses(path)
  PROVE  IsValue(remove(config, path))
<1> SUFFICES ASSUME path # <<>>, get(config, path) # NoValue
             PROVE  IsValue(remove(config, path))
  BY SimpleValues DEF remove
<1> DEFINE p == Parts[path]
           f == Front(p)
           leg == Last(p)
           m == Len(p) - 1
<1>1. p \in Seq(Part) /\ p # <<>>
  BY PathsAreRead DEF PathsRead, Addresses
<1> HIDE DEF p
<1>2. Len(p) \in Nat /\ Len(p) # 0
  BY <1>1, EmptySeq
<1>3. /\ m \in Nat /\ f \in Seq(Part) /\ Len(f) = m /\ (\A k \in 1 .. m : f[k] = p[k])
      /\ leg \in Part /\ leg = p[m + 1] /\ m + 1 = Len(p)
  <2>1. m \in Nat /\ m + 1 = Len(p) /\ leg = p[m + 1] /\ f = SubSeq(p, 1, m)
    BY <1>2 DEF Front, Last
  <2> HIDE DEF m, f, leg
  <2> QED BY <1>1, <2>1
<1>4. remove(config, path) = Put(config, f, Without(Get(config, f), leg))
  BY DEF remove, Cut, p
<1> HIDE DEF m, f, leg
<1>5. Get(config, f) = Reached(config, p)[m]
  <2>1. m <= Len(f) /\ m <= Len(p)
    BY <1>3
  <2>2. Reached(config, f)[m] = Reached(config, p)[m]
    BY <1>1, <1>3, <2>1, PrefixAgrees
  <2> QED BY <1>3, <2>2 DEF Get
<1>6. Child(Get(config, f), leg) # NoValue
  <2>1. \A k \in 1 .. Len(p) : Reached(config, p)[k] = Child(Reached(config, p)[k - 1], p[k])
    BY <1>1, ReachedIs
  <2>2. m + 1 \in 1 .. Len(p) /\ m + 1 - 1 = m
    BY <1>3
  <2>3. Get(config, p) = Child(Reached(config, p)[m], leg)
    BY <1>3, <2>1, <2>2 DEF Get
  <2> QED BY <1>5, <2>3 DEF get, p
<1>7. IsValue(Get(config, f))
  <2>1. m \in 0 .. Len(p)
    BY <1>3
  <2>2. Get(config, f) = NoValue \/ IsValue(Get(config, f))
    BY <1>1, <1>5, <2>1, ReachedIsValue
  <2> QED BY <1>6, <2>2, NoneHasNone
<1>8. IsValue(Without(Get(config, f), leg))
  BY <1>3, <1>6, <1>7, WithoutIs
<1> QED BY <1>3, <1>4, <1>8, PutIsValue

LEMMA MergedIsValue ==
  ASSUME NEW value, IsValue(value), NEW other, IsValue(other)
  PROVE  IsValue(MergeValue(value, other))
<1>1. CASE IsMap(value) /\ IsMap(other)
  <2> DEFINE m == Overlaid(value.map, other.map)
  <2>1. \A key \in DOMAIN m : \/ key \in DOMAIN other.map /\ m[key] = other.map[key]
                              \/ key \in DOMAIN value.map /\ m[key] = value.map[key]
    BY DEF Overlaid
  <2> HIDE DEF m
  <2>2. \A key \in DOMAIN m : IsValue(m[key])
    BY <1>1, <2>1, ValuesTold
  <2>3. ~IsArray(value)
    BY <1>1 DEF IsMap, IsArray
  <2> QED BY <1>1, <2>2, <2>3, MapIsValue DEF MergeValue, m
<1>2. CASE IsArray(value) /\ IsArray(other)
  <2> DEFINE a == value.array
             b == other.array
             s == a \o b
  <2>1. PICK S, T : a \in Seq(S) /\ b \in Seq(T)
    BY <1>2, ValuesTold
  <2>2. Len(a) \in Nat /\ Len(b) \in Nat
    BY <1>2, ValuesTold
  <2>3. /\ (\A i \in 1 .. Len(a) : IsValue(a[i]))
        /\ (\A i \in 1 .. Len(b) : IsValue(b[i]))
    BY <1>2, ValuesTold
  <2>4. ~IsMap(value)
    BY <1>2 DEF IsMap, IsArray
  <2>5. MergeValue(value, other) = Array(s)
    BY <1>2, <2>4 DEF MergeValue
  <2> HIDE DEF a, b
  <2>6. /\ s \in Seq(S \cup T) /\ Len(s) = Len(a) + Len(b)
        /\ \A i \in 1 .. Len(a) + Len(b) : s[i] = IF i <= Len(a) THEN a[i] ELSE b[i - Len(a)]
    BY <2>1, ConcatProperties
  <2> HIDE DEF s
  <2>7. s = [i \in 1 .. Len(a) + Len(b) |-> s[i]] /\ Len(a) + Len(b) \in Nat
    BY <2>2, <2>6
  <2>8. \A i \in 1 .. Len(a) + Len(b) : IsValue(s[i])
    <3> SUFFICES ASSUME NEW i \in 1 .. Len(a) + Len(b) PROVE IsValue(s[i]) OBVIOUS
    <3>1. CASE i <= Len(a) BY <2>2, <2>3, <2>6, <3>1
    <3>2. CASE ~(i <= Len(a)) BY <2>2, <3>2, <2>3, <2>6
    <3> QED BY <3>1, <3>2
  <2> QED BY <2>5, <2>7, <2>8, ArrayIsValue
<1>3. CASE ~(IsMap(value) /\ IsMap(other)) /\ ~(IsArray(value) /\ IsArray(other))
  BY <1>3 DEF MergeValue
<1> QED BY <1>1, <1>2, <1>3

LEMMA ConfigInitInv ==
  ASSUME ConfigInit
  PROVE  ConfigInv
BY DEF ConfigInit, ConfigInv

LEMMA ConfigCallKept ==
  ASSUME ConfigInv, NEW t \in Caller, ConfigCall(t)
  PROVE  ConfigInv'
<1> USE DEF ConfigInv
<1>1. CASE NewConfig(t) /\ UNCHANGED version BY <1>1, GivenValues, SimpleValues DEF NewConfig
<1>2. CASE (SetPath(t) \/ UpdatePath(t)) /\ UNCHANGED version
  BY <1>2, SetIsValue DEF SetPath, UpdatePath
<1>3. CASE RemovePath(t) /\ UNCHANGED version BY <1>3, RemoveIsValue DEF RemovePath
<1>4. CASE MergeConfig(t) /\ UNCHANGED version BY <1>4, GivenValues, MergedIsValue DEF MergeConfig
<1>5. CASE (ReadVersion(t) \/ IncrementVersion(t)) /\ UNCHANGED config
  BY <1>5, VersionsAreRead, IncrementsAreVersions DEF ReadVersion, IncrementVersion
<1> QED BY <1>1, <1>2, <1>3, <1>4, <1>5 DEF ConfigCall

LEMMA ConfigAnswersFollows ==
  ASSUME ConfigInv
  PROVE  ConfigAnswers
<1>1. VersionsAgree
  BY VersionsAgreeFollows DEF ConfigInv
<1>2. PathsAgree
  <2> SUFFICES ASSUME config # NoConfig, NEW path \in Paths, Addresses(path)
               PROVE  RemoveKeeps(path) /\ \A value \in Values : SetKeeps(path, value)
    BY DEF PathsAgree
  <2>1. IsValue(config)
    BY DEF ConfigInv
  <2> QED BY <2>1, GivenValues, PathsAreRead, RemoveKeepsFollows, SetKeepsFollows
<1> QED BY <1>1, <1>2 DEF ConfigAnswers

LEMMA ConfigStays ==
  ASSUME ConfigInv, UNCHANGED configVars
  PROVE  ConfigInv'
BY DEF ConfigInv, configVars, IsValue, Closed, IsMap, IsArray, IsVersion

LEMMA ConfigInvKept ==
  ASSUME CallersAtPart, ConfigInv, [Next]_vars
  PROVE  ConfigInv'
<1>1. CASE \E t \in Caller : Begin(t) \/ Continue(t)
  <2>1. PICK t \in Caller : (PartSteps(part, t) /\ OthersRest) \/ Unwinds(t)
    BY <1>1, ThreadSteps
  <2>2. CASE part = "config" /\ PartSteps(part, t) BY <2>2, ConfigCallKept DEF PartSteps, Pool
  <2>3. CASE UNCHANGED configVars BY <2>3, ConfigStays
  <2> QED BY <2>1, <2>2, <2>3 DEF OthersRest, Unwinds
<1>2. CASE ~ \E t \in Caller : Begin(t) \/ Continue(t)
  <2>1. UNCHANGED configVars
    BY <1>2 DEF Next, vars, dataVars, WorkerRuns, TimePasses
  <2> QED BY <2>1, ConfigStays
<1> QED BY <1>1, <1>2

(* Of a configuration, what is set is read back and what is removed is gone, *)
(* and another path reads what it did, unless it leads through what the set  *)
(* replaced or filled, or the removal moved up (config.rs:712); of versions, *)
(* the order is one, what is compatible is so transitively, and an increment *)
(* is later (version.rs:223): for any paths, values and versions.            *)
THEOREM ConfigurationsAnswer == Spec => []ConfigAnswers
<1>1. Init => CallersAtPart /\ ConfigInv
  BY InitCallers, ConfigInitInv DEF Init
<1>2. CallersAtPart /\ ConfigInv /\ [Next]_vars => CallersAtPart' /\ ConfigInv'
  BY CallersStayAtPart, ConfigInvKept
<1>3. ConfigInv => ConfigAnswers
  BY ConfigAnswersFollows
<1> QED BY <1>1, <1>2, <1>3, PTL DEF Spec
=============================================================================
