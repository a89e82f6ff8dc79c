-------------------------- MODULE Scheduler_proofs --------------------------
(***************************************************************************)
(* What holds of the scheduler for every number of callers, workers, tasks *)
(* and every limit: where the tasks are, which of them next_task returns,  *)
(* and how far the capacity check of schedule_task can be exceeded.        *)
(***************************************************************************)
EXTENDS Scheduler, FiniteSetTheorems, SequenceTheorems, TLAPS

(* Where the tasks are. AtMostOnePlace and what running_tasks and the      *)
(* registry say of a task are not inductive: whether a task is already     *)
(* with a worker when its call comes to register it, or when clear takes   *)
(* it out, depends on the call, the worker and the mark at once. TaskInv   *)
(* says of each of them, and of each queue, which task it can have.        *)
Distinct(s) == \A i, j \in 1 .. Len(s) : s[i] = s[j] => i = j

In(q) == ToSet(queue[q])

InHand(c) == call[c].step \in {"admitted", "checked"}

(* What the steps of the calls, workers and marks say of the tasks in them. *)
Shapes ==
  /\ \A c \in Callers : call[c].step = "none" <=> call[c].task = NoTask
  /\ \A w \in Workers : worker[w].step \in {"idle", "polling"} <=> worker[w].task = NoTask
  /\ \A p \in Markers : mark[p].step = "none" <=> mark[p].task = NoTask
  /\ \A w \in Workers :
       \/ mark[w].step = "none" /\ worker[w].step # "finishing"
       \/ /\ mark[w].step # "none"
          /\ mark[w].task = worker[w].task
          /\ \/ mark[w].status = "Running" /\ worker[w].step = "running"
             \/ mark[w].status \in {"Completed", "Failed"} /\ worker[w].step = "finishing"
  /\ mark[Operator].step # "none" => mark[Operator].status = "Cancelled"
  /\ demoted # NoTask => mlfqLevel[demoted] < MlfqLevels - 1

(* A submitted task is in the hand of one call, in one queue, with one     *)
(* worker or with demote_task, or nowhere any more.                        *)
OnePlace ==
  /\ \A q \in QueueName : Distinct(queue[q]) /\ In(q) \subseteq submitted
  /\ \A q, r \in QueueName : q # r => In(q) \cap In(r) = {}
  /\ \A v, w \in Workers : worker[v].task = worker[w].task /\ v # w => worker[v].task = NoTask
  /\ \A w \in Workers :
       /\ worker[w].task \in submitted \union {NoTask}
       /\ \A q \in QueueName : worker[w].task \notin In(q)
  /\ \A c, d \in Callers : call[c].task = call[d].task /\ c # d => call[c].task = NoTask
  /\ \A c \in Callers : call[c].task \in (submitted \ accepted) \union {NoTask}
  /\ \A c \in Callers : InHand(c) =>
       /\ \A q \in QueueName : call[c].task \notin In(q)
       /\ \A w \in Workers : call[c].task # worker[w].task
       /\ call[c].task # demoted
  /\ demoted # NoTask =>
       /\ demoted \in submitted
       /\ \A q \in QueueName : demoted \notin In(q)
       /\ \A w \in Workers : demoted # worker[w].task

Busy(w) == worker[w].step \in {"running", "finishing"}

Somewhere(t) ==
  \/ \E q \in QueueName : t \in In(q)
  \/ \E w \in Workers : worker[w].task = t
  \/ demoted = t
  \/ t \in dropped

Pushed(t) == \E c \in Callers : call[c].step = "pushed" /\ call[c].task = t

(* What the registry and running_tasks say of the tasks accepted. *)
Records ==
  /\ Registered \subseteq accepted /\ runningTasks \subseteq accepted
  /\ \A p \in Markers : mark[p].task \in accepted \union {NoTask}
  /\ \A w \in Workers : Busy(w) => worker[w].task \in accepted
  /\ ~cleared => accepted \subseteq Registered
  /\ clearing = "locked" => cleared
  /\ \A p \in Markers :
       /\ mark[p].step # "none" => mark[p].status # "Pending"
       /\ mark[p].step = "written" => registry[mark[p].task] # "Pending"
  /\ \A w \in Workers :
       Busy(w) /\ mark[w].step # "read" => registry[worker[w].task] # "Pending"
  /\ ~cleared => \A t \in TaskId :
       (t \in accepted /\ registry[t] = "Pending") \/ Pushed(t) => Somewhere(t)

Placed == Shapes /\ OnePlace /\ Records

TaskInv == TypeOK /\ Placed

(* running_tasks has the tasks being run, and what a clear has left there. *)
RunningAreBusy ==
  \A t \in runningTasks :
    \/ \E w \in Workers : worker[w].task = t /\ Busy(w)
    \/ cleared /\ (t \in Registered => mark[Operator].task = t)

-----------------------------------------------------------------------------
(* RemoveFirst takes one task out of a queue and disturbs no other, where  *)
(* no task is twice in it.                                                 *)
LEMMA Removed ==
  ASSUME NEW T, NEW s \in Seq(T), NEW t \in ToSet(s), Distinct(s)
  PROVE  /\ RemoveFirst(s, t) \in Seq(T)
         /\ Distinct(RemoveFirst(s, t))
         /\ ToSet(RemoveFirst(s, t)) = ToSet(s) \ {t}
<1>1. PICK i \in 1 .. Len(s) : s[i] = t
  BY DEF ToSet
<1>2. SelectInSeq(s, LAMBDA v : v = t) = i
  <2>1. {j \in 1 .. Len(s) : s[j] = t} = {i}
    BY <1>1 DEF Distinct
  <2> QED BY <2>1 DEF SelectInSeq, Min
<1> DEFINE a == SubSeq(s, 1, i - 1)
           b == SubSeq(s, i + 1, Len(s))
           r == a \o b
<1>3. RemoveFirst(s, t) = r
  BY <1>1, <1>2 DEF RemoveFirst, RemoveAt
<1>4. /\ r \in Seq(T) /\ Len(s) \in Nat /\ Len(r) = Len(s) - 1
      /\ \A j \in 1 .. Len(r) : r[j] = IF j < i THEN s[j] ELSE s[j + 1]
  <2>1. /\ Len(s) \in Nat /\ i \in Nat /\ i <= Len(s) /\ 1 <= i
        /\ \A j \in 1 .. Len(s) : s[j] \in T
    BY LenProperties, ElementOfSeq
  <2>2. /\ a \in Seq(T)
        /\ Len(a) = i - 1
        /\ \A j \in 1 .. i - 1 : a[j] = s[j]
    BY <2>1
  <2>3. /\ b \in Seq(T)
        /\ Len(b) = Len(s) - i
        /\ \A j \in 1 .. Len(s) - i : b[j] = s[i + j]
    BY <2>1
  <2> HIDE DEF a, b
  <2>4. /\ r \in Seq(T) /\ Len(r) = Len(s) - 1
        /\ \A j \in 1 .. Len(s) - 1 : r[j] = IF j <= i - 1 THEN a[j] ELSE b[j - (i - 1)]
    BY <2>1, <2>2, <2>3, ConcatProperties
  <2> QED BY <2>1, <2>2, <2>3, <2>4
<1> HIDE DEF r
<1>5. Distinct(r)
  BY <1>4 DEF Distinct
<1>6. ToSet(r) = ToSet(s) \ {t}
  <2>1. DOMAIN r = 1 .. Len(r) /\ DOMAIN s = 1 .. Len(s)
    BY <1>4, LenProperties
  <2>2. ASSUME NEW j \in 1 .. Len(r) PROVE r[j] \in ToSet(s) \ {t}
    <3>1. CASE j < i
      BY <3>1, <2>1, <1>1, <1>4 DEF ToSet, Distinct
    <3>2. CASE j >= i
      <4>1. j + 1 \in 1 .. Len(s) /\ r[j] = s[j + 1] /\ j + 1 # i
        BY <3>2, <1>4
      <4> QED BY <4>1, <2>1, <1>1 DEF ToSet, Distinct
    <3> QED BY <3>1, <3>2, <1>4
  <2>3. ASSUME NEW k \in 1 .. Len(s), s[k] # t PROVE s[k] \in ToSet(r)
    <3>1. CASE k < i
      BY <3>1, <2>1, <1>4 DEF ToSet
    <3>2. CASE k > i
      <4>1. k - 1 \in 1 .. Len(r) /\ r[k - 1] = s[k]
        BY <3>2, <1>4
      <4> QED BY <4>1, <2>1 DEF ToSet
    <3> QED BY <3>1, <3>2, <2>3, <1>1
  <2> QED BY <2>1, <2>2, <2>3 DEF ToSet
<1> QED BY <1>3, <1>4, <1>5, <1>6

(* Append adds one task to a queue. *)
LEMMA Appended ==
  ASSUME NEW T, NEW s \in Seq(T), NEW t \in T, Distinct(s), t \notin ToSet(s)
  PROVE  /\ Append(s, t) \in Seq(T)
         /\ Distinct(Append(s, t))
         /\ ToSet(Append(s, t)) = ToSet(s) \union {t}
<1> DEFINE r == Append(s, t)
<1>1. /\ r \in Seq(T) /\ Len(s) \in Nat /\ Len(r) = Len(s) + 1
      /\ \A j \in 1 .. Len(s) : r[j] = s[j]
      /\ r[Len(s) + 1] = t
      /\ DOMAIN r = 1 .. Len(r) /\ DOMAIN s = 1 .. Len(s)
  BY AppendProperties, LenProperties
<1> HIDE DEF r
<1>2. Distinct(r)
  BY <1>1 DEF Distinct, ToSet
<1>3. ToSet(r) = ToSet(s) \union {t}
  BY <1>1 DEF ToSet
<1> QED BY <1>1, <1>2, <1>3 DEF r

-----------------------------------------------------------------------------
(* The values a step without a task has. *)
LEMMA EmptyRecords == NoCall \in CallRecord /\ Idle \in WorkerRecord /\ NoMark \in MarkRecord
BY TaskAssumption
   DEF NoCall, Idle, NoMark, CallRecord, WorkerRecord, MarkRecord, SchedulingPolicy, TaskStatus

LEMMA TaskInit == Init => TaskInv
<1> SUFFICES ASSUME Init PROVE TaskInv
  OBVIOUS
<1> USE DEF Init, NewScheduler
<1>1. TypeOK
  <2>1. SchedulerTypeOK
    <3>1. <<>> \in Seq(TaskId) /\ 0 \in 0 .. MlfqLevels - 1
      BY TaskAssumption
    <3> QED BY <3>1, ActorAssumption DEF SchedulerTypeOK
  <2>2. /\ call \in [Callers -> CallRecord] /\ worker \in [Workers -> WorkerRecord]
        /\ mark \in [Markers -> MarkRecord]
    BY EmptyRecords
  <2>3. /\ submitted \in SUBSET TaskId /\ accepted \in SUBSET submitted
        /\ demoted \in TaskId \union {NoTask} /\ clearing \in {"no", "locked"}
        /\ cleared \in BOOLEAN /\ dropped \in SUBSET TaskId
    OBVIOUS
  <2>4. operatorCalls \in 0 .. MaxOperatorCalls
    BY ActorAssumption
  <2> QED BY <2>1, <2>2, <2>3, <2>4 DEF TypeOK
<1> USE DEF NoCall, NoMark, Idle
<1>2. Shapes
  BY ActorAssumption DEF Shapes, Markers
<1>3. \A q \in QueueName : In(q) = {} /\ Distinct(queue[q])
  BY DEF In, ToSet, Distinct
<1>4. OnePlace
  BY <1>3 DEF OnePlace, InHand
<1>5. Registered = {}
  BY DEF Registered
<1>6. Records
  BY <1>5 DEF Records, Busy, Pushed
<1> QED BY <1>1, <1>2, <1>4, <1>6 DEF TaskInv, Placed

LEMMA LowestLevel == 0 \in 0 .. MlfqLevels - 1
BY TaskAssumption

LEMMA PolicyQueue == ASSUME NEW p \in SchedulingPolicy PROVE QueueOf(p) \in QueueName
BY DEF SchedulingPolicy, QueueOf, QueueName

(* What next_task returns is in the queue it looked at. *)
LEMMA NextIsQueued ==
  ASSUME TypeOK, NEW p \in SchedulingPolicy, NEW level, NEW t \in NextTasks(p, level)
  PROVE  t \in In(QueueOf(p))
<1> DEFINE q == queue[QueueOf(p)]
<1>1. q \in Seq(TaskId)
  BY PolicyQueue DEF TypeOK, SchedulerTypeOK
<1>2. q # <<>> => Head(q) \in ToSet(q)
  <2> SUFFICES ASSUME q # <<>> PROVE Head(q) \in ToSet(q)
    OBVIOUS
  <2>1. Len(q) \in Nat \ {0} /\ DOMAIN q = 1 .. Len(q)
    BY <1>1, EmptySeq, LenProperties
  <2>2. 1 \in DOMAIN q
    BY <2>1
  <2> QED BY <2>2, <1>1 DEF ToSet
<1>3. t \in ToSet(q)
  BY <1>2 DEF NextTasks, ToSet, SchedulingPolicy
<1> QED BY <1>3 DEF In

(* What the queue operations do to the queues: they are kept without       *)
(* duplicates, and one of them gains or loses one task.                    *)
NoDuplicates == \A q \in QueueName : Distinct(queue[q])

LEMMA PushEffect ==
  ASSUME TypeOK, NoDuplicates, NEW r \in QueueName, NEW t \in TaskId, t \notin In(r),
         queue' = [queue EXCEPT ![r] = Append(@, t)]
  PROVE  /\ NoDuplicates'
         /\ \A q \in QueueName : In(q)' = IF q = r THEN In(q) \union {t} ELSE In(q)
<1>1. queue \in [QueueName -> Seq(TaskId)]
  BY DEF TypeOK, SchedulerTypeOK
<1>2. Distinct(Append(queue[r], t)) /\ ToSet(Append(queue[r], t)) = In(r) \union {t}
  BY <1>1, Appended DEF NoDuplicates, In
<1>3. queue'[r] = Append(queue[r], t) /\ \A q \in QueueName \ {r} : queue'[q] = queue[q]
  BY <1>1
<1>4. In(r)' = In(r) \union {t} /\ \A q \in QueueName \ {r} : In(q)' = In(q)
  BY <1>2, <1>3 DEF In
<1>5. NoDuplicates'
  BY <1>2, <1>3 DEF NoDuplicates
<1> QED BY <1>4, <1>5

LEMMA TakeOneEffect ==
  ASSUME TypeOK, NoDuplicates, NEW r \in QueueName, NEW t, t \in In(r),
         queue' = [queue EXCEPT ![r] = RemoveFirst(@, t)]
  PROVE  /\ NoDuplicates'
         /\ \A q \in QueueName : In(q)' = IF q = r THEN In(q) \ {t} ELSE In(q)
         /\ queue' \in [QueueName -> Seq(TaskId)]
<1>1. queue \in [QueueName -> Seq(TaskId)]
  BY DEF TypeOK, SchedulerTypeOK
<1>2. /\ Distinct(RemoveFirst(queue[r], t))
      /\ ToSet(RemoveFirst(queue[r], t)) = In(r) \ {t}
      /\ RemoveFirst(queue[r], t) \in Seq(TaskId)
  BY <1>1, Removed DEF NoDuplicates, In
<1>3. queue'[r] = RemoveFirst(queue[r], t) /\ \A q \in QueueName \ {r} : queue'[q] = queue[q]
  BY <1>1
<1> QED BY <1>1, <1>2, <1>3 DEF NoDuplicates, In

LEMMA PopEffect ==
  ASSUME TypeOK, NoDuplicates, NEW p \in SchedulingPolicy, NEW level, NEW t, Pop(t, p, level)
  PROVE  /\ NoDuplicates' /\ t \in In(QueueOf(p))
         /\ \A q \in QueueName : In(q)' = IF q = QueueOf(p) THEN In(q) \ {t} ELSE In(q)
         /\ queue' \in [QueueName -> Seq(TaskId)]
<1>1. t \in In(QueueOf(p)) /\ QueueOf(p) \in QueueName
  BY NextIsQueued, PolicyQueue DEF Pop
<1> QED BY <1>1, TakeOneEffect DEF Pop

LEMMA TakeEffect ==
  ASSUME TypeOK, NoDuplicates, NEW t, TakeFromLevel(t)
  PROVE  /\ NoDuplicates' /\ t \in In("mlfq")
         /\ \A q \in QueueName : In(q)' = IF q = "mlfq" THEN In(q) \ {t} ELSE In(q)
         /\ queue' \in [QueueName -> Seq(TaskId)]
<1>1. queue["mlfq"] \in Seq(TaskId) /\ "mlfq" \in QueueName
  BY DEF TypeOK, SchedulerTypeOK, QueueName
<1>2. t \in In("mlfq")
  BY <1>1, LenProperties DEF TakeFromLevel, MayDemote, Contains, In, ToSet
<1> QED BY <1>1, <1>2, TakeOneEffect DEF TakeFromLevel

(* The first block of a mark_task_ method keeps the type of mark. *)
LEMMA MarkType ==
  ASSUME TypeOK, NEW p \in Markers, NEW t, NEW status \in TaskStatus, BeginMark(p, t, status)
  PROVE  mark' \in [Markers -> MarkRecord]
BY DEF TypeOK, BeginMark, Registered, MarkRecord

(* Every step keeps the types; that demote_task finds a level below its    *)
(* task is in Shapes.                                                      *)
LEMMA TypeStep ==
  ASSUME TypeOK, Shapes, OnePlace, [Next]_vars
  PROVE  TypeOK'
<1>0. NoDuplicates
  BY DEF OnePlace, NoDuplicates
<1> USE DEF TypeOK, SchedulerTypeOK
<1>1. ASSUME NEW c \in Callers, NEW t \in TaskId, Submit(c, t) PROVE TypeOK'
  <2>1. [NoCall EXCEPT !.step = "admitted", !.task = t] \in CallRecord
    BY DEF NoCall, CallRecord, SchedulingPolicy
  <2>2. call' \in [Callers -> CallRecord]
    BY <1>1, <2>1 DEF Submit
  <2> QED BY <1>1, <2>2 DEF Submit, schedulerVars, workerVars, operatorVars
<1>2. ASSUME NEW c \in Callers, CallStep(c) PROVE TypeOK'
  <2>1. call[c] \in CallRecord
    OBVIOUS
  <2>2. CASE CheckCapacity(c)
    <3>1. [call[c] EXCEPT !.step = "checked", !.policy = policy] \in CallRecord
      BY <2>1 DEF CallRecord
    <3>2. call' \in [Callers -> CallRecord]
      BY <2>2, <3>1, EmptyRecords DEF CheckCapacity
    <3> QED BY <2>2, <3>2 DEF CheckCapacity, schedulerVars, workerVars, operatorVars
  <2>3. CASE PushTask(c)
    <3>1. /\ [call[c] EXCEPT !.step = "pushed"] \in CallRecord
          /\ call[c].policy \in SchedulingPolicy /\ call[c].task \in TaskId
      BY <2>1, <2>3 DEF CallRecord, PushTask, Shapes
    <3>2. call' \in [Callers -> CallRecord]
      BY <2>3, <3>1 DEF PushTask
    <3>3. queue' \in [QueueName -> Seq(TaskId)]
      BY <2>3, <3>1, PolicyQueue, AppendProperties DEF PushTask, Push
    <3>4. mlfqLevel' \in [TaskId -> 0 .. MlfqLevels - 1]
      BY <2>3, LowestLevel DEF PushTask, Push
    <3> QED BY <2>3, <3>2, <3>3, <3>4 DEF PushTask, Push, workerVars, operatorVars
  <2>4. CASE Register(c)
    <3>1. call[c].task \in submitted \union {NoTask} /\ call[c].task # NoTask
      BY <2>4 DEF Register, Shapes, OnePlace
    <3>2. call' \in [Callers -> CallRecord]
      BY <2>4, EmptyRecords DEF Register
    <3>3. registry' \in [TaskId -> TaskStatus \union {"absent"}]
      BY <2>4 DEF Register, SetRegistry, TaskStatus
    <3> QED BY <2>4, <3>1, <3>2, <3>3 DEF Register, SetRegistry, workerVars, operatorVars
  <2> QED BY <1>2, <2>2, <2>3, <2>4 DEF CallStep
<1>3. ASSUME NEW w \in Workers, WorkerStep(w) PROVE TypeOK'
  <2>1. worker[w] \in WorkerRecord
    OBVIOUS
  <2>2. CASE ReadPolicy(w)
    <3>1. [worker[w] EXCEPT !.step = "polling", !.policy = policy] \in WorkerRecord
      BY <2>1 DEF WorkerRecord
    <3>2. worker' \in [Workers -> WorkerRecord]
      BY <2>2, <3>1 DEF ReadPolicy
    <3> QED BY <2>2, <3>2 DEF ReadPolicy, schedulerVars, callVars, operatorVars
  <2>3. ASSUME NEW t \in TaskId, PopTask(w, t) PROVE TypeOK'
    <3>1. [worker[w] EXCEPT !.step = "holding", !.task = t, !.level = 0] \in WorkerRecord
      BY <2>1, LowestLevel DEF WorkerRecord
    <3>2. worker' \in [Workers -> WorkerRecord]
      BY <2>3, <3>1 DEF PopTask
    <3>3. /\ worker[w].policy \in SchedulingPolicy
          /\ t \in NextTasks(worker[w].policy, worker[w].level)
      BY <2>1, <2>3 DEF WorkerRecord, PopTask, Pop
    <3>4. queue' \in [QueueName -> Seq(TaskId)]
      BY <1>0, <2>3, <3>3, PopEffect DEF PopTask
    <3> QED BY <2>3, <3>2, <3>4 DEF PopTask, Pop, callVars, operatorVars
  <2>4. CASE FindNothing(w)
    <3>1. ASSUME worker[w].level < MlfqLevels - 1
          PROVE  [worker[w] EXCEPT !.level = worker[w].level + 1] \in WorkerRecord
      <4>1. worker[w].level + 1 \in 0 .. MlfqLevels - 1
        BY <2>1, <3>1, TaskAssumption DEF WorkerRecord
      <4> QED BY <2>1, <4>1 DEF WorkerRecord
    <3>2. worker' \in [Workers -> WorkerRecord]
      BY <2>4, <3>1, EmptyRecords DEF FindNothing
    <3> QED BY <2>4, <3>2 DEF FindNothing, schedulerVars, callVars, operatorVars
  <2>5. CASE StartTask(w)
    <3>1. [worker[w] EXCEPT !.step = "running"] \in WorkerRecord
      BY <2>1 DEF WorkerRecord
    <3>2. worker' \in [Workers -> WorkerRecord]
      BY <2>5, <3>1 DEF StartTask
    <3>3. mark' \in [Markers -> MarkRecord]
      BY <2>5, MarkType DEF StartTask, Markers, TaskStatus
    <3> QED BY <2>5, <3>2, <3>3 DEF StartTask, schedulerVars, callVars, operatorVars
  <2>6. CASE DropTask(w)
    <3>1. worker[w].task \in TaskId
      BY <2>1, <2>6 DEF WorkerRecord, DropTask, Shapes
    <3>2. worker' \in [Workers -> WorkerRecord]
      BY <2>6, EmptyRecords DEF DropTask
    <3> QED BY <2>6, <3>1, <3>2 DEF DropTask, schedulerVars, callVars, operatorVars
  <2>7. ASSUME NEW status \in {"Completed", "Failed"}, FinishTask(w, status) PROVE TypeOK'
    <3>1. [worker[w] EXCEPT !.step = "finishing"] \in WorkerRecord
      BY <2>1 DEF WorkerRecord
    <3>2. worker' \in [Workers -> WorkerRecord]
      BY <2>7, <3>1, EmptyRecords DEF FinishTask
    <3>3. mark' \in [Markers -> MarkRecord]
      BY <2>7, MarkType DEF FinishTask, Markers, TaskStatus
    <3> QED BY <2>7, <3>2, <3>3 DEF FinishTask, schedulerVars, callVars, operatorVars
  <2> QED BY <1>3, <2>2, <2>3, <2>4, <2>5, <2>6, <2>7 DEF WorkerStep
<1>4. ASSUME NEW p \in Markers, MarkStep(p) PROVE TypeOK'
  <2>1. mark[p] \in MarkRecord
    OBVIOUS
  <2>2. mark[p].task \in TaskId \union {NoTask} /\ mark[p].status \in TaskStatus
    BY <2>1 DEF MarkRecord
  <2>3. CASE WriteMark(p)
    <3>1. [mark[p] EXCEPT !.step = "written"] \in MarkRecord
      BY <2>1 DEF MarkRecord
    <3>2. mark' \in [Markers -> MarkRecord]
      BY <2>3, <3>1 DEF WriteMark
    <3>3. registry' \in [TaskId -> TaskStatus \union {"absent"}]
      BY <2>2, <2>3 DEF WriteMark, SetRegistry
    <3> QED BY <2>3, <3>2, <3>3 DEF WriteMark, SetRegistry, callVars, workerVars, operatorVars
  <2>4. CASE EndMark(p)
    <3>1. mark' \in [Markers -> MarkRecord] /\ worker' \in [Workers -> WorkerRecord]
      BY <2>4, EmptyRecords DEF EndMark
    <3>2. mark[p].task \in TaskId
      BY <2>2, <2>4 DEF EndMark, Shapes
    <3> QED BY <2>4, <3>1, <3>2 DEF EndMark, SetRunningTasks, callVars, operatorVars
  <2> QED BY <1>4, <2>3, <2>4 DEF MarkStep
<1>5. ASSUME OperatorCall PROVE operatorCalls' \in 0 .. MaxOperatorCalls
  BY <1>5, ActorAssumption DEF OperatorCall
<1>6. ASSUME NEW t \in TaskId, CancelTask(t) PROVE TypeOK'
  <2>1. mark' \in [Markers -> MarkRecord]
    BY <1>6, MarkType DEF CancelTask, Markers, TaskStatus
  <2> QED BY <1>5, <1>6, <2>1 DEF CancelTask, schedulerVars, callVars, workerVars
<1>7. ASSUME NEW t \in TaskId, BeginDemote(t) PROVE TypeOK'
  <2>1. queue' \in [QueueName -> Seq(TaskId)]
    BY <1>0, <1>7, TakeEffect DEF BeginDemote
  <2> QED BY <1>5, <1>7, <2>1 DEF BeginDemote, TakeFromLevel, callVars, workerVars
<1>8. CASE EndDemote
  <2>1. demoted \in TaskId /\ mlfqLevel[demoted] + 1 \in 0 .. MlfqLevels - 1
    BY <1>8, TaskAssumption DEF EndDemote, Shapes
  <2>2. queue' \in [QueueName -> Seq(TaskId)]
    BY <1>8, <2>1, AppendProperties DEF EndDemote, PushToLevel, QueueName
  <2>3. mlfqLevel' \in [TaskId -> 0 .. MlfqLevels - 1]
    BY <1>8, <2>1 DEF EndDemote, PushToLevel
  <2> QED BY <1>8, <2>2, <2>3 DEF EndDemote, PushToLevel, callVars, workerVars
<1>9. CASE BeginClear
  BY <1>5, <1>9 DEF BeginClear, schedulerVars, callVars, workerVars
<1>10. CASE EndClear
  <2>1. <<>> \in Seq(TaskId)
    OBVIOUS
  <2>2. queue' \in [QueueName -> Seq(TaskId)]
    BY <1>10, <2>1 DEF EndClear, ClearAll
  <2> QED BY <1>10, <2>2 DEF EndClear, ClearAll, callVars, workerVars
<1>11. CASE Settings
  <2>1. policy' \in SchedulingPolicy /\ isRunning' \in BOOLEAN
    BY <1>11, ActorAssumption DEF Settings, SetPolicy, SetIsRunning
  <2> QED
    BY <1>5, <1>11, <2>1 DEF Settings, SetPolicy, SetIsRunning, callVars, workerVars
<1>12. CASE UNCHANGED vars
  BY <1>12 DEF vars, schedulerVars, callVars, workerVars, operatorVars
<1> QED BY <1>1, <1>2, <1>3, <1>4, <1>6, <1>7, <1>8, <1>9, <1>10, <1>11, <1>12 DEF Next

-----------------------------------------------------------------------------
(* What each step does to where the tasks are, one lemma for each.         *)
(* A queue's tasks depend on nothing but the queues. *)
LEMMA QueuesStill ==
  ASSUME UNCHANGED queue
  PROVE  \A q \in QueueName : In(q)' = In(q) /\ (Distinct(queue[q]) => Distinct(queue'[q]))
BY DEF In

LEMMA RegistryStill ==
  ASSUME UNCHANGED registry
  PROVE  Registered' = Registered
BY DEF Registered

LEMMA PlacedSubmit ==
  ASSUME TaskInv, NEW c \in Callers, NEW t \in TaskId, Submit(c, t)
  PROVE  Placed'
<1> USE DEF TaskInv, Placed
<1>1. /\ UNCHANGED <<queue, mlfqLevel, registry, runningTasks, accepted, worker, dropped, mark,
                     demoted, clearing, cleared>>
      /\ submitted' = submitted \union {t} /\ t \notin submitted
  BY DEF Submit, schedulerVars, workerVars, operatorVars
<1>2. /\ call' \in [Callers -> CallRecord]
      /\ \A d \in Callers \ {c} : call'[d] = call[d]
      /\ call[c].step = "none" /\ call[c].task = NoTask
      /\ \/ call'[c] = call[c]
         \/ call'[c].step = "admitted" /\ call'[c].task = t
  <2>1. call \in [Callers -> CallRecord] /\ call[c].step = "none"
    BY DEF TypeOK, Submit
  <2>2. call[c].task = NoTask
    BY <2>1 DEF Shapes
  <2>3. /\ [NoCall EXCEPT !.step = "admitted", !.task = t] \in CallRecord
        /\ [NoCall EXCEPT !.step = "admitted", !.task = t].step = "admitted"
        /\ [NoCall EXCEPT !.step = "admitted", !.task = t].task = t
    BY DEF NoCall, CallRecord, SchedulingPolicy
  <2> QED BY <2>1, <2>2, <2>3 DEF Submit
<1>3. t # NoTask /\ t \notin accepted
  BY <1>1, ActorAssumption DEF TypeOK
<1>4. Shapes'
  BY <1>1, <1>2, <1>3 DEF Shapes
<1>5. OnePlace'
  BY <1>1, <1>2, <1>3, QueuesStill DEF OnePlace, InHand
<1>6. Records'
  <2>1. \A u \in TaskId : Pushed(u)' => Pushed(u)
    BY <1>2 DEF Pushed
  <2>2. \A u \in TaskId : Somewhere(u) => Somewhere(u)'
    BY <1>1, QueuesStill DEF Somewhere
  <2> QED BY <1>1, <2>1, <2>2, RegistryStill DEF Records, Busy
<1> QED BY <1>4, <1>5, <1>6

LEMMA PlacedCheckCapacity ==
  ASSUME TaskInv, NEW c \in Callers, CheckCapacity(c)
  PROVE  Placed'
<1> USE DEF TaskInv, Placed
<1>1. UNCHANGED <<queue, mlfqLevel, registry, runningTasks, submitted, accepted, worker, dropped,
                  mark, demoted, clearing, cleared>>
  BY DEF CheckCapacity, schedulerVars, workerVars, operatorVars
<1>2. /\ \A d \in Callers \ {c} : call'[d] = call[d]
      /\ call[c].step = "admitted"
      /\ \/ call'[c].step = "checked" /\ call'[c].task = call[c].task
         \/ call'[c].step = "none" /\ call'[c].task = NoTask
  BY DEF TypeOK, CheckCapacity, NoCall, CallRecord
<1>3. Shapes'
  BY <1>1, <1>2 DEF Shapes
<1>4. OnePlace'
  BY <1>1, <1>2, QueuesStill DEF OnePlace, InHand
<1>5. Records'
  <2>1. \A u \in TaskId : Pushed(u)' => Pushed(u)
    BY <1>2 DEF Pushed
  <2>2. \A u \in TaskId : Somewhere(u) => Somewhere(u)'
    BY <1>1, QueuesStill DEF Somewhere
  <2> QED BY <1>1, <2>1, <2>2, RegistryStill DEF Records, Busy
<1> QED BY <1>3, <1>4, <1>5

LEMMA PlacedPushTask ==
  ASSUME TaskInv, NEW c \in Callers, PushTask(c)
  PROVE  Placed'
<1> USE DEF TaskInv, Placed
<1> DEFINE t == call[c].task
           r == QueueOf(call[c].policy)
<1>1. /\ UNCHANGED <<registry, runningTasks, submitted, accepted, worker, dropped, mark, demoted,
                     clearing, cleared>>
      /\ queue' = [queue EXCEPT ![r] = Append(@, t)]
      /\ mlfqLevel' = [mlfqLevel EXCEPT ![t] = 0]
  BY DEF PushTask, Push, workerVars, operatorVars
<1>2. /\ \A d \in Callers \ {c} : call'[d] = call[d]
      /\ call[c].step = "checked"
      /\ call'[c].step = "pushed" /\ call'[c].task = t
      /\ call[c].policy \in SchedulingPolicy
  BY DEF TypeOK, PushTask, CallRecord
<1>3. t \in submitted /\ t \notin accepted /\ t # NoTask /\ t \in TaskId /\ r \in QueueName
  BY <1>2, PolicyQueue DEF Shapes, OnePlace, TypeOK
<1>4. /\ \A q \in QueueName : t \notin In(q)
      /\ \A w \in Workers : worker[w].task # t
      /\ demoted # t
  BY <1>2 DEF OnePlace, InHand
<1>5. /\ NoDuplicates'
      /\ \A q \in QueueName : In(q)' = IF q = r THEN In(q) \union {t} ELSE In(q)
  BY <1>1, <1>3, <1>4, PushEffect DEF OnePlace, NoDuplicates
<1>6. Shapes'
  <2>1. demoted # NoTask => mlfqLevel'[demoted] = mlfqLevel[demoted]
    BY <1>1, <1>4 DEF TypeOK, SchedulerTypeOK
  <2> QED BY <1>1, <1>2, <1>3, <2>1 DEF Shapes
<1>7. OnePlace'
  <2>1. \A q \in QueueName : Distinct(queue[q])' /\ In(q)' \subseteq submitted'
    BY <1>1, <1>3, <1>5 DEF OnePlace, NoDuplicates
  <2>2. \A q, s \in QueueName : q # s => In(q)' \cap In(s)' = {}
    BY <1>4, <1>5 DEF OnePlace
  <2>3. \A d \in Callers : InHand(d)' =>
          /\ d # c /\ InHand(d) /\ call'[d] = call[d] /\ call[d].task # t
    BY <1>2, <1>3 DEF InHand, OnePlace
  <2> QED BY <1>1, <1>2, <1>3, <1>4, <1>5, <2>1, <2>2, <2>3 DEF OnePlace
<1>8. Records'
  <2>1. \A u \in TaskId : Pushed(u)' => Pushed(u) \/ u = t
    BY <1>2 DEF Pushed
  <2>2. \A u \in TaskId : Somewhere(u) \/ u = t => Somewhere(u)'
    <3>1. /\ \E q \in QueueName : t \in In(q)'
          /\ \A q \in QueueName : In(q) \subseteq In(q)'
      BY <1>3, <1>5
    <3> QED BY <1>1, <3>1 DEF Somewhere
  <2> QED BY <1>1, <2>1, <2>2, RegistryStill DEF Records, Busy
<1> QED BY <1>6, <1>7, <1>8

LEMMA PlacedRegister ==
  ASSUME TaskInv, NEW c \in Callers, Register(c)
  PROVE  Placed'
<1> USE DEF TaskInv, Placed
<1> DEFINE t == call[c].task
<1>1. /\ UNCHANGED <<queue, mlfqLevel, runningTasks, submitted, worker, dropped, mark, demoted,
                     clearing, cleared>>
      /\ registry' = [registry EXCEPT ![t] = "Pending"]
      /\ accepted' = accepted \union {t}
  BY DEF Register, SetRegistry, workerVars, operatorVars
<1>2. /\ \A d \in Callers \ {c} : call'[d] = call[d]
      /\ call[c].step = "pushed"
      /\ call'[c].step = "none" /\ call'[c].task = NoTask
  BY DEF TypeOK, Register, NoCall
<1>3. t \in submitted /\ t \notin accepted /\ t # NoTask /\ t \in TaskId
  BY <1>2 DEF Shapes, OnePlace, TypeOK
<1>4. Registered' = Registered \union {t} /\ \A u \in TaskId \ {t} : registry'[u] = registry[u]
  BY <1>1, <1>3 DEF Registered, TypeOK, SchedulerTypeOK
<1>5. Shapes'
  BY <1>1, <1>2 DEF Shapes
<1>6. OnePlace'
  BY <1>1, <1>2, <1>3, QueuesStill DEF OnePlace, InHand
<1>7. Records'
  <2>1. \A u \in TaskId : Pushed(u)' => Pushed(u)
    BY <1>2 DEF Pushed
  <2>2. Pushed(t) /\ \A u \in TaskId : Somewhere(u) => Somewhere(u)'
    BY <1>1, <1>2, QueuesStill DEF Somewhere, Pushed
  <2>3. \A p \in Markers : mark[p].step # "none" =>
          mark[p].task \in TaskId /\ registry'[mark[p].task] = registry[mark[p].task]
    BY <1>3, <1>4 DEF Records, Shapes, TypeOK
  <2> QED BY <1>1, <1>3, <1>4, <2>1, <2>2, <2>3 DEF Records, Busy
<1> QED BY <1>5, <1>6, <1>7

(* A worker that has no task and takes none. *)
LEMMA PlacedPolling ==
  ASSUME TaskInv, NEW w \in Workers, ReadPolicy(w) \/ FindNothing(w)
  PROVE  Placed'
<1> USE DEF TaskInv, Placed
<1>1. UNCHANGED <<queue, mlfqLevel, registry, runningTasks, call, submitted, accepted, dropped,
                  mark, demoted, clearing, cleared>>
  BY DEF ReadPolicy, FindNothing, schedulerVars, callVars, operatorVars
<1>2. /\ \A v \in Workers \ {w} : worker'[v] = worker[v]
      /\ worker[w].step \in {"idle", "polling"} /\ worker[w].task = NoTask
      /\ worker'[w].step \in {"idle", "polling"} /\ worker'[w].task = NoTask
  <2>1. worker \in [Workers -> WorkerRecord] /\ worker[w].task = NoTask
    BY DEF TypeOK, Shapes, ReadPolicy, FindNothing
  <2>2. CASE ReadPolicy(w)
    BY <2>1, <2>2 DEF ReadPolicy, WorkerRecord
  <2>3. CASE FindNothing(w)
    <3>1. worker[w].step = "polling" /\ \A v \in Workers \ {w} : worker'[v] = worker[v]
      BY <2>1, <2>3 DEF FindNothing
    <3>2. \/ worker'[w] = [worker[w] EXCEPT !.level = worker[w].level + 1]
          \/ worker'[w] = Idle
      BY <2>1, <2>3 DEF FindNothing
    <3> QED BY <2>1, <3>1, <3>2 DEF WorkerRecord, Idle
  <2> QED BY <2>2, <2>3
<1>3. Shapes'
  BY <1>1, <1>2 DEF Shapes
<1>4. OnePlace'
  BY <1>1, <1>2, QueuesStill, ActorAssumption DEF OnePlace, InHand, TypeOK
<1>5. Records'
  <2>1. \A u \in TaskId : Somewhere(u) => Somewhere(u)'
    BY <1>1, <1>2, ActorAssumption, QueuesStill DEF Somewhere
  <2> QED BY <1>1, <1>2, <2>1, RegistryStill DEF Records, Busy, Pushed
<1> QED BY <1>3, <1>4, <1>5

LEMMA PlacedPopTask ==
  ASSUME TaskInv, NEW w \in Workers, NEW t \in TaskId, PopTask(w, t)
  PROVE  Placed'
<1> USE DEF TaskInv, Placed
<1>1. /\ UNCHANGED <<mlfqLevel, registry, runningTasks, call, submitted, accepted, dropped, mark,
                     demoted, clearing, cleared>>
      /\ Pop(t, worker[w].policy, worker[w].level)
  BY DEF PopTask, Pop, callVars, operatorVars
<1>2. /\ \A v \in Workers \ {w} : worker'[v] = worker[v]
      /\ worker[w].step = "polling" /\ worker[w].task = NoTask
      /\ worker[w].policy \in SchedulingPolicy
      /\ worker'[w].step = "holding" /\ worker'[w].task = t
  <2>1. worker \in [Workers -> WorkerRecord] /\ worker[w].task = NoTask
    BY DEF TypeOK, Shapes, PopTask
  <2> QED BY <2>1 DEF PopTask, WorkerRecord
<1>3. PICK r \in QueueName :
        /\ t \in In(r) /\ NoDuplicates'
        /\ \A q \in QueueName : In(q)' = IF q = r THEN In(q) \ {t} ELSE In(q)
  BY <1>1, <1>2, PopEffect, PolicyQueue DEF OnePlace, NoDuplicates
<1>4. /\ t \in submitted /\ t # NoTask /\ t # demoted
      /\ \A v \in Workers : worker[v].task # t
      /\ \A d \in Callers : InHand(d) => call[d].task # t
  BY <1>3, ActorAssumption DEF OnePlace
<1>5. \A q \in QueueName : In(q)' \subseteq In(q) /\ t \notin In(q)'
  BY <1>3 DEF OnePlace
<1>6. Shapes'
  BY <1>1, <1>2, <1>4 DEF Shapes
<1>7. OnePlace'
  <2>1. \A q \in QueueName : Distinct(queue[q])' /\ In(q)' \subseteq submitted'
    BY <1>1, <1>3, <1>5 DEF OnePlace, NoDuplicates
  <2>2. \A q, s \in QueueName : q # s => In(q)' \cap In(s)' = {}
    BY <1>5 DEF OnePlace
  <2> QED BY <1>1, <1>2, <1>4, <1>5, <2>1, <2>2 DEF OnePlace, InHand
<1>8. Records'
  <2>1. \A u \in TaskId : Somewhere(u) => Somewhere(u)'
    <3>1. \A u \in TaskId \ {t}, q \in QueueName : u \in In(q) => u \in In(q)'
      BY <1>3
    <3> QED BY <1>1, <1>2, <3>1, ActorAssumption DEF Somewhere
  <2> QED BY <1>1, <1>2, <2>1, RegistryStill DEF Records, Busy, Pushed
<1> QED BY <1>6, <1>7, <1>8

(* The first block of a mark_task_ method, which asks that the task is     *)
(* registered.                                                             *)
LEMMA MarkBegun ==
  ASSUME TaskInv, NEW p \in Markers, NEW t, NEW status, BeginMark(p, t, status)
  PROVE  /\ \A o \in Markers \ {p} : mark'[o] = mark[o]
         /\ mark[p].step = "none" /\ mark[p].task = NoTask
         /\ mark'[p].step = "read" /\ mark'[p].task = t /\ mark'[p].status = status
         /\ t \in Registered /\ t \in TaskId /\ t # NoTask /\ t \in accepted
BY ActorAssumption DEF BeginMark, TaskInv, Placed, TypeOK, Registered, Shapes, Records

LEMMA PlacedStartTask ==
  ASSUME TaskInv, NEW w \in Workers, StartTask(w)
  PROVE  Placed'
<1> USE DEF TaskInv, Placed
<1>1. UNCHANGED <<queue, mlfqLevel, registry, runningTasks, call, submitted, accepted, dropped,
                  demoted, clearing, cleared>>
  BY DEF StartTask, schedulerVars, callVars, operatorVars
<1>2. /\ \A v \in Workers \ {w} : worker'[v] = worker[v]
      /\ worker[w].step = "holding"
      /\ worker'[w].step = "running" /\ worker'[w].task = worker[w].task
  BY DEF StartTask, TypeOK, WorkerRecord
<1>3. /\ \A o \in Markers \ {w} : mark'[o] = mark[o]
      /\ mark'[w].step = "read" /\ mark'[w].task = worker[w].task /\ mark'[w].status = "Running"
      /\ worker[w].task # NoTask /\ worker[w].task \in accepted
  BY MarkBegun DEF StartTask, Markers
<1>4. Operator # w /\ Operator \in Markers
  BY ActorAssumption DEF Markers
<1>5. Shapes'
  BY <1>1, <1>2, <1>3, <1>4 DEF Shapes, Markers
<1>6. OnePlace'
  BY <1>1, <1>2, QueuesStill DEF OnePlace, InHand
<1>7. Records'
  <2>1. \A u \in TaskId : Somewhere(u) => Somewhere(u)'
    BY <1>1, <1>2, QueuesStill DEF Somewhere
  <2>2. \A x \in Workers : Busy(x)' /\ mark'[x].step # "read" =>
          registry'[worker'[x].task] # "Pending"
    BY <1>1, <1>2, <1>3 DEF Records, Busy, Markers
  <2> QED BY <1>1, <1>2, <1>3, <2>1, <2>2, RegistryStill DEF Records, Busy, Pushed
<1> QED BY <1>5, <1>6, <1>7

LEMMA PlacedDropTask ==
  ASSUME TaskInv, NEW w \in Workers, DropTask(w)
  PROVE  Placed'
<1> USE DEF TaskInv, Placed
<1>1. /\ UNCHANGED <<queue, mlfqLevel, registry, runningTasks, call, submitted, accepted, mark,
                     demoted, clearing, cleared>>
      /\ dropped' = dropped \union {worker[w].task}
  BY DEF DropTask, schedulerVars, callVars, operatorVars
<1>2. /\ \A v \in Workers \ {w} : worker'[v] = worker[v]
      /\ worker[w].step = "holding"
      /\ worker'[w].step = "idle" /\ worker'[w].task = NoTask
  BY DEF DropTask, TypeOK, Idle
<1>3. Shapes'
  BY <1>1, <1>2 DEF Shapes
<1>4. OnePlace'
  BY <1>1, <1>2, QueuesStill, ActorAssumption DEF OnePlace, InHand, TypeOK, Shapes
<1>5. Records'
  <2>1. \A u \in TaskId : Somewhere(u) => Somewhere(u)'
    BY <1>1, <1>2, QueuesStill DEF Somewhere
  <2> QED BY <1>1, <1>2, <2>1, RegistryStill DEF Records, Busy, Pushed
<1> QED BY <1>3, <1>4, <1>5

LEMMA PlacedFinishTask ==
  ASSUME TaskInv, NEW w \in Workers, NEW status \in {"Completed", "Failed"},
         FinishTask(w, status)
  PROVE  Placed'
<1> USE DEF TaskInv, Placed
<1>1. UNCHANGED <<queue, mlfqLevel, registry, runningTasks, call, submitted, accepted, dropped,
                  demoted, clearing, cleared>>
  BY DEF FinishTask, schedulerVars, callVars, operatorVars
<1>2. /\ worker[w].step = "running" /\ mark[w].step = "none"
      /\ worker[w].task \in accepted /\ worker[w].task # NoTask
  BY DEF FinishTask, Shapes, Records, Busy
<1>3. Operator # w /\ Operator \in Markers
  BY ActorAssumption DEF Markers
<1>4. CASE BeginMark(w, worker[w].task, status)
  <2>1. /\ \A o \in Markers \ {w} : mark'[o] = mark[o]
        /\ mark'[w].step = "read" /\ mark'[w].task = worker[w].task /\ mark'[w].status = status
        /\ worker[w].task \in Registered
    BY <1>4, MarkBegun DEF Markers
  <2>2. /\ \A v \in Workers \ {w} : worker'[v] = worker[v]
        /\ worker'[w].step = "finishing" /\ worker'[w].task = worker[w].task
    BY <2>1 DEF FinishTask, TypeOK, WorkerRecord
  <2>3. Shapes'
    BY <1>1, <1>2, <1>3, <2>1, <2>2 DEF Shapes, Markers
  <2>4. OnePlace'
    BY <1>1, <2>2, QueuesStill DEF OnePlace, InHand
  <2>5. Records'
    <3>1. \A u \in TaskId : Somewhere(u) => Somewhere(u)'
      BY <1>1, <2>2, QueuesStill DEF Somewhere
    <3>2. \A x \in Workers : Busy(x)' /\ mark'[x].step # "read" =>
            registry'[worker'[x].task] # "Pending"
      BY <1>1, <1>2, <2>1, <2>2 DEF Records, Busy, Markers
    <3> QED BY <1>1, <1>2, <2>1, <2>2, <3>1, <3>2, RegistryStill DEF Records, Busy, Pushed
  <2> QED BY <2>3, <2>4, <2>5
<1>5. CASE ~BeginMark(w, worker[w].task, status)
  <2>1. UNCHANGED mark /\ worker[w].task \notin Registered
    BY <1>5 DEF FinishTask
  <2>2. /\ \A v \in Workers \ {w} : worker'[v] = worker[v]
        /\ worker'[w].step = "idle" /\ worker'[w].task = NoTask
    BY <1>5 DEF FinishTask, TypeOK, Idle
  <2>3. Shapes'
    BY <1>1, <1>2, <2>1, <2>2 DEF Shapes
  <2>4. OnePlace'
    BY <1>1, <2>2, QueuesStill, ActorAssumption DEF OnePlace, InHand, TypeOK, Shapes
  <2>5. cleared
    BY <1>2, <2>1 DEF Records
  <2>6. Records'
    BY <1>1, <1>2, <2>1, <2>2, <2>5, RegistryStill DEF Records, Busy
  <2> QED BY <2>3, <2>4, <2>6
<1> QED BY <1>4, <1>5

LEMMA PlacedCancelTask ==
  ASSUME TaskInv, NEW t \in TaskId, CancelTask(t)
  PROVE  Placed'
<1> USE DEF TaskInv, Placed
<1>1. UNCHANGED <<queue, mlfqLevel, registry, runningTasks, call, submitted, accepted, worker,
                  dropped, demoted, clearing, cleared>>
  BY DEF CancelTask, schedulerVars, callVars, workerVars
<1>2. Operator \notin Workers /\ Operator \in Markers
  BY ActorAssumption DEF Markers
<1>3. /\ \A o \in Markers \ {Operator} : mark'[o] = mark[o]
      /\ mark'[Operator].step = "read" /\ mark'[Operator].task = t
      /\ mark'[Operator].status = "Cancelled"
      /\ t # NoTask /\ t \in accepted
  BY <1>2, MarkBegun DEF CancelTask
<1>4. Shapes'
  BY <1>1, <1>2, <1>3 DEF Shapes, Markers
<1>5. OnePlace'
  BY <1>1, QueuesStill DEF OnePlace, InHand
<1>6. Records'
  <2>1. \A u \in TaskId : Somewhere(u) => Somewhere(u)'
    BY <1>1, QueuesStill DEF Somewhere
  <2>2. \A w \in Workers : mark'[w] = mark[w]
    BY <1>2, <1>3 DEF Markers
  <2> QED BY <1>1, <1>3, <2>1, <2>2, RegistryStill DEF Records, Busy, Pushed
<1> QED BY <1>4, <1>5, <1>6

LEMMA PlacedWriteMark ==
  ASSUME TaskInv, NEW p \in Markers, WriteMark(p)
  PROVE  Placed'
<1> USE DEF TaskInv, Placed
<1> DEFINE t == mark[p].task
<1>1. /\ UNCHANGED <<queue, mlfqLevel, runningTasks, call, submitted, accepted, worker, dropped,
                     demoted, clearing, cleared>>
      /\ registry' = [registry EXCEPT ![t] = mark[p].status]
  BY DEF WriteMark, SetRegistry, callVars, workerVars, operatorVars
<1>2. /\ \A o \in Markers \ {p} : mark'[o] = mark[o]
      /\ mark[p].step = "read" /\ mark'[p].step = "written"
      /\ mark'[p].task = t /\ mark'[p].status = mark[p].status
  BY DEF WriteMark, TypeOK, MarkRecord
<1>3. t \in accepted /\ t \in TaskId /\ mark[p].status \in TaskStatus \ {"Pending"}
  BY <1>2 DEF Records, Shapes, TypeOK, MarkRecord
<1>4. /\ Registered' = Registered \union {t}
      /\ registry'[t] = mark[p].status
      /\ \A u \in TaskId \ {t} : registry'[u] = registry[u]
  BY <1>1, <1>3 DEF Registered, TypeOK, SchedulerTypeOK, TaskStatus
<1>5. Shapes'
  <2>1. Operator \in Markers /\ \A w \in Workers : w \in Markers
    BY DEF Markers
  <2> QED BY <1>1, <1>2, <2>1 DEF Shapes
<1>6. OnePlace'
  BY <1>1, QueuesStill DEF OnePlace, InHand
<1>7. Records'
  <2>1. \A u \in TaskId : Somewhere(u) => Somewhere(u)'
    BY <1>1, QueuesStill DEF Somewhere
  <2>2. \A o \in Markers : mark'[o].step = "written" => registry'[mark'[o].task] # "Pending"
    BY <1>2, <1>3, <1>4 DEF Records, Shapes, TypeOK
  <2>3. \A x \in Workers : Busy(x)' /\ mark'[x].step # "read" =>
          registry'[worker'[x].task] # "Pending"
    BY <1>1, <1>2, <1>3, <1>4 DEF Records, Shapes, Busy, Markers
  <2> QED BY <1>1, <1>2, <1>3, <1>4, <2>1, <2>2, <2>3 DEF Records, Busy, Pushed
<1> QED BY <1>5, <1>6, <1>7

LEMMA PlacedEndMark ==
  ASSUME TaskInv, NEW p \in Markers, EndMark(p)
  PROVE  Placed'
<1> USE DEF TaskInv, Placed
<1>1. UNCHANGED <<queue, mlfqLevel, registry, call, submitted, accepted, dropped, demoted, clearing,
                  cleared>>
  BY DEF EndMark, SetRunningTasks, callVars, operatorVars
<1>2. /\ \A o \in Markers \ {p} : mark'[o] = mark[o]
      /\ mark[p].step = "written" /\ mark[p].task \in accepted
      /\ mark'[p].step = "none" /\ mark'[p].task = NoTask
      /\ registry[mark[p].task] # "Pending"
  BY DEF EndMark, TypeOK, NoMark, Records, Shapes
<1>3. \A w \in Workers :
        \/ worker'[w] = worker[w] /\ (w = p => worker[w].step = "running")
        \/ /\ w = p /\ worker[w].step = "finishing" /\ worker[w].task = mark[w].task
           /\ worker'[w].step = "idle" /\ worker'[w].task = NoTask
  BY <1>2 DEF EndMark, TypeOK, Idle, Shapes
<1>4. Operator \notin Workers /\ Operator \in Markers /\ \A w \in Workers : w \in Markers
  BY ActorAssumption DEF Markers
<1>5. Shapes'
  <2>1. \A w \in Workers : worker'[w].step \in {"idle", "polling"} <=> worker'[w].task = NoTask
    BY <1>3 DEF Shapes
  <2>2. \A w \in Workers : w # p => mark'[w] = mark[w] /\ worker'[w] = worker[w]
    BY <1>2, <1>3, <1>4
  <2>3. p \in Workers => mark'[p].step = "none" /\ worker'[p].step # "finishing"
    BY <1>2, <1>3
  <2> QED BY <1>1, <1>2, <1>4, <2>1, <2>2, <2>3 DEF Shapes
<1>6. \A w \in Workers : worker'[w].task \in {worker[w].task, NoTask}
  BY <1>3
<1>7. OnePlace'
  BY <1>1, <1>6, QueuesStill, ActorAssumption DEF OnePlace, InHand, TypeOK, Shapes
<1>8. Records'
  <2>1. \A u \in TaskId \ {mark[p].task} : Somewhere(u) => Somewhere(u)'
    BY <1>1, <1>3, QueuesStill DEF Somewhere
  <2>2. ~Pushed(mark[p].task)
    BY <1>2, ActorAssumption DEF Pushed, OnePlace, TypeOK
  <2>3. runningTasks' \subseteq accepted
    BY <1>2 DEF EndMark, SetRunningTasks, Records
  <2>4. \A w \in Workers : Busy(w)' => Busy(w) /\ worker'[w] = worker[w]
    BY <1>3 DEF Busy
  <2>5. \A x \in Workers : Busy(x)' /\ mark'[x].step # "read" =>
          registry'[worker'[x].task] # "Pending"
    <3>1. \A w \in Workers : w = p => mark[w].task = worker[w].task
      BY <1>2, <1>4 DEF Shapes
    <3> QED BY <1>1, <1>2, <1>4, <2>4, <3>1 DEF Records
  <2> QED BY <1>1, <1>2, <2>1, <2>2, <2>3, <2>4, <2>5, RegistryStill DEF Records, Pushed
<1> QED BY <1>5, <1>7, <1>8

LEMMA PlacedBeginDemote ==
  ASSUME TaskInv, NEW t \in TaskId, BeginDemote(t)
  PROVE  Placed'
<1> USE DEF TaskInv, Placed
<1>1. /\ UNCHANGED <<mlfqLevel, registry, runningTasks, call, submitted, accepted, worker, dropped,
                     mark, clearing, cleared>>
      /\ demoted = NoTask /\ demoted' = t /\ mlfqLevel[t] < MlfqLevels - 1
      /\ TakeFromLevel(t)
  BY DEF BeginDemote, TakeFromLevel, MayDemote, callVars, workerVars
<1>2. /\ NoDuplicates' /\ t \in In("mlfq") /\ "mlfq" \in QueueName
      /\ \A q \in QueueName : In(q)' = IF q = "mlfq" THEN In(q) \ {t} ELSE In(q)
  BY <1>1, TakeEffect DEF OnePlace, NoDuplicates, QueueName
<1>3. /\ t \in submitted
      /\ \A v \in Workers : worker[v].task # t
      /\ \A d \in Callers : InHand(d) => call[d].task # t
  BY <1>2 DEF OnePlace
<1>4. \A q \in QueueName : In(q)' \subseteq In(q) /\ t \notin In(q)'
  BY <1>2 DEF OnePlace
<1>5. Shapes'
  BY <1>1 DEF Shapes
<1>6. OnePlace'
  <2>1. \A q \in QueueName : Distinct(queue[q])' /\ In(q)' \subseteq submitted'
    BY <1>1, <1>2, <1>4 DEF OnePlace, NoDuplicates
  <2>2. \A q, s \in QueueName : q # s => In(q)' \cap In(s)' = {}
    BY <1>4 DEF OnePlace
  <2> QED BY <1>1, <1>3, <1>4, <2>1, <2>2 DEF OnePlace, InHand
<1>7. Records'
  <2>1. \A u \in TaskId : Somewhere(u) => Somewhere(u)'
    <3>1. \A u \in TaskId \ {t}, q \in QueueName : u \in In(q) => u \in In(q)'
      BY <1>2
    <3> QED BY <1>1, <3>1, ActorAssumption DEF Somewhere
  <2> QED BY <1>1, <2>1, RegistryStill DEF Records, Busy, Pushed
<1> QED BY <1>5, <1>6, <1>7

LEMMA PlacedEndDemote ==
  ASSUME TaskInv, EndDemote
  PROVE  Placed'
<1> USE DEF TaskInv, Placed
<1>1. /\ UNCHANGED <<registry, runningTasks, call, submitted, accepted, worker, dropped, mark,
                     clearing, cleared>>
      /\ demoted # NoTask /\ demoted' = NoTask
      /\ queue' = [queue EXCEPT !["mlfq"] = Append(@, demoted)]
  BY DEF EndDemote, PushToLevel, callVars, workerVars
<1>2. /\ demoted \in TaskId /\ demoted \in submitted
      /\ \A q \in QueueName : demoted \notin In(q)
      /\ \A w \in Workers : demoted # worker[w].task
      /\ \A c \in Callers : InHand(c) => call[c].task # demoted
  BY <1>1 DEF OnePlace, TypeOK
<1>3. /\ NoDuplicates' /\ "mlfq" \in QueueName
      /\ \A q \in QueueName : In(q)' = IF q = "mlfq" THEN In(q) \union {demoted} ELSE In(q)
  BY <1>1, <1>2, PushEffect DEF OnePlace, NoDuplicates, QueueName
<1>4. Shapes'
  BY <1>1 DEF Shapes
<1>5. OnePlace'
  <2>1. \A q \in QueueName : Distinct(queue[q])' /\ In(q)' \subseteq submitted'
    BY <1>1, <1>2, <1>3 DEF OnePlace, NoDuplicates
  <2>2. \A q, s \in QueueName : q # s => In(q)' \cap In(s)' = {}
    BY <1>2, <1>3 DEF OnePlace
  <2>3. \A q \in QueueName :
          /\ \A w \in Workers : worker[w].task \notin In(q)'
          /\ \A c \in Callers : InHand(c) => call[c].task \notin In(q)'
    BY <1>2, <1>3 DEF OnePlace
  <2>4. \A c \in Callers : InHand(c) => call[c].task # NoTask
    BY DEF InHand, Shapes
  <2> QED BY <1>1, <2>1, <2>2, <2>3, <2>4 DEF OnePlace, InHand
<1>6. Records'
  <2>1. \A u \in TaskId : Somewhere(u) => Somewhere(u)'
    <3>1. \A q \in QueueName : In(q) \subseteq In(q)'
      BY <1>3
    <3>2. demoted \in In("mlfq")'
      BY <1>3
    <3> QED BY <1>1, <1>3, <3>1, <3>2, ActorAssumption DEF Somewhere
  <2> QED BY <1>1, <2>1, RegistryStill DEF Records, Busy, Pushed
<1> QED BY <1>4, <1>5, <1>6

LEMMA PlacedEndClear ==
  ASSUME TaskInv, EndClear
  PROVE  Placed'
<1> USE DEF TaskInv, Placed
<1>1. /\ UNCHANGED <<mlfqLevel, call, submitted, accepted, worker, dropped, mark, demoted, cleared>>
      /\ runningTasks' = {} /\ cleared /\ clearing' = "no"
      /\ queue' = [q \in QueueName |-> <<>>] /\ registry' = [t \in TaskId |-> "absent"]
  BY DEF EndClear, ClearAll, callVars, workerVars, Records
<1>2. \A q \in QueueName : In(q)' = {} /\ Distinct(queue'[q])
  BY <1>1 DEF In, ToSet, Distinct
<1>3. Registered' = {}
  BY <1>1 DEF Registered
<1>4. Shapes'
  BY <1>1 DEF Shapes
<1>5. OnePlace'
  BY <1>1, <1>2 DEF OnePlace, InHand
<1>6. Records'
  <2>1. \A p \in Markers : mark[p].step # "none" => registry'[mark[p].task] # "Pending"
    BY <1>1 DEF Shapes, TypeOK, MarkRecord
  <2>2. \A w \in Workers : Busy(w) => registry'[worker[w].task] # "Pending"
    BY <1>1 DEF Shapes, TypeOK, WorkerRecord, Busy
  <2> QED BY <1>1, <1>3, <2>1, <2>2 DEF Records, Busy
<1> QED BY <1>4, <1>5, <1>6

(* The policy, is_running and the first step of clear move no task. *)
LEMMA PlacedStill ==
  ASSUME TaskInv,
         UNCHANGED <<queue, mlfqLevel, registry, runningTasks, call, submitted, accepted, worker,
                     dropped, mark, demoted>>,
         cleared => cleared', clearing' = "locked" => cleared'
  PROVE  Placed'
<1> USE DEF TaskInv, Placed
<1>1. Shapes'
  BY DEF Shapes
<1>2. OnePlace'
  BY QueuesStill DEF OnePlace, InHand
<1>3. Records'
  <2>1. \A u \in TaskId : Somewhere(u) => Somewhere(u)'
    BY QueuesStill DEF Somewhere
  <2> QED BY <2>1, RegistryStill DEF Records, Busy, Pushed
<1> QED BY <1>1, <1>2, <1>3

LEMMA PlacedStep ==
  ASSUME TaskInv, [Next]_vars
  PROVE  Placed'
<1>1. ASSUME NEW c \in Callers, CallStep(c) PROVE Placed'
  BY <1>1, PlacedCheckCapacity, PlacedPushTask, PlacedRegister DEF CallStep
<1>2. ASSUME NEW w \in Workers, WorkerStep(w) PROVE Placed'
  BY <1>2, PlacedPolling, PlacedPopTask, PlacedStartTask, PlacedDropTask, PlacedFinishTask
     DEF WorkerStep
<1>3. ASSUME NEW p \in Markers, MarkStep(p) PROVE Placed'
  BY <1>3, PlacedWriteMark, PlacedEndMark DEF MarkStep
<1>4. CASE BeginClear
  BY <1>4, PlacedStill DEF BeginClear, schedulerVars, callVars, workerVars
<1>5. CASE Settings
  <2>1. UNCHANGED <<queue, mlfqLevel, registry, runningTasks, call, submitted, accepted, worker,
                    dropped, mark, demoted, clearing, cleared>>
    BY <1>5 DEF Settings, SetPolicy, SetIsRunning, callVars, workerVars
  <2>2. clearing = "locked" => cleared
    BY DEF TaskInv, Placed, Records
  <2> QED BY <2>1, <2>2, PlacedStill
<1>6. CASE UNCHANGED vars
  <2>1. UNCHANGED <<queue, mlfqLevel, registry, runningTasks, call, submitted, accepted, worker,
                    dropped, mark, demoted, clearing, cleared>>
    BY <1>6 DEF vars, schedulerVars, callVars, workerVars, operatorVars
  <2>2. clearing = "locked" => cleared
    BY DEF TaskInv, Placed, Records
  <2> QED BY <2>1, <2>2, PlacedStill
<1> QED
  BY <1>1, <1>2, <1>3, <1>4, <1>5, <1>6, PlacedSubmit, PlacedCancelTask, PlacedBeginDemote,
     PlacedEndDemote, PlacedEndClear DEF Next

LEMMA TaskStep ==
  ASSUME TaskInv, [Next]_vars
  PROVE  TaskInv'
BY TypeStep, PlacedStep DEF TaskInv, Placed

(* A step that leaves running_tasks alone and takes no task from a worker  *)
(* that is running it.                                                     *)
LEMMA BusyStill ==
  ASSUME RunningAreBusy, UNCHANGED <<runningTasks, registry, cleared>>,
         mark'[Operator] = mark[Operator],
         \A w \in Workers : Busy(w) => Busy(w)' /\ worker'[w].task = worker[w].task
  PROVE  RunningAreBusy'
BY RegistryStill DEF RunningAreBusy

(* What is in running_tasks and with no worker stays out of the registry,  *)
(* but for a cancel_task that read it before it was cleared.               *)
LEMMA RunningStep ==
  ASSUME TaskInv, RunningAreBusy, [Next]_vars
  PROVE  RunningAreBusy'
<1> USE DEF TaskInv, Placed
<1>0. /\ Operator \in Markers /\ Operator \notin Workers /\ \A w \in Workers : w \in Markers
      /\ NoTask \notin TaskId
      /\ runningTasks \subseteq TaskId /\ worker \in [Workers -> WorkerRecord]
      /\ mark \in [Markers -> MarkRecord]
  BY ActorAssumption DEF Markers, TypeOK, SchedulerTypeOK
<1>1. ASSUME NEW c \in Callers, NEW t \in TaskId, Submit(c, t) PROVE RunningAreBusy'
  BY <1>1, BusyStill DEF Submit, schedulerVars, workerVars, operatorVars, Busy
<1>2. ASSUME NEW c \in Callers, CallStep(c) PROVE RunningAreBusy'
  <2>1. CASE CheckCapacity(c) \/ PushTask(c)
    BY <2>1, BusyStill
       DEF CheckCapacity, PushTask, Push, schedulerVars, workerVars, operatorVars, Busy
  <2>2. CASE Register(c)
    <3>1. call[c].task \notin runningTasks /\ call[c].task \in TaskId
      BY <2>2 DEF Register, OnePlace, Shapes, Records, TypeOK
    <3>2. /\ UNCHANGED <<runningTasks, worker, mark, cleared>>
          /\ \A u \in TaskId \ {call[c].task} : registry'[u] = registry[u]
      BY <2>2, <3>1
         DEF Register, SetRegistry, workerVars, operatorVars, TypeOK, SchedulerTypeOK
    <3> QED BY <1>0, <3>1, <3>2 DEF RunningAreBusy, Busy, Registered
  <2> QED BY <1>2, <2>1, <2>2 DEF CallStep
<1>3. ASSUME NEW w \in Workers, WorkerStep(w) PROVE RunningAreBusy'
  <2>1. ASSUME ~Busy(w), \A v \in Workers \ {w} : worker'[v] = worker[v],
               UNCHANGED <<runningTasks, registry, cleared, mark>>
        PROVE  RunningAreBusy'
    BY <2>1, BusyStill DEF Busy
  <2>2. CASE ReadPolicy(w) \/ FindNothing(w) \/ DropTask(w)
    BY <1>0, <2>1, <2>2
       DEF ReadPolicy, FindNothing, DropTask, Busy, schedulerVars, callVars, operatorVars
  <2>3. ASSUME NEW t \in TaskId, PopTask(w, t) PROVE RunningAreBusy'
    BY <1>0, <2>1, <2>3 DEF PopTask, Pop, Busy, callVars, operatorVars
  <2>4. CASE StartTask(w)
    <3>1. /\ UNCHANGED <<runningTasks, registry, cleared>>
          /\ mark'[Operator] = mark[Operator] /\ ~Busy(w)
          /\ \A v \in Workers \ {w} : worker'[v] = worker[v]
      BY <1>0, <2>4 DEF StartTask, BeginMark, Busy, schedulerVars, callVars, operatorVars
    <3> QED BY <3>1, BusyStill DEF Busy
  <2>5. ASSUME NEW status \in {"Completed", "Failed"}, FinishTask(w, status)
        PROVE  RunningAreBusy'
    <3>1. /\ UNCHANGED <<runningTasks, registry, cleared>>
          /\ mark'[Operator] = mark[Operator] /\ Busy(w)
          /\ \A v \in Workers \ {w} : worker'[v] = worker[v]
      BY <1>0, <2>5 DEF FinishTask, BeginMark, Busy, schedulerVars, callVars, operatorVars
    <3>2. CASE worker[w].task \in Registered /\ BeginMark(w, worker[w].task, status)
      <4>1. worker'[w].step = "finishing" /\ worker'[w].task = worker[w].task
        BY <1>0, <2>5, <3>2 DEF FinishTask, WorkerRecord
      <4> QED BY <3>1, <4>1, BusyStill DEF Busy
    <3>3. CASE worker[w].task \notin Registered
      <4>1. cleared
        BY <3>1, <3>3 DEF Records
      <4> QED BY <3>1, <3>3, <4>1, RegistryStill DEF RunningAreBusy, Busy
    <3> QED BY <2>5, <3>2, <3>3 DEF FinishTask, BeginMark
  <2> QED BY <1>3, <2>2, <2>3, <2>4, <2>5 DEF WorkerStep
<1>4. ASSUME NEW p \in Markers, WriteMark(p) PROVE RunningAreBusy'
  <2>1. /\ UNCHANGED <<runningTasks, worker, cleared>>
        /\ mark[p].step = "read" /\ mark[p].task \in TaskId
        /\ \A u \in TaskId \ {mark[p].task} : registry'[u] = registry[u]
        /\ mark'[Operator].task = mark[Operator].task
    BY <1>0, <1>4 DEF WriteMark, SetRegistry, callVars, workerVars, operatorVars, TypeOK,
                      SchedulerTypeOK, Shapes, MarkRecord
  <2>2. p = Operator \/ (p \in Workers /\ worker[p].task = mark[p].task /\ Busy(p))
    BY <2>1 DEF Shapes, Busy, Markers
  <2> QED BY <1>0, <2>1, <2>2 DEF RunningAreBusy, Busy, Registered
<1>5. ASSUME NEW p \in Markers, EndMark(p) PROVE RunningAreBusy'
  <2>1. UNCHANGED <<registry, cleared>> /\ mark[p].step = "written"
    BY <1>5 DEF EndMark, SetRunningTasks, callVars, operatorVars
  <2>2. CASE p = Operator
    <3>1. UNCHANGED worker /\ runningTasks' = runningTasks \ {mark[p].task}
      BY <1>0, <1>5, <2>1, <2>2 DEF EndMark, SetRunningTasks, Shapes
    <3> QED BY <1>0, <2>1, <2>2, <3>1, RegistryStill DEF RunningAreBusy, Busy
  <2>3. CASE p \in Workers
    <3>1. /\ \A w \in Workers \ {p} : worker'[w] = worker[w]
          /\ mark'[Operator] = mark[Operator]
      BY <1>0, <1>5, <2>3 DEF EndMark
    <3>2. CASE mark[p].status = "Running"
      <4>1. /\ worker[p].step = "running" /\ worker[p].task = mark[p].task
            /\ UNCHANGED worker /\ runningTasks' = runningTasks \union {mark[p].task}
        BY <1>5, <2>1, <2>3, <3>2 DEF EndMark, SetRunningTasks, Shapes
      <4> QED BY <2>1, <2>3, <3>1, <4>1, RegistryStill DEF RunningAreBusy, Busy
    <3>3. CASE mark[p].status # "Running"
      <4>1. /\ worker[p].task = mark[p].task
            /\ runningTasks' = runningTasks \ {mark[p].task}
        BY <1>5, <2>1, <2>3, <3>3 DEF EndMark, SetRunningTasks, Shapes
      <4> QED BY <2>1, <2>3, <3>1, <4>1, RegistryStill DEF RunningAreBusy, Busy
    <3> QED BY <3>2, <3>3
  <2> QED BY <2>2, <2>3 DEF Markers
<1>6. ASSUME NEW t \in TaskId, CancelTask(t) PROVE RunningAreBusy'
  <2>1. /\ UNCHANGED <<runningTasks, registry, worker, cleared>>
        /\ mark[Operator].task = NoTask
    BY <1>0, <1>6 DEF CancelTask, BeginMark, schedulerVars, callVars, workerVars, Shapes
  <2> QED BY <1>0, <2>1, RegistryStill DEF RunningAreBusy, Busy
<1>7. ASSUME NEW t \in TaskId, BeginDemote(t) PROVE RunningAreBusy'
  BY <1>7, BusyStill DEF BeginDemote, TakeFromLevel, callVars, workerVars, Busy
<1>8. CASE EndDemote
  BY <1>8, BusyStill DEF EndDemote, PushToLevel, callVars, workerVars, Busy
<1>9. CASE BeginClear
  BY <1>9, RegistryStill
     DEF BeginClear, schedulerVars, callVars, workerVars, RunningAreBusy, Busy
<1>10. CASE EndClear
  BY <1>10 DEF EndClear, ClearAll, RunningAreBusy
<1>11. CASE Settings
  <2>1. UNCHANGED <<runningTasks, registry, worker, mark, cleared>>
    BY <1>11 DEF Settings, SetPolicy, SetIsRunning, callVars, workerVars
  <2> QED BY <2>1, BusyStill DEF Busy
<1>12. CASE UNCHANGED vars
  BY <1>12, BusyStill DEF vars, schedulerVars, callVars, workerVars, operatorVars, Busy
<1> QED BY <1>1, <1>2, <1>3, <1>4, <1>5, <1>6, <1>7, <1>8, <1>9, <1>10, <1>11, <1>12
           DEF Next, MarkStep

-----------------------------------------------------------------------------
(* Each variable keeps its type and every task its place, and running_tasks *)
(* follows the workers.                                                    *)
THEOREM TasksInvariant == Spec => [](TaskInv /\ RunningAreBusy)
<1>1. Init => TaskInv /\ RunningAreBusy
  BY TaskInit DEF Init, NewScheduler, RunningAreBusy
<1>2. TaskInv /\ RunningAreBusy /\ [Next]_vars => (TaskInv /\ RunningAreBusy)'
  BY TaskStep, RunningStep
<1> QED BY <1>1, <1>2, PTL DEF Spec

(* Counting what there is at most one of. *)
LEMMA AtMostOne ==
  ASSUME NEW S, \A x, y \in S : x = y
  PROVE  Cardinality(S) = IF S = {} THEN 0 ELSE 1
<1>1. CASE S = {}
  BY <1>1, FS_EmptySet
<1>2. CASE S # {}
  <2>1. PICK x : x \in S
    BY <1>2
  <2>2. S = {x}
    BY <2>1
  <2> QED BY <1>2, <2>2, FS_Singleton
<1> QED BY <1>1, <1>2

(* The types of all the variables. *)
THEOREM SchedulerTypeCorrect == Spec => []TypeOK
<1>1. TaskInv => TypeOK
  BY DEF TaskInv
<1> QED BY <1>1, TasksInvariant, PTL

(* A task is never queued, held or run twice, running_tasks keeps only     *)
(* tasks a worker has or a clear has overtaken, and no accepted task is    *)
(* lost before it is started but one taken before it was registered        *)
(* (scheduler.rs:444), or with a clear, for any number of tasks.           *)
THEOREM TasksAreAccounted == Spec => []TasksAccounted
<1>1. ASSUME TaskInv PROVE AtMostOnePlace
  <2> USE DEF TaskInv, Placed
  <2> SUFFICES ASSUME NEW t \in TaskId
               PROVE  /\ \A q \in QueueName : Count(queue[q], t) <= 1
                      /\ Cardinality({q \in QueueName : Contains(queue[q], t)})
                           + Cardinality(Holders(t)) + (IF demoted = t THEN 1 ELSE 0) <= 1
    BY DEF AtMostOnePlace
  <2> DEFINE Qs == {q \in QueueName : Contains(queue[q], t)}
  <2>1. \A q \in QueueName : queue[q] \in Seq(TaskId) /\ DOMAIN queue[q] = 1 .. Len(queue[q])
    BY <1>1, LenProperties DEF TypeOK, SchedulerTypeOK
  <2>2. ASSUME NEW q \in QueueName PROVE Count(queue[q], t) <= 1
    <3> DEFINE I == {i \in DOMAIN queue[q] : queue[q][i] = t}
    <3>1. \A i, j \in I : i = j
      BY <1>1, <2>1 DEF OnePlace, Distinct
    <3>2. Cardinality(I) \in {0, 1}
      BY <3>1, AtMostOne
    <3> QED BY <3>2 DEF Count
  <2>3. Qs = {q \in QueueName : t \in In(q)}
    BY <2>1 DEF Contains, In, ToSet
  <2>4. \A q, r \in Qs : q = r
    BY <1>1, <2>3 DEF OnePlace
  <2>5. \A v, w \in Holders(t) : v = w
    BY <1>1, ActorAssumption DEF OnePlace, Holders
  <2>6. /\ Qs # {} => Holders(t) = {} /\ demoted # t
        /\ Holders(t) # {} => demoted # t
    BY <1>1, <2>3, ActorAssumption DEF OnePlace, Holders
  <2>7. Cardinality(Qs) = (IF Qs = {} THEN 0 ELSE 1)
    BY <2>4, AtMostOne
  <2>8. Cardinality(Holders(t)) = (IF Holders(t) = {} THEN 0 ELSE 1)
    BY <2>5, AtMostOne
  <2> HIDE DEF Qs
  <2>9. Cardinality(Qs) + Cardinality(Holders(t)) + (IF demoted = t THEN 1 ELSE 0) <= 1
    BY <2>6, <2>7, <2>8
  <2> QED BY <2>2, <2>9 DEF Qs
<1>2. ASSUME RunningAreBusy PROVE RunningTasksHeld
  BY <1>2 DEF RunningAreBusy, RunningTasksHeld, Holders
<1>3. ASSUME TaskInv PROVE AcceptedTaskAccounted
  <2>1. \A q \in QueueName, t \in TaskId : t \in In(q) => Contains(queue[q], t)
    <3>1. \A q \in QueueName : DOMAIN queue[q] = 1 .. Len(queue[q])
      BY <1>3, LenProperties DEF TaskInv, TypeOK, SchedulerTypeOK
    <3> QED BY <3>1 DEF In, ToSet, Contains
  <2>2. accepted \subseteq TaskId
    BY <1>3 DEF TaskInv, TypeOK
  <2> QED BY <1>3, <2>1, <2>2
             DEF TaskInv, Placed, Records, AcceptedTaskAccounted, Somewhere, Queued, Holders
<1> QED BY <1>1, <1>2, <1>3, TasksInvariant, PTL DEF TasksAccounted

(* Under the Priority policy next_task leaves no more urgent task behind,  *)
(* and among tasks of one priority none with a later deadline.             *)
THEOREM PopsAreByPriority == Spec => PopsByPriority
<1> DEFINE Step ==
      \A w \in Workers, t \in TaskId :
        PopTask(w, t) /\ worker[w].policy = "Priority" =>
          \A u \in ToSet(queue'["priority"]) :
            /\ PriorityOf[u] <= PriorityOf[t]
            /\ PriorityOf[u] = PriorityOf[t] => DeadlineOf[u] <= DeadlineOf[t]
<1>1. ASSUME TaskInv, NEW w \in Workers, NEW t \in TaskId, PopTask(w, t),
             worker[w].policy = "Priority", NEW u \in ToSet(queue'["priority"])
      PROVE  /\ PriorityOf[u] <= PriorityOf[t]
             /\ PriorityOf[u] = PriorityOf[t] => DeadlineOf[u] <= DeadlineOf[t]
  <2>1. /\ "Priority" \in SchedulingPolicy /\ QueueOf("Priority") = "priority"
        /\ "priority" \in QueueName
    BY DEF SchedulingPolicy, QueueOf, QueueName
  <2>2. Pop(t, "Priority", worker[w].level)
    BY <1>1 DEF PopTask
  <2>3. In("priority")' = In("priority") \ {t} /\ t \in In("priority")
    BY <1>1, <2>1, <2>2, PopEffect DEF TaskInv, Placed, OnePlace, NoDuplicates
  <2>4. u \in ToSet(queue["priority"])
    BY <2>3 DEF In
  <2>5. ~MoreUrgent(u, t)
    BY <2>1, <2>2, <2>4 DEF Pop, NextTasks
  <2>6. u \in TaskId
    <3>1. queue["priority"] \in [1 .. Len(queue["priority"]) -> TaskId]
      BY <1>1, <2>1, LenProperties DEF TaskInv, TypeOK, SchedulerTypeOK
    <3> QED BY <2>4, <3>1 DEF ToSet
  <2> QED BY <2>5, <2>6, TaskAssumption DEF MoreUrgent
<1>2. TaskInv /\ [Next]_vars => [Step]_vars
  BY <1>1
<1> QED BY <1>2, TasksInvariant, PTL DEF Spec, PopsByPriority

-----------------------------------------------------------------------------
(* How far the capacity check can be exceeded. The bound is not inductive: *)
(* a call that has passed the check, and a mark_task_ call whose task      *)
(* clear has removed, will each register one more task. The invariant      *)
(* counts them with the tasks registered already.                          *)

(* The calls of schedule_task that have passed the capacity check. *)
Promised == {c \in Callers : call[c].step \in {"checked", "pushed"}}

(* The mark_task_ calls that will bring back a task clear has removed. *)
Returning == {p \in Markers : mark[p].step = "read" /\ mark[p].task \notin Registered}

Limit ==
  MaxQueued - 1 + Cardinality(Callers) + (IF ~cleared THEN 0 ELSE Cardinality(Markers))

ClearIsRemembered ==
  /\ clearing = "locked" => cleared
  /\ ~cleared => Returning = {}

Bound == Cardinality(Registered) + Cardinality(Promised) + Cardinality(Returning) <= Limit

IInv == TaskInv /\ ClearIsRemembered /\ Bound

-----------------------------------------------------------------------------
(* All the sets counted are finite, in both states of a step. *)
LEMMA Finite ==
  /\ IsFiniteSet(Registered) /\ IsFiniteSet(Promised) /\ IsFiniteSet(Returning)
  /\ IsFiniteSet(Registered') /\ IsFiniteSet(Promised') /\ IsFiniteSet(Returning')
  /\ IsFiniteSet(Markers) /\ IsFiniteSet(Callers)
<1>1. IsFiniteSet(TaskId) /\ IsFiniteSet(Callers) /\ IsFiniteSet(Workers)
  BY TaskAssumption, ActorAssumption
<1>2. IsFiniteSet(Markers)
  BY <1>1, FS_AddElement DEF Markers
<1>3. /\ Registered \subseteq TaskId /\ Registered' \subseteq TaskId
      /\ Promised \subseteq Callers /\ Promised' \subseteq Callers
      /\ Returning \subseteq Markers /\ Returning' \subseteq Markers
  BY DEF Registered, Promised, Returning
<1> QED BY <1>1, <1>2, <1>3, FS_Subset

(* A step that adds to none of the sets keeps the bound. *)
LEMMA NothingAdded ==
  ASSUME Bound, cleared \in BOOLEAN, cleared' \in BOOLEAN, cleared => cleared',
         Registered' \subseteq Registered, Promised' \subseteq Promised,
         Returning' \subseteq Returning
  PROVE  Bound'
<1>1. /\ Cardinality(Registered') <= Cardinality(Registered)
      /\ Cardinality(Promised') <= Cardinality(Promised)
      /\ Cardinality(Returning') <= Cardinality(Returning)
  BY Finite, FS_Subset
<1>2. /\ Cardinality(Registered) \in Nat /\ Cardinality(Registered') \in Nat
      /\ Cardinality(Promised) \in Nat /\ Cardinality(Promised') \in Nat
      /\ Cardinality(Returning) \in Nat /\ Cardinality(Returning') \in Nat
      /\ Cardinality(Markers) \in Nat /\ Cardinality(Callers) \in Nat
  BY Finite, FS_CardinalityType
<1>3. Limit \in Int /\ Limit' \in Int /\ Limit <= Limit'
  BY <1>2, TaskAssumption DEF Limit
<1> QED BY <1>1, <1>2, <1>3 DEF Bound

(* A step that registers one task and settles one promise or one return    *)
(* keeps the bound.                                                        *)
LEMMA OneSettled ==
  ASSUME NEW t, NEW c, Bound, cleared \in BOOLEAN, cleared' = cleared,
         Registered' \subseteq Registered \union {t},
         \/ c \in Promised /\ Promised' = Promised \ {c} /\ Returning' \subseteq Returning
         \/ /\ c \in Returning /\ Returning' \subseteq Returning \ {c}
            /\ Promised' \subseteq Promised
  PROVE  Bound'
<1>1. /\ Cardinality(Registered) \in Nat /\ Cardinality(Registered') \in Nat
      /\ Cardinality(Promised) \in Nat /\ Cardinality(Promised') \in Nat
      /\ Cardinality(Returning) \in Nat /\ Cardinality(Returning') \in Nat
      /\ Cardinality(Markers) \in Nat /\ Cardinality(Callers) \in Nat
  BY Finite, FS_CardinalityType
<1>2. Cardinality(Registered') <= Cardinality(Registered) + 1
  <2>1. /\ IsFiniteSet(Registered \union {t})
        /\ Cardinality(Registered \union {t}) =
             IF t \in Registered THEN Cardinality(Registered) ELSE Cardinality(Registered) + 1
    BY Finite, FS_AddElement
  <2>2. /\ Cardinality(Registered') <= Cardinality(Registered \union {t})
        /\ Cardinality(Registered \union {t}) \in Nat
    BY <2>1, FS_Subset, FS_CardinalityType
  <2> QED BY <2>1, <2>2, <1>1
<1>3. Cardinality(Promised') + Cardinality(Returning') + 1
        <= Cardinality(Promised) + Cardinality(Returning)
  <2>1. CASE c \in Promised /\ Promised' = Promised \ {c} /\ Returning' \subseteq Returning
    <3>1. Cardinality(Promised \ {c}) = Cardinality(Promised) - 1
      BY <2>1, Finite, FS_RemoveElement
    <3>2. Cardinality(Returning') <= Cardinality(Returning)
      BY <2>1, Finite, FS_Subset
    <3> QED BY <2>1, <3>1, <3>2, <1>1
  <2>2. CASE /\ c \in Returning /\ Returning' \subseteq Returning \ {c}
             /\ Promised' \subseteq Promised
    <3>1. /\ IsFiniteSet(Returning \ {c})
          /\ Cardinality(Returning \ {c}) = Cardinality(Returning) - 1
      BY <2>2, Finite, FS_RemoveElement
    <3>2. /\ Cardinality(Returning') <= Cardinality(Returning \ {c})
          /\ Cardinality(Promised') <= Cardinality(Promised)
      BY <2>2, <3>1, Finite, FS_Subset
    <3> QED BY <3>1, <3>2, <1>1
  <2> QED BY <2>1, <2>2
<1>4. Limit' = Limit /\ Limit \in Int
  BY <1>1, TaskAssumption DEF Limit
<1> QED BY <1>1, <1>2, <1>3, <1>4 DEF Bound

-----------------------------------------------------------------------------
LEMMA InitHolds == Init => IInv
<1> SUFFICES ASSUME Init PROVE IInv
  OBVIOUS
<1>1. TaskInv
  BY TaskInit
<1>2. Registered = {} /\ Promised = {} /\ Returning = {}
  BY DEF Init, NewScheduler, Registered, Promised, Returning, NoCall, NoMark
<1>3. ClearIsRemembered
  BY <1>2 DEF ClearIsRemembered, Init
<1>4. Bound
  <2>1. Cardinality(Registered) = 0 /\ Cardinality(Promised) = 0 /\ Cardinality(Returning) = 0
    BY <1>2, FS_EmptySet
  <2>2. Cardinality(Callers) \in Nat
    BY Finite, FS_CardinalityType
  <2> QED BY <2>1, <2>2, TaskAssumption DEF Bound, Limit, Init
<1> QED BY <1>1, <1>3, <1>4 DEF IInv

-----------------------------------------------------------------------------
(* A step that leaves the registry, the calls and cleared alone, and       *)
(* starts no mark_task_ call.                                              *)
LEMMA Quiet ==
  ASSUME IInv, UNCHANGED <<registry, cleared>>,
         Promised' \subseteq Promised, Returning' \subseteq Returning,
         clearing' = "locked" => clearing = "locked"
  PROVE  ClearIsRemembered' /\ Bound'
<1>1. Registered' = Registered
  BY DEF Registered
<1>2. Bound'
  BY <1>1, NothingAdded DEF IInv, TaskInv, TypeOK, SchedulerTypeOK, CallRecord, MarkRecord
<1> QED BY <1>2 DEF IInv, ClearIsRemembered

(* A step of the mark_task_ methods' first block, which requires that the  *)
(* task is registered: it will bring back nothing.                         *)
LEMMA BeginMarkQuiet ==
  ASSUME IInv, NEW p \in Markers, NEW t, NEW status, BeginMark(p, t, status),
         UNCHANGED <<registry, call, cleared, clearing>>
  PROVE  ClearIsRemembered' /\ Bound'
<1>1. Promised' = Promised /\ Registered' = Registered
  BY DEF Promised, Registered
<1>2. Returning' \subseteq Returning
  BY <1>1 DEF Returning, BeginMark, IInv, TaskInv, TypeOK, SchedulerTypeOK, CallRecord, MarkRecord
<1> QED BY <1>1, <1>2, Quiet

LEMMA RegisterStep ==
  ASSUME IInv, NEW c \in Callers, Register(c)
  PROVE  ClearIsRemembered' /\ Bound'
<1>1. UNCHANGED <<mark, cleared, clearing>>
  BY DEF Register, operatorVars
<1>2. Registered \subseteq Registered' /\ Registered' \subseteq Registered \union {call[c].task}
  BY DEF Register, SetRegistry, Registered, IInv, TaskInv, TypeOK, SchedulerTypeOK,
         CallRecord, MarkRecord
<1>3. c \in Promised /\ Promised' = Promised \ {c}
  BY DEF Register, Promised, NoCall, IInv, TaskInv, TypeOK, SchedulerTypeOK, CallRecord, MarkRecord
<1>4. Returning' \subseteq Returning
  BY <1>1, <1>2 DEF Returning
<1>5. Bound'
  BY <1>1, <1>2, <1>3, <1>4, OneSettled
     DEF IInv, TaskInv, TypeOK, SchedulerTypeOK, CallRecord, MarkRecord
<1> QED BY <1>1, <1>4, <1>5 DEF IInv, ClearIsRemembered

LEMMA WriteMarkStep ==
  ASSUME IInv, NEW p \in Markers, WriteMark(p)
  PROVE  ClearIsRemembered' /\ Bound'
<1>1. UNCHANGED <<call, cleared, clearing>>
  BY DEF WriteMark, callVars, operatorVars
<1>2. Registered \subseteq Registered' /\ Registered' \subseteq Registered \union {mark[p].task}
  BY DEF WriteMark, SetRegistry, Registered, TaskStatus, IInv, TaskInv, TypeOK,
         SchedulerTypeOK, CallRecord, MarkRecord
<1>3. Promised' = Promised
  BY <1>1 DEF Promised
<1>4. Returning' \subseteq Returning \ {p}
  BY <1>2 DEF Returning, WriteMark, IInv, TaskInv, TypeOK, SchedulerTypeOK, CallRecord, MarkRecord
<1>5. Bound'
  <2>1. CASE p \in Returning
    BY <2>1, <1>1, <1>2, <1>3, <1>4, OneSettled
       DEF IInv, TaskInv, TypeOK, SchedulerTypeOK, CallRecord, MarkRecord
  <2>2. CASE p \notin Returning
    <3>1. Registered' \subseteq Registered
      BY <2>2, <1>2 DEF Returning, WriteMark
    <3> QED BY <3>1, <1>1, <1>3, <1>4, NothingAdded
               DEF IInv, TaskInv, TypeOK, SchedulerTypeOK, CallRecord, MarkRecord
  <2> QED BY <2>1, <2>2
<1> QED BY <1>1, <1>4, <1>5 DEF IInv, ClearIsRemembered

(* The capacity check itself bounds the number of registered tasks anew.   *)
LEMMA CheckCapacityStep ==
  ASSUME IInv, NEW c \in Callers, CheckCapacity(c)
  PROVE  ClearIsRemembered' /\ Bound'
<1>1. /\ UNCHANGED <<registry, mark, cleared, clearing>>
      /\ Registered' = Registered /\ Returning' = Returning
  BY DEF CheckCapacity, schedulerVars, operatorVars, Registered, Returning
<1>2. ClearIsRemembered'
  BY <1>1 DEF IInv, ClearIsRemembered
<1>3. CASE HasRoom
  <2>1. /\ Cardinality(Registered) \in Nat /\ Cardinality(Markers) \in Nat
        /\ Cardinality(Callers) \in Nat
        /\ Cardinality(Promised') \in Nat /\ Cardinality(Returning) \in Nat
    BY Finite, FS_CardinalityType
  <2>2. Cardinality(Registered) <= MaxQueued - 1
    BY <1>3, <2>1, TaskAssumption DEF HasRoom
  <2>3. Cardinality(Promised') <= Cardinality(Callers)
    BY Finite, FS_Subset DEF Promised
  <2>4. Cardinality(Returning) <= IF ~cleared THEN 0 ELSE Cardinality(Markers)
    <3>1. CASE ~cleared
      BY <3>1, FS_EmptySet DEF IInv, ClearIsRemembered
    <3>2. CASE cleared
      <4>1. Cardinality(Returning) <= Cardinality(Markers)
        BY Finite, FS_Subset DEF Returning
      <4> QED BY <3>2, <4>1
    <3> QED BY <3>1, <3>2
  <2>5. Cardinality(Registered) + Cardinality(Promised') + Cardinality(Returning) <= Limit
    BY <2>1, <2>2, <2>3, <2>4, TaskAssumption DEF Limit
  <2>6. Limit' = Limit
    BY <1>1 DEF Limit
  <2> QED BY <1>1, <1>2, <2>5, <2>6 DEF Bound
<1>4. CASE ~HasRoom
  <2>1. Promised' \subseteq Promised
    BY <1>4
       DEF CheckCapacity, Promised, NoCall, IInv, TaskInv, TypeOK, SchedulerTypeOK,
           CallRecord, MarkRecord
  <2> QED BY <1>1, <2>1, Quiet
<1> QED BY <1>3, <1>4

(* clear leaves room for every call and every mark that is on its way. *)
LEMMA EndClearStep ==
  ASSUME IInv, EndClear
  PROVE  ClearIsRemembered' /\ Bound'
<1>1. cleared' = cleared /\ cleared /\ clearing' = "no"
  BY DEF EndClear, IInv, ClearIsRemembered
<1>2. Cardinality(Registered') = 0
  <2>1. Registered' = {}
    BY DEF EndClear, ClearAll, Registered
  <2> QED BY <2>1, FS_EmptySet
<1>3. /\ Cardinality(Promised') <= Cardinality(Callers)
      /\ Cardinality(Returning') <= Cardinality(Markers)
  BY Finite, FS_Subset DEF Promised, Returning
<1>4. /\ Cardinality(Markers) \in Nat /\ Cardinality(Callers) \in Nat
      /\ Cardinality(Promised') \in Nat /\ Cardinality(Returning') \in Nat
  BY Finite, FS_CardinalityType
<1>5. Bound'
  BY <1>1, <1>2, <1>3, <1>4, TaskAssumption DEF Bound, Limit
<1> QED BY <1>1, <1>5 DEF ClearIsRemembered

-----------------------------------------------------------------------------
LEMMA StepHolds == IInv /\ [Next]_vars => IInv'
<1> SUFFICES ASSUME IInv, [Next]_vars PROVE ClearIsRemembered' /\ Bound'
  BY TaskStep DEF IInv
<1> USE DEF IInv
<1>1. ASSUME NEW c \in Callers, NEW t \in TaskId, Submit(c, t)
      PROVE  ClearIsRemembered' /\ Bound'
  <2>1. UNCHANGED <<registry, mark, cleared, clearing>>
    BY <1>1 DEF Submit, schedulerVars, operatorVars
  <2>2. Promised' = Promised
    BY <1>1 DEF Submit, Promised, NoCall, TaskInv, TypeOK, SchedulerTypeOK, CallRecord, MarkRecord
  <2>3. Returning' = Returning
    BY <2>1 DEF Returning, Registered
  <2> QED BY <2>1, <2>2, <2>3, Quiet
<1>2. ASSUME NEW c \in Callers, CallStep(c) PROVE ClearIsRemembered' /\ Bound'
  <2>1. CASE PushTask(c)
    <3>1. UNCHANGED <<registry, mark, cleared, clearing>>
      BY <2>1 DEF PushTask, Push, operatorVars
    <3>2. Promised' = Promised
      BY <2>1 DEF PushTask, Promised, TaskInv, TypeOK, SchedulerTypeOK, CallRecord, MarkRecord
    <3>3. Returning' = Returning
      BY <3>1 DEF Returning, Registered
    <3> QED BY <3>1, <3>2, <3>3, Quiet
  <2> QED BY <1>2, <2>1, CheckCapacityStep, RegisterStep DEF CallStep
<1>3. ASSUME NEW w \in Workers, WorkerStep(w) PROVE ClearIsRemembered' /\ Bound'
  <2> DEFINE Still == UNCHANGED <<registry, call, mark, cleared, clearing>>
  <2>1. CASE Still
    BY <2>1, Quiet DEF Promised, Returning, Registered
  <2>2. ReadPolicy(w) \/ DropTask(w) \/ FindNothing(w) => Still
    BY DEF ReadPolicy, DropTask, FindNothing, callVars, schedulerVars, operatorVars
  <2>3. ASSUME NEW t \in TaskId, PopTask(w, t) PROVE Still
    BY <2>3 DEF PopTask, Pop, callVars, operatorVars
  <2>4. ASSUME NEW status \in {"Running", "Completed", "Failed"},
               BeginMark(w, worker[w].task, status), StartTask(w) \/ FinishTask(w, status)
        PROVE  ClearIsRemembered' /\ Bound'
    <3>1. w \in Markers /\ UNCHANGED <<registry, call, cleared, clearing>>
      BY <2>4 DEF StartTask, FinishTask, Markers, callVars, schedulerVars, operatorVars
    <3> HIDE DEF IInv
    <3> QED BY <2>4, <3>1, BeginMarkQuiet
  <2>5. CASE StartTask(w)
    BY <2>4, <2>5 DEF StartTask
  <2>6. ASSUME NEW status \in {"Completed", "Failed"}, FinishTask(w, status)
        PROVE  ClearIsRemembered' /\ Bound'
    <3>1. BeginMark(w, worker[w].task, status) \/ Still
      BY <2>6 DEF FinishTask, callVars, schedulerVars, operatorVars
    <3> QED BY <2>1, <2>4, <2>6, <3>1
  <2> QED BY <1>3, <2>1, <2>2, <2>3, <2>5, <2>6 DEF WorkerStep
<1>4. ASSUME NEW p \in Markers, MarkStep(p) PROVE ClearIsRemembered' /\ Bound'
  <2>1. CASE EndMark(p)
    <3>1. UNCHANGED <<registry, call, cleared, clearing>>
      BY <2>1 DEF EndMark, SetRunningTasks, callVars, operatorVars
    <3>2. Promised' = Promised
      BY <3>1 DEF Promised
    <3>3. Returning' \subseteq Returning
      BY <2>1, <3>1
         DEF EndMark, Returning, Registered, NoMark, TaskInv, TypeOK, SchedulerTypeOK,
             CallRecord, MarkRecord
    <3> QED BY <3>1, <3>2, <3>3, Quiet
  <2> QED BY <1>4, <2>1, WriteMarkStep DEF MarkStep
<1>5. ASSUME NEW t \in TaskId, CancelTask(t) PROVE ClearIsRemembered' /\ Bound'
  <2>1. BeginMark(Operator, t, "Cancelled") /\ UNCHANGED <<registry, call, cleared, clearing>>
    BY <1>5 DEF CancelTask, callVars, schedulerVars
  <2> QED BY <2>1, BeginMarkQuiet DEF Markers
<1>6. ASSUME UNCHANGED <<registry, call, mark, cleared>>,
             clearing' = "locked" => clearing = "locked"
      PROVE  ClearIsRemembered' /\ Bound'
  BY <1>6, Quiet DEF Promised, Returning, Registered
<1>7. ASSUME NEW t \in TaskId, BeginDemote(t) PROVE ClearIsRemembered' /\ Bound'
  BY <1>6, <1>7 DEF BeginDemote, TakeFromLevel, callVars
<1>8. CASE EndDemote
  BY <1>6, <1>8 DEF EndDemote, PushToLevel, callVars
<1>9. CASE BeginClear
  <2>1. /\ cleared' /\ cleared' \in BOOLEAN
        /\ Registered' = Registered /\ Promised' = Promised /\ Returning' = Returning
    BY <1>9 DEF BeginClear, callVars, schedulerVars, Registered, Promised, Returning
  <2>2. Bound'
    BY <2>1, NothingAdded DEF TaskInv, TypeOK, SchedulerTypeOK, CallRecord, MarkRecord
  <2> QED BY <2>1, <2>2 DEF ClearIsRemembered
<1>10. CASE EndClear
  BY <1>10, EndClearStep
<1>11. CASE Settings
  <2>1. UNCHANGED <<registry, call, mark, cleared, clearing>>
    BY <1>11 DEF Settings, SetPolicy, SetIsRunning, callVars
  <2> QED BY <1>6, <2>1
<1>12. CASE UNCHANGED vars
  BY <1>6, <1>12 DEF vars, callVars, schedulerVars, operatorVars
<1> QED BY <1>1, <1>2, <1>3, <1>4, <1>5, <1>7, <1>8, <1>9, <1>10, <1>11, <1>12 DEF Next

(* The strengthened invariant: the registered tasks, the calls past the    *)
(* check and the marks a clear has overtaken together stay within Limit.   *)
THEOREM CapacityInvariant == Spec => []IInv
<1>1. Init => IInv
  BY InitHolds
<1>2. IInv /\ [Next]_vars => IInv'
  BY StepHolds
<1> QED BY <1>1, <1>2, PTL DEF Spec

(* max_queued_tasks is exceeded by at most one task per concurrent caller, *)
(* less one, and after a clear by at most one more per mark_task_ caller,  *)
(* for every number of each.                                               *)
THEOREM CapacityBounded == Spec => []CapacityOvershoot
<1>1. IInv => CapacityOvershoot
  <2> SUFFICES ASSUME IInv PROVE CapacityOvershoot
    OBVIOUS
  <2>1. /\ Cardinality(Registered) \in Nat /\ Cardinality(Promised) \in Nat
        /\ Cardinality(Returning) \in Nat /\ Cardinality(Callers) \in Nat
        /\ Cardinality(Markers) \in Nat
    BY Finite, FS_CardinalityType
  <2>2. Limit \in Int
    BY <2>1, TaskAssumption DEF Limit
  <2>3. Cardinality(Registered) <= Limit
    BY <2>1, <2>2 DEF IInv, Bound
  <2> QED BY <2>3 DEF Limit, CapacityOvershoot
<1> QED BY <1>1, CapacityInvariant, PTL
=============================================================================
