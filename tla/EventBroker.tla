---------------------------- MODULE EventBroker ----------------------------
(***************************************************************************)
(* The EventBroker (lion_workflow/src/patterns/event): calls of publish,   *)
(* replay_events and process_retry_queue, the tasks that wait for the      *)
(* acknowledgements, and the consumers at the other end of the channels.   *)
(* All events have one type. A call of publish is cut in three: what it    *)
(* checks and stores, the sends it makes under the lock of subscriptions,  *)
(* and the clone of the broker it gives to the task that waits, made under *)
(* the same lock.                                                          *)
(*                                                                         *)
(* The lock of subscriptions is fair: who asks to read waits for those who *)
(* asked to write before. The clone asks to read again what its publish    *)
(* reads already, so a subscribe that asks in between and the publish wait *)
(* for each other for ever (Hung), and all later publishes for both.       *)
(*                                                                         *)
(* EventBroker::clone copies in_flight and processed_events, and           *)
(* EventSubscription::clone makes a channel for acknowledgements of which  *)
(* nobody holds the sender. So a waiting task never finds one: it ends     *)
(* with the time-out, or after its 150 attempts when ack_timeout is longer *)
(* than they take. What it removes and marks is in its own copies.         *)
(***************************************************************************)
EXTENDS Naturals, Sequences, FiniteSets, FiniteSetsExt

CONSTANTS
  Events,
  Subscribers,
  Callers,          \* concurrent calls of the broker
  Capabilities,     \* of every capability id, the events that require it and who holds it
  RequiresAck,      \* the events with requires_ack
  Expires,          \* the events with an expires_at
  BufferSize,       \* channel_buffer_size
  MaxRetries,       \* max_retries
  MaxBatch,         \* max_batch of process_retry_queue, 10 in the code
  MaxCalls,         \* bound on the calls of publish and replay_events
  First,            \* bound: those that subscribe before the others do
  Semantics,        \* the values of delivery_semantic
  Timeouts,         \* the values of timeoutIsShort
  Absent            \* no entry

VARIABLES
  semantic,         \* EventBrokerConfig::delivery_semantic
  timeoutIsShort,   \* whether ack_timeout is under the 3 s of the attempts
  subscriptions,    \* the subscribers, in the order of their subscriptions
  channel,          \* channel[s]: the events sent to s, each with its retry_count
  acks,             \* acks[s]: the acknowledgements s has sent
  consumer,         \* consumer[s]: what s does, "subscribing" while it asks for the
                    \* lock, "gone" once it drops its receiver
  inFlight,         \* inFlight[e]: the retry_count of the entry of e, or Absent
  stored,           \* stored[e]: the retry_count of e in the event store, or Absent
  retryQueue,       \* RetryManager::retry_queue
  waiting,          \* waiting[e][r]: the tasks whose clone holds e with retry_count r
  call,             \* call[c]: where call c is
  expired,          \* the events past their expires_at
  calls,            \* calls[e]: the calls of publish for e, and the replays of e
  delivered,        \* delivered[e][s]: the copies of e sent to s
  handled,          \* the events some consumer has handled
  lost              \* the events of which a copy was given up, with an error or a log entry

brokerVars ==
  <<semantic, timeoutIsShort, subscriptions, channel, acks, consumer, inFlight, stored,
    retryQueue, waiting, call, expired, calls, delivered, handled, lost>>

Retries == 0 .. MaxRetries
Copies == [event : Events, retries : Retries]

ASSUME BrokerAssumption ==
  /\ IsFiniteSet(Events) /\ IsFiniteSet(Subscribers)
  /\ Absent \notin Retries \union Copies
  /\ RequiresAck \subseteq Events /\ Expires \subseteq Events
  /\ BufferSize \in Nat \ {0} /\ MaxRetries \in Nat /\ MaxBatch \in Nat /\ MaxCalls \in Nat
  /\ First \subseteq Subscribers
  /\ Semantics \subseteq {"AtMostOnce", "AtLeastOnce", "ExactlyOnce"}
  /\ Timeouts \subseteq BOOLEAN

(* A call of publish sends one copy, one of process_retry_queue has batch  *)
(* more to take, and one of replay_events has the copies it loaded to do.  *)
CallState == [pc : {"none", "next", "sending", "spawning"},
              copy : Copies \union {Absent},
              batch : 0 .. MaxBatch,
              todo : SUBSET Copies]

BrokerTypeOK ==
  /\ semantic \in Semantics /\ timeoutIsShort \in BOOLEAN
  /\ subscriptions \in Seq(Subscribers)
  /\ channel \in [Subscribers -> Seq(Copies)]
  /\ acks \in [Subscribers -> 0 .. BufferSize]
  /\ consumer \in [Subscribers -> {"none", "subscribing", "idle", "stuck", "gone"}]
  /\ inFlight \in [Events -> Retries \union {Absent}]
  /\ stored \in [Events -> Retries \union {Absent}]
  /\ retryQueue \in Seq(Copies)
  /\ waiting \in [Events -> [Retries -> Nat]]
  /\ call \in [Callers -> CallState]
  /\ expired \subseteq Expires
  /\ calls \in [Events -> Nat]
  /\ delivered \in [Events -> [Subscribers -> Nat]]
  /\ handled \subseteq Events
  /\ lost \subseteq Events

Idle == [pc |-> "none", copy |-> Absent, batch |-> 0, todo |-> {}]

(* EventBroker::new, with an event store. *)
BrokerInit ==
  /\ semantic \in Semantics
  /\ timeoutIsShort \in Timeouts
  /\ subscriptions = << >>
  /\ channel = [s \in Subscribers |-> << >>]
  /\ acks = [s \in Subscribers |-> 0]
  /\ consumer = [s \in Subscribers |-> "none"]
  /\ inFlight = [e \in Events |-> Absent]
  /\ stored = [e \in Events |-> Absent]
  /\ retryQueue = << >>
  /\ waiting = [e \in Events |-> [r \in Retries |-> 0]]
  /\ call = [c \in Callers |-> Idle]
  /\ expired = {}
  /\ calls = [e \in Events |-> 0]
  /\ delivered = [e \in Events |-> [s \in Subscribers |-> 0]]
  /\ handled = {}
  /\ lost = {}

(* EventBrokerConfig, EventSubscription and the channel a subscription makes. *)
configVars == <<semantic, timeoutIsShort>>
consumerVars == <<acks, consumer, handled>>
channelVars == <<channel, delivered>>

-----------------------------------------------------------------------------
(* InMemoryEventStore: an event is stored under its id, so a later copy    *)
(* replaces the one before.                                                *)
StoreEvent(copy) == stored' = [stored EXCEPT ![copy.event] = copy.retries]
LoadAllEvents == {copy \in Copies : stored[copy.event] = copy.retries}

(* RetryManager: enqueue increments the retry_count. *)
Enqueue(e, r) == retryQueue' = Append(retryQueue, [event |-> e, retries |-> r + 1])
Dequeue == /\ retryQueue # << >>
           /\ retryQueue' = Tail(retryQueue)

IsExpired(e) == e \in expired

(* EventBroker::clone, for the task that waits for the acknowledgements:   *)
(* what it needs of the copy is the retry_count of the event in in_flight. *)
CloneFor(e) == waiting' = [waiting EXCEPT ![e][inFlight[e]] = @ + 1]

-----------------------------------------------------------------------------
(* subscribe, up to the lock of subscriptions and under it. *)
AskToSubscribe(s) ==
  /\ consumer[s] = "none"
  /\ s \notin First => \A u \in First : consumer[u] \notin {"none", "subscribing"}
  /\ consumer' = [consumer EXCEPT ![s] = "subscribing"]
  /\ UNCHANGED <<configVars, subscriptions, channelVars, acks, inFlight, stored, retryQueue,
                 waiting, call, expired, calls, handled, lost>>

Subscribe(s) ==
  /\ consumer[s] = "subscribing" /\ \A c \in Callers : call[c].pc # "spawning"
  /\ subscriptions' = Append(subscriptions, s)
  /\ consumer' = [consumer EXCEPT ![s] = "idle"]
  /\ UNCHANGED <<configVars, channelVars, acks, inFlight, stored, retryQueue, waiting, call,
                 expired, calls, handled, lost>>

(* A call of publish or replay_events is one of the MaxCalls. *)
CallsMade == FoldSet(LAMBDA e, sum : calls[e] + sum, 0, Events)

(* replay_events: the events are loaded with the retry_count they were last *)
(* stored with.                                                             *)
StartReplay(c) ==
  /\ call[c].pc = "none" /\ CallsMade < MaxCalls
  /\ LoadAllEvents # {}
  /\ call' = [call EXCEPT ![c] =
                [Idle EXCEPT !.pc = "next",
                             !.todo = LoadAllEvents]]
  /\ UNCHANGED <<configVars, subscriptions, channelVars, consumerVars, inFlight, stored,
                 retryQueue, waiting, expired, calls, lost>>

(* process_retry_queue *)
StartRetries(c) ==
  /\ call[c].pc = "none" /\ retryQueue # << >> /\ MaxBatch > 0
  /\ call' = [call EXCEPT ![c] = [Idle EXCEPT !.pc = "next", !.batch = MaxBatch]]
  /\ UNCHANGED <<configVars, subscriptions, channelVars, consumerVars, inFlight, stored,
                 retryQueue, waiting, expired, calls, lost>>

(* A call whose publish is over goes on with the rest of its work, or returns. *)
Rested(rest) == IF rest.batch = 0 /\ rest.todo = {} THEN Idle
                                                    ELSE [rest EXCEPT !.pc = "next", !.copy = Absent]

(* The broker gives a copy up (see HandledOrGivenUp). *)
Lose(e) == lost' = lost \union {e}

(* publish, its checks and the store, for a copy; rest is the call without *)
(* it. The check for a processed event reads a set that only the clones    *)
(* add to, so it refuses nothing.                                          *)
Admit(c, copy, rest) ==
  /\ \/ /\ IsExpired(copy.event)
        /\ call' = [call EXCEPT ![c] = Rested(rest)]
        /\ Lose(copy.event)
        /\ UNCHANGED stored
     \/ /\ ~IsExpired(copy.event)
        /\ StoreEvent(copy)
        /\ call' = [call EXCEPT ![c] = [rest EXCEPT !.pc = "sending", !.copy = copy]]
        /\ UNCHANGED lost
  /\ UNCHANGED <<configVars, subscriptions, channelVars, consumerVars, inFlight, waiting,
                 expired>>

Publish(c, e) ==
  /\ call[c].pc = "none" /\ CallsMade < MaxCalls
  /\ calls' = [calls EXCEPT ![e] = @ + 1]
  /\ UNCHANGED retryQueue
  /\ Admit(c, [event |-> e, retries |-> 0], Idle)

(* replay_events publishes the next of the events it loaded. *)
ReplayNext(c, copy) ==
  /\ call[c].pc = "next" /\ copy \in call[c].todo
  /\ calls' = [calls EXCEPT ![copy.event] = @ + 1]
  /\ UNCHANGED retryQueue
  /\ Admit(c, copy, [call[c] EXCEPT !.todo = @ \ {copy}])

(* process_retry_queue publishes the next event of the queue, or finds none. *)
RetryNext(c) ==
  /\ call[c].pc = "next" /\ call[c].batch > 0
  /\ Dequeue
  /\ UNCHANGED calls
  /\ Admit(c, Head(retryQueue), [call[c] EXCEPT !.batch = @ - 1])

RetryEnds(c) ==
  /\ call[c].pc = "next" /\ call[c].batch > 0 /\ retryQueue = << >>
  /\ call' = [call EXCEPT ![c] = Idle]
  /\ UNCHANGED <<configVars, subscriptions, channelVars, consumerVars, inFlight, stored,
                 retryQueue, waiting, expired, calls, lost>>

(* try_send succeeds: the receiver is there, and its channel not full. *)
Open(s) == consumer[s] # "gone" /\ Len(channel[s]) < BufferSize

SubscriberSet == {subscriptions[i] : i \in DOMAIN subscriptions}

(* An event that requires a capability goes to those who subscribed with it. *)
CanReceive(e) == {s \in SubscriberSet : \A k \in Capabilities : e \in k => s \in k}

Takers(e) == {s \in CanReceive(e) : Open(s)}

(* The subscribers that a publish of e sends to. *)
Recipients(e) ==
  IF semantic # "AtMostOnce" THEN Takers(e)
  ELSE {s \in Takers(e) : \E i \in DOMAIN subscriptions :
                            /\ subscriptions[i] = s
                            /\ \A j \in 1 .. (i - 1) : subscriptions[j] \notin Takers(e)}

(* The lock of subscriptions is not asked for to write. *)
MayRead == \A s \in Subscribers : consumer[s] # "subscribing"

(* publish, under the read lock of subscriptions; with no subscription it  *)
(* answers that the event was created.                                     *)
Send(c) ==
  LET copy == call[c].copy
      e == copy.event
      to == Recipients(e)
      ends == Rested(call[c])
  IN  /\ call[c].pc = "sending" /\ MayRead
      /\ inFlight' = IF semantic # "AtMostOnce" /\ subscriptions # << >>
                     THEN [inFlight EXCEPT ![e] = copy.retries] ELSE inFlight
      /\ channel' = [s \in Subscribers |-> IF s \in to THEN Append(channel[s], copy)
                                                       ELSE channel[s]]
      /\ delivered' = [delivered EXCEPT ![e] = [s \in Subscribers |->
                         IF s \in to THEN @[s] + 1 ELSE @[s]]]
      /\ \/ /\ to # {} /\ semantic # "AtMostOnce" /\ e \in RequiresAck
            /\ call' = [call EXCEPT ![c].pc = "spawning"]
            /\ UNCHANGED lost
         \/ /\ to # {} /\ (semantic = "AtMostOnce" \/ e \notin RequiresAck)
            /\ call' = [call EXCEPT ![c] = ends]
            /\ UNCHANGED lost
         \/ /\ to = {}
            /\ call' = [call EXCEPT ![c] = ends]
            /\ IF subscriptions = << >> THEN UNCHANGED lost ELSE Lose(e)
      /\ UNCHANGED <<configVars, subscriptions, consumerVars, stored, retryQueue, waiting,
                     expired, calls>>

(* publish, the end: the clone given to process_acknowledgment holds the   *)
(* in_flight entry of e there is now, if there is one. To make it is to    *)
(* read the subscriptions once more.                                       *)
Spawn(c) ==
  LET e == call[c].copy.event
  IN  /\ call[c].pc = "spawning" /\ MayRead
      /\ call' = [call EXCEPT ![c] = Rested(call[c])]
      /\ \/ /\ inFlight[e] # Absent
            /\ CloneFor(e)
            /\ UNCHANGED lost
         \/ /\ inFlight[e] = Absent
            /\ Lose(e)
            /\ UNCHANGED waiting
      /\ UNCHANGED <<configVars, subscriptions, channelVars, consumerVars, inFlight, stored,
                     retryQueue, expired, calls>>

WaitEnds(e, r) == /\ waiting[e][r] > 0
                  /\ waiting' = [waiting EXCEPT ![e][r] = @ - 1]

(* Mutant: the retries are not counted. *)
AlwaysRetry(r) == TRUE

(* The test of process_acknowledgment, and again of enqueue. *)
MayRetry(r) == r < MaxRetries

(* Mutant: the event that timed out is dropped. *)
DropTimedOut(e, r) ==
  /\ timeoutIsShort /\ WaitEnds(e, r)
  /\ UNCHANGED <<configVars, subscriptions, channelVars, consumerVars, inFlight, stored,
                 retryQueue, call, expired, calls, lost>>

(* process_acknowledgment, after a time-out. *)
TimeOut(e, r) ==
  /\ timeoutIsShort /\ WaitEnds(e, r)
  /\ \/ /\ MayRetry(r)
        /\ Enqueue(e, r)
        /\ UNCHANGED lost
     \/ /\ ~MayRetry(r)
        /\ Lose(e)
        /\ UNCHANGED retryQueue
  /\ UNCHANGED <<configVars, subscriptions, channelVars, consumerVars, inFlight, stored, call,
                 expired, calls>>

(* Mutant: the broker itself waits, not a clone. *)
GiveUpHere(e, r) ==
  /\ ~timeoutIsShort /\ WaitEnds(e, r)
  /\ inFlight' = [inFlight EXCEPT ![e] = Absent]
  /\ Lose(e)
  /\ UNCHANGED <<configVars, subscriptions, channelVars, consumerVars, stored, retryQueue,
                 call, expired, calls>>

(* process_acknowledgment, after wait_for_acknowledgment gave up. *)
GiveUp(e, r) ==
  /\ ~timeoutIsShort /\ WaitEnds(e, r)
  /\ Lose(e)
  /\ UNCHANGED <<configVars, subscriptions, channelVars, consumerVars, inFlight, stored,
                 retryQueue, call, expired, calls>>

(* cleanup_expired_events *)
Cleanup ==
  /\ \E e \in Events : IsExpired(e) /\ inFlight[e] # Absent
  /\ inFlight' = [e \in Events |-> IF IsExpired(e) THEN Absent ELSE inFlight[e]]
  /\ UNCHANGED <<configVars, subscriptions, channelVars, consumerVars, stored, retryQueue,
                 waiting, call, expired, calls, lost>>

(* Time goes past expires_at. *)
Expire(e) ==
  /\ e \in Expires \ expired
  /\ expired' = expired \union {e}
  /\ UNCHANGED <<configVars, subscriptions, channelVars, consumerVars, inFlight, stored,
                 retryQueue, waiting, call, calls, lost>>

-----------------------------------------------------------------------------
(* A consumer handles what it receives and acknowledges it, and is stuck   *)
(* when the channel for acknowledgements, which nobody reads, is full.     *)
Handle(s) ==
  LET e == Head(channel[s]).event
  IN  /\ consumer[s] = "idle" /\ channel[s] # << >>
      /\ channel' = [channel EXCEPT ![s] = Tail(@)]
      /\ handled' = handled \union {e}
      /\ IF e \in RequiresAck /\ acks[s] = BufferSize
         THEN consumer' = [consumer EXCEPT ![s] = "stuck"]
         ELSE UNCHANGED consumer
      /\ acks' = IF e \in RequiresAck /\ acks[s] < BufferSize
                 THEN [acks EXCEPT ![s] = @ + 1] ELSE acks
      /\ UNCHANGED <<configVars, subscriptions, delivered, inFlight, stored, retryQueue,
                     waiting, call, expired, calls, lost>>

Leave(s) ==
  /\ consumer[s] = "idle"
  /\ consumer' = [consumer EXCEPT ![s] = "gone"]
  /\ channel' = [channel EXCEPT ![s] = << >>]
  /\ UNCHANGED <<configVars, subscriptions, delivered, acks, handled, inFlight, stored,
                 retryQueue, waiting, call, expired, calls, lost>>

CallStep(c) ==
  \/ \E copy \in Copies : ReplayNext(c, copy)
  \/ RetryNext(c) \/ RetryEnds(c) \/ Send(c) \/ Spawn(c)

WaitStep(e, r) == TimeOut(e, r) \/ GiveUp(e, r)

BrokerNext ==
  \/ \E s \in Subscribers : AskToSubscribe(s) \/ Subscribe(s) \/ Handle(s) \/ Leave(s)
  \/ \E c \in Callers, e \in Events : Publish(c, e)
  \/ \E c \in Callers : StartReplay(c) \/ StartRetries(c) \/ CallStep(c)
  \/ \E e \in Events, r \in Retries : WaitStep(e, r)
  \/ Cleanup
  \/ \E e \in Events : Expire(e)

(* The tasks and the timers of the runtime run. Nobody need receive, or    *)
(* call process_retry_queue.                                               *)
Fairness ==
  /\ \A c \in Callers : WF_brokerVars(CallStep(c))
  /\ \A e \in Events, r \in Retries : WF_brokerVars(WaitStep(e, r))
  /\ \A s \in Subscribers : WF_brokerVars(Subscribe(s))

BrokerSpec == BrokerInit /\ [][BrokerNext]_brokerVars /\ Fairness

-----------------------------------------------------------------------------
(* The copies of e that were sent, each with its consumer and a number. *)
Sent(e) == UNION {{s} \X (1 .. delivered[e][s]) : s \in Subscribers}

(* AtMostOnce, and the bound on the retries, for an event that is published *)
(* once: no consumer is sent more copies of it than the retries allow, and  *)
(* under AtMostOnce there is one copy for all of them. An event published   *)
(* or replayed again while it is retried shares the one in_flight entry of  *)
(* its identifier, and the retries of both then start from the smaller      *)
(* count: it may be sent more often than the calls and retries add up to.   *)
CopiesBounded ==
  \A e \in Events :
    /\ calls[e] <= 1 => \A s \in Subscribers : delivered[e][s] <= 1 + MaxRetries
    /\ semantic = "AtMostOnce" =>
         /\ Cardinality(Sent(e)) <= calls[e]
         /\ inFlight[e] = Absent /\ \A r \in Retries : waiting[e][r] = 0

(* A publish and a subscribe wait for each other (broker.rs:124, 90, 471). *)
Hung ==
  /\ \E c \in Callers : call[c].pc = "spawning"
  /\ \E s \in Subscribers : consumer[s] = "subscribing"

Queued(e) == \E i \in DOMAIN retryQueue : retryQueue[i].event = e

(* Every event that was sent and asks for an acknowledgement is handled in *)
(* the end, or a copy of it is given up with an error or a log entry, or   *)
(* waits in the retry queue, out of which only a call of                   *)
(* process_retry_queue takes it: whatever the consumers do, the broker     *)
(* drops none in silence. Unless a publish hangs with a subscribe.         *)
HandledOrGivenUp ==
  \A e \in RequiresAck :
    (semantic # "AtMostOnce" /\ \E s \in Subscribers : delivered[e][s] > 0)
      ~> (e \in lost \/ e \in handled \/ Queued(e) \/ Hung)

(* An event that was sent and is not AtMostOnce stays in in_flight until   *)
(* it expires: the removals of process_acknowledgment are the clone's.     *)
FlightEndsByExpiry ==
  [][\A e \in Events : inFlight[e] # Absent /\ inFlight'[e] = Absent => e \in expired]_brokerVars
=============================================================================
