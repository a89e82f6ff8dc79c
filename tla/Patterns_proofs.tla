--------------------------- MODULE Patterns_proofs --------------------------
(***************************************************************************)
(* Proofs about the two patterns of lion_workflow, which share no state.   *)
(*                                                                         *)
(* EventBroker: the bound on the copies is not inductive. It               *)
(* says how often an event was sent, and not that the broker still has at  *)
(* most one copy of it to send again. OneCopy says so, wherever the copy   *)
(* is: with a call of publish, in the queue of the retries, or with a task *)
(* that waits; RetriesTell says that the retry_count it carries bounds     *)
(* what was sent; OnlyAfterCalls that an event nobody published is nowhere *)
(* to be sent from. Under AtMostOnce nothing is ever retried               *)
(* (NothingAwaited), and the copies sent and those about to be are no more *)
(* than the calls (CallsSendOnce).                                         *)
(*                                                                         *)
(* Saga: for every saga, any number of start_saga and abort_saga calls,    *)
(* either wiring of the task processor and every limit: the effects of a   *)
(* saga are those SagaOutcome allows, no request for compensation is lost, *)
(* and no step that could run is left. The first needs that a list of      *)
(* ready steps, read long ago, still holds only steps whose dependencies   *)
(* took effect, and that a step the processor is about to undo has one     *)
(* effect more than it has been undone, although others may execute it     *)
(* again meanwhile.                                                        *)
(***************************************************************************)
EXTENDS Saga, EventBroker, FiniteSetTheorems, SequenceTheorems, TLAPS

(* A call of publish carries a copy. *)
Publishing(c) == call[c].pc \in {"sending", "spawning"}

Typed ==
  /\ BrokerTypeOK
  /\ \A c \in Callers : Publishing(c) => call[c].copy \in Copies

LEMMA ConstantFacts ==
  /\ BufferSize \in Nat /\ MaxRetries \in Nat /\ MaxBatch \in Nat
  /\ 0 \in Retries /\ \A r \in Retries : MayRetry(r) => r + 1 \in Retries
  /\ Absent \notin Retries /\ Absent \notin Copies
BY BrokerAssumption DEF Retries, MayRetry

LEMMA IdleType == Idle \in CallState
BY BrokerAssumption DEF Idle, CallState

LEMMA RestedType ==
  ASSUME NEW rest \in CallState
  PROVE  /\ Rested(rest) \in CallState
         /\ Rested(rest).pc \in {"none", "next"}
         /\ Rested(rest).todo \subseteq rest.todo
<1>1. CASE rest.batch = 0 /\ rest.todo = {}
  BY <1>1, IdleType DEF Rested, Idle
<1>2. CASE ~(rest.batch = 0 /\ rest.todo = {})
  <2>1. Rested(rest) = [rest EXCEPT !.pc = "next", !.copy = Absent]
    BY <1>2 DEF Rested
  <2> QED
    BY <2>1 DEF CallState
<1> QED
  BY <1>1, <1>2

LEMMA SendingType ==
  ASSUME NEW rest \in CallState, NEW copy \in Copies
  PROVE  /\ [rest EXCEPT !.pc = "sending", !.copy = copy] \in CallState
         /\ [rest EXCEPT !.pc = "sending", !.copy = copy].pc = "sending"
         /\ [rest EXCEPT !.pc = "sending", !.copy = copy].copy = copy
         /\ [rest EXCEPT !.pc = "sending", !.copy = copy].todo = rest.todo
BY DEF CallState

LEMMA StartReplayType ==
  ASSUME NEW todo \in SUBSET Copies,
         NEW x, x = [Idle EXCEPT !.pc = "next", !.todo = todo]
  PROVE  x \in CallState /\ x.pc = "next" /\ x.todo = todo
BY IdleType DEF CallState, Idle

LEMMA StartRetriesType ==
  ASSUME NEW x, x = [Idle EXCEPT !.pc = "next", !.batch = MaxBatch]
  PROVE  x \in CallState /\ x.pc = "next" /\ x.todo = {}
<1>1. MaxBatch \in 0 .. MaxBatch
  BY ConstantFacts
<1> QED
  BY <1>1, IdleType DEF CallState, Idle
-----------------------------------------------------------------------------
LEMMA InitTyped == BrokerInit => Typed
<1> SUFFICES ASSUME BrokerInit PROVE Typed
  OBVIOUS
<1>1. acks \in [Subscribers -> 0 .. BufferSize]
  BY ConstantFacts DEF BrokerInit
<1>2. call \in [Callers -> CallState] /\ \A c \in Callers : ~Publishing(c)
  BY IdleType DEF BrokerInit, Idle, Publishing
<1>3. retryQueue \in Seq(Copies) /\ subscriptions \in Seq(Subscribers)
  BY DEF BrokerInit
<1>5. /\ waiting \in [Events -> [Retries -> Nat]]
      /\ delivered \in [Events -> [Subscribers -> Nat]]
  BY DEF BrokerInit
<1>7. /\ inFlight \in [Events -> Retries \union {Absent}]
      /\ stored \in [Events -> Retries \union {Absent}]
      /\ consumer \in [Subscribers -> {"none", "subscribing", "idle", "stuck", "gone"}]
      /\ semantic \in Semantics /\ timeoutIsShort \in BOOLEAN
  BY BrokerAssumption DEF BrokerInit
<1>6. channel \in [Subscribers -> Seq(Copies)]
  BY DEF BrokerInit
<1> QED
  BY <1>1, <1>2, <1>3, <1>5, <1>6, <1>7 DEF BrokerInit, BrokerTypeOK, Typed

(* What publish does first keeps the types, for the call that goes on with *)
(* rest.                                                                   *)
LEMMA AdmitTyped ==
  ASSUME Typed, NEW c \in Callers, NEW copy \in Copies, NEW rest \in CallState,
         Admit(c, copy, rest)
  PROVE  /\ call' \in [Callers -> CallState]
         /\ \A d \in Callers : Publishing(d)' => call'[d].copy \in Copies
         /\ stored' \in [Events -> Retries \union {Absent}]
         /\ lost' \subseteq Events
<1>1. copy.event \in Events /\ copy.retries \in Retries
  BY DEF Copies
<1> DEFINE sending == [rest EXCEPT !.pc = "sending", !.copy = copy]
<1>2. /\ sending \in CallState /\ sending.copy \in Copies
      /\ Rested(rest) \in CallState /\ Rested(rest).pc \in {"none", "next"}
  <2>1. sending \in CallState /\ sending.copy = copy
    BY SendingType
  <2> QED
    BY <2>1, RestedType
<1>3. /\ \/ call' = [call EXCEPT ![c] = sending]
         \/ call' = [call EXCEPT ![c] = Rested(rest)]
      /\ \/ stored' = stored
         \/ stored' = [stored EXCEPT ![copy.event] = copy.retries]
      /\ lost' = lost \/ lost' = lost \union {copy.event}
  BY DEF Admit, StoreEvent, Lose
<1> HIDE DEF sending
<1>4. stored \in [Events -> Retries \union {Absent}] /\ lost \subseteq Events
      /\ call \in [Callers -> CallState]
  BY DEF Typed, BrokerTypeOK
<1>5. stored' \in [Events -> Retries \union {Absent}] /\ lost' \subseteq Events
  BY <1>1, <1>3, <1>4
<1>6. call' \in [Callers -> CallState]
  BY <1>2, <1>3, <1>4
<1>7. \A d \in Callers : Publishing(d)' => call'[d].copy \in Copies
  BY <1>2, <1>3, <1>4 DEF Typed, Publishing
<1> QED
  BY <1>5, <1>6, <1>7

LEMMA TypedKept == Typed /\ [BrokerNext]_brokerVars => Typed'
<1> SUFFICES ASSUME Typed, [BrokerNext]_brokerVars PROVE Typed'
  OBVIOUS
<1> USE DEF configVars, channelVars, consumerVars
<1>0. BrokerTypeOK
  BY DEF Typed
<1>1. ASSUME NEW s \in Subscribers, Subscribe(s) PROVE Typed'
  <2>1. subscriptions' \in Seq(Subscribers)
    BY <1>1, <1>0 DEF Subscribe, BrokerTypeOK
  <2> QED
    BY <1>1, <2>1 DEF Subscribe, BrokerTypeOK, Typed, Publishing
<1>1a. ASSUME NEW s \in Subscribers, AskToSubscribe(s) PROVE Typed'
  BY <1>1a, <1>0 DEF AskToSubscribe, BrokerTypeOK, Typed, Publishing
<1>2. ASSUME NEW s \in Subscribers, Handle(s) PROVE Typed'
  <2> DEFINE e == Head(channel[s]).event
  <2>1. channel[s] \in Seq(Copies) /\ channel[s] # << >>
    BY <1>2, <1>0 DEF Handle, BrokerTypeOK
  <2>2. Head(channel[s]) \in Copies /\ Tail(channel[s]) \in Seq(Copies)
    BY <2>1
  <2>3. e \in Events
    BY <2>2 DEF Copies
  <2>4. acks' \in [Subscribers -> 0 .. BufferSize]
    <3>1. CASE e \in RequiresAck /\ acks[s] < BufferSize
      BY <1>0, ConstantFacts, <1>2, <3>1 DEF Handle, BrokerTypeOK
    <3>2. CASE ~(e \in RequiresAck /\ acks[s] < BufferSize)
      BY <1>0, <1>2, <3>2 DEF Handle, BrokerTypeOK
    <3> QED
      BY <3>1, <3>2
  <2>5. consumer' \in [Subscribers -> {"none", "subscribing", "idle", "stuck", "gone"}]
    BY <1>2, <1>0 DEF Handle, BrokerTypeOK
  <2>6. channel' \in [Subscribers -> Seq(Copies)] /\ handled' \subseteq Events
    BY <1>2, <1>0, <2>2, <2>3 DEF Handle, BrokerTypeOK
  <2> HIDE DEF e
  <2> QED
    BY <1>2, <2>4, <2>5, <2>6 DEF Handle, BrokerTypeOK, Typed, Publishing
<1>3. ASSUME NEW s \in Subscribers, Leave(s) PROVE Typed'
  <2>1. channel' \in [Subscribers -> Seq(Copies)]
    BY <1>3, <1>0 DEF Leave, BrokerTypeOK
  <2> QED
    BY <1>3, <2>1 DEF Leave, BrokerTypeOK, Typed, Publishing
<1>4. ASSUME NEW c \in Callers, NEW e \in Events, Publish(c, e) PROVE Typed'
  <2>1. [event |-> e, retries |-> 0] \in Copies
    BY ConstantFacts DEF Copies
  <2>2. Admit(c, [event |-> e, retries |-> 0], Idle)
    BY <1>4 DEF Publish
  <2>3. /\ call' \in [Callers -> CallState]
        /\ \A d \in Callers : Publishing(d)' => call'[d].copy \in Copies
        /\ stored' \in [Events -> Retries \union {Absent}]
        /\ lost' \subseteq Events
    BY <2>1, <2>2, AdmitTyped, IdleType
  <2>4. calls' \in [Events -> Nat] /\ UNCHANGED retryQueue
    BY <1>4, <1>0 DEF Publish, BrokerTypeOK
  <2> QED
    BY <2>2, <2>3, <2>4 DEF Admit, BrokerTypeOK, Typed
<1>5. ASSUME NEW c \in Callers, StartReplay(c) PROVE Typed'
  <2> DEFINE x == [Idle EXCEPT !.pc = "next", !.todo = LoadAllEvents]
  <2>1. x \in CallState /\ x.pc = "next"
    BY StartReplayType DEF LoadAllEvents
  <2>2. call' = [call EXCEPT ![c] = x]
    BY <1>5 DEF StartReplay
  <2> HIDE DEF x
  <2> QED
    BY <1>5, <2>1, <2>2 DEF StartReplay, BrokerTypeOK, Typed, Publishing
<1>6. ASSUME NEW c \in Callers, StartRetries(c) PROVE Typed'
  <2> DEFINE x == [Idle EXCEPT !.pc = "next", !.batch = MaxBatch]
  <2>1. x \in CallState /\ x.pc = "next"
    BY StartRetriesType
  <2>2. call' = [call EXCEPT ![c] = x]
    BY <1>6 DEF StartRetries
  <2> HIDE DEF x
  <2> QED
    BY <1>6, <2>1, <2>2 DEF StartRetries, BrokerTypeOK, Typed, Publishing
<1>7. ASSUME NEW c \in Callers, NEW copy \in Copies, ReplayNext(c, copy) PROVE Typed'
  <2>1. [call[c] EXCEPT !.todo = @ \ {copy}] \in CallState
    BY <1>0 DEF BrokerTypeOK, CallState
  <2>2. Admit(c, copy, [call[c] EXCEPT !.todo = @ \ {copy}])
    BY <1>7 DEF ReplayNext
  <2>3. /\ call' \in [Callers -> CallState]
        /\ \A d \in Callers : Publishing(d)' => call'[d].copy \in Copies
        /\ stored' \in [Events -> Retries \union {Absent}]
        /\ lost' \subseteq Events
    BY <2>1, <2>2, AdmitTyped
  <2>4. calls' \in [Events -> Nat] /\ UNCHANGED retryQueue
    <3>1. copy.event \in Events
      BY DEF Copies
    <3> QED
      BY <1>7, <1>0, <3>1 DEF ReplayNext, BrokerTypeOK
  <2> QED
    BY <2>2, <2>3, <2>4 DEF Admit, BrokerTypeOK, Typed
<1>8. ASSUME NEW c \in Callers, RetryNext(c) PROVE Typed'
  <2>1. [call[c] EXCEPT !.batch = @ - 1] \in CallState
    <3>1. call[c] \in CallState /\ call[c].batch - 1 \in 0 .. MaxBatch
      BY <1>8, <1>0, ConstantFacts DEF RetryNext, BrokerTypeOK, CallState
    <3> QED
      BY <3>1 DEF CallState
  <2>2. Head(retryQueue) \in Copies /\ retryQueue' \in Seq(Copies)
    BY <1>8, <1>0 DEF RetryNext, Dequeue, BrokerTypeOK
  <2>3. Admit(c, Head(retryQueue), [call[c] EXCEPT !.batch = @ - 1])
    BY <1>8 DEF RetryNext
  <2>4. /\ call' \in [Callers -> CallState]
        /\ \A d \in Callers : Publishing(d)' => call'[d].copy \in Copies
        /\ stored' \in [Events -> Retries \union {Absent}]
        /\ lost' \subseteq Events
    BY <2>1, <2>2, <2>3, AdmitTyped
  <2>5. UNCHANGED calls
    BY <1>8 DEF RetryNext
  <2> QED
    BY <2>2, <2>3, <2>4, <2>5 DEF Admit, BrokerTypeOK, Typed
<1>9. ASSUME NEW c \in Callers, RetryEnds(c) PROVE Typed'
  <2>1. Idle \in CallState /\ Idle.pc = "none"
    BY IdleType DEF Idle
  <2> QED
    BY <1>9, <2>1 DEF RetryEnds, BrokerTypeOK, Typed, Publishing
<1>10. ASSUME NEW c \in Callers, Send(c) PROVE Typed'
  <2> DEFINE copy == call[c].copy
             to == Recipients(copy.event)
             spawning == [call[c] EXCEPT !.pc = "spawning"]
  <2>1. call[c] \in CallState /\ copy \in Copies
    BY <1>10, <1>0 DEF Send, BrokerTypeOK, Typed, Publishing
  <2>2. copy.event \in Events /\ copy.retries \in Retries
    BY <2>1 DEF Copies
  <2>3. spawning \in CallState /\ spawning.copy \in Copies
    BY <2>1 DEF CallState
  <2>4. Rested(call[c]) \in CallState /\ Rested(call[c]).pc \in {"none", "next"}
    BY <2>1, RestedType
  <2>5. \/ call' = [call EXCEPT ![c] = spawning]
        \/ call' = [call EXCEPT ![c] = Rested(call[c])]
    BY <1>10, <1>0 DEF Send, BrokerTypeOK
  <2> HIDE DEF spawning
  <2>6. call' \in [Callers -> CallState]
        /\ \A d \in Callers : Publishing(d)' => call'[d].copy \in Copies
    BY <1>0, <2>3, <2>4, <2>5 DEF BrokerTypeOK, Typed, Publishing
  <2>7. inFlight' \in [Events -> Retries \union {Absent}]
    BY <1>10, <1>0, <2>2 DEF Send, BrokerTypeOK
  <2>8. channel' \in [Subscribers -> Seq(Copies)]
    <3> SUFFICES ASSUME NEW s \in Subscribers
                 PROVE  (IF s \in to THEN Append(channel[s], copy) ELSE channel[s]) \in Seq(Copies)
      BY <1>10 DEF Send
    <3>1. channel[s] \in Seq(Copies)
      BY <1>0 DEF BrokerTypeOK
    <3> QED
      BY <2>1, <3>1
  <2>9. delivered' \in [Events -> [Subscribers -> Nat]]
    <3> DEFINE more == [s \in Subscribers |->
                          IF s \in to THEN delivered[copy.event][s] + 1
                                      ELSE delivered[copy.event][s]]
    <3>1. delivered \in [Events -> [Subscribers -> Nat]]
      BY <1>0 DEF BrokerTypeOK
    <3>2. delivered' = [delivered EXCEPT ![copy.event] = more]
      BY <1>10, <2>2, <3>1 DEF Send
    <3>3. more \in [Subscribers -> Nat]
      BY <2>2, <3>1
    <3> QED
      BY <3>1, <3>2, <3>3
  <2>10. lost' \subseteq Events
    BY <1>10, <1>0, <2>2 DEF Send, Lose, BrokerTypeOK
  <2> QED
    BY <1>10, <2>6, <2>7, <2>8, <2>9, <2>10 DEF Send, BrokerTypeOK, Typed
<1>11. ASSUME NEW c \in Callers, Spawn(c) PROVE Typed'
  <2> DEFINE e == call[c].copy.event
  <2>1. call[c] \in CallState /\ e \in Events
    BY <1>11, <1>0 DEF Spawn, BrokerTypeOK, Typed, Publishing, Copies
  <2>2. Rested(call[c]) \in CallState /\ Rested(call[c]).pc \in {"none", "next"}
    BY <2>1, RestedType
  <2>3. call' \in [Callers -> CallState]
        /\ \A d \in Callers : Publishing(d)' => call'[d].copy \in Copies
    BY <1>0, <1>11, <2>2 DEF Spawn, BrokerTypeOK, Typed, Publishing
  <2>4. waiting' \in [Events -> [Retries -> Nat]]
    <3>1. CASE inFlight[e] # Absent
      <4>1. inFlight[e] \in Retries
        BY <1>0, <2>1, <3>1 DEF BrokerTypeOK
      <4>2. waiting' = [waiting EXCEPT ![e][inFlight[e]] = @ + 1]
        BY <1>11, <3>1 DEF Spawn, CloneFor
      <4> HIDE DEF e
      <4> QED
        BY <1>0, <2>1, <4>1, <4>2 DEF BrokerTypeOK
    <3>2. CASE inFlight[e] = Absent
      BY <1>11, <1>0, <3>2 DEF Spawn, BrokerTypeOK
    <3> QED
      BY <3>1, <3>2
  <2>5. lost' \subseteq Events
    BY <1>11, <1>0, <2>1 DEF Spawn, Lose, BrokerTypeOK
  <2> QED
    BY <1>11, <2>3, <2>4, <2>5 DEF Spawn, BrokerTypeOK, Typed
<1>12. ASSUME NEW e \in Events, NEW r \in Retries, TimeOut(e, r) PROVE Typed'
  <2>1. waiting' \in [Events -> [Retries -> Nat]]
    BY <1>12, <1>0 DEF TimeOut, WaitEnds, BrokerTypeOK
  <2>2. retryQueue' \in Seq(Copies)
    <3>1. CASE MayRetry(r)
      <4>1. [event |-> e, retries |-> r + 1] \in Copies
        BY <3>1, ConstantFacts DEF Copies
      <4> QED
        <5>1. retryQueue' = Append(retryQueue, [event |-> e, retries |-> r + 1])
          BY <1>12, <3>1 DEF TimeOut, Enqueue
        <5> QED
          BY <1>0, <4>1, <5>1 DEF BrokerTypeOK
    <3>2. CASE ~MayRetry(r)
      BY <1>12, <1>0, <3>2 DEF TimeOut, BrokerTypeOK
    <3> QED
      BY <3>1, <3>2
  <2>3. lost' \subseteq Events
    BY <1>12, <1>0 DEF TimeOut, Lose, BrokerTypeOK
  <2> QED
    BY <1>12, <2>1, <2>2, <2>3 DEF TimeOut, BrokerTypeOK, Typed, Publishing
<1>13. ASSUME NEW e \in Events, NEW r \in Retries, GiveUp(e, r) PROVE Typed'
  <2>1. waiting' \in [Events -> [Retries -> Nat]] /\ lost' \subseteq Events
    BY <1>13, <1>0 DEF GiveUp, WaitEnds, Lose, BrokerTypeOK
  <2> QED
    BY <1>13, <2>1 DEF GiveUp, BrokerTypeOK, Typed, Publishing
<1>14. CASE Cleanup
  BY <1>14 DEF Cleanup, BrokerTypeOK, Typed, Publishing
<1>15. ASSUME NEW e \in Events, Expire(e) PROVE Typed'
  BY <1>15 DEF Expire, BrokerTypeOK, Typed, Publishing
<1>16. CASE UNCHANGED brokerVars
  BY <1>16 DEF brokerVars, BrokerTypeOK, Typed, Publishing
<1> QED
  BY <1>1, <1>2, <1>3, <1>4, <1>5, <1>6, <1>7, <1>8, <1>9, <1>10, <1>11, <1>12, <1>13, <1>14,
     <1>15, <1>16, <1>1a DEF BrokerNext, CallStep, WaitStep
-----------------------------------------------------------------------------
(* Call c publishes a copy of e: it is about to send it, or has sent it.   *)
Holds(c, e) == Publishing(c) /\ call[c].copy.event = e

SentAtMost(e, n) == \A s \in Subscribers : delivered[e][s] <= n

(* Nothing is stored, sent, queued or loaded of an event before a call of  *)
(* publish for it.                                                         *)
OnlyAfterCalls ==
  /\ \A e \in Events : calls[e] = 0 =>
       stored[e] = Absent /\ inFlight[e] = Absent /\ SentAtMost(e, 0)
  /\ \A c \in Callers, e \in Events : Holds(c, e) => calls[e] > 0
  /\ \A c \in Callers : \A copy \in call[c].todo : calls[copy.event] > 0
  /\ \A i \in DOMAIN retryQueue : calls[retryQueue[i].event] > 0
  /\ \A e \in Events, r \in Retries : waiting[e][r] > 0 => calls[e] > 0

(* There is one copy of e at most: with a call of publish, in the queue of *)
(* the retries, or with a task that waits.                                 *)
OneCopy(e) ==
  /\ \A c, d \in Callers : Holds(c, e) /\ Holds(d, e) => c = d
  /\ \A i, j \in DOMAIN retryQueue :
       retryQueue[i].event = e /\ retryQueue[j].event = e => i = j
  /\ \A r, q \in Retries : waiting[e][r] > 0 /\ waiting[e][q] > 0 => r = q
  /\ \A r \in Retries : waiting[e][r] <= 1
  /\ \A c \in Callers, i \in DOMAIN retryQueue : ~(Holds(c, e) /\ retryQueue[i].event = e)
  /\ \A c \in Callers, r \in Retries : ~(Holds(c, e) /\ waiting[e][r] > 0)
  /\ \A i \in DOMAIN retryQueue, r \in Retries : ~(retryQueue[i].event = e /\ waiting[e][r] > 0)

(* The retry_count of the one copy says how often e was sent. *)
RetriesTell(e) ==
  /\ SentAtMost(e, 1 + MaxRetries)
  /\ \A c \in Callers : Holds(c, e) =>
       IF call[c].pc = "sending" THEN SentAtMost(e, call[c].copy.retries)
       ELSE /\ SentAtMost(e, 1 + call[c].copy.retries)
            /\ inFlight[e] \in {call[c].copy.retries, Absent}
  /\ \A i \in DOMAIN retryQueue :
       retryQueue[i].event = e => SentAtMost(e, retryQueue[i].retries)
  /\ \A r \in Retries : waiting[e][r] > 0 => SentAtMost(e, 1 + r)

(* Under AtMostOnce nothing is in flight, and a call sends one copy. *)
Sending(e) == {c \in Callers : call[c].pc = "sending" /\ call[c].copy.event = e}

NothingAwaited ==
  /\ retryQueue = << >>
  /\ \A c \in Callers : call[c].pc # "spawning"
  /\ \A e \in Events : inFlight[e] = Absent /\ \A r \in Retries : waiting[e][r] = 0

SendsOnce(e) ==
  /\ IsFiniteSet(Sent(e)) /\ IsFiniteSet(Sending(e))
  /\ Cardinality(Sent(e)) + Cardinality(Sending(e)) <= calls[e]

CallsSendOnce == \A e \in Events : SendsOnce(e)

BrokerInv ==
  /\ Typed
  /\ OnlyAfterCalls
  /\ \A e \in Events : calls[e] <= 1 => OneCopy(e) /\ RetriesTell(e)
  /\ semantic = "AtMostOnce" => NothingAwaited /\ CallsSendOnce

-----------------------------------------------------------------------------
(* What each step changes, as the invariant needs it. *)

(* publish takes a copy over, or refuses it. *)
LEMMA AdmitFacts ==
  ASSUME Typed, NEW c \in Callers, NEW copy \in Copies, NEW rest \in CallState,
         Admit(c, copy, rest)
  PROVE  /\ \A d \in Callers : d # c => call'[d] = call[d]
         /\ call'[c].todo \subseteq rest.todo
         /\ \/ call'[c].pc \in {"none", "next"}
            \/ call'[c].pc = "sending" /\ call'[c].copy = copy
         /\ \A e \in Events : e # copy.event => stored'[e] = stored[e]
         /\ UNCHANGED <<inFlight, waiting, delivered, semantic>>
<1> DEFINE sending == [rest EXCEPT !.pc = "sending", !.copy = copy]
<1>1. sending.pc = "sending" /\ sending.copy = copy /\ sending.todo = rest.todo
  BY SendingType
<1>2. Rested(rest).pc \in {"none", "next"} /\ Rested(rest).todo \subseteq rest.todo
  BY RestedType
<1>3. /\ \/ call' = [call EXCEPT ![c] = sending]
         \/ call' = [call EXCEPT ![c] = Rested(rest)]
      /\ \/ stored' = stored
         \/ stored' = [stored EXCEPT ![copy.event] = copy.retries]
      /\ UNCHANGED <<inFlight, waiting, delivered, semantic>>
  BY DEF Admit, StoreEvent, configVars, channelVars
<1> HIDE DEF sending
<1>4. call \in [Callers -> CallState] /\ stored \in [Events -> Retries \union {Absent}]
  BY DEF Typed, BrokerTypeOK
<1>5. \A e \in Events : e # copy.event => stored'[e] = stored[e]
  BY <1>3, <1>4
<1>6. (\A d \in Callers : d # c => call'[d] = call[d])
      /\ (call'[c] = sending \/ call'[c] = Rested(rest))
  BY <1>3, <1>4
<1> QED
  BY <1>1, <1>2, <1>3, <1>5, <1>6

(* A call of publish is over, or it goes on to its end. *)
LEMMA SendFacts ==
  ASSUME Typed, NEW c \in Callers, Send(c)
  PROVE  LET e == call[c].copy.event
             r == call[c].copy.retries
         IN  /\ e \in Events /\ r \in Retries /\ call[c].pc = "sending"
             /\ \A d \in Callers : d # c => call'[d] = call[d]
             /\ call'[c].todo \subseteq call[c].todo
             /\ \/ call'[c].pc \in {"none", "next"}
                \/ /\ call'[c].pc = "spawning" /\ call'[c].copy = call[c].copy
                   /\ semantic # "AtMostOnce" /\ inFlight'[e] = r
             /\ \A d \in Events : d # e => inFlight'[d] = inFlight[d]
                                             /\ delivered'[d] = delivered[d]
             /\ inFlight'[e] \in {inFlight[e], r}
             /\ semantic = "AtMostOnce" => inFlight' = inFlight
             /\ \A s \in Subscribers :
                  delivered'[e][s] = IF s \in Recipients(e) THEN delivered[e][s] + 1
                                                            ELSE delivered[e][s]
             /\ UNCHANGED <<stored, retryQueue, waiting, calls, semantic>>
<1> DEFINE e == call[c].copy.event
           r == call[c].copy.retries
           spawning == [call[c] EXCEPT !.pc = "spawning"]
<1>0. /\ call \in [Callers -> CallState] /\ inFlight \in [Events -> Retries \union {Absent}]
      /\ delivered \in [Events -> [Subscribers -> Nat]]
  BY DEF Typed, BrokerTypeOK
<1>1. call[c] \in CallState /\ call[c].copy \in Copies /\ call[c].pc = "sending"
  BY <1>0 DEF Send, Typed, Publishing
<1>2. e \in Events /\ r \in Retries
  BY <1>1 DEF Copies
<1>3. spawning.pc = "spawning" /\ spawning.copy = call[c].copy /\ spawning.todo = call[c].todo
  BY <1>1 DEF CallState
<1>4. Rested(call[c]).pc \in {"none", "next"} /\ Rested(call[c]).todo \subseteq call[c].todo
  BY <1>1, RestedType
<1>5. \/ call' = [call EXCEPT ![c] = Rested(call[c])]
      \/ /\ call' = [call EXCEPT ![c] = spawning]
         /\ semantic # "AtMostOnce" /\ Recipients(e) # {}
  BY <1>0 DEF Send
<1>6. Recipients(e) # {} => subscriptions # << >>
  BY DEF Recipients, Takers, CanReceive, SubscriberSet
<1>7. inFlight' = IF semantic # "AtMostOnce" /\ subscriptions # << >>
                  THEN [inFlight EXCEPT ![e] = r] ELSE inFlight
  BY DEF Send
<1> HIDE DEF spawning
<1>8. /\ \A d \in Callers : d # c => call'[d] = call[d]
      /\ \/ call'[c] = Rested(call[c])
         \/ /\ call'[c] = spawning
            /\ semantic # "AtMostOnce" /\ inFlight'[e] = r
  BY <1>0, <1>2, <1>5, <1>6, <1>7
<1>9. /\ \A d \in Events : d # e => inFlight'[d] = inFlight[d]
      /\ inFlight'[e] \in {inFlight[e], r}
      /\ semantic = "AtMostOnce" => inFlight' = inFlight
  BY <1>0, <1>2, <1>7
<1>10. /\ \A d \in Events : d # e => delivered'[d] = delivered[d]
       /\ \A s \in Subscribers :
            delivered'[e][s] = IF s \in Recipients(e) THEN delivered[e][s] + 1
                                                      ELSE delivered[e][s]
  <2> DEFINE more == [s \in Subscribers |->
                        IF s \in Recipients(e) THEN delivered[e][s] + 1 ELSE delivered[e][s]]
  <2>1. delivered' = [delivered EXCEPT ![e] = more]
    BY <1>0, <1>2 DEF Send
  <2> QED
    BY <1>0, <1>2, <2>1
<1>11. UNCHANGED <<stored, retryQueue, waiting, calls, semantic>>
  BY DEF Send, configVars
<1> QED
  BY <1>1, <1>2, <1>3, <1>4, <1>8, <1>9, <1>10, <1>11

LEMMA SpawnFacts ==
  ASSUME Typed, NEW c \in Callers, Spawn(c)
  PROVE  LET e == call[c].copy.event
         IN  /\ e \in Events /\ call[c].pc = "spawning"
             /\ \A d \in Callers : d # c => call'[d] = call[d]
             /\ call'[c].todo \subseteq call[c].todo
             /\ call'[c].pc \in {"none", "next"}
             /\ \A d \in Events, q \in Retries :
                  waiting'[d][q] = IF d = e /\ q = inFlight[e] THEN waiting[d][q] + 1
                                                               ELSE waiting[d][q]
             /\ UNCHANGED <<stored, retryQueue, inFlight, delivered, calls, semantic>>
<1> DEFINE e == call[c].copy.event
<1>0. /\ call \in [Callers -> CallState] /\ inFlight \in [Events -> Retries \union {Absent}]
      /\ waiting \in [Events -> [Retries -> Nat]]
  BY DEF Typed, BrokerTypeOK
<1>1. call[c] \in CallState /\ call[c].copy \in Copies /\ call[c].pc = "spawning"
  BY <1>0 DEF Spawn, Typed, Publishing
<1>2. e \in Events
  BY <1>1 DEF Copies
<1>3. Rested(call[c]).pc \in {"none", "next"} /\ Rested(call[c]).todo \subseteq call[c].todo
  BY <1>1, RestedType
<1>4. call' = [call EXCEPT ![c] = Rested(call[c])]
  BY DEF Spawn
<1>5. \A d \in Events, q \in Retries :
        waiting'[d][q] = IF d = e /\ q = inFlight[e] THEN waiting[d][q] + 1 ELSE waiting[d][q]
  <2>1. CASE inFlight[e] # Absent
    <3>1. inFlight[e] \in Retries
      BY <1>0, <1>2, <2>1
    <3>2. waiting' = [waiting EXCEPT ![e][inFlight[e]] = @ + 1]
      BY <2>1 DEF Spawn, CloneFor
    <3> HIDE DEF e
    <3> QED
      BY <1>0, <1>2, <3>1, <3>2
  <2>2. CASE inFlight[e] = Absent
    <3>1. Absent \notin Retries /\ waiting' = waiting
      BY <2>2, ConstantFacts DEF Spawn
    <3> QED
      BY <2>2, <3>1
  <2> QED
    BY <2>1, <2>2
<1>6. UNCHANGED <<stored, retryQueue, inFlight, delivered, calls, semantic>>
  BY DEF Spawn, configVars, channelVars
<1>7. call'[c] = Rested(call[c]) /\ \A d \in Callers : d # c => call'[d] = call[d]
  BY <1>0, <1>4
<1> QED
  BY <1>1, <1>2, <1>3, <1>5, <1>6, <1>7

LEMMA WaitFacts ==
  ASSUME Typed, NEW e \in Events, NEW r \in Retries, WaitStep(e, r)
  PROVE  /\ waiting[e][r] > 0
         /\ \A d \in Events, q \in Retries :
              waiting'[d][q] = IF d = e /\ q = r THEN waiting[d][q] - 1 ELSE waiting[d][q]
         /\ \/ retryQueue' = retryQueue
            \/ /\ r + 1 \in Retries
               /\ retryQueue' = Append(retryQueue, [event |-> e, retries |-> r + 1])
         /\ UNCHANGED <<stored, call, inFlight, delivered, calls, semantic>>
<1>1. waiting \in [Events -> [Retries -> Nat]]
  BY DEF Typed, BrokerTypeOK
<1>2. /\ waiting[e][r] > 0 /\ waiting' = [waiting EXCEPT ![e][r] = @ - 1]
      /\ \/ retryQueue' = retryQueue
         \/ MayRetry(r) /\ Enqueue(e, r)
      /\ UNCHANGED <<stored, call, inFlight, delivered, calls, semantic>>
  BY DEF WaitStep, TimeOut, GiveUp, WaitEnds, configVars, channelVars
<1>3. \A d \in Events, q \in Retries :
        waiting'[d][q] = IF d = e /\ q = r THEN waiting[d][q] - 1 ELSE waiting[d][q]
  BY <1>1, <1>2
<1>4. MayRetry(r) => r + 1 \in Retries
  BY ConstantFacts
<1> QED
  BY <1>2, <1>3, <1>4 DEF Enqueue

(* The start of a call, and its end when the queue is empty. *)
LEMMA QuietFacts ==
  ASSUME Typed, NEW c \in Callers, StartReplay(c) \/ StartRetries(c) \/ RetryEnds(c)
  PROVE  /\ \A d \in Callers : d # c => call'[d] = call[d]
         /\ ~Publishing(c)'
         /\ call'[c].todo \subseteq LoadAllEvents
         /\ UNCHANGED <<stored, retryQueue, inFlight, waiting, delivered, calls, semantic>>
<1>0. call \in [Callers -> CallState]
  BY DEF Typed, BrokerTypeOK
<1> DEFINE replay == [Idle EXCEPT !.pc = "next", !.todo = LoadAllEvents]
           retries == [Idle EXCEPT !.pc = "next", !.batch = MaxBatch]
<1>1. replay.pc = "next" /\ replay.todo = LoadAllEvents
  BY StartReplayType DEF LoadAllEvents
<1>2. retries.pc = "next" /\ retries.todo = {}
  BY StartRetriesType
<1>3. Idle.pc = "none" /\ Idle.todo = {}
  BY DEF Idle
<1>4. /\ \E x \in {replay, retries, Idle} : call' = [call EXCEPT ![c] = x]
      /\ UNCHANGED <<stored, retryQueue, inFlight, waiting, delivered, calls, semantic>>
  BY DEF StartReplay, StartRetries, RetryEnds, configVars, channelVars
<1> HIDE DEF replay, retries
<1>5. /\ \A d \in Callers : d # c => call'[d] = call[d]
      /\ call'[c] \in {replay, retries, Idle}
  BY <1>0, <1>4
<1> QED
  BY <1>1, <1>2, <1>3, <1>4, <1>5 DEF Publishing

(* The steps that touch no call, no copy and no entry but by removing it. *)
LEMMA AsideFacts ==
  ASSUME Typed,
         \/ \E s \in Subscribers : AskToSubscribe(s) \/ Subscribe(s) \/ Handle(s) \/ Leave(s)
         \/ Cleanup
         \/ \E e \in Events : Expire(e)
         \/ UNCHANGED brokerVars
  PROVE  /\ \A e \in Events : inFlight'[e] \in {inFlight[e], Absent}
         /\ UNCHANGED <<stored, retryQueue, waiting, call, delivered, calls, semantic>>
<1>1. inFlight \in [Events -> Retries \union {Absent}]
  BY DEF Typed, BrokerTypeOK
<1> QED
  BY <1>1 DEF AskToSubscribe, Subscribe, Handle, Leave, Cleanup, Expire, brokerVars, configVars,
              channelVars, consumerVars

(* The cases of a step. *)
LEMMA StepCases ==
  ASSUME [BrokerNext]_brokerVars
  PROVE  \/ \E c \in Callers, e \in Events : Publish(c, e)
         \/ \E c \in Callers, copy \in Copies : ReplayNext(c, copy)
         \/ \E c \in Callers : RetryNext(c)
         \/ \E c \in Callers : StartReplay(c) \/ StartRetries(c) \/ RetryEnds(c)
         \/ \E c \in Callers : Send(c)
         \/ \E c \in Callers : Spawn(c)
         \/ \E e \in Events, r \in Retries : WaitStep(e, r)
         \/ \/ \E s \in Subscribers : AskToSubscribe(s) \/ Subscribe(s) \/ Handle(s) \/ Leave(s)
            \/ Cleanup
            \/ \E e \in Events : Expire(e)
            \/ UNCHANGED brokerVars
BY DEF BrokerNext, CallStep

(* A new copy of e: what a publish for it, of an own copy or of the copy  *)
(* of a replay or of the queue, does to the call.                         *)
LEMMA PublishFacts ==
  ASSUME Typed, NEW c \in Callers, NEW e \in Events, Publish(c, e)
  PROVE  /\ ~Publishing(c)
         /\ \A d \in Callers : d # c => call'[d] = call[d]
         /\ call'[c].todo = {}
         /\ \/ call'[c].pc \in {"none", "next"}
            \/ /\ call'[c].pc = "sending"
               /\ call'[c].copy = [event |-> e, retries |-> 0]
         /\ \A d \in Events : d # e => stored'[d] = stored[d] /\ calls'[d] = calls[d]
         /\ calls'[e] = calls[e] + 1
         /\ UNCHANGED <<inFlight, waiting, delivered, retryQueue, semantic>>
<1>1. [event |-> e, retries |-> 0] \in Copies /\ Idle \in CallState /\ Idle.todo = {}
  BY ConstantFacts, IdleType DEF Copies, Idle
<1>2. Admit(c, [event |-> e, retries |-> 0], Idle) /\ UNCHANGED retryQueue
      /\ call[c].pc = "none" /\ calls' = [calls EXCEPT ![e] = @ + 1]
  BY DEF Publish
<1>3. /\ \A d \in Callers : d # c => call'[d] = call[d]
      /\ call'[c].todo \subseteq {}
      /\ \/ call'[c].pc \in {"none", "next"}
         \/ call'[c].pc = "sending" /\ call'[c].copy = [event |-> e, retries |-> 0]
      /\ \A d \in Events : d # e => stored'[d] = stored[d]
      /\ UNCHANGED <<inFlight, waiting, delivered, semantic>>
  BY <1>1, <1>2, AdmitFacts
<1>4. calls \in [Events -> Nat]
  BY DEF Typed, BrokerTypeOK
<1>5. calls'[e] = calls[e] + 1 /\ \A d \in Events : d # e => calls'[d] = calls[d]
  BY <1>2, <1>4
<1> QED
  BY <1>2, <1>3, <1>5 DEF Publishing

LEMMA ReplayFacts ==
  ASSUME Typed, NEW c \in Callers, NEW copy \in Copies, ReplayNext(c, copy)
  PROVE  /\ ~Publishing(c) /\ copy \in call[c].todo /\ copy.event \in Events
         /\ \A d \in Callers : d # c => call'[d] = call[d]
         /\ call'[c].todo \subseteq call[c].todo
         /\ \/ call'[c].pc \in {"none", "next"}
            \/ call'[c].pc = "sending" /\ call'[c].copy = copy
         /\ \A d \in Events : d # copy.event =>
              stored'[d] = stored[d] /\ calls'[d] = calls[d]
         /\ calls'[copy.event] = calls[copy.event] + 1
         /\ UNCHANGED <<inFlight, waiting, delivered, retryQueue, semantic>>
<1> DEFINE rest == [call[c] EXCEPT !.todo = @ \ {copy}]
<1>1. call[c] \in CallState /\ calls \in [Events -> Nat] /\ copy.event \in Events
  BY DEF Typed, BrokerTypeOK, Copies
<1>2. rest \in CallState /\ rest.todo \subseteq call[c].todo
  BY <1>1 DEF CallState
<1>3. Admit(c, copy, rest) /\ UNCHANGED retryQueue /\ copy \in call[c].todo
      /\ call[c].pc = "next" /\ calls' = [calls EXCEPT ![copy.event] = @ + 1]
  BY DEF ReplayNext
<1> HIDE DEF rest
<1>4. /\ \A d \in Callers : d # c => call'[d] = call[d]
      /\ call'[c].todo \subseteq rest.todo
      /\ \/ call'[c].pc \in {"none", "next"}
         \/ call'[c].pc = "sending" /\ call'[c].copy = copy
      /\ \A d \in Events : d # copy.event => stored'[d] = stored[d]
      /\ UNCHANGED <<inFlight, waiting, delivered, semantic>>
  BY <1>2, <1>3, AdmitFacts
<1>5. calls'[copy.event] = calls[copy.event] + 1
      /\ \A d \in Events : d # copy.event => calls'[d] = calls[d]
  BY <1>1, <1>3
<1> QED
  BY <1>1, <1>2, <1>3, <1>4, <1>5 DEF Publishing

LEMMA RetryFacts ==
  ASSUME Typed, NEW c \in Callers, RetryNext(c)
  PROVE  LET copy == retryQueue[1]
         IN  /\ ~Publishing(c) /\ copy \in Copies /\ copy.event \in Events
             /\ 1 \in DOMAIN retryQueue
             /\ \A i \in DOMAIN retryQueue' :
                  i + 1 \in DOMAIN retryQueue /\ retryQueue'[i] = retryQueue[i + 1]
             /\ \A d \in Callers : d # c => call'[d] = call[d]
             /\ call'[c].todo \subseteq call[c].todo
             /\ \/ call'[c].pc \in {"none", "next"}
                \/ call'[c].pc = "sending" /\ call'[c].copy = copy
             /\ \A d \in Events : d # copy.event => stored'[d] = stored[d]
             /\ UNCHANGED <<inFlight, waiting, delivered, calls, semantic>>
<1> DEFINE rest == [call[c] EXCEPT !.batch = @ - 1]
           copy == retryQueue[1]
<1>1. call[c] \in CallState /\ retryQueue \in Seq(Copies)
  BY DEF Typed, BrokerTypeOK
<1>2. rest \in CallState /\ rest.todo = call[c].todo
  <2>1. call[c].batch - 1 \in 0 .. MaxBatch
    BY <1>1, ConstantFacts DEF RetryNext, CallState
  <2> QED
    BY <1>1, <2>1 DEF CallState
<1>3. /\ Admit(c, Head(retryQueue), rest) /\ UNCHANGED calls /\ call[c].pc = "next"
      /\ retryQueue # << >> /\ retryQueue' = Tail(retryQueue)
  BY DEF RetryNext, Dequeue
<1>4. /\ copy = Head(retryQueue) /\ copy \in Copies /\ 1 \in DOMAIN retryQueue
      /\ \A i \in DOMAIN retryQueue' :
           i + 1 \in DOMAIN retryQueue /\ retryQueue'[i] = retryQueue[i + 1]
  BY <1>1, <1>3
<1>5. copy.event \in Events
  BY <1>4 DEF Copies
<1> HIDE DEF rest, copy
<1>6. /\ \A d \in Callers : d # c => call'[d] = call[d]
      /\ call'[c].todo \subseteq rest.todo
      /\ \/ call'[c].pc \in {"none", "next"}
         \/ call'[c].pc = "sending" /\ call'[c].copy = copy
      /\ \A d \in Events : d # copy.event => stored'[d] = stored[d]
      /\ UNCHANGED <<inFlight, waiting, delivered, semantic>>
  BY <1>2, <1>3, <1>4, AdmitFacts
<1> QED
  BY <1>2, <1>3, <1>4, <1>5, <1>6 DEF Publishing, copy

-----------------------------------------------------------------------------
LEMMA OnlyAfterCallsKept ==
  ASSUME Typed, OnlyAfterCalls, [BrokerNext]_brokerVars
  PROVE  OnlyAfterCalls'
<1>0. /\ calls \in [Events -> Nat] /\ call \in [Callers -> CallState]
      /\ waiting \in [Events -> [Retries -> Nat]] /\ retryQueue \in Seq(Copies)
      /\ \A c \in Callers : call[c].todo \subseteq Copies
      /\ \A x \in Copies : x.event \in Events
  BY DEF Typed, BrokerTypeOK, CallState, Copies
<1>a. \A e \in Events : calls[e] = 0 =>
        stored[e] = Absent /\ inFlight[e] = Absent /\ SentAtMost(e, 0)
  BY DEF OnlyAfterCalls
<1>b. \A c \in Callers, e \in Events : Holds(c, e) => calls[e] > 0
  BY DEF OnlyAfterCalls
<1>c. \A c \in Callers : \A copy \in call[c].todo : calls[copy.event] > 0
  BY DEF OnlyAfterCalls
<1>d. \A i \in DOMAIN retryQueue : calls[retryQueue[i].event] > 0
  BY DEF OnlyAfterCalls
<1>e. \A e \in Events, r \in Retries : waiting[e][r] > 0 => calls[e] > 0
  BY DEF OnlyAfterCalls
<1>B. ASSUME \A e \in Events : calls'[e] = 0 =>
               stored'[e] = Absent /\ inFlight'[e] = Absent /\ SentAtMost(e, 0)',
             \A c \in Callers, e \in Events : Holds(c, e)' => calls'[e] > 0,
             \A c \in Callers : \A copy \in call'[c].todo : calls'[copy.event] > 0,
             \A i \in DOMAIN retryQueue' : calls'[retryQueue'[i].event] > 0,
             \A e \in Events, r \in Retries : waiting'[e][r] > 0 => calls'[e] > 0
      PROVE  OnlyAfterCalls'
  BY <1>B DEF OnlyAfterCalls
<1>1. ASSUME NEW c \in Callers, NEW x \in Events, Publish(c, x) PROVE OnlyAfterCalls'
  <2>0. /\ \A d \in Callers : d # c => call'[d] = call[d]
        /\ call'[c].todo = {}
        /\ \/ call'[c].pc \in {"none", "next"}
           \/ call'[c].copy = [event |-> x, retries |-> 0]
        /\ \A d \in Events : d # x => stored'[d] = stored[d] /\ calls'[d] = calls[d]
        /\ calls'[x] = calls[x] + 1
        /\ UNCHANGED <<inFlight, waiting, delivered, retryQueue>>
    BY <1>1, PublishFacts
  <2>6. /\ x \in Events
        /\ \A y \in Events : calls[y] > 0 => calls'[y] > 0
        /\ calls'[x] > 0
    BY <1>0, <2>0
  <2>1. ASSUME NEW y \in Events, calls'[y] = 0
        PROVE  stored'[y] = Absent /\ inFlight'[y] = Absent /\ SentAtMost(y, 0)'
    BY <1>a, <2>0, <2>1, <2>6 DEF SentAtMost
  <2>2. ASSUME NEW d \in Callers, NEW y \in Events, Holds(d, y)' PROVE calls'[y] > 0
    BY <1>b, <2>0, <2>2, <2>6 DEF Holds, Publishing
  <2>3. ASSUME NEW d \in Callers, NEW z \in call'[d].todo PROVE calls'[z.event] > 0
    BY <1>0, <1>c, <2>0, <2>3, <2>6
  <2>4. ASSUME NEW i \in DOMAIN retryQueue' PROVE calls'[retryQueue'[i].event] > 0
    BY <1>0, <1>d, <2>0, <2>4, <2>6
  <2>5. ASSUME NEW y \in Events, NEW q \in Retries, waiting'[y][q] > 0 PROVE calls'[y] > 0
    BY <1>e, <2>0, <2>5, <2>6
  <2> QED
    BY <1>B, <2>1, <2>2, <2>3, <2>4, <2>5
<1>2. ASSUME NEW c \in Callers, NEW copy \in Copies, ReplayNext(c, copy)
      PROVE  OnlyAfterCalls'
  <2>0. /\ \A d \in Callers : d # c => call'[d] = call[d]
        /\ call'[c].todo \subseteq call[c].todo
        /\ \/ call'[c].pc \in {"none", "next"}
           \/ call'[c].copy = copy
        /\ \A d \in Events : d # copy.event =>
             stored'[d] = stored[d] /\ calls'[d] = calls[d]
        /\ calls'[copy.event] = calls[copy.event] + 1
        /\ UNCHANGED <<inFlight, waiting, delivered, retryQueue>>
    BY <1>2, ReplayFacts
  <2>6. /\ copy.event \in Events
        /\ \A y \in Events : calls[y] > 0 => calls'[y] > 0
        /\ calls'[copy.event] > 0
    BY <1>0, <2>0
  <2>1. ASSUME NEW y \in Events, calls'[y] = 0
        PROVE  stored'[y] = Absent /\ inFlight'[y] = Absent /\ SentAtMost(y, 0)'
    BY <1>a, <2>0, <2>1, <2>6 DEF SentAtMost
  <2>2. ASSUME NEW d \in Callers, NEW y \in Events, Holds(d, y)' PROVE calls'[y] > 0
    BY <1>b, <2>0, <2>2, <2>6 DEF Holds, Publishing
  <2>3. ASSUME NEW d \in Callers, NEW z \in call'[d].todo PROVE calls'[z.event] > 0
    BY <1>0, <1>c, <2>0, <2>3, <2>6
  <2>4. ASSUME NEW i \in DOMAIN retryQueue' PROVE calls'[retryQueue'[i].event] > 0
    BY <1>0, <1>d, <2>0, <2>4, <2>6
  <2>5. ASSUME NEW y \in Events, NEW q \in Retries, waiting'[y][q] > 0 PROVE calls'[y] > 0
    BY <1>e, <2>0, <2>5, <2>6
  <2> QED
    BY <1>B, <2>1, <2>2, <2>3, <2>4, <2>5
<1>3. ASSUME NEW c \in Callers, RetryNext(c) PROVE OnlyAfterCalls'
  <2> DEFINE copy == retryQueue[1]
  <2>0. /\ copy.event \in Events /\ 1 \in DOMAIN retryQueue
        /\ \A i \in DOMAIN retryQueue' :
             i + 1 \in DOMAIN retryQueue /\ retryQueue'[i] = retryQueue[i + 1]
        /\ \A d \in Callers : d # c => call'[d] = call[d]
        /\ call'[c].todo \subseteq call[c].todo
        /\ \/ call'[c].pc \in {"none", "next"}
           \/ call'[c].copy = copy
        /\ \A d \in Events : d # copy.event => stored'[d] = stored[d]
        /\ UNCHANGED <<inFlight, waiting, delivered, calls>>
    BY <1>3, RetryFacts
  <2>6. calls[copy.event] > 0
    BY <1>d, <2>0
  <2>1. ASSUME NEW y \in Events, calls'[y] = 0
        PROVE  stored'[y] = Absent /\ inFlight'[y] = Absent /\ SentAtMost(y, 0)'
    <3>1. calls[y] = 0 /\ y # copy.event
      BY <2>0, <2>1, <2>6
    <3>2. stored'[y] = stored[y] /\ inFlight'[y] = inFlight[y] /\ delivered'[y] = delivered[y]
      BY <2>0, <3>1
    <3> QED
      BY <1>a, <3>1, <3>2 DEF SentAtMost
  <2>2. ASSUME NEW d \in Callers, NEW y \in Events, Holds(d, y)' PROVE calls'[y] > 0
    BY <1>0, <1>b, <1>c, <1>d, <2>0, <2>2 DEF Holds, Publishing
  <2>3. ASSUME NEW d \in Callers, NEW z \in call'[d].todo PROVE calls'[z.event] > 0
    BY <1>0, <1>c, <2>0, <2>3
  <2>4. ASSUME NEW i \in DOMAIN retryQueue' PROVE calls'[retryQueue'[i].event] > 0
    BY <1>0, <1>d, <2>0, <2>4
  <2>5. ASSUME NEW y \in Events, NEW q \in Retries, waiting'[y][q] > 0 PROVE calls'[y] > 0
    BY <1>0, <1>e, <2>0, <2>5
  <2> QED
    BY <1>B, <2>1, <2>2, <2>3, <2>4, <2>5
<1>4. ASSUME NEW c \in Callers, StartReplay(c) \/ StartRetries(c) \/ RetryEnds(c)
      PROVE  OnlyAfterCalls'
  <2>0. /\ \A d \in Callers : d # c => call'[d] = call[d]
        /\ ~Publishing(c)'
        /\ call'[c].todo \subseteq LoadAllEvents
        /\ UNCHANGED <<stored, retryQueue, inFlight, waiting, delivered, calls>>
    BY <1>4, QuietFacts
  <2>t. ASSUME NEW copy \in LoadAllEvents PROVE calls[copy.event] > 0
    <3>1. copy.event \in Events /\ copy.retries \in Retries /\ stored[copy.event] = copy.retries
      BY DEF LoadAllEvents, Copies
    <3> QED
      BY <1>0, <1>a, <3>1, ConstantFacts
  <2>1. ASSUME NEW y \in Events, calls'[y] = 0
        PROVE  stored'[y] = Absent /\ inFlight'[y] = Absent /\ SentAtMost(y, 0)'
    BY <1>0, <1>a, <1>b, <2>0, <2>1 DEF SentAtMost, Holds, Publishing
  <2>2. ASSUME NEW d \in Callers, NEW y \in Events, Holds(d, y)' PROVE calls'[y] > 0
    BY <1>0, <1>b, <1>c, <1>d, <2>0, <2>2 DEF Holds, Publishing
  <2>3. ASSUME NEW d \in Callers, NEW z \in call'[d].todo PROVE calls'[z.event] > 0
    BY <1>0, <1>c, <2>0, <2>3, <2>t
  <2>4. ASSUME NEW i \in DOMAIN retryQueue' PROVE calls'[retryQueue'[i].event] > 0
    BY <1>0, <1>d, <2>0, <2>4
  <2>5. ASSUME NEW y \in Events, NEW q \in Retries, waiting'[y][q] > 0 PROVE calls'[y] > 0
    BY <1>0, <1>e, <2>0, <2>5
  <2> QED
    BY <1>B, <2>1, <2>2, <2>3, <2>4, <2>5
<1>5. ASSUME NEW c \in Callers, Send(c) PROVE OnlyAfterCalls'
  <2> DEFINE x == call[c].copy.event
  <2>0. /\ x \in Events /\ call[c].pc = "sending"
        /\ \A d \in Callers : d # c => call'[d] = call[d]
        /\ call'[c].todo \subseteq call[c].todo
        /\ call'[c].pc \in {"none", "next"} \/ call'[c].copy = call[c].copy
        /\ \A d \in Events : d # x => inFlight'[d] = inFlight[d] /\ delivered'[d] = delivered[d]
        /\ UNCHANGED <<stored, retryQueue, waiting, calls>>
    BY <1>5, SendFacts
  <2>6. calls[x] > 0
    BY <1>b, <2>0 DEF Holds, Publishing
  <2>1. ASSUME NEW y \in Events, calls'[y] = 0
        PROVE  stored'[y] = Absent /\ inFlight'[y] = Absent /\ SentAtMost(y, 0)'
    <3>1. calls[y] = 0 /\ y # x
      BY <2>0, <2>1, <2>6
    <3>2. stored'[y] = stored[y] /\ inFlight'[y] = inFlight[y] /\ delivered'[y] = delivered[y]
      BY <2>0, <3>1
    <3> QED
      BY <1>a, <3>1, <3>2 DEF SentAtMost
  <2>2. ASSUME NEW d \in Callers, NEW y \in Events, Holds(d, y)' PROVE calls'[y] > 0
    BY <1>0, <1>b, <1>c, <1>d, <2>0, <2>2 DEF Holds, Publishing
  <2>3. ASSUME NEW d \in Callers, NEW z \in call'[d].todo PROVE calls'[z.event] > 0
    BY <1>0, <1>c, <2>0, <2>3
  <2>4. ASSUME NEW i \in DOMAIN retryQueue' PROVE calls'[retryQueue'[i].event] > 0
    BY <1>0, <1>d, <2>0, <2>4
  <2>5. ASSUME NEW y \in Events, NEW q \in Retries, waiting'[y][q] > 0 PROVE calls'[y] > 0
    BY <1>0, <1>e, <2>0, <2>5
  <2> QED
    BY <1>B, <2>1, <2>2, <2>3, <2>4, <2>5
<1>6. ASSUME NEW c \in Callers, Spawn(c) PROVE OnlyAfterCalls'
  <2> DEFINE x == call[c].copy.event
  <2>0. /\ x \in Events /\ call[c].pc = "spawning"
        /\ \A d \in Callers : d # c => call'[d] = call[d]
        /\ call'[c].todo \subseteq call[c].todo
        /\ call'[c].pc \in {"none", "next"}
        /\ \A d \in Events, q \in Retries : d # x => waiting'[d][q] = waiting[d][q]
        /\ UNCHANGED <<stored, retryQueue, inFlight, delivered, calls>>
    BY <1>6, SpawnFacts
  <2>1. ASSUME NEW y \in Events, calls'[y] = 0
        PROVE  stored'[y] = Absent /\ inFlight'[y] = Absent /\ SentAtMost(y, 0)'
    BY <1>0, <1>a, <1>b, <2>0, <2>1 DEF SentAtMost, Holds, Publishing
  <2>2. ASSUME NEW d \in Callers, NEW y \in Events, Holds(d, y)' PROVE calls'[y] > 0
    BY <1>0, <1>b, <1>c, <1>d, <2>0, <2>2 DEF Holds, Publishing
  <2>3. ASSUME NEW d \in Callers, NEW z \in call'[d].todo PROVE calls'[z.event] > 0
    BY <1>0, <1>c, <2>0, <2>3
  <2>4. ASSUME NEW i \in DOMAIN retryQueue' PROVE calls'[retryQueue'[i].event] > 0
    BY <1>0, <1>d, <2>0, <2>4
  <2>5. ASSUME NEW y \in Events, NEW q \in Retries, waiting'[y][q] > 0 PROVE calls'[y] > 0
    BY <1>0, <1>b, <1>e, <2>0, <2>5 DEF Holds, Publishing
  <2> QED
    BY <1>B, <2>1, <2>2, <2>3, <2>4, <2>5
<1>7. ASSUME NEW x \in Events, NEW r \in Retries, WaitStep(x, r) PROVE OnlyAfterCalls'
  <2>0. /\ waiting[x][r] > 0
        /\ \A d \in Events, q \in Retries : waiting'[d][q] > 0 => waiting[d][q] > 0
        /\ \/ retryQueue' = retryQueue
           \/ retryQueue' = Append(retryQueue, [event |-> x, retries |-> r + 1])
        /\ UNCHANGED <<stored, call, inFlight, delivered, calls>>
    BY <1>7, WaitFacts
  <2>1. ASSUME NEW y \in Events, calls'[y] = 0
        PROVE  stored'[y] = Absent /\ inFlight'[y] = Absent /\ SentAtMost(y, 0)'
    BY <1>0, <1>a, <1>b, <2>0, <2>1 DEF SentAtMost, Holds, Publishing
  <2>2. ASSUME NEW d \in Callers, NEW y \in Events, Holds(d, y)' PROVE calls'[y] > 0
    BY <1>0, <1>b, <1>c, <1>d, <2>0, <2>2 DEF Holds, Publishing
  <2>3. ASSUME NEW d \in Callers, NEW z \in call'[d].todo PROVE calls'[z.event] > 0
    BY <1>0, <1>c, <2>0, <2>3
  <2>4. ASSUME NEW i \in DOMAIN retryQueue' PROVE calls'[retryQueue'[i].event] > 0
    <3>1. CASE retryQueue' = retryQueue
      BY <1>d, <2>0, <2>4, <3>1
    <3>2. CASE retryQueue' = Append(retryQueue, [event |-> x, retries |-> r + 1])
      <4> DEFINE last == [event |-> x, retries |-> r + 1]
      <4>1. \/ retryQueue'[i] = last
            \/ i \in DOMAIN retryQueue /\ retryQueue'[i] = retryQueue[i]
        <5>1. i \in 1 .. Len(retryQueue) + 1
          BY <1>0, <2>4, <3>2
        <5> HIDE DEF last
        <5> QED
          BY <1>0, <3>2, <5>1 DEF last
      <4>2. calls[x] > 0
        BY <1>e, <2>0
      <4> QED
        BY <1>d, <2>0, <4>1, <4>2
    <3> QED
      BY <2>0, <3>1, <3>2
  <2>5. ASSUME NEW y \in Events, NEW q \in Retries, waiting'[y][q] > 0 PROVE calls'[y] > 0
    BY <1>0, <1>e, <2>0, <2>5
  <2> QED
    BY <1>B, <2>1, <2>2, <2>3, <2>4, <2>5
<1>8. ASSUME \/ \E s \in Subscribers : AskToSubscribe(s) \/ Subscribe(s) \/ Handle(s) \/ Leave(s)
             \/ Cleanup
             \/ \E e \in Events : Expire(e)
             \/ UNCHANGED brokerVars
      PROVE  OnlyAfterCalls'
  BY <1>0, <1>8, AsideFacts DEF OnlyAfterCalls, SentAtMost, Holds, Publishing
<1> QED
  BY <1>1, <1>2, <1>3, <1>4, <1>5, <1>6, <1>7, <1>8, StepCases

-----------------------------------------------------------------------------
(* A step that leaves the copies of e where they are, but for those before *)
(* them in the queue.                                                      *)
LEMMA CopyLeft ==
  ASSUME NEW e \in Events, NEW k \in Nat, OneCopy(e), RetriesTell(e),
         retryQueue' \in Seq(Copies),
         \A c \in Callers : Holds(c, e)' =>
           Holds(c, e) /\ call'[c].pc = call[c].pc /\ call'[c].copy = call[c].copy,
         \A i \in DOMAIN retryQueue' : retryQueue'[i].event = e =>
           i + k \in DOMAIN retryQueue /\ retryQueue'[i] = retryQueue[i + k],
         \A r \in Retries : waiting'[e][r] = waiting[e][r],
         delivered'[e] = delivered[e],
         inFlight'[e] \in {inFlight[e], Absent}
  PROVE  OneCopy(e)' /\ RetriesTell(e)'
<1>1. \A i, j \in DOMAIN retryQueue' :
        retryQueue'[i].event = e /\ retryQueue'[j].event = e => i = j
  <2> SUFFICES ASSUME NEW i \in DOMAIN retryQueue', NEW j \in DOMAIN retryQueue',
                      retryQueue'[i].event = e, retryQueue'[j].event = e
               PROVE  i = j
    OBVIOUS
  <2>1. i \in Nat /\ j \in Nat
    OBVIOUS
  <2>2. /\ i + k \in DOMAIN retryQueue /\ retryQueue[i + k].event = e
        /\ j + k \in DOMAIN retryQueue /\ retryQueue[j + k].event = e
    OBVIOUS
  <2>3. i + k = j + k
    BY <2>2 DEF OneCopy
  <2> QED
    BY <2>1, <2>3
<1>2. OneCopy(e)'
  BY <1>1 DEF OneCopy
<1>3. \A n : SentAtMost(e, n) => SentAtMost(e, n)'
  BY DEF SentAtMost
<1>4. \A c \in Callers : Holds(c, e)' =>
        IF call'[c].pc = "sending" THEN SentAtMost(e, call[c].copy.retries)'
        ELSE /\ SentAtMost(e, 1 + call[c].copy.retries)'
             /\ inFlight'[e] \in {call[c].copy.retries, Absent}
  BY <1>3 DEF RetriesTell
<1> QED
  BY <1>2, <1>3, <1>4 DEF RetriesTell

(* The one copy is with call c, if it is anywhere. *)
LEMMA CopyInCall ==
  ASSUME NEW e \in Events, NEW c \in Callers,
         \A d \in Callers : Holds(d, e)' => d = c,
         \A i \in DOMAIN retryQueue' : retryQueue'[i].event # e,
         \A r \in Retries : waiting'[e][r] = 0,
         SentAtMost(e, 1 + MaxRetries)',
         Holds(c, e)' =>
           IF call'[c].pc = "sending" THEN SentAtMost(e, call[c].copy.retries)'
           ELSE /\ SentAtMost(e, 1 + call[c].copy.retries)'
                /\ inFlight'[e] \in {call'[c].copy.retries, Absent}
  PROVE  OneCopy(e)' /\ RetriesTell(e)'
<1>1. OneCopy(e)'
  BY DEF OneCopy
<1>2. RetriesTell(e)'
  BY DEF RetriesTell
<1> QED
  BY <1>1, <1>2

(* A task waits with it. *)
LEMMA CopyAwaited ==
  ASSUME NEW e \in Events, NEW k,
         \A d \in Callers : ~Holds(d, e)',
         \A i \in DOMAIN retryQueue' : retryQueue'[i].event # e,
         \A r \in Retries : waiting'[e][r] \in {0, 1},
         \A r \in Retries : waiting'[e][r] > 0 => r = k /\ SentAtMost(e, 1 + r)',
         SentAtMost(e, 1 + MaxRetries)'
  PROVE  OneCopy(e)' /\ RetriesTell(e)'
<1>1. OneCopy(e)'
  BY DEF OneCopy
<1>2. RetriesTell(e)'
  BY DEF RetriesTell
<1> QED
  BY <1>1, <1>2

-----------------------------------------------------------------------------
LEMMA OneCopyKept ==
  ASSUME BrokerInv, [BrokerNext]_brokerVars, NEW e \in Events, calls'[e] <= 1
  PROVE  OneCopy(e)' /\ RetriesTell(e)'
<1>0. /\ Typed /\ Typed' /\ OnlyAfterCalls
      /\ calls \in [Events -> Nat] /\ call \in [Callers -> CallState]
      /\ waiting \in [Events -> [Retries -> Nat]] /\ retryQueue \in Seq(Copies)
      /\ retryQueue' \in Seq(Copies) /\ delivered \in [Events -> [Subscribers -> Nat]]
      /\ MaxRetries \in Nat /\ Retries = 0 .. MaxRetries
  BY TypedKept, ConstantFacts DEF BrokerInv, Typed, BrokerTypeOK, Retries
<1>1. ASSUME calls[e] <= 1 PROVE OneCopy(e) /\ RetriesTell(e)
  BY <1>1 DEF BrokerInv
(* Nothing of an event that was not published. *)
<1>2. ASSUME calls[e] = 0
      PROVE  /\ \A c \in Callers : ~Holds(c, e)
             /\ \A i \in DOMAIN retryQueue : retryQueue[i].event # e
             /\ \A r \in Retries : waiting[e][r] = 0
             /\ \A s \in Subscribers : delivered[e][s] = 0
  <2>1. \A r \in Retries : ~(waiting[e][r] > 0)
    BY <1>2, <1>0 DEF OnlyAfterCalls
  <2>2. SentAtMost(e, 0)
    BY <1>2, <1>0 DEF OnlyAfterCalls
  <2>3. \A i \in DOMAIN retryQueue : retryQueue[i].event # e
    BY <1>2, <1>0 DEF OnlyAfterCalls
  <2>4. \A c \in Callers : ~Holds(c, e)
    BY <1>2, <1>0 DEF OnlyAfterCalls
  <2> QED
    BY <1>0, <2>1, <2>2, <2>3, <2>4 DEF SentAtMost
<1>3. ASSUME NEW c \in Callers, NEW x \in Events, Publish(c, x)
      PROVE  OneCopy(e)' /\ RetriesTell(e)'
  <2>0. /\ ~Publishing(c)
        /\ \A d \in Callers : d # c => call'[d] = call[d]
        /\ \/ call'[c].pc \in {"none", "next"}
           \/ /\ call'[c].pc = "sending"
              /\ call'[c].copy = [event |-> x, retries |-> 0]
        /\ \A d \in Events : d # x => calls'[d] = calls[d]
        /\ calls'[x] = calls[x] + 1
        /\ UNCHANGED <<inFlight, waiting, delivered, retryQueue>>
    BY <1>0, <1>3, PublishFacts
  <2>1. CASE x = e
    <3>1. calls[e] = 0
      BY <1>0, <2>0, <2>1
    <3>2. \A d \in Callers : Holds(d, e)' => d = c
      BY <1>2, <2>0, <3>1 DEF Holds, Publishing
    <3>3. \A n \in Nat : SentAtMost(e, n)'
      BY <1>2, <2>0, <3>1 DEF SentAtMost
    <3>4. Holds(c, e)' => call'[c].pc = "sending" /\ call'[c].copy.retries = 0
      BY <2>0 DEF Holds, Publishing
    <3>5. Holds(c, e)' =>
            IF call'[c].pc = "sending" THEN SentAtMost(e, call[c].copy.retries)'
            ELSE /\ SentAtMost(e, 1 + call[c].copy.retries)'
                 /\ inFlight'[e] \in {call'[c].copy.retries, Absent}
      BY <3>3, <3>4
    <3>6. /\ \A i \in DOMAIN retryQueue' : retryQueue'[i].event # e
          /\ \A r \in Retries : waiting'[e][r] = 0
          /\ SentAtMost(e, 1 + MaxRetries)'
      BY <1>0, <1>2, <2>0, <3>1, <3>3
    <3> QED
      BY <3>2, <3>5, <3>6, CopyInCall
  <2>2. CASE x # e
    <3>1. calls[e] <= 1
      BY <2>0, <2>2
    <3>2. \A d \in Callers : Holds(d, e)' =>
            Holds(d, e) /\ call'[d].pc = call[d].pc /\ call'[d].copy = call[d].copy
      BY <2>0, <2>2 DEF Holds, Publishing
    <3>3. \A i \in DOMAIN retryQueue' : retryQueue'[i].event = e =>
            i + 0 \in DOMAIN retryQueue /\ retryQueue'[i] = retryQueue[i + 0]
      BY <1>0, <2>0
    <3> QED
      BY <1>0, <1>1, <2>0, <3>1, <3>2, <3>3, CopyLeft
  <2> QED
    BY <2>1, <2>2
<1>4. ASSUME NEW c \in Callers, NEW copy \in Copies, ReplayNext(c, copy)
      PROVE  OneCopy(e)' /\ RetriesTell(e)'
  <2>0. /\ copy \in call[c].todo /\ copy.event \in Events
        /\ \A d \in Callers : d # c => call'[d] = call[d]
        /\ \/ call'[c].pc \in {"none", "next"}
           \/ call'[c].pc = "sending" /\ call'[c].copy = copy
        /\ \A d \in Events : d # copy.event => calls'[d] = calls[d]
        /\ calls'[copy.event] = calls[copy.event] + 1
        /\ UNCHANGED <<inFlight, waiting, delivered, retryQueue>>
    BY <1>0, <1>4, ReplayFacts
  <2>1. calls[copy.event] > 0
    BY <1>0, <2>0 DEF OnlyAfterCalls
  <2>2. copy.event # e
    BY <1>0, <2>0, <2>1
  <2>3. calls[e] <= 1
    BY <2>0, <2>2
  <2>4. \A d \in Callers : Holds(d, e)' =>
          Holds(d, e) /\ call'[d].pc = call[d].pc /\ call'[d].copy = call[d].copy
    BY <2>0, <2>2 DEF Holds, Publishing
  <2>5. \A i \in DOMAIN retryQueue' : retryQueue'[i].event = e =>
          i + 0 \in DOMAIN retryQueue /\ retryQueue'[i] = retryQueue[i + 0]
    BY <1>0, <2>0
  <2> QED
    BY <1>0, <1>1, <2>0, <2>3, <2>4, <2>5, CopyLeft
<1>5. ASSUME NEW c \in Callers, RetryNext(c)
      PROVE  OneCopy(e)' /\ RetriesTell(e)'
  <2> DEFINE copy == retryQueue[1]
  <2>0. /\ ~Publishing(c) /\ copy \in Copies /\ 1 \in DOMAIN retryQueue
        /\ \A i \in DOMAIN retryQueue' :
             i + 1 \in DOMAIN retryQueue /\ retryQueue'[i] = retryQueue[i + 1]
        /\ \A d \in Callers : d # c => call'[d] = call[d]
        /\ \/ call'[c].pc \in {"none", "next"}
           \/ call'[c].pc = "sending" /\ call'[c].copy = copy
        /\ UNCHANGED <<inFlight, waiting, delivered, calls>>
    BY <1>0, <1>5, RetryFacts
  <2>1. OneCopy(e) /\ RetriesTell(e)
    BY <1>1, <2>0
  <2> HIDE DEF copy
  <2>2. CASE copy.event = e
    <3>1. \A d \in Callers : ~Holds(d, e)
      BY <2>0, <2>1, <2>2 DEF OneCopy, copy
    <3>2. \A d \in Callers : Holds(d, e)' => d = c
      BY <2>0, <3>1 DEF Holds, Publishing
    <3>3. \A i \in DOMAIN retryQueue' : retryQueue'[i].event # e
      <4> SUFFICES ASSUME NEW i \in DOMAIN retryQueue', retryQueue'[i].event = e PROVE FALSE
        OBVIOUS
      <4>1. i \in Nat /\ i >= 1
        BY <1>0
      <4>2. i + 1 \in DOMAIN retryQueue /\ retryQueue[i + 1].event = e
        BY <2>0
      <4>3. i + 1 = 1
        BY <2>0, <2>1, <2>2, <4>2 DEF OneCopy, copy
      <4> QED
        BY <4>1, <4>3
    <3>4. \A r \in Retries : waiting'[e][r] = 0
      <4>1. \A r \in Retries : ~(waiting[e][r] > 0)
        BY <2>0, <2>1, <2>2 DEF OneCopy, copy
      <4>2. \A r \in Retries : waiting[e][r] \in Nat
        BY <1>0
      <4> QED
        BY <2>0, <4>1, <4>2
    <3> PICK n \in Retries : n = copy.retries
      BY <2>0 DEF Copies
    <3>5. SentAtMost(e, n) /\ SentAtMost(e, 1 + MaxRetries)
      BY <2>0, <2>1, <2>2 DEF RetriesTell, copy
    <3>6. SentAtMost(e, n)' /\ SentAtMost(e, 1 + MaxRetries)'
      BY <2>0, <3>5 DEF SentAtMost
    <3>7. Holds(c, e)' =>
            IF call'[c].pc = "sending" THEN SentAtMost(e, call[c].copy.retries)'
            ELSE /\ SentAtMost(e, 1 + call[c].copy.retries)'
                 /\ inFlight'[e] \in {call'[c].copy.retries, Absent}
      <4>1. Holds(c, e)' => call'[c].pc = "sending" /\ call'[c].copy.retries = n
        BY <2>0 DEF Holds, Publishing
      <4> QED
        BY <3>6, <4>1
    <3> QED
      BY <3>2, <3>3, <3>4, <3>6, <3>7, CopyInCall
  <2>3. CASE copy.event # e
    <3>1. \A d \in Callers : Holds(d, e)' =>
            Holds(d, e) /\ call'[d].pc = call[d].pc /\ call'[d].copy = call[d].copy
      BY <2>0, <2>3 DEF Holds, Publishing
    <3> QED
      BY <1>0, <2>0, <2>1, <3>1, CopyLeft
  <2> QED
    BY <2>2, <2>3
<1>6. ASSUME NEW c \in Callers, StartReplay(c) \/ StartRetries(c) \/ RetryEnds(c)
      PROVE  OneCopy(e)' /\ RetriesTell(e)'
  <2>0. /\ \A d \in Callers : d # c => call'[d] = call[d]
        /\ ~Publishing(c)'
        /\ UNCHANGED <<retryQueue, inFlight, waiting, delivered, calls>>
    BY <1>0, <1>6, QuietFacts
  <2>1. \A d \in Callers : Holds(d, e)' =>
          Holds(d, e) /\ call'[d].pc = call[d].pc /\ call'[d].copy = call[d].copy
    BY <2>0 DEF Holds, Publishing
  <2>2. \A i \in DOMAIN retryQueue' : retryQueue'[i].event = e =>
          i + 0 \in DOMAIN retryQueue /\ retryQueue'[i] = retryQueue[i + 0]
    BY <1>0, <2>0
  <2> QED
    BY <1>0, <1>1, <2>0, <2>1, <2>2, CopyLeft
<1>7. ASSUME NEW c \in Callers, Send(c)
      PROVE  OneCopy(e)' /\ RetriesTell(e)'
  <2> DEFINE x == call[c].copy.event
  <2> PICK n \in Retries : n = call[c].copy.retries
    BY <1>7, SendFacts, <1>0
  <2>0. /\ x \in Events /\ call[c].pc = "sending"
        /\ \A d \in Callers : d # c => call'[d] = call[d]
        /\ \/ call'[c].pc \in {"none", "next"}
           \/ /\ call'[c].pc = "spawning" /\ call'[c].copy = call[c].copy
              /\ inFlight'[x] = n
        /\ \A d \in Events : d # x => inFlight'[d] = inFlight[d] /\ delivered'[d] = delivered[d]
        /\ \A s \in Subscribers : delivered'[x][s] \in {delivered[x][s], delivered[x][s] + 1}
        /\ UNCHANGED <<retryQueue, waiting, calls>>
    BY <1>0, <1>7, SendFacts
  <2>1. OneCopy(e) /\ RetriesTell(e)
    BY <1>1, <2>0
  <2>2. Holds(c, x)
    BY <2>0 DEF Holds, Publishing
  <2> HIDE DEF x
  <2>3. CASE x = e
    <3>1. /\ \A d \in Callers : Holds(d, e) => d = c
          /\ \A i \in DOMAIN retryQueue : retryQueue[i].event # e
          /\ \A r \in Retries : ~(waiting[e][r] > 0)
      BY <2>1, <2>2, <2>3 DEF OneCopy
    <3>2. \A d \in Callers : Holds(d, e)' => d = c
      BY <2>0, <3>1 DEF Holds, Publishing
    <3>3. \A i \in DOMAIN retryQueue' : retryQueue'[i].event # e
      BY <2>0, <3>1
    <3>4. \A r \in Retries : waiting'[e][r] = 0
      <4>1. \A r \in Retries : waiting[e][r] \in Nat
        BY <1>0
      <4> QED
        BY <2>0, <3>1, <4>1
    <3>5. SentAtMost(e, n)
      BY <2>0, <2>1, <2>2, <2>3 DEF RetriesTell
    <3>6. SentAtMost(e, 1 + n)'
      <4> SUFFICES ASSUME NEW s \in Subscribers PROVE delivered'[e][s] <= 1 + n
        BY DEF SentAtMost
      <4>1. delivered[e][s] \in Nat /\ delivered[e][s] <= n
        BY <1>0, <3>5 DEF SentAtMost
      <4>2. delivered'[e][s] \in {delivered[e][s], delivered[e][s] + 1}
        BY <2>0, <2>3
      <4>3. n \in Nat
        BY <1>0
      <4> QED
        BY <4>1, <4>2, <4>3
    <3>7. SentAtMost(e, 1 + MaxRetries)'
      <4>1. 1 + n \in Nat /\ 1 + MaxRetries \in Nat /\ 1 + n <= 1 + MaxRetries
        BY <1>0
      <4>2. \A s \in Subscribers : delivered'[e][s] \in Nat
        BY <1>0 DEF Typed, BrokerTypeOK
      <4> QED
        BY <3>6, <4>1, <4>2 DEF SentAtMost
    <3>8. Holds(c, e)' =>
            IF call'[c].pc = "sending" THEN SentAtMost(e, call[c].copy.retries)'
            ELSE /\ SentAtMost(e, 1 + call[c].copy.retries)'
                 /\ inFlight'[e] \in {call'[c].copy.retries, Absent}
      <4>1. Holds(c, e)' => /\ call'[c].pc = "spawning" /\ call'[c].copy.retries = n
                            /\ inFlight'[e] = n
        BY <2>0, <2>3 DEF Holds, Publishing
      <4> QED
        BY <3>6, <4>1
    <3> QED
      BY <3>2, <3>3, <3>4, <3>7, <3>8, CopyInCall
  <2>4. CASE x # e
    <3>1. \A d \in Callers : Holds(d, e)' =>
            Holds(d, e) /\ call'[d].pc = call[d].pc /\ call'[d].copy = call[d].copy
      BY <2>0, <2>4 DEF Holds, Publishing, x
    <3>2. \A i \in DOMAIN retryQueue' : retryQueue'[i].event = e =>
            i + 0 \in DOMAIN retryQueue /\ retryQueue'[i] = retryQueue[i + 0]
      BY <1>0, <2>0
    <3> QED
      BY <1>0, <2>0, <2>1, <2>4, <3>1, <3>2, CopyLeft
  <2> QED
    BY <2>3, <2>4
<1>8. ASSUME NEW c \in Callers, Spawn(c)
      PROVE  OneCopy(e)' /\ RetriesTell(e)'
  <2> DEFINE x == call[c].copy.event
  <2>0. /\ x \in Events /\ call[c].pc = "spawning"
        /\ \A d \in Callers : d # c => call'[d] = call[d]
        /\ call'[c].pc \in {"none", "next"}
        /\ \A d \in Events, q \in Retries :
             waiting'[d][q] = IF d = x /\ q = inFlight[x] THEN waiting[d][q] + 1
                                                          ELSE waiting[d][q]
        /\ UNCHANGED <<retryQueue, inFlight, delivered, calls>>
    BY <1>0, <1>8, SpawnFacts
  <2>1. OneCopy(e) /\ RetriesTell(e)
    BY <1>1, <2>0
  <2>2. Holds(c, x)
    BY <2>0 DEF Holds, Publishing
  <2> HIDE DEF x
  <2>3. CASE x = e
    <3>1. /\ \A d \in Callers : Holds(d, e) => d = c
          /\ \A i \in DOMAIN retryQueue : retryQueue[i].event # e
          /\ \A r \in Retries : ~(waiting[e][r] > 0)
      BY <2>1, <2>2, <2>3 DEF OneCopy
    <3>2. \A d \in Callers : ~Holds(d, e)'
      BY <2>0, <3>1 DEF Holds, Publishing
    <3>3. \A i \in DOMAIN retryQueue' : retryQueue'[i].event # e
      BY <2>0, <3>1
    <3>4. \A r \in Retries : waiting[e][r] = 0
      <4>1. \A r \in Retries : waiting[e][r] \in Nat
        BY <1>0
      <4> QED
        BY <3>1, <4>1
    <3>5. \A r \in Retries : waiting'[e][r] \in {0, 1} /\ (waiting'[e][r] > 0 => r = inFlight[e])
      BY <2>0, <2>3, <3>4
    <3>6. /\ SentAtMost(e, 1 + call[c].copy.retries)
          /\ inFlight[e] \in {call[c].copy.retries, Absent}
          /\ SentAtMost(e, 1 + MaxRetries)
      BY <2>0, <2>1, <2>2, <2>3 DEF RetriesTell
    <3>7. \A r \in Retries : waiting'[e][r] > 0 => r = inFlight[e] /\ SentAtMost(e, 1 + r)'
      <4> SUFFICES ASSUME NEW r \in Retries, waiting'[e][r] > 0
                   PROVE  r = inFlight[e] /\ SentAtMost(e, 1 + r)'
        OBVIOUS
      <4>1. r = inFlight[e] /\ r = call[c].copy.retries
        BY <3>5, <3>6, ConstantFacts
      <4>2. SentAtMost(e, 1 + r)
        BY <3>6, <4>1
      <4> QED
        BY <2>0, <4>1, <4>2 DEF SentAtMost
    <3>8. SentAtMost(e, 1 + MaxRetries)'
      BY <2>0, <3>6 DEF SentAtMost
    <3> QED
      BY <3>2, <3>3, <3>5, <3>7, <3>8, CopyAwaited
  <2>4. CASE x # e
    <3>1. \A d \in Callers : Holds(d, e)' =>
            Holds(d, e) /\ call'[d].pc = call[d].pc /\ call'[d].copy = call[d].copy
      BY <2>0, <2>4 DEF Holds, Publishing, x
    <3>2. \A i \in DOMAIN retryQueue' : retryQueue'[i].event = e =>
            i + 0 \in DOMAIN retryQueue /\ retryQueue'[i] = retryQueue[i + 0]
      BY <1>0, <2>0
    <3> QED
      BY <1>0, <2>0, <2>1, <2>4, <3>1, <3>2, CopyLeft
  <2> QED
    BY <2>3, <2>4
<1>9. ASSUME NEW x \in Events, NEW q \in Retries, WaitStep(x, q)
      PROVE  OneCopy(e)' /\ RetriesTell(e)'
  <2> DEFINE again == [event |-> x, retries |-> q + 1]
  <2>0. /\ waiting[x][q] > 0
        /\ \A d \in Events, r \in Retries :
             waiting'[d][r] = IF d = x /\ r = q THEN waiting[d][r] - 1 ELSE waiting[d][r]
        /\ \/ retryQueue' = retryQueue
           \/ retryQueue' = Append(retryQueue, again)
        /\ UNCHANGED <<call, inFlight, delivered, calls>>
    <3>1. Typed
      BY <1>0
    <3> QED
      BY <1>9, <3>1, WaitFacts
  <2>1. OneCopy(e) /\ RetriesTell(e)
    BY <1>1, <2>0
  <2>2. again.event = x /\ again.retries = q + 1
    OBVIOUS
  <2> HIDE DEF again
  <2>3. \A i \in DOMAIN retryQueue' : \/ /\ i \in DOMAIN retryQueue
                                         /\ retryQueue'[i] = retryQueue[i]
                                      \/ i = Len(retryQueue) + 1 /\ retryQueue'[i] = again
    <3>1. CASE retryQueue' = retryQueue
      BY <3>1
    <3>2. CASE retryQueue' = Append(retryQueue, again)
      BY <1>0, <3>2
    <3> QED
      BY <2>0, <3>1, <3>2
  <2>4. CASE x = e
    <3> PICK k : k = Len(retryQueue) + 1
      OBVIOUS
    <3>1. /\ \A d \in Callers : ~Holds(d, e)
          /\ \A i \in DOMAIN retryQueue : retryQueue[i].event # e
          /\ \A r \in Retries : waiting[e][r] > 0 => r = q
          /\ waiting[e][q] <= 1
      BY <2>0, <2>1, <2>4 DEF OneCopy
    <3>2. \A d \in Callers : ~Holds(d, e)'
      BY <2>0, <3>1 DEF Holds, Publishing
    <3>3. \A r \in Retries : waiting'[e][r] = 0
      <4>1. \A r \in Retries : waiting[e][r] \in Nat
        BY <1>0
      <4> QED
        BY <2>0, <2>4, <3>1, <4>1
    <3>4. SentAtMost(e, 1 + q) /\ SentAtMost(e, 1 + MaxRetries)
      BY <2>0, <2>1, <2>4 DEF RetriesTell
    <3>5. SentAtMost(e, 1 + q)' /\ SentAtMost(e, 1 + MaxRetries)'
      BY <2>0, <3>4 DEF SentAtMost
    <3>6. \A i \in DOMAIN retryQueue' : retryQueue'[i].event = e =>
            i = k /\ SentAtMost(e, retryQueue[i].retries)'
      <4> SUFFICES ASSUME NEW i \in DOMAIN retryQueue', retryQueue'[i].event = e
                   PROVE  i = k /\ SentAtMost(e, retryQueue[i].retries)'
        OBVIOUS
      <4>1. i = Len(retryQueue) + 1 /\ retryQueue'[i] = again
        BY <2>3, <3>1
      <4>2. retryQueue'[i].retries = 1 + q
        BY <1>0, <2>2, <4>1
      <4> QED
        BY <3>5, <4>1, <4>2
    <3>7. OneCopy(e)'
      BY <3>2, <3>3, <3>6 DEF OneCopy
    <3>8. RetriesTell(e)'
      BY <3>2, <3>3, <3>5, <3>6 DEF RetriesTell
    <3> QED
      BY <3>7, <3>8
  <2>5. CASE x # e
    <3>1. \A d \in Callers : Holds(d, e)' =>
            Holds(d, e) /\ call'[d].pc = call[d].pc /\ call'[d].copy = call[d].copy
      BY <2>0 DEF Holds, Publishing
    <3>2. \A i \in DOMAIN retryQueue' : retryQueue'[i].event = e =>
            i + 0 \in DOMAIN retryQueue /\ retryQueue'[i] = retryQueue[i + 0]
      BY <1>0, <2>2, <2>3, <2>5
    <3>3. \A r \in Retries : waiting'[e][r] = waiting[e][r]
      BY <2>0, <2>5
    <3> QED
      BY <1>0, <2>0, <2>1, <3>1, <3>2, <3>3, CopyLeft
  <2> QED
    BY <2>4, <2>5
<1>10. ASSUME \/ \E s \in Subscribers : AskToSubscribe(s) \/ Subscribe(s) \/ Handle(s) \/ Leave(s)
              \/ Cleanup
              \/ \E x \in Events : Expire(x)
              \/ UNCHANGED brokerVars
       PROVE  OneCopy(e)' /\ RetriesTell(e)'
  <2>0. /\ inFlight'[e] \in {inFlight[e], Absent}
        /\ UNCHANGED <<retryQueue, waiting, call, delivered, calls>>
    BY <1>0, <1>10, AsideFacts
  <2>1. \A d \in Callers : Holds(d, e)' =>
          Holds(d, e) /\ call'[d].pc = call[d].pc /\ call'[d].copy = call[d].copy
    BY <2>0 DEF Holds, Publishing
  <2>2. \A i \in DOMAIN retryQueue' : retryQueue'[i].event = e =>
          i + 0 \in DOMAIN retryQueue /\ retryQueue'[i] = retryQueue[i + 0]
    BY <1>0, <2>0
  <2> QED
    BY <1>0, <1>1, <2>0, <2>1, <2>2, CopyLeft
<1> QED
  BY <1>3, <1>4, <1>5, <1>6, <1>7, <1>8, <1>9, <1>10, StepCases

-----------------------------------------------------------------------------
(* AtMostOnce: nothing is retried or awaited. *)
LEMMA NothingAwaitedKept ==
  ASSUME Typed, semantic = "AtMostOnce", NothingAwaited, [BrokerNext]_brokerVars
  PROVE  NothingAwaited'
<1>0. /\ retryQueue = << >>
      /\ \A c \in Callers : call[c].pc # "spawning"
      /\ \A e \in Events : inFlight[e] = Absent
      /\ \A e \in Events, r \in Retries : waiting[e][r] = 0
  BY DEF NothingAwaited
<1>1. ASSUME NEW c \in Callers, NEW e \in Events, Publish(c, e)
      PROVE  NothingAwaited'
  <2>1. /\ \A d \in Callers : d # c => call'[d] = call[d]
        /\ call'[c].pc # "spawning"
        /\ UNCHANGED <<inFlight, waiting, retryQueue>>
    BY <1>1, PublishFacts
  <2> QED
    BY <1>0, <2>1 DEF NothingAwaited
<1>2. ASSUME NEW c \in Callers, NEW copy \in Copies, ReplayNext(c, copy)
      PROVE  NothingAwaited'
  <2>1. /\ \A d \in Callers : d # c => call'[d] = call[d]
        /\ call'[c].pc # "spawning"
        /\ UNCHANGED <<inFlight, waiting, retryQueue>>
    BY <1>2, ReplayFacts
  <2> QED
    BY <1>0, <2>1 DEF NothingAwaited
<1>3. ASSUME NEW c \in Callers, RetryNext(c)
      PROVE  NothingAwaited'
  <2>1. 1 \in DOMAIN retryQueue
    BY <1>3, RetryFacts
  <2> QED
    BY <1>0, <2>1
<1>4. ASSUME NEW c \in Callers, StartReplay(c) \/ StartRetries(c) \/ RetryEnds(c)
      PROVE  NothingAwaited'
  <2>1. /\ \A d \in Callers : d # c => call'[d] = call[d]
        /\ call'[c].pc # "spawning"
        /\ UNCHANGED <<inFlight, waiting, retryQueue>>
    BY <1>4, QuietFacts DEF Publishing
  <2> QED
    BY <1>0, <2>1 DEF NothingAwaited
<1>5. ASSUME NEW c \in Callers, Send(c)
      PROVE  NothingAwaited'
  <2>1. /\ \A d \in Callers : d # c => call'[d] = call[d]
        /\ call'[c].pc # "spawning"
        /\ UNCHANGED <<inFlight, waiting, retryQueue>>
    BY <1>5, SendFacts
  <2> QED
    BY <1>0, <2>1 DEF NothingAwaited
<1>6. ASSUME NEW c \in Callers, Spawn(c)
      PROVE  NothingAwaited'
  BY <1>0, <1>6 DEF Spawn
<1>7. ASSUME NEW e \in Events, NEW r \in Retries, WaitStep(e, r)
      PROVE  NothingAwaited'
  <2>1. waiting[e][r] > 0
    BY <1>7, WaitFacts
  <2> QED
    BY <1>0, <2>1
<1>8. ASSUME \/ \E s \in Subscribers : AskToSubscribe(s) \/ Subscribe(s) \/ Handle(s) \/ Leave(s)
             \/ Cleanup
             \/ \E e \in Events : Expire(e)
             \/ UNCHANGED brokerVars
      PROVE  NothingAwaited'
  <2>1. /\ \A e \in Events : inFlight'[e] = Absent
        /\ UNCHANGED <<retryQueue, waiting, call>>
    BY <1>0, <1>8, AsideFacts
  <2> QED
    BY <1>0, <2>1 DEF NothingAwaited
<1> QED
  BY <1>1, <1>2, <1>3, <1>4, <1>5, <1>6, <1>7, <1>8, StepCases

(* publish sends to the first that takes the event, and to no other. *)
LEMMA OneRecipient ==
  ASSUME Typed, semantic = "AtMostOnce", NEW e \in Events,
         NEW s \in Recipients(e), NEW t \in Recipients(e)
  PROVE  s = t
<1>1. DOMAIN subscriptions = 1 .. Len(subscriptions) /\ Len(subscriptions) \in Nat
  BY DEF Typed, BrokerTypeOK
<1>2. PICK i \in DOMAIN subscriptions :
        subscriptions[i] = s /\ \A j \in 1 .. (i - 1) : subscriptions[j] \notin Takers(e)
  BY DEF Recipients
<1>3. PICK k \in DOMAIN subscriptions :
        subscriptions[k] = t /\ \A j \in 1 .. (k - 1) : subscriptions[j] \notin Takers(e)
  BY DEF Recipients
<1>4. s \in Takers(e) /\ t \in Takers(e)
  BY DEF Recipients
<1>5. ~(i \in 1 .. (k - 1)) /\ ~(k \in 1 .. (i - 1))
  BY <1>2, <1>3, <1>4
<1>6. i = k
  BY <1>1, <1>5
<1> QED
  BY <1>2, <1>3, <1>6

(* The sizes of a set that gains one element, or loses one. *)
LEMMA OneMore ==
  ASSUME NEW S, NEW T, NEW x, IsFiniteSet(S), T \subseteq S \union {x}
  PROVE  IsFiniteSet(T) /\ Cardinality(T) \in Nat /\ Cardinality(T) <= Cardinality(S) + 1
<1> DEFINE U == S \union {x}
<1>1. /\ IsFiniteSet(U)
      /\ Cardinality(U) = Cardinality(S) \/ Cardinality(U) = Cardinality(S) + 1
  BY FS_AddElement
<1>2. Cardinality(S) \in Nat
  BY FS_CardinalityType
<1> HIDE DEF U
<1>3. IsFiniteSet(T) /\ Cardinality(T) <= Cardinality(U)
  BY <1>1, FS_Subset DEF U
<1>4. Cardinality(T) \in Nat
  BY <1>3, FS_CardinalityType
<1> QED
  BY <1>1, <1>2, <1>3, <1>4

LEMMA OneLess ==
  ASSUME NEW S, NEW T, NEW x \in S, IsFiniteSet(S), T \subseteq S \ {x}
  PROVE  IsFiniteSet(T) /\ Cardinality(T) \in Nat /\ Cardinality(T) <= Cardinality(S) - 1
<1> DEFINE U == S \ {x}
<1>1. IsFiniteSet(U) /\ Cardinality(U) = Cardinality(S) - 1
  BY FS_RemoveElement
<1> HIDE DEF U
<1>2. IsFiniteSet(T) /\ Cardinality(T) <= Cardinality(U)
  BY <1>1, FS_Subset DEF U
<1>3. Cardinality(T) \in Nat
  BY <1>2, FS_CardinalityType
<1> QED
  BY <1>1, <1>2, <1>3

(* AtMostOnce: the copies sent and those about to be are no more than the  *)
(* calls. A step that sends nothing of e and takes no copy of it over,     *)
LEMMA SendsLeft ==
  ASSUME NEW e \in Events, SendsOnce(e), calls[e] \in Nat, delivered'[e] = delivered[e],
         Sending(e)' \subseteq Sending(e), calls'[e] = calls[e]
  PROVE  SendsOnce(e)'
<1>1. Sent(e)' = Sent(e)
  BY DEF Sent
<1>2. IsFiniteSet(Sending(e)') /\ Cardinality(Sending(e)') <= Cardinality(Sending(e))
  BY FS_Subset DEF SendsOnce
<1>3. /\ IsFiniteSet(Sent(e)) /\ Cardinality(Sent(e)) \in Nat
      /\ Cardinality(Sending(e)) \in Nat /\ Cardinality(Sending(e)') \in Nat
  BY <1>2, FS_CardinalityType DEF SendsOnce
<1>4. Cardinality(Sent(e)) + Cardinality(Sending(e)) <= calls[e]
  BY DEF SendsOnce
<1> QED
  BY <1>1, <1>2, <1>3, <1>4 DEF SendsOnce

(* a call that takes one over,                                             *)
LEMMA SendsAdmitted ==
  ASSUME NEW e \in Events, NEW c, SendsOnce(e), calls[e] \in Nat, delivered'[e] = delivered[e],
         Sending(e)' \subseteq Sending(e) \union {c}, calls'[e] = calls[e] + 1
  PROVE  SendsOnce(e)'
<1>1. Sent(e)' = Sent(e)
  BY DEF Sent
<1>2. /\ IsFiniteSet(Sending(e)') /\ Cardinality(Sending(e)') \in Nat
      /\ Cardinality(Sending(e)') <= Cardinality(Sending(e)) + 1
  BY OneMore DEF SendsOnce
<1>3. /\ IsFiniteSet(Sent(e)) /\ Cardinality(Sent(e)) \in Nat
      /\ Cardinality(Sending(e)) \in Nat
  BY FS_CardinalityType DEF SendsOnce
<1>4. Cardinality(Sent(e)) + Cardinality(Sending(e)) <= calls[e]
  BY DEF SendsOnce
<1> QED
  BY <1>1, <1>2, <1>3, <1>4 DEF SendsOnce

(* and one that sends it.                                                  *)
LEMMA SendsSent ==
  ASSUME NEW e \in Events, NEW x, NEW c \in Sending(e), SendsOnce(e), calls[e] \in Nat,
         Sent(e)' \subseteq Sent(e) \union {x},
         Sending(e)' \subseteq Sending(e) \ {c}, calls'[e] = calls[e]
  PROVE  SendsOnce(e)'
<1>1. /\ IsFiniteSet(Sent(e)') /\ Cardinality(Sent(e)') \in Nat
      /\ Cardinality(Sent(e)') <= Cardinality(Sent(e)) + 1
  BY OneMore DEF SendsOnce
<1>2. /\ IsFiniteSet(Sending(e)') /\ Cardinality(Sending(e)') \in Nat
      /\ Cardinality(Sending(e)') <= Cardinality(Sending(e)) - 1
  BY OneLess DEF SendsOnce
<1>3. Cardinality(Sent(e)) \in Nat /\ Cardinality(Sending(e)) \in Nat
  BY FS_CardinalityType DEF SendsOnce
<1>4. Cardinality(Sent(e)) + Cardinality(Sending(e)) <= calls[e]
  BY DEF SendsOnce
<1> QED
  BY <1>1, <1>2, <1>3, <1>4 DEF SendsOnce

(* The copies that a step adds go to its recipients. *)
LEMMA SentGrows ==
  ASSUME Typed, NEW e \in Events, NEW t,
         \A s \in Subscribers :
           delivered'[e][s] = IF s = t THEN delivered[e][s] + 1 ELSE delivered[e][s]
  PROVE  Sent(e)' \subseteq Sent(e) \union {<<t, delivered[e][t] + 1>>}
<1> SUFFICES ASSUME NEW s \in Subscribers, NEW i \in 1 .. delivered'[e][s]
             PROVE  \/ <<s, i>> = <<t, delivered[e][t] + 1>>
                    \/ i \in 1 .. delivered[e][s]
  BY DEF Sent
<1>1. delivered[e][s] \in Nat
  BY DEF Typed, BrokerTypeOK
<1> QED
  BY <1>1

LEMMA CallsSendOnceKept ==
  ASSUME Typed, semantic = "AtMostOnce", NothingAwaited, CallsSendOnce, [BrokerNext]_brokerVars
  PROVE  CallsSendOnce'
<1> SUFFICES ASSUME NEW e \in Events PROVE SendsOnce(e)'
  BY DEF CallsSendOnce
<1>0. SendsOnce(e) /\ calls[e] \in Nat
  BY DEF CallsSendOnce, Typed, BrokerTypeOK
<1>1. ASSUME NEW c \in Callers, NEW d \in Events, Publish(c, d)
      PROVE  SendsOnce(e)'
  <2> DEFINE copy == [event |-> d, retries |-> 0]
  <2>1. /\ ~Publishing(c)
        /\ \A b \in Callers : b # c => call'[b] = call[b]
        /\ \/ call'[c].pc \in {"none", "next"}
           \/ call'[c].pc = "sending" /\ call'[c].copy = copy
        /\ \A b \in Events : b # d => calls'[b] = calls[b]
        /\ calls'[d] = calls[d] + 1
        /\ delivered' = delivered
    BY <1>1, PublishFacts
  <2>2. copy.event = d
    OBVIOUS
  <2> HIDE DEF copy
  <2>3. Sending(e)' \subseteq Sending(e) \union {c}
    BY <2>1 DEF Sending
  <2>4. e # d => Sending(e)' \subseteq Sending(e)
    BY <2>1, <2>2 DEF Sending
  <2>5. CASE e = d
    BY <1>0, <2>1, <2>3, <2>5, SendsAdmitted
  <2>6. CASE e # d
    BY <1>0, <2>1, <2>4, <2>6, SendsLeft
  <2> QED
    BY <2>5, <2>6
<1>2. ASSUME NEW c \in Callers, NEW copy \in Copies, ReplayNext(c, copy)
      PROVE  SendsOnce(e)'
  <2>1. /\ ~Publishing(c)
        /\ \A b \in Callers : b # c => call'[b] = call[b]
        /\ \/ call'[c].pc \in {"none", "next"}
           \/ call'[c].pc = "sending" /\ call'[c].copy = copy
        /\ \A b \in Events : b # copy.event => calls'[b] = calls[b]
        /\ calls'[copy.event] = calls[copy.event] + 1
        /\ delivered' = delivered
    BY <1>2, ReplayFacts
  <2>3. Sending(e)' \subseteq Sending(e) \union {c}
    BY <2>1 DEF Sending
  <2>4. e # copy.event => Sending(e)' \subseteq Sending(e)
    BY <2>1 DEF Sending
  <2>5. CASE e = copy.event
    BY <1>0, <2>1, <2>3, <2>5, SendsAdmitted
  <2>6. CASE e # copy.event
    BY <1>0, <2>1, <2>4, <2>6, SendsLeft
  <2> QED
    BY <2>5, <2>6
<1>3. ASSUME NEW c \in Callers, RetryNext(c)
      PROVE  SendsOnce(e)'
  <2>1. 1 \in DOMAIN retryQueue
    BY <1>3, RetryFacts
  <2> QED
    BY <2>1 DEF NothingAwaited
<1>4. ASSUME NEW c \in Callers, StartReplay(c) \/ StartRetries(c) \/ RetryEnds(c)
      PROVE  SendsOnce(e)'
  <2>1. /\ \A b \in Callers : b # c => call'[b] = call[b]
        /\ ~Publishing(c)'
        /\ UNCHANGED <<delivered, calls>>
    BY <1>4, QuietFacts
  <2>2. Sending(e)' \subseteq Sending(e)
    BY <2>1 DEF Sending, Publishing
  <2> QED
    BY <1>0, <2>1, <2>2, SendsLeft
<1>5. ASSUME NEW c \in Callers, Send(c)
      PROVE  SendsOnce(e)'
  <2> DEFINE d == call[c].copy.event
  <2>1. /\ d \in Events /\ call[c].pc = "sending"
        /\ \A b \in Callers : b # c => call'[b] = call[b]
        /\ call'[c].pc # "sending"
        /\ \A b \in Events : b # d => delivered'[b] = delivered[b]
        /\ \A s \in Subscribers :
             delivered'[d][s] = IF s \in Recipients(d) THEN delivered[d][s] + 1
                                                       ELSE delivered[d][s]
        /\ calls' = calls
    BY <1>5, SendFacts
  <2>2. Sending(e)' \subseteq Sending(e)
    BY <2>1 DEF Sending
  <2>3. d = e => c \in Sending(e) /\ Sending(e)' \subseteq Sending(e) \ {c}
    BY <2>1 DEF Sending
  <2> HIDE DEF d
  <2>4. CASE d = e
    <3>1. PICK t : \A s \in Subscribers : s \in Recipients(e) <=> s = t
      <4>1. CASE \E s \in Subscribers : s \in Recipients(e)
        BY <4>1, OneRecipient
      <4>2. CASE ~ \E s \in Subscribers : s \in Recipients(e)
        <5>1. PICK t : t \notin Subscribers
          BY NoSetContainsEverything
        <5> QED
          BY <4>2, <5>1
      <4> QED
        BY <4>1, <4>2
    <3>2. \A s \in Subscribers :
            delivered'[e][s] = IF s = t THEN delivered[e][s] + 1 ELSE delivered[e][s]
      BY <2>1, <2>4, <3>1
    <3>3. Sent(e)' \subseteq Sent(e) \union {<<t, delivered[e][t] + 1>>}
      BY <3>2, SentGrows
    <3> DEFINE x == <<t, delivered[e][t] + 1>>
    <3>4. Sent(e)' \subseteq Sent(e) \union {x}
      BY <3>3
    <3> HIDE DEF x
    <3> QED
      BY <1>0, <2>1, <2>3, <2>4, <3>4, SendsSent
  <2>5. CASE d # e
    BY <1>0, <2>1, <2>2, <2>5, SendsLeft
  <2> QED
    BY <2>4, <2>5
<1>6. ASSUME NEW c \in Callers, Spawn(c)
      PROVE  SendsOnce(e)'
  BY <1>6 DEF Spawn, NothingAwaited
<1>7. ASSUME NEW d \in Events, NEW r \in Retries, WaitStep(d, r)
      PROVE  SendsOnce(e)'
  <2>1. waiting[d][r] > 0
    BY <1>7, WaitFacts
  <2> QED
    BY <2>1 DEF NothingAwaited
<1>8. ASSUME \/ \E s \in Subscribers : AskToSubscribe(s) \/ Subscribe(s) \/ Handle(s) \/ Leave(s)
             \/ Cleanup
             \/ \E d \in Events : Expire(d)
             \/ UNCHANGED brokerVars
      PROVE  SendsOnce(e)'
  <2>1. UNCHANGED <<call, delivered, calls>>
    BY <1>8, AsideFacts
  <2>2. Sending(e)' \subseteq Sending(e)
    BY <2>1 DEF Sending
  <2> QED
    BY <1>0, <2>1, <2>2, SendsLeft
<1> QED
  BY <1>1, <1>2, <1>3, <1>4, <1>5, <1>6, <1>7, <1>8, StepCases

-----------------------------------------------------------------------------
(* What holds before the first call. *)
LEMMA InitInv == BrokerInit => BrokerInv
<1> SUFFICES ASSUME BrokerInit PROVE BrokerInv
  OBVIOUS
<1>1. Typed
  BY InitTyped
<1>2. /\ retryQueue = << >>
      /\ \A c \in Callers : call[c].pc = "none" /\ call[c].todo = {}
      /\ \A e \in Events : /\ stored[e] = Absent /\ inFlight[e] = Absent /\ calls[e] = 0
                           /\ \A s \in Subscribers : delivered[e][s] = 0
                           /\ \A r \in Retries : waiting[e][r] = 0
  BY DEF BrokerInit, Idle
<1>3. \A c \in Callers, e \in Events : ~Holds(c, e)
  BY <1>2 DEF Holds, Publishing
<1>4. DOMAIN retryQueue = {}
  BY <1>2
<1>5. OnlyAfterCalls
  BY <1>2, <1>3, <1>4 DEF OnlyAfterCalls, SentAtMost
<1>6. \A e \in Events : OneCopy(e) /\ RetriesTell(e)
  <2> TAKE e \in Events
  <2>1. OneCopy(e)
    BY <1>2, <1>3, <1>4 DEF OneCopy
  <2>2. 0 <= 1 + MaxRetries
    BY ConstantFacts
  <2>3. RetriesTell(e)
    BY <1>2, <1>3, <1>4, <2>2 DEF RetriesTell, SentAtMost
  <2> QED
    BY <2>1, <2>3
<1>7. NothingAwaited
  BY <1>2 DEF NothingAwaited
<1>8. CallsSendOnce
  <2> SUFFICES ASSUME NEW e \in Events PROVE SendsOnce(e)
    BY DEF CallsSendOnce
  <2>1. Sent(e) = {} /\ Sending(e) = {}
    BY <1>2 DEF Sent, Sending
  <2> QED
    BY <1>2, <2>1, FS_EmptySet DEF SendsOnce
<1> QED
  BY <1>1, <1>5, <1>6, <1>7, <1>8 DEF BrokerInv

(* The semantic is the configuration's. *)
LEMMA SemanticKept == [BrokerNext]_brokerVars => semantic' = semantic
BY DEF BrokerNext, brokerVars, configVars, AskToSubscribe, Subscribe, Handle, Leave, Publish, Admit,
       StartReplay, StartRetries, CallStep, ReplayNext, RetryNext, RetryEnds, Send, Spawn, WaitStep, TimeOut, GiveUp,
       Cleanup, Expire

LEMMA BrokerInvKept == BrokerInv /\ [BrokerNext]_brokerVars => BrokerInv'
<1> SUFFICES ASSUME BrokerInv, [BrokerNext]_brokerVars PROVE BrokerInv'
  OBVIOUS
<1>1. Typed /\ Typed'
  BY TypedKept DEF BrokerInv
<1>2. OnlyAfterCalls /\ OnlyAfterCalls'
  BY <1>1, OnlyAfterCallsKept DEF BrokerInv
<1>3. \A e \in Events : calls'[e] <= 1 => OneCopy(e)' /\ RetriesTell(e)'
  BY OneCopyKept
<1>4. semantic' = "AtMostOnce" => NothingAwaited' /\ CallsSendOnce'
  BY <1>1, SemanticKept, NothingAwaitedKept, CallsSendOnceKept DEF BrokerInv
<1> QED
  BY <1>1, <1>2, <1>3, <1>4 DEF BrokerInv

LEMMA BrokerInvBounds == BrokerInv => CopiesBounded
<1> SUFFICES ASSUME BrokerInv, NEW e \in Events
             PROVE  /\ calls[e] <= 1 => \A s \in Subscribers : delivered[e][s] <= 1 + MaxRetries
                    /\ semantic = "AtMostOnce" =>
                         /\ Cardinality(Sent(e)) <= calls[e]
                         /\ inFlight[e] = Absent /\ \A r \in Retries : waiting[e][r] = 0
  BY DEF CopiesBounded
<1>1. calls[e] <= 1 => \A s \in Subscribers : delivered[e][s] <= 1 + MaxRetries
  BY DEF BrokerInv, RetriesTell, SentAtMost
<1>2. ASSUME semantic = "AtMostOnce" PROVE Cardinality(Sent(e)) <= calls[e]
  <2>1. SendsOnce(e) /\ calls[e] \in Nat
    BY <1>2 DEF BrokerInv, CallsSendOnce, Typed, BrokerTypeOK
  <2>2. Cardinality(Sent(e)) \in Nat /\ Cardinality(Sending(e)) \in Nat
    BY <2>1, FS_CardinalityType DEF SendsOnce
  <2>3. Cardinality(Sent(e)) + Cardinality(Sending(e)) <= calls[e]
    BY <2>1 DEF SendsOnce
  <2> QED
    BY <2>1, <2>2, <2>3
<1>3. semantic = "AtMostOnce" =>
        inFlight[e] = Absent /\ \A r \in Retries : waiting[e][r] = 0
  BY DEF BrokerInv, NothingAwaited
<1> QED
  BY <1>1, <1>2, <1>3

(* publish puts a retry_count into in_flight, and only                     *)
(* cleanup_expired_events takes one out.                                   *)
LEMMA FlightStep ==
  ASSUME Typed, [BrokerNext]_brokerVars, NEW e \in Events, inFlight[e] # Absent, inFlight'[e] = Absent
  PROVE  e \in expired
<1>0. inFlight \in [Events -> Retries \union {Absent}] /\ Absent \notin Retries
  BY ConstantFacts DEF Typed, BrokerTypeOK
<1>1. ASSUME NEW c \in Callers, Send(c) PROVE FALSE
  <2>1. PICK d \in Events : inFlight'[d] \in {inFlight[d], call[c].copy.retries}
                            /\ call[c].copy.retries \in Retries
                            /\ \A b \in Events : b # d => inFlight'[b] = inFlight[b]
    BY <1>1, SendFacts
  <2> QED
    BY <1>0, <2>1
<1>2. ASSUME Cleanup PROVE e \in expired
  BY <1>0, <1>2 DEF Cleanup, IsExpired
<1>3. ASSUME \/ \E c \in Callers, d \in Events : Publish(c, d)
             \/ \E c \in Callers, copy \in Copies : ReplayNext(c, copy)
             \/ \E c \in Callers : \/ RetryNext(c) \/ StartReplay(c) \/ StartRetries(c)
                                   \/ RetryEnds(c) \/ Spawn(c)
             \/ \E d \in Events, r \in Retries : WaitStep(d, r)
             \/ \E s \in Subscribers : AskToSubscribe(s) \/ Subscribe(s) \/ Handle(s) \/ Leave(s)
             \/ \E d \in Events : Expire(d)
             \/ UNCHANGED brokerVars
      PROVE  FALSE
  <2>1. inFlight' = inFlight
    BY <1>3 DEF Publish, Admit, ReplayNext, RetryNext, StartReplay, StartRetries, RetryEnds,
                Spawn, WaitStep, TimeOut, GiveUp, AskToSubscribe, Subscribe, Handle, Leave, Expire, brokerVars
  <2> QED
    BY <2>1
<1> QED
  BY <1>1, <1>2, <1>3, StepCases

-----------------------------------------------------------------------------
(* The invariant holds in every state: for any events, subscribers and     *)
(* callers, any bound on the retries, any buffers.                         *)
THEOREM BrokerInvariant == BrokerSpec => []BrokerInv
<1>1. BrokerInit => BrokerInv
  BY InitInv
<1>2. BrokerInv /\ [BrokerNext]_brokerVars => BrokerInv'
  BY BrokerInvKept
<1> QED
  BY <1>1, <1>2, PTL DEF BrokerSpec

(* BrokerTypeOK holds in every state. *)
THEOREM BrokerTypeCorrect == BrokerSpec => []BrokerTypeOK
<1>1. BrokerInv => BrokerTypeOK
  BY DEF BrokerInv, Typed
<1> QED
  BY <1>1, BrokerInvariant, PTL

(* An event published once is sent to nobody more often than the retries   *)
(* allow, and under AtMostOnce each call of publish sends at most one copy *)
(* and leaves nothing in flight.                                           *)
THEOREM CopiesStayBounded == BrokerSpec => []CopiesBounded
<1>1. BrokerInv => CopiesBounded
  BY BrokerInvBounds
<1> QED
  BY <1>1, BrokerInvariant, PTL

(* Acknowledged or not, an event leaves in_flight when it has expired and  *)
(* not before.                                                             *)
THEOREM FlightsEndByExpiry == BrokerSpec => FlightEndsByExpiry
<1>1. BrokerInv /\ [BrokerNext]_brokerVars =>
        [\A e \in Events : inFlight[e] # Absent /\ inFlight'[e] = Absent => e \in expired]_brokerVars
  BY FlightStep DEF BrokerInv
<1> QED
  BY <1>1, BrokerInvariant, PTL DEF BrokerSpec, FlightEndsByExpiry
-----------------------------------------------------------------------------
(* The saga. *)

USE DEF DependenciesExist, NewSteps, MarkSaga, MarkStep, DequeueCompensation, EnqueueAbortTask,
        DequeueAbortTask

DependenciesDone(s) == \A d \in DependsOn[s] : done[d] > 0

RoundsRemain ==
  \A c \in Starters :
    starter[c].pc \in {"stepping", "executing", "enqueuing"} => starter[c].rounds < MaxRounds

StatusesHaveEffects ==
  \A s \in Steps :
    /\ stepStatus[s] \in {"Completed", "Compensating", "Compensated", "CompensationFailed"}
         => done[s] > 0
    /\ stepStatus[s] # "Skipped"
    /\ stepStatus[s] = "Completed" => undone[s] < done[s]
    /\ undone[s] <= done[s]

ListedStepsAreReady ==
  \A c \in Starters :
    /\ \A s \in starter[c].todo : DependenciesDone(s)
    /\ starter[c].pc = "executing" => starter[c].step \in Steps /\ DependenciesDone(starter[c].step)

UndoIsOwed ==
  processor.pc \in {"marking", "executing"} =>
    processor.step \in Steps /\ undone[processor.step] < done[processor.step]

IInv == SagaTypeOK /\ RoundsRemain /\ StatusesHaveEffects /\ ListedStepsAreReady /\ UndoIsOwed

-----------------------------------------------------------------------------
LEMMA InitIInv == SagaInit => IInv
BY SagaAssumption
   DEF SagaInit, IInv, SagaTypeOK, RoundsRemain, StatusesHaveEffects, ListedStepsAreReady, UndoIsOwed,
       SagaStatus, StepStatus, StarterState, ProcessorState

LEMMA StarterUpdated ==
  ASSUME starter \in [Starters -> StarterState],
         NEW c \in Starters, NEW record \in StarterState,
         starter' = [starter EXCEPT ![c] = record]
  PROVE  starter' \in [Starters -> StarterState]
OBVIOUS

(* Every step keeps the types. *)
LEMMA TypeStep ==
  ASSUME IInv, [SagaNext]_orchestratorVars
  PROVE  SagaTypeOK'
<1> USE DEF IInv, SagaTypeOK, SagaStatus, StepStatus, StarterState, ProcessorState, sagaVars,
            queueVars, controlVars
<1>0. DependsOn \in [Steps -> SUBSET Steps] /\ MaxRounds \in Nat /\ MaxRequests \in Nat
  BY SagaAssumption
<1>1. ASSUME NEW c \in Starters, StartSaga(c)
      PROVE  SagaTypeOK'
  BY <1>1 DEF StartSaga
<1>2. ASSUME NEW c \in Starters, StarterStep(c)
      PROVE  SagaTypeOK'
  <2>0. starter[c] \in StarterState
    OBVIOUS
  <2>1. CASE ReadReadySteps(c)
    <3>1. [starter[c] EXCEPT !.pc = "returned"] \in StarterState
      BY <2>0
    <3>2. [starter[c] EXCEPT !.pc = "stepping", !.todo = ReadySteps] \in StarterState
      BY <2>0 DEF ReadySteps
    <3>3. starter' \in [Starters -> StarterState]
      BY <2>1, <3>1, <3>2, StarterUpdated DEF ReadReadySteps
    <3> QED
      BY <2>1, <3>3 DEF ReadReadySteps
  <2>2. ASSUME NEW s \in Steps, BeginStep(c, s)
        PROVE  SagaTypeOK'
    <3>1. starter' \in [Starters -> StarterState]
      <4>1. [starter[c] EXCEPT !.pc = "executing", !.todo = starter[c].todo \ {s}, !.step = s]
              \in StarterState
        BY <2>0
      <4>2. [starter[c] EXCEPT !.todo = starter[c].todo \ {s}] \in StarterState
        BY <2>0
      <4> QED
        BY <2>2, <4>1, <4>2, StarterUpdated DEF BeginStep
    <3>2. stepStatus' \in [Steps -> StepStatus]
      BY <2>2 DEF BeginStep
    <3> QED
      BY <2>2, <3>1, <3>2 DEF BeginStep
  <2>3. CASE CompleteStep(c)
    <3>1. starter[c].step \in Steps
      BY <2>3 DEF CompleteStep, ListedStepsAreReady
    <3>2. starter' \in [Starters -> StarterState]
      <4>1. [starter[c] EXCEPT !.pc = "stepping", !.step = NoStep] \in StarterState
        BY <2>0
      <4> QED
        BY <2>3, <4>1, StarterUpdated DEF CompleteStep
    <3>3. stepStatus' \in [Steps -> StepStatus] /\ done' \in [Steps -> Nat]
      BY <2>3, <3>1 DEF CompleteStep
    <3>4. sagaStatus' \in SagaStatus
      BY <2>3 DEF CompleteStep
    <3>5. late' \in SUBSET Steps
      BY <2>3, <3>1 DEF CompleteStep
    <3> QED
      BY <2>3, <3>2, <3>3, <3>4, <3>5 DEF CompleteStep
  <2>4. CASE FailStep(c)
    <3>1. starter[c].step \in Steps
      BY <2>4 DEF FailStep, ListedStepsAreReady
    <3>2. compensationQueue' \in Nat
      BY <2>4 DEF FailStep, EnqueueCompensation
    <3>3. sagaStatus' \in SagaStatus
      BY <2>4 DEF FailStep
    <3>4. stepStatus' \in [Steps -> StepStatus]
      BY <2>4, <3>1 DEF FailStep
    <3>5. starter' \in [Starters -> StarterState]
      <4>1. [starter[c] EXCEPT !.pc = "stepping", !.step = NoStep] \in StarterState
        BY <2>0
      <4>2. [starter[c] EXCEPT !.pc = "enqueuing", !.step = NoStep] \in StarterState
        BY <2>0
      <4> QED
        BY <2>4, <4>1, <4>2, StarterUpdated DEF FailStep
    <3> QED
      BY <2>4, <3>2, <3>3, <3>4, <3>5 DEF FailStep
  <2>5. CASE RequestAfterFailure(c)
    BY <2>5 DEF RequestAfterFailure, EnqueueCompensation
  <2>6. CASE EndRound(c)
    <3>1. starter[c].rounds + 1 \in 0 .. MaxRounds
      BY <1>0, <2>6 DEF EndRound, RoundsRemain
    <3>2. starter' \in [Starters -> StarterState]
      <4>1. \A pc \in {"returned", "reading"} :
              [starter[c] EXCEPT !.rounds = starter[c].rounds + 1, !.pc = pc] \in StarterState
        BY <2>0, <3>1
      <4> QED
        BY <2>6, <4>1, StarterUpdated DEF EndRound
    <3> QED
      BY <2>6, <3>2 DEF EndRound
  <2> QED
    BY <1>2, <2>1, <2>2, <2>3, <2>4, <2>5, <2>6 DEF StarterStep
<1>3. ASSUME NEW a \in Aborters, EnqueueAbort(a) \/ AborterStep(a)
      PROVE  SagaTypeOK'
  BY <1>0, <1>3 DEF EnqueueAbort, AborterStep, TakeAbort, AbortSaga, RequestAfterAbort,
                    EnqueueCompensation, Request
<1>4. CASE CompensateSaga \/ CheckTimeouts
  BY <1>0, <1>4 DEF CompensateSaga, CheckTimeouts, EnqueueCompensation, Request
<1>5. CASE ProcessorStep
  <2>1. CASE TakeCompensation
    BY <2>1 DEF TakeCompensation
  <2>2. CASE BeginCompensation
    BY SagaAssumption, <2>2 DEF BeginCompensation, CompensationSteps
  <2>3. ASSUME NEW s \in Steps, CheckUndo(s)
        PROVE  SagaTypeOK'
    BY <2>3 DEF CheckUndo
  <2>4. CASE BeginUndo
    BY <2>4 DEF BeginUndo
  <2>5. CASE UndoSucceeds
    <3>1. processor.step \in Steps
      BY <2>5 DEF UndoSucceeds, UndoIsOwed
    <3>2. stepStatus' \in [Steps -> StepStatus] /\ undone' \in [Steps -> Nat]
      BY <2>5, <3>1 DEF UndoSucceeds
    <3>3. processor' \in ProcessorState
      BY <2>5 DEF UndoSucceeds
    <3> QED
      BY <2>5, <3>2, <3>3 DEF UndoSucceeds
  <2>6. CASE UndoFails
    BY <2>6 DEF UndoFails
  <2>7. CASE EndCompensation
    BY <2>7 DEF EndCompensation
  <2>8. CASE ProcessAbort
    BY <2>8 DEF ProcessAbort, EnqueueCompensation
  <2> QED
    BY <1>5, <2>1, <2>2, <2>3, <2>4, <2>5, <2>6, <2>7, <2>8 DEF ProcessorStep
<1>6. CASE EndProcessor
  BY <1>6 DEF EndProcessor
<1>7. CASE UNCHANGED orchestratorVars
  BY <1>7 DEF orchestratorVars
<1> QED
  BY <1>1, <1>2, <1>3, <1>4, <1>5, <1>6, <1>7 DEF SagaNext

(* Only StartSaga and the steps of a call move the call. *)
LEMMA StarterMoves ==
  ASSUME [SagaNext]_orchestratorVars
  PROVE  \/ \E c \in Starters : StartSaga(c) \/ StarterStep(c)
         \/ UNCHANGED starter
BY DEF SagaNext, orchestratorVars, EnqueueAbort, AborterStep, TakeAbort, AbortSaga, RequestAfterAbort,
       CompensateSaga, CheckTimeouts, ProcessorStep, TakeCompensation, BeginCompensation,
       CheckUndo, BeginUndo, UndoSucceeds, UndoFails, EndCompensation, ProcessAbort, EndProcessor

(* What a step may do to the effects and to the statuses of the steps. *)
LEMMA EffectMoves ==
  ASSUME [SagaNext]_orchestratorVars
  PROVE  \/ \E c \in Starters, s \in Steps : BeginStep(c, s)
         \/ \E c \in Starters : CompleteStep(c) \/ FailStep(c)
         \/ BeginUndo \/ UndoSucceeds \/ UndoFails
         \/ UNCHANGED <<stepStatus, done, undone>>
BY DEF SagaNext, orchestratorVars, sagaVars, StartSaga, StarterStep, ReadReadySteps, RequestAfterFailure, EndRound,
       EnqueueAbort, AborterStep, TakeAbort, AbortSaga, RequestAfterAbort, CompensateSaga,
       CheckTimeouts, ProcessorStep, TakeCompensation, BeginCompensation, CheckUndo,
       EndCompensation, ProcessAbort, EndProcessor

LEMMA EffectsLast ==
  ASSUME IInv, [SagaNext]_orchestratorVars
  PROVE  \A s \in Steps : done'[s] >= done[s]
<1>1. done \in [Steps -> Nat]
  BY DEF IInv, SagaTypeOK
<1>2. ASSUME NEW c \in Starters, CompleteStep(c)
      PROVE  \A s \in Steps : done'[s] >= done[s]
  <2>1. done' = [done EXCEPT ![starter[c].step] = @ + 1]
    BY <1>2 DEF CompleteStep
  <2> QED
    BY <1>1, <2>1
<1>3. CASE UNCHANGED done
  BY <1>1, <1>3
<1> QED
  BY <1>2, <1>3, EffectMoves DEF BeginStep, FailStep, BeginUndo, UndoSucceeds, UndoFails

LEMMA RoundsStep ==
  ASSUME IInv, [SagaNext]_orchestratorVars
  PROVE  RoundsRemain'
<1> USE DEF RoundsRemain
<1>1. starter \in [Starters -> StarterState] /\ RoundsRemain
  BY DEF IInv, SagaTypeOK
<1>2. ASSUME NEW c \in Starters, StartSaga(c)
      PROVE  RoundsRemain'
  BY <1>1, <1>2 DEF StartSaga, StarterState
<1>3. ASSUME NEW c \in Starters, StarterStep(c)
      PROVE  RoundsRemain'
  <2>0. MaxRounds \in Nat /\ starter[c] \in StarterState /\ starter[c].rounds \in 0 .. MaxRounds
    BY <1>1, SagaAssumption DEF StarterState
  <2>1. CASE ReadReadySteps(c)
    BY <1>1, <2>0, <2>1 DEF ReadReadySteps, StarterState
  <2>2. ASSUME NEW s \in Steps, BeginStep(c, s)
        PROVE  RoundsRemain'
    BY <1>1, <2>0, <2>2 DEF BeginStep, StarterState
  <2>3. CASE CompleteStep(c)
    BY <1>1, <2>0, <2>3 DEF CompleteStep, StarterState
  <2>4. CASE FailStep(c)
    <3>1. \A x \in Starters \ {c} : starter'[x] = starter[x]
      BY <1>1, <2>4 DEF FailStep
    <3>2. starter[c].rounds < MaxRounds
      BY <1>1, <2>4 DEF FailStep
    <3>3. starter'[c].rounds = starter[c].rounds
      <4>1. \E pc \in {"stepping", "enqueuing"} :
              starter' = [starter EXCEPT ![c] = [@ EXCEPT !.pc = pc, !.step = NoStep]]
        BY <2>4 DEF FailStep
      <4> QED
        BY <1>1, <2>0, <4>1 DEF StarterState
    <3> QED
      BY <1>1, <3>1, <3>2, <3>3
  <2>5. CASE RequestAfterFailure(c)
    BY <1>1, <2>0, <2>5 DEF RequestAfterFailure, StarterState
  <2>6. CASE EndRound(c)
    BY <1>1, <2>0, <2>6 DEF EndRound, StarterState
  <2> QED
    BY <1>3, <2>1, <2>2, <2>3, <2>4, <2>5, <2>6 DEF StarterStep
<1>4. CASE UNCHANGED starter
  BY <1>1, <1>4
<1> QED
  BY <1>2, <1>3, <1>4, StarterMoves

(* The status of a step says no more than its effects do. *)
LEMMA StatusesStep ==
  ASSUME IInv, [SagaNext]_orchestratorVars
  PROVE  StatusesHaveEffects'
<1> USE DEF StatusesHaveEffects
<1>1. /\ stepStatus \in [Steps -> StepStatus] /\ StatusesHaveEffects
      /\ done \in [Steps -> Nat] /\ undone \in [Steps -> Nat]
  BY DEF IInv, SagaTypeOK
<1>2. ASSUME NEW c \in Starters, NEW s \in Steps, BeginStep(c, s)
      PROVE  StatusesHaveEffects'
  BY <1>1, <1>2 DEF BeginStep
<1>3. ASSUME NEW c \in Starters, CompleteStep(c)
      PROVE  StatusesHaveEffects'
  <2>1. starter[c].step \in Steps
    BY <1>3 DEF IInv, ListedStepsAreReady, CompleteStep
  <2>2. /\ stepStatus' = [stepStatus EXCEPT ![starter[c].step] = "Completed"]
        /\ done' = [done EXCEPT ![starter[c].step] = @ + 1]
        /\ undone' = undone
    BY <1>3 DEF CompleteStep
  <2> HIDE DEF StatusesHaveEffects
  <2>3. ASSUME NEW s \in Steps, s # starter[c].step
        PROVE  stepStatus'[s] = stepStatus[s] /\ done'[s] = done[s]
    BY <1>1, <2>2, <2>3
  <2>4. stepStatus'[starter[c].step] = "Completed"
        /\ done'[starter[c].step] = done[starter[c].step] + 1
    BY <1>1, <2>1, <2>2
  <2> QED
    BY <1>1, <2>1, <2>2, <2>3, <2>4 DEF StatusesHaveEffects
<1>4. ASSUME NEW c \in Starters, FailStep(c)
      PROVE  StatusesHaveEffects'
  BY <1>1, <1>4 DEF FailStep
<1>5. CASE BeginUndo
  <2>1. processor.step \in Steps /\ undone[processor.step] < done[processor.step]
    BY <1>5 DEF IInv, UndoIsOwed, BeginUndo
  <2> QED
    BY <1>1, <1>5, <2>1 DEF BeginUndo
<1>6. CASE UndoSucceeds \/ UndoFails
  <2>1. processor.step \in Steps /\ undone[processor.step] < done[processor.step]
    BY <1>6 DEF IInv, UndoIsOwed, UndoSucceeds, UndoFails
  <2> QED
    BY <1>1, <1>6, <2>1 DEF UndoSucceeds, UndoFails
<1>7. CASE UNCHANGED <<stepStatus, done, undone>>
  BY <1>1, <1>7
<1> QED
  BY <1>2, <1>3, <1>4, <1>5, <1>6, <1>7, EffectMoves

(* A list of ready steps stays good however old it is, for effects last.   *)
LEMMA ListedStep ==
  ASSUME IInv, [SagaNext]_orchestratorVars
  PROVE  ListedStepsAreReady'
<1>1. /\ starter \in [Starters -> StarterState] /\ ListedStepsAreReady
      /\ done \in [Steps -> Nat] /\ done' \in [Steps -> Nat]
  BY TypeStep DEF IInv, SagaTypeOK
<1>2. \A s \in Steps : DependenciesDone(s) => \A d \in DependsOn[s] : done'[d] > 0
  BY <1>1, EffectsLast, SagaAssumption DEF DependenciesDone
<1>3. \A c \in Starters : starter[c] \in StarterState
  BY <1>1
<1> USE DEF ListedStepsAreReady, DependenciesDone
<1>4. ASSUME NEW c \in Starters, StartSaga(c)
      PROVE  ListedStepsAreReady'
  BY <1>1, <1>2, <1>3, <1>4 DEF StartSaga, StarterState
<1>5. ASSUME NEW c \in Starters, StarterStep(c)
      PROVE  ListedStepsAreReady'
  <2>1. CASE ReadReadySteps(c)
    <3>1. \A s \in ReadySteps : DependenciesDone(s)
      BY SagaAssumption DEF ReadySteps, IInv, StatusesHaveEffects
    <3>2. ReadySteps \subseteq Steps
      BY DEF ReadySteps
    <3> QED
      BY <1>1, <1>2, <1>3, <2>1, <3>1, <3>2 DEF ReadReadySteps, StarterState
  <2>2. ASSUME NEW s \in Steps, BeginStep(c, s)
        PROVE  ListedStepsAreReady'
    BY <1>1, <1>2, <1>3, <2>2 DEF BeginStep, IsFirst, StarterState
  <2>3. CASE CompleteStep(c)
    BY <1>1, <1>2, <1>3, <2>3 DEF CompleteStep, StarterState
  <2>4. CASE FailStep(c)
    <3>1. \A x \in Starters \ {c} : starter'[x] = starter[x]
      BY <1>1, <2>4 DEF FailStep
    <3>2. starter'[c].todo = starter[c].todo /\ starter'[c].pc # "executing"
      BY <1>1, <1>3, <2>4 DEF FailStep, StarterState
    <3> QED
      BY <1>1, <1>2, <1>3, <3>1, <3>2 DEF StarterState
  <2>5. CASE RequestAfterFailure(c)
    BY <1>1, <1>2, <1>3, <2>5 DEF RequestAfterFailure, StarterState
  <2>6. CASE EndRound(c)
    BY <1>1, <1>2, <1>3, <2>6 DEF EndRound, StarterState
  <2> QED
    BY <1>5, <2>1, <2>2, <2>3, <2>4, <2>5, <2>6 DEF StarterStep
<1>6. CASE UNCHANGED starter
  BY <1>1, <1>2, <1>3, <1>6 DEF StarterState
<1> QED
  BY <1>4, <1>5, <1>6, StarterMoves

LEMMA UndoStep ==
  ASSUME IInv, [SagaNext]_orchestratorVars
  PROVE  UndoIsOwed'
<1> USE DEF UndoIsOwed
<1>1. /\ processor \in ProcessorState /\ UndoIsOwed
      /\ done \in [Steps -> Nat] /\ undone \in [Steps -> Nat]
      /\ done' \in [Steps -> Nat]
  BY TypeStep DEF IInv, SagaTypeOK
<1>2. \A s \in Steps : done'[s] >= done[s]
  BY EffectsLast
<1>3. ASSUME NEW s \in Steps, CheckUndo(s)
      PROVE  UndoIsOwed'
  <2>1. undone' = undone /\ done' = done
    BY <1>3 DEF CheckUndo, sagaVars
  <2>2. processor'.pc = "marking" => processor'.step = s /\ stepStatus[s] = "Completed"
    BY <1>1, <1>3 DEF CheckUndo, ProcessorState
  <2>3. processor'.pc # "executing"
    BY <1>1, <1>3 DEF CheckUndo, ProcessorState
  <2> QED
    BY <2>1, <2>2, <2>3 DEF IInv, StatusesHaveEffects
<1>4. CASE BeginUndo
  BY <1>1, <1>4 DEF BeginUndo, ProcessorState
<1>5. CASE UNCHANGED <<processor, undone>>
  BY <1>1, <1>2, <1>5
<1>6. CASE processor'.pc \notin {"marking", "executing"}
  BY <1>6
<1>7. \/ \E s \in Steps : CheckUndo(s)
      \/ BeginUndo
      \/ UNCHANGED <<processor, undone>>
      \/ processor'.pc \notin {"marking", "executing"}
  <2>1. CASE ProcessorStep \/ EndProcessor
    <3>1. TakeCompensation \/ BeginCompensation \/ UndoSucceeds \/ UndoFails \/ EndCompensation
          \/ ProcessAbort \/ EndProcessor
            => processor'.pc \notin {"marking", "executing"}
      BY <1>1 DEF TakeCompensation, BeginCompensation, UndoSucceeds, UndoFails, EndCompensation,
                  ProcessAbort, EndProcessor, ProcessorState
    <3> QED
      BY <2>1, <3>1 DEF ProcessorStep
  <2>2. CASE ~(ProcessorStep \/ EndProcessor)
    BY <2>2 DEF SagaNext, orchestratorVars, sagaVars, StartSaga, StarterStep, ReadReadySteps, BeginStep,
                CompleteStep, FailStep, RequestAfterFailure, EndRound, EnqueueAbort, AborterStep,
                TakeAbort, AbortSaga, RequestAfterAbort, CompensateSaga, CheckTimeouts
  <2> QED
    BY <2>1, <2>2
<1> QED
  BY <1>3, <1>4, <1>5, <1>6, <1>7

(* No interleaving of starts, aborts and compensations breaks the          *)
(* invariant.                                                              *)
THEOREM SagaInvariant == SagaSpec => []IInv
<1>1. SagaInit => IInv
  BY InitIInv
<1>2. IInv /\ [SagaNext]_orchestratorVars => IInv'
  BY TypeStep, RoundsStep, StatusesStep, ListedStep, UndoStep DEF IInv
<1> QED
  BY <1>1, <1>2, PTL DEF SagaSpec

-----------------------------------------------------------------------------
(* Each step of a call or of the processor is one of SagaOutcome, or only  *)
(* changes what is reported: a handler's success is Do, a compensation's   *)
(* is Undo.                                                                *)
LEMMA OutcomeStep ==
  ASSUME IInv, [SagaNext]_orchestratorVars
  PROVE  [Outcome!Next]_Outcome!vars
<1> USE DEF Outcome!Next, Outcome!vars, Outcome!Report
<1>1. /\ sagaStatus \in SagaStatus /\ stepStatus \in [Steps -> StepStatus]
      /\ done \in [Steps -> Nat] /\ undone \in [Steps -> Nat] /\ StatusesHaveEffects
  BY DEF IInv, SagaTypeOK
<1>2. ASSUME NEW c \in Starters, CompleteStep(c)
      PROVE  Outcome!Next
  <2> DEFINE s == starter[c].step
  <2>1. s \in Steps /\ \A d \in DependsOn[s] : done[d] > 0
    BY <1>2 DEF IInv, ListedStepsAreReady, DependenciesDone, CompleteStep
  <2>2. done' = [done EXCEPT ![s] = @ + 1] /\ undone' = undone
    BY <1>2 DEF CompleteStep
  <2>3. sagaStatus' = "Completed" /\ sagaStatus # "Completed" => \A u \in Steps : done'[u] > 0
    <3>1. HAVE sagaStatus' = "Completed" /\ sagaStatus # "Completed"
    <3>2. \A u \in Steps : IsTerminal(stepStatus'[u])
      BY <1>2, <3>1 DEF CompleteStep, IsComplete
    <3>3. StatusesHaveEffects'
      BY StatusesStep
    <3> QED
      BY <3>2, <3>3 DEF IsTerminal, StatusesHaveEffects
  <2>4. Outcome!Do(s)
    BY <2>1, <2>2, <2>3 DEF Outcome!Do
  <2> QED
    BY <2>1, <2>4
<1>3. CASE UndoSucceeds
  <2> DEFINE s == processor.step
  <2>1. s \in Steps /\ undone[s] < done[s]
    BY <1>3 DEF IInv, UndoIsOwed, UndoSucceeds
  <2>2. undone' = [undone EXCEPT ![s] = @ + 1] /\ done' = done /\ sagaStatus' = sagaStatus
    BY <1>3 DEF UndoSucceeds
  <2>3. Outcome!Undo(s)
    BY <2>1, <2>2 DEF Outcome!Undo
  <2> QED
    BY <2>1, <2>3
<1>4. CASE UNCHANGED <<done, undone>> /\ (sagaStatus' = "Completed" => sagaStatus = "Completed")
  BY <1>4
<1>5. \/ \E c \in Starters : CompleteStep(c)
      \/ UndoSucceeds
      \/ UNCHANGED <<done, undone>> /\ (sagaStatus' = "Completed" => sagaStatus = "Completed")
  BY DEF SagaNext, orchestratorVars, sagaVars, StartSaga, StarterStep, ReadReadySteps, BeginStep, FailStep,
         RequestAfterFailure, EndRound, EnqueueAbort, AborterStep, TakeAbort, AbortSaga,
         RequestAfterAbort, CompensateSaga, CheckTimeouts, ProcessorStep, TakeCompensation,
         BeginCompensation,
         CheckUndo, BeginUndo, UndoFails, EndCompensation, ProcessAbort, EndProcessor
<1> QED
  BY <1>2, <1>3, <1>4, <1>5

(* However starts, aborts and compensations overlap, a step takes effect   *)
(* only after those it depends on, no effect is undone twice, and only a   *)
(* saga whose every step has taken effect becomes Completed.               *)
THEOREM SagaImplementsOutcome == SagaSpec => ImplementsSagaOutcome
<1>1. SagaInit => Outcome!Init
  BY DEF SagaInit, Outcome!Init
<1>2. IInv /\ [SagaNext]_orchestratorVars => [Outcome!Next]_Outcome!vars
  BY OutcomeStep
<1> QED
  BY <1>1, <1>2, SagaInvariant, PTL DEF SagaSpec, ImplementsSagaOutcome, Outcome!Spec

-----------------------------------------------------------------------------
(* A request is used up only by a compensation that answers it.            *)
LEMMA RequestedStep ==
  ASSUME SagaTypeOK, SagaTypeOK', CompensationRequested, [SagaNext]_orchestratorVars
  PROVE  CompensationRequested'
<1> USE DEF CompensationRequested, Requested
<1>0. /\ compensationQueue \in Nat /\ stepStatus \in [Steps -> StepStatus]
      /\ starter \in [Starters -> StarterState] /\ processor \in ProcessorState
      /\ aborter \in [Aborters -> {"none", "aborting", "deciding", "enqueuing", "returned"}]
      /\ HasCompensation \subseteq Steps
  BY SagaAssumption DEF SagaTypeOK
<1>1. ASSUME NEW c \in Starters, StartSaga(c)
      PROVE  CompensationRequested'
  BY <1>1 DEF StartSaga
<1>2. ASSUME NEW c \in Starters, StarterStep(c)
      PROVE  CompensationRequested'
  <2>0. starter[c] \in StarterState
    BY <1>0
  <2>1. CASE ReadReadySteps(c) \/ EndRound(c)
    <3>1. \A x \in Starters : starter[x].pc = "enqueuing" => starter'[x].pc = "enqueuing"
      BY <1>0, <2>0, <2>1 DEF ReadReadySteps, EndRound, StarterState
    <3>2. UNCHANGED <<sagaStatus, stepStatus, late, compensationQueue, aborter, processor>>
      BY <2>1 DEF ReadReadySteps, EndRound, sagaVars, queueVars
    <3> QED
      BY <3>1, <3>2 DEF CompensationSteps
  <2>2. ASSUME NEW s \in Steps, BeginStep(c, s)
        PROVE  CompensationRequested'
    <3>1. \A x \in Starters : starter[x].pc = "enqueuing" => starter'[x].pc = "enqueuing"
      BY <1>0, <2>0, <2>2 DEF BeginStep, StarterState
    <3>2. CompensationSteps(stepStatus') \subseteq CompensationSteps(stepStatus)
      BY <1>0, <2>2 DEF BeginStep, CompensationSteps
    <3>3. UNCHANGED <<sagaStatus, late, compensationQueue, aborter, processor>>
      BY <2>2 DEF BeginStep, queueVars
    <3> QED
      BY <3>1, <3>2, <3>3
  <2>3. CASE CompleteStep(c)
    <3>1. \A x \in Starters : starter[x].pc = "enqueuing" => starter'[x].pc = "enqueuing"
      BY <1>0, <2>0, <2>3 DEF CompleteStep, StarterState
    <3>2. UNCHANGED <<compensationQueue, aborter, processor>>
      BY <2>3 DEF CompleteStep, queueVars
    <3>3. sagaStatus' \in {"Completed", sagaStatus}
      BY <2>3 DEF CompleteStep
    <3>4. sagaStatus = "Failed" =>
            CompensationSteps(stepStatus') \ late' \subseteq CompensationSteps(stepStatus) \ late
      BY <1>0, <2>3 DEF CompleteStep, CompensationSteps
    <3> QED
      BY <3>1, <3>2, <3>3, <3>4
  <2>4. CASE FailStep(c)
    <3> DEFINE s == starter[c].step
    <3>1. stepStatus' = [stepStatus EXCEPT ![s] = "Failed"] /\ UNCHANGED <<late, aborter, processor>>
      BY <2>4 DEF FailStep
    <3>2. \A x \in Starters : starter[x].pc = "enqueuing" => starter'[x].pc = "enqueuing"
      <4>1. starter[c].pc = "executing" /\ \A x \in Starters \ {c} : starter'[x] = starter[x]
        BY <1>0, <2>4 DEF FailStep
      <4> QED
        BY <4>1
    <3>3. CASE s \in TriggersCompensation
      <4>1. starter' = [starter EXCEPT ![c] = [@ EXCEPT !.pc = "enqueuing", !.step = NoStep]]
        BY <2>4, <3>3 DEF FailStep
      <4> QED
        BY <1>0, <2>0, <4>1 DEF StarterState
    <3>4. CASE s \in ContinuesOnFailure \ TriggersCompensation
      <4>1. UNCHANGED <<sagaStatus, compensationQueue>>
        BY <2>4, <3>4 DEF FailStep
      <4>2. CompensationSteps(stepStatus') \subseteq CompensationSteps(stepStatus)
        BY <1>0, <3>1 DEF CompensationSteps
      <4> QED
        BY <3>1, <3>2, <4>1, <4>2
    <3>5. CASE s \notin ContinuesOnFailure \union TriggersCompensation
      <4>1. sagaStatus' = "Failed"
            /\ (CompensationSteps(stepStatus') # {} => compensationQueue' = compensationQueue + 1)
        BY <2>4, <3>5 DEF FailStep, EnqueueCompensation
      <4> QED
        BY <1>0, <4>1 DEF CompensationSteps
    <3> QED
      BY <3>3, <3>4, <3>5
  <2>5. CASE RequestAfterFailure(c)
    BY <1>0, <2>5 DEF RequestAfterFailure, EnqueueCompensation
  <2> QED
    BY <1>2, <2>1, <2>2, <2>3, <2>4, <2>5 DEF StarterStep
<1>3. ASSUME NEW a \in Aborters, EnqueueAbort(a) \/ TakeAbort(a) \/ AbortSaga(a)
      PROVE  CompensationRequested'
  <2>1. UNCHANGED <<stepStatus, late, compensationQueue, starter, processor>>
    BY <1>3 DEF EnqueueAbort, TakeAbort, AbortSaga, sagaVars, queueVars
  <2>2. \A x \in Aborters : aborter[x] = "enqueuing" => aborter'[x] = "enqueuing"
    BY <1>0, <1>3 DEF EnqueueAbort, TakeAbort, AbortSaga
  <2>3. sagaStatus' = sagaStatus \/ \E x \in Aborters : aborter'[x] = "enqueuing"
    BY <1>0, <1>3 DEF EnqueueAbort, TakeAbort, AbortSaga, sagaVars
  <2> QED
    BY <2>1, <2>2, <2>3 DEF CompensationSteps
<1>4. ASSUME NEW a \in Aborters, RequestAfterAbort(a)
      PROVE  CompensationRequested'
  BY <1>0, <1>4 DEF RequestAfterAbort, EnqueueCompensation
<1>5. CASE CompensateSaga \/ CheckTimeouts
  BY <1>0, <1>5 DEF CompensateSaga, CheckTimeouts, EnqueueCompensation, sagaVars, CompensationSteps
<1>6. CASE ProcessorStep
  <2>1. UNCHANGED <<late, starter, aborter>>
    BY <1>6 DEF ProcessorStep, TakeCompensation, BeginCompensation, CheckUndo, BeginUndo,
                UndoSucceeds, UndoFails, EndCompensation, ProcessAbort, sagaVars
  <2>2. CASE TakeCompensation
    BY <1>0, <2>1, <2>2 DEF TakeCompensation, sagaVars, ProcessorState, CompensationSteps
  <2>3. CASE BeginCompensation
    BY <1>0, <2>1, <2>3 DEF BeginCompensation, MayCompensate, sagaVars, queueVars, ProcessorState
  <2>4. CASE (\E s \in Steps : CheckUndo(s)) \/ BeginUndo \/ UndoSucceeds \/ UndoFails
    BY <1>0, <2>4 DEF CheckUndo, BeginUndo, UndoSucceeds, UndoFails, ProcessorState
  <2>5. CASE EndCompensation
    BY <2>5 DEF EndCompensation
  <2>6. CASE ProcessAbort
    BY <1>0, <2>1, <2>6 DEF ProcessAbort, EnqueueCompensation, queueVars, ProcessorState,
                            CompensationSteps
  <2> QED
    BY <1>6, <2>2, <2>3, <2>4, <2>5, <2>6 DEF ProcessorStep
<1>7. CASE EndProcessor
  BY <1>0, <1>7 DEF EndProcessor, sagaVars, queueVars, ProcessorState, CompensationSteps
<1>8. CASE UNCHANGED orchestratorVars
  BY <1>8 DEF orchestratorVars, CompensationSteps
<1> QED
  BY <1>1, <1>2, <1>3, <1>4, <1>5, <1>6, <1>7, <1>8 DEF SagaNext, AborterStep

(* A saga with something to undo has a compensation queued, under way or   *)
(* about to be queued, unless a handler returned late (orchestrator.rs:616): *)
(* failures, aborts, restarts and refusals never use the last request up.  *)
THEOREM SagaKeepsItsRequests == SagaSpec => []CompensationRequested
<1>1. SagaInit => CompensationRequested
  BY DEF SagaInit, CompensationRequested
<1>2. SagaTypeOK /\ SagaTypeOK' /\ CompensationRequested /\ [SagaNext]_orchestratorVars => CompensationRequested'
  BY RequestedStep
<1>3. SagaSpec => []SagaTypeOK
  BY SagaInvariant, PTL DEF IInv
<1> QED
  BY <1>1, <1>2, <1>3, PTL DEF SagaSpec

-----------------------------------------------------------------------------
(* A step becomes ready only by the success of another, and then the call  *)
(* that ran that one has another round before it.                          *)
LEMMA NewlyReady ==
  ASSUME SagaTypeOK, [SagaNext]_orchestratorVars
  PROVE  ReadySteps' \subseteq ReadySteps \/ \E c \in Starters : CompleteStep(c)
<1>1. stepStatus \in [Steps -> StepStatus] /\ DependsOn \in [Steps -> SUBSET Steps]
  BY SagaAssumption DEF SagaTypeOK
<1>2. ASSUME NEW status \in StepStatus \ {"Pending", "Completed", "Skipped"}, NEW s,
             stepStatus' = [stepStatus EXCEPT ![s] = status]
      PROVE  ReadySteps' \subseteq ReadySteps
  BY <1>1, <1>2 DEF ReadySteps, StepStatus
<1>3. CASE UNCHANGED stepStatus
  BY <1>3 DEF ReadySteps
<1> QED
  BY <1>2, <1>3, EffectMoves
     DEF BeginStep, FailStep, BeginUndo, UndoSucceeds, UndoFails, StepStatus

(* A call returns only when it found no step ready, or has used its rounds, *)
(* or saw every step at its end.                                           *)
LEMMA ReturnsReadyless ==
  ASSUME SagaTypeOK, NEW c \in Starters, starter[c].pc # "returned", [SagaNext]_orchestratorVars,
         starter'[c].pc = "returned", starter'[c].rounds < MaxRounds
  PROVE  ReadySteps' = {}
<1>1. starter \in [Starters -> StarterState] /\ MaxRounds \in Nat
  BY SagaAssumption DEF SagaTypeOK
<1>2. ASSUME NEW x \in Starters, StartSaga(x) \/ StarterStep(x)
      PROVE  ReadReadySteps(c) \/ EndRound(c)
  <2>1. \A y \in Starters \ {x} : starter'[y] = starter[y]
    BY <1>1, <1>2 DEF StartSaga, StarterStep, ReadReadySteps, BeginStep, CompleteStep, FailStep,
                      RequestAfterFailure, EndRound
  <2>2. x = c
    BY <2>1
  <2>3. \A s \in Steps : ~BeginStep(c, s)
    <3>1. ASSUME NEW s \in Steps, BeginStep(c, s)
          PROVE  starter'[c].pc \in {"executing", starter[c].pc}
      <4>1. starter[c] \in StarterState
        BY <1>1
      <4> QED
        BY <1>1, <3>1, <4>1 DEF BeginStep, StarterState
    <3> QED
      BY <3>1
  <2>4. ~StartSaga(c) /\ ~CompleteStep(c) /\ ~FailStep(c) /\ ~RequestAfterFailure(c)
    BY <1>1 DEF StartSaga, CompleteStep, FailStep, RequestAfterFailure, StarterState
  <2> QED
    BY <1>2, <2>2, <2>3, <2>4 DEF StarterStep
<1>3. ReadReadySteps(c) \/ EndRound(c)
  BY <1>2, StarterMoves
<1>4. UNCHANGED stepStatus
  BY <1>3 DEF ReadReadySteps, EndRound, sagaVars
<1>5. CASE ReadReadySteps(c)
  <2>1. starter[c].rounds = MaxRounds \/ ReadySteps = {}
    BY <1>1, <1>5 DEF ReadReadySteps, StarterState
  <2>2. starter'[c].rounds = starter[c].rounds
    BY <1>1, <1>5 DEF ReadReadySteps, StarterState
  <2> QED
    BY <1>1, <1>4, <2>1, <2>2 DEF ReadySteps
<1>6. CASE EndRound(c)
  <2>1. IsComplete(stepStatus)
    BY <1>1, <1>6 DEF EndRound, StarterState
  <2> QED
    BY <1>4, <2>1 DEF IsComplete, IsTerminal, ReadySteps
<1> QED
  BY <1>3, <1>5, <1>6

(* While a step is ready some call has still to read the ready steps, or   *)
(* had no round left to do so: calls that overlap never each leave a step  *)
(* to the other. There must be a call at all.                              *)
THEOREM SagaRunsReadySteps ==
  ASSUME Starters # {}
  PROVE  SagaSpec => []ReadyStepsAreRun
<1>1. SagaInit => ReadyStepsAreRun
  BY DEF SagaInit, ReadyStepsAreRun
<1>2. SagaTypeOK /\ SagaTypeOK' /\ ReadyStepsAreRun /\ [SagaNext]_orchestratorVars => ReadyStepsAreRun'
  <2> SUFFICES ASSUME SagaTypeOK, SagaTypeOK', ReadyStepsAreRun, [SagaNext]_orchestratorVars,
                      \A c \in Starters :
                        starter'[c].pc = "returned" /\ starter'[c].rounds < MaxRounds
               PROVE  ReadySteps' = {}
    BY DEF ReadyStepsAreRun
  <2>1. CASE \E c \in Starters : starter[c].pc # "returned"
    BY <2>1, ReturnsReadyless
  <2>2. CASE \A c \in Starters : starter[c].pc = "returned"
    <3>1. UNCHANGED starter
      BY <2>2, StarterMoves DEF StartSaga, StarterStep, ReadReadySteps, BeginStep, CompleteStep,
         FailStep, RequestAfterFailure, EndRound
    <3>2. ReadySteps = {}
      BY <2>2, <3>1 DEF ReadyStepsAreRun
    <3>3. \A c \in Starters : ~CompleteStep(c)
      BY <2>2 DEF CompleteStep
    <3> QED
      BY <3>2, <3>3, NewlyReady
  <2> QED
    BY <2>1, <2>2
<1>3. SagaSpec => []SagaTypeOK
  BY SagaInvariant, PTL DEF IInv
<1> QED
  BY <1>1, <1>2, <1>3, PTL DEF SagaSpec
=============================================================================
