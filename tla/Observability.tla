---------------------------- MODULE Observability ----------------------------
(***************************************************************************)
(* lion_observability: the context that a thread runs under (context.rs),  *)
(* which names the plugin that the loggers, tracers and registries ask     *)
(* about (capability.rs); the logger that buffers what the plugin may not  *)
(* log (logging.rs); and the metrics (metrics.rs), each with a value of    *)
(* its own and one that is exported under its name.  What has no effect    *)
(* but its output is left out: the lines of the simple logger, and spans,  *)
(* which no tracer records.                                                *)
(***************************************************************************)
EXTENDS RuntimeCalls, SequencesExt

CONSTANTS
  Author,       \* the plugins
  Unknown,      \* the plugin of a context without one, "unknown" to the checks
  Allowed,      \* allowed_capabilities: plugin, kind, and level of a log
  Level,        \* log levels, from the most verbose
  Shard,        \* the shard of the buffer that keeps the events of a plugin
  MaxBuffer     \* max_buffer_size

ASSUME BufferHasSize == MaxBuffer \in Nat

ASSUME AuthorsAreFinite == IsFiniteSet(Author)

VARIABLES
  context,      \* of every thread: the current context
  outside,      \* of every thread: what was last set outside of all with_current
  scopes,       \* of every thread: the calls of with_current under way
  leaks,        \* of every thread: the depths at which a panic was caught
  entries,      \* the plugins that have an entry in the buffer
  buffer,       \* of every plugin: the events that wait
  accepted, written, lost,  \* the events that were answered with Ok
  metrics,      \* the handles: kind and own value
  exported,     \* the value of the only counter, and of the only gauge
  exporter      \* the gauge that was exported last, and those set by two at once

contextVars == <<context, outside, scopes, leaks>>

logVars == <<entries, buffer, accepted, written, lost>>

metricVars == <<metrics, exported, exporter>>

observabilityVars == <<contextVars, logVars, metricVars>>

(* A context names a plugin and is so many spans deep. *)
Context(plugin, spans) == [plugin |-> plugin, spans |-> spans]

NoContext == Context(Unknown, 0)

ObservabilityInit ==
  /\ context = [t \in Caller |-> NoContext]
  /\ outside = [t \in Caller |-> NoContext]
  /\ scopes = [t \in Caller |-> <<>>]
  /\ leaks = [t \in Caller |-> {}]
  /\ entries = {}
  /\ buffer = [p \in Author \cup {Unknown} |-> <<>>]
  /\ accepted = 0 /\ written = 0 /\ lost = 0
  /\ metrics = <<>>
  /\ exported = [kind \in {"counter", "gauge"} |-> 0]
  /\ exporter = [last |-> 0, raced |-> {}]

(* SelectiveCapabilityChecker: of the levels allowed to a plugin the first *)
(* decides.                                                                *)
check_capability(plugin, kind, level) ==
  LET found == SelectSeq(Allowed, LAMBDA a : a.plugin = plugin /\ a.kind = kind)
  IN  found # <<>> /\ (kind = "log" => level >= found[1].level)

-----------------------------------------------------------------------------
(* Contexts.  set_current, inside of a with_current or outside of all: it  *)
(* mends what a panic left.                                                *)
SetCurrent(t) ==
  /\ CallAtOnce(t)
  /\ \E c \in {Context(p, 0) : p \in Author} \cup {NoContext} :
       /\ context' = [context EXCEPT ![t] = c]
       /\ IF scopes[t] = <<>>
            THEN outside' = [outside EXCEPT ![t] = c] /\ UNCHANGED scopes
            ELSE /\ scopes' = [scopes EXCEPT
                      ![t] = Append(Front(@), [kept |-> Last(@).kept, entered |-> c])]
                 /\ UNCHANGED outside
  /\ leaks' = [leaks EXCEPT ![t] = @ \ {Len(scopes[t])}]

(* with_current keeps the current context, sets its own, runs the function *)
(* and sets what it kept; it does nothing when the function panics.        *)
Enter(t, entered) ==
  /\ CallAtOnce(t)
  /\ context' = [context EXCEPT ![t] = entered]
  /\ scopes' = [scopes EXCEPT ![t] = Append(@, [kept |-> context[t], entered |-> entered])]
  /\ UNCHANGED <<outside, leaks>>

(* with_current of the context of a plugin (create_context), and with_none. *)
WithCurrent(t) ==
  \/ \E p \in Author : Enter(t, Context(p, 1))
  \/ Enter(t, NoContext)

(* with_span of a plugin, and that of CapabilityTracer, which looks for    *)
(* the plugin in the context.                                              *)
WithSpan(t) ==
  \/ \E p \in Author :
       check_capability(p, "tracing", 0) /\ Enter(t, Context(p, context[t].spans + 1))
  \/ /\ check_capability(context[t].plugin, "tracing", 0)
     /\ Enter(t, Context(context[t].plugin, context[t].spans + 1))

(* Mutant: the context is cleared. *)
LeaveContextToNone(t) ==
  /\ scopes[t] # <<>> /\ At(t, "idle") /\ Return(t)
  /\ context' = [context EXCEPT ![t] = NoContext]
  /\ scopes' = [scopes EXCEPT ![t] = Front(@)]
  /\ leaks' = [leaks EXCEPT ![t] = @ \ {Len(scopes[t])}]
  /\ UNCHANGED outside

LeaveContext(t) ==
  /\ scopes[t] # <<>> /\ At(t, "idle") /\ Return(t)
  /\ context' = [context EXCEPT ![t] = Last(scopes[t]).kept]
  /\ scopes' = [scopes EXCEPT ![t] = Front(@)]
  /\ leaks' = [leaks EXCEPT ![t] = @ \ {Len(scopes[t])}]
  /\ UNCHANGED outside

(* The function panics and one of its callers goes on, as the worker of a  *)
(* thread pool does.                                                       *)
Panic(t) ==
  /\ At(t, "idle") /\ Return(t)
  /\ \E depth \in 0..Len(scopes[t]) - 1 :
       /\ scopes' = [scopes EXCEPT ![t] = SubSeq(@, 1, depth)]
       /\ leaks' = [leaks EXCEPT ![t] = (@ \cap 0..depth) \cup {depth}]
  /\ UNCHANGED <<context, outside>>

ContextStep(t) == (LeaveContext(t) \/ Panic(t)) /\ UNCHANGED <<logVars, metricVars>>
-----------------------------------------------------------------------------
(* BufferedLogger around CapabilityLogger.  The buffer is a DashMap: who   *)
(* walks through it holds the shard of the entry, and who changes an entry *)
(* waits for its shard.                                                    *)
Walks(t, shard) == At(t, "walking") /\ Shard[caller[t].plugin] = shard

ShardFree(plugin) == \A u \in Caller : ~Walks(u, Shard[plugin])

MayLog(t, level) == check_capability(context[t].plugin, "log", level)

(* An event is made and logged under the current context. *)
Log(t) ==
  /\ \E level \in Level :
       IF MayLog(t, level)
         THEN CallAtOnce(t) /\ accepted' = accepted + 1 /\ written' = written + 1
         ELSE /\ Call(t, [pc |-> "buffer", plugin |-> context[t].plugin, level |-> level])
              /\ UNCHANGED <<accepted, written>>
  /\ UNCHANGED <<entries, buffer, lost>>

(* A full buffer drops the event, and says so; the entry is there in any   *)
(* case.                                                                   *)
Buffer(t) ==
  /\ At(t, "buffer") /\ ShardFree(caller[t].plugin)
  /\ LET c == caller[t]
         room == Len(buffer[c.plugin]) < MaxBuffer
     IN  /\ buffer' = IF room THEN [buffer EXCEPT ![c.plugin] = Append(@, c.level)] ELSE buffer
         /\ accepted' = IF room THEN accepted + 1 ELSE accepted
         /\ entries' = entries \cup {c.plugin}
  /\ Return(t)
  /\ UNCHANGED <<written, lost>>

(* flush_plugin removes the events and logs one after the other under the  *)
(* context of its caller; at the first that is refused it ends.            *)
FlushPlugin(t) ==
  /\ \E p \in entries :
       /\ ShardFree(p)
       /\ Call(t, [pc |-> "flush", events |-> buffer[p]])
       /\ buffer' = [buffer EXCEPT ![p] = <<>>]
       /\ entries' = entries \ {p}
  /\ UNCHANGED <<accepted, written, lost>>

FlushNext(t) ==
  /\ At(t, "flush")
  /\ LET events == caller[t].events
     IN  IF events = <<>> THEN Return(t) /\ UNCHANGED <<written, lost>>
         ELSE IF MayLog(t, Head(events))
           THEN /\ Goto(t, [pc |-> "flush", events |-> Tail(events)])
                /\ written' = written + 1
                /\ UNCHANGED lost
           ELSE Return(t) /\ lost' = lost + Len(events) /\ UNCHANGED written
  /\ UNCHANGED <<entries, buffer, accepted>>

(* flush_all, and shutdown with it, walks through the buffer and flushes   *)
(* the plugin of every entry, which it removes under the shard it holds:   *)
(* at the first entry it waits for itself.                                 *)
FlushAll(t) ==
  /\ IF entries = {}
       THEN CallAtOnce(t)
       ELSE \E p \in entries : Call(t, [pc |-> "walking", plugin |-> p, found |-> buffer[p]])
  /\ UNCHANGED logVars

LogStep(t) == (Buffer(t) \/ FlushNext(t)) /\ UNCHANGED <<contextVars, metricVars>>
-----------------------------------------------------------------------------
(* Metrics.  Everything is registered under one name and exported without  *)
(* labels: the counters share a value, and so do the gauges.               *)

(* counter and gauge of a plugin, and of CapabilityMetricsRegistry: "create *)
(* or get" always creates.                                                  *)
CreateMetric(t) ==
  /\ \E p \in Author \cup {context[t].plugin}, kind \in DOMAIN exported :
       /\ check_capability(p, "metrics", 0)
       /\ metrics' = Append(metrics, [kind |-> kind, value |-> 0])
  /\ CallAtOnce(t)
  /\ UNCHANGED <<exported, exporter>>

Handles(kind) == {h \in DOMAIN metrics : metrics[h].kind = kind}

Export(kind, value) == exported' = [exported EXCEPT ![kind] = value]

(* A counter is incremented in two steps. *)
CountUp(t) ==
  /\ \E h \in Handles("counter") :
       /\ metrics' = [metrics EXCEPT ![h].value = @ + 1]
       /\ Call(t, [pc |-> "export_count"])
  /\ UNCHANGED <<exported, exporter>>

ExportCount(t) ==
  /\ At(t, "export_count") /\ Return(t)
  /\ Export("counter", exported["counter"] + 1)
  /\ UNCHANGED <<metrics, exporter>>

Setting(h) == {t \in Caller : At(t, "export_gauge") /\ caller[t].handle = h}

RacedBy(h) == IF Setting(h) # {} THEN exporter.raced \cup {h} ELSE exporter.raced

(* Setting a gauge leaves its lock before the value is exported. *)
SetGauge(t) ==
  /\ \E h \in Handles("gauge"), value \in {1, 2} :
       /\ metrics' = [metrics EXCEPT ![h].value = value]
       /\ Call(t, [pc |-> "export_gauge", handle |-> h, value |-> value])
       /\ exporter' = [exporter EXCEPT !.raced = RacedBy(h)]
  /\ UNCHANGED exported

ExportGauge(t) ==
  /\ At(t, "export_gauge") /\ Return(t)
  /\ Export("gauge", caller[t].value)
  /\ exporter' = [exporter EXCEPT !.last = caller[t].handle]
  /\ UNCHANGED metrics

(* increment and decrement export under the lock of the gauge. *)
AddToGauge(t) ==
  /\ \E h \in Handles("gauge") :
       LET value == metrics[h].value + 1
       IN  /\ metrics' = [metrics EXCEPT ![h].value = value]
           /\ Export("gauge", value)
           /\ exporter' = [last |-> h, raced |-> RacedBy(h)]
  /\ CallAtOnce(t)

MetricStep(t) == (ExportCount(t) \/ ExportGauge(t)) /\ UNCHANGED <<contextVars, logVars>>
-----------------------------------------------------------------------------
ObservabilityCall(t) ==
  \/ (SetCurrent(t) \/ WithCurrent(t) \/ WithSpan(t)) /\ UNCHANGED <<logVars, metricVars>>
  \/ (Log(t) \/ FlushPlugin(t) \/ FlushAll(t)) /\ UNCHANGED <<contextVars, metricVars>>
  \/ (CreateMetric(t) \/ CountUp(t) \/ SetGauge(t) \/ AddToGauge(t))
       /\ UNCHANGED <<contextVars, logVars>>

ObservabilityStep(t) == ContextStep(t) \/ LogStep(t) \/ MetricStep(t)
-----------------------------------------------------------------------------
(* Properties. *)

Entered(t) == IF scopes[t] = <<>> THEN outside[t] ELSE Last(scopes[t]).entered

(* A thread runs under what was last set where it is: by the innermost      *)
(* with_current that it is in, by a set_current in there, or, outside of    *)
(* them all, by a set_current out there (none, when there was none),        *)
(* whatever the functions called since have set (the test at                *)
(* context.rs:331).  Except where a panic was caught: with_current has no   *)
(* guard (context.rs:242), and until the next set_current the thread passes *)
(* for the plugin of the function that panicked.                            *)
ContextsRestored == \A t \in Caller : Len(scopes[t]) \notin leaks[t] => context[t] = Entered(t)

InFlush(t) == IF At(t, "flush") THEN Len(caller[t].events) ELSE 0

Sum(f) == FoldFunction(+, 0, f)

(* Every event that the logger took was written, waits, or was lost by a    *)
(* flush that was refused (logging.rs:443); no plugin has more waiting than *)
(* the buffer holds; and what flush_all and shutdown find there stays       *)
(* there for ever (logging.rs:451).                                         *)
EventsAccounted ==
  /\ accepted = written + lost + Sum([p \in DOMAIN buffer |-> Len(buffer[p])])
                  + Sum([t \in Caller |-> InFlush(t)])
  /\ \A p \in DOMAIN buffer : Len(buffer[p]) <= MaxBuffer
  /\ \A t \in Caller : At(t, "walking") => buffer[caller[t].plugin] = caller[t].found

(* The exported counter is the sum of the counters of its name but for the  *)
(* increments under way; the exported gauge is the value of the gauge that  *)
(* was exported last, whatever the others hold (metrics.rs:289), but for a  *)
(* set under way and after two that overlapped (metrics.rs:451).            *)
MetricsAgree ==
  /\ Sum([h \in Handles("counter") |-> metrics[h].value])
       = exported["counter"] + Cardinality({t \in Caller : At(t, "export_count")})
  /\ LET h == exporter.last
     IN  h # 0 /\ Setting(h) = {} /\ h \notin exporter.raced
           => exported["gauge"] = metrics[h].value

(* What the observability of a plugin says is what happened. *)
TelemetryKept == ContextsRestored /\ EventsAccounted /\ MetricsAgree
=============================================================================
