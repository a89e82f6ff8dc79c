------------------------------ MODULE Libraries ------------------------------
(***************************************************************************)
(* The parts of lion_concurrency, the isolation backend, lion_policy,      *)
(* lion_observability and the utilities of lion_core, each with the        *)
(* threads that call it.  They do not call one another: a behaviour uses   *)
(* the part it names.                                                      *)
(***************************************************************************)
EXTENDS Pools, Executor, Locks, Policy, Observability, Config

CONSTANTS
  CallsOf,     \* bound, of every part by its name: calls made of it
  Policies,    \* what the store of rules may hold at first, of the ids in use
  Called       \* bound: those whose store is called

ASSUME PoliciesAreRules ==
  \A held \in Policies :
    IsFiniteSet(DOMAIN held) /\ \A id \in DOMAIN held : held[id] # NoRule => IsRule(held[id])

VARIABLE part

poolVars == <<resourceVars, instanceVars>>

syncVars == <<lockVars, atomicVars>>

concurrentVars == <<poolVars, executorVars, syncVars, isolationVars>>

dataVars == <<policyVars, observabilityVars, configVars>>

vars == <<callVars, concurrentVars, dataVars, part>>

Init ==
  /\ part \in DOMAIN CallsOf
  /\ CallsInit
  /\ ResourceInit /\ InstanceInit /\ ExecutorInit /\ LocksInit /\ AtomicsInit /\ IsolationInit
  /\ ObservabilityInit /\ ConfigInit
  /\ PolicyInit(IF part = "policy" THEN Policies ELSE {<<>>})
  /\ part # "resources" => available = 0

Uses(name) == part = name /\ calls < CallsOf[name] /\ UNCHANGED part

Begin(t) ==
  \/ /\ Uses("resources") /\ ResourceCall(t)
     /\ UNCHANGED <<instanceVars, executorVars, syncVars, isolationVars, dataVars>>
  \/ /\ Uses("instances") /\ GetInstance(t)
     /\ UNCHANGED <<resourceVars, executorVars, syncVars, isolationVars, dataVars>>
  \/ /\ (Uses("executor") /\ ExecutorCall(t)) \/ (Uses("actors") /\ ActorCall(t))
     /\ UNCHANGED <<poolVars, syncVars, isolationVars, dataVars>>
  \/ /\ Uses("locks") /\ LockCall(t)
     /\ UNCHANGED <<poolVars, executorVars, atomicVars, isolationVars, dataVars>>
  \/ /\ Uses("atomics") /\ AtomicCall(t)
     /\ UNCHANGED <<poolVars, executorVars, lockVars, isolationVars, dataVars>>
  \/ /\ Uses("isolation") /\ IsolationCall(t)
     /\ UNCHANGED <<poolVars, executorVars, syncVars, dataVars>>
  \/ /\ Uses("policy") /\ (calls = 0 => rules \in Called) /\ PolicyCall(t)
     /\ UNCHANGED <<concurrentVars, observabilityVars, configVars>>
  \/ /\ Uses("telemetry") /\ ObservabilityCall(t)
     /\ UNCHANGED <<concurrentVars, policyVars, configVars>>
  \/ /\ Uses("config") /\ ConfigCall(t)
     /\ UNCHANGED <<concurrentVars, policyVars, observabilityVars>>

Continue(t) ==
  /\ UNCHANGED part
  /\ \/ /\ ResourceStep(t)
        /\ UNCHANGED <<instanceVars, executorVars, syncVars, isolationVars, dataVars>>
     \/ /\ ReturnInstance(t)
        /\ UNCHANGED <<resourceVars, executorVars, syncVars, isolationVars, dataVars>>
     \/ ExecutorStep(t) /\ UNCHANGED <<poolVars, syncVars, isolationVars, dataVars>>
     \/ LockStep(t) /\ UNCHANGED <<poolVars, executorVars, atomicVars, isolationVars, dataVars>>
     \/ AtomicStep(t) /\ UNCHANGED <<poolVars, executorVars, lockVars, isolationVars, dataVars>>
     \/ /\ PolicyStep(t)
        /\ UNCHANGED <<concurrentVars, observabilityVars, configVars>>
     \/ /\ ObservabilityStep(t)
        /\ UNCHANGED <<concurrentVars, policyVars, configVars>>

(* The workers of the pool in use; those of the other have nothing to do. *)
WorkerRuns(w) ==
  /\ part = PoolOf[w] /\ UNCHANGED part
  /\ Work(w)
  /\ UNCHANGED <<callVars, poolVars, syncVars, isolationVars, dataVars>>

TimePasses ==
  /\ part = "policy" /\ UNCHANGED part
  /\ Expire
  /\ UNCHANGED <<concurrentVars, observabilityVars, configVars>>

Next ==
  \/ \E t \in Caller : Begin(t) \/ Continue(t)
  \/ \E w \in Worker : WorkerRuns(w)
  \/ TimePasses

(* Calls are made as the threads please; a thread that has a task to send  *)
(* sends it when it can, and the workers run.                              *)
Fairness ==
  /\ \A t \in Caller : WF_vars(At(t, "send") /\ Continue(t))
  /\ \A w \in Worker : WF_vars(WorkerRuns(w))

Spec == Init /\ [][Next]_vars /\ Fairness
-----------------------------------------------------------------------------
(* The instance that is checked.  Two threads: enough for two creations    *)
(* that race past the maximum, a return that passes a shutdown, two        *)
(* readers that raise the maximum, and a queue of two tasks that is full,  *)
(* or not empty when its workers leave.                                    *)
MCCallsOf ==
  [p \in {"resources", "instances", "executor", "actors", "locks", "atomics", "isolation",
          "policy", "telemetry", "config"} |->
     CASE p \in {"executor", "locks", "policy", "config"} -> 3
       [] p \in {"actors", "telemetry"} -> 4
       [] OTHER -> 6]

MCPoolOf == ("w1" :> "executor") @@ ("w2" :> "executor") @@ ("w3" :> "actors")

(* A plugin that may log from level 2 on, whatever else it is allowed, one  *)
(* that may do nothing, and who has no plugin may log from level 1 on.      *)
MCAllowed ==
  LET Grant(plugin, kind, level) == [plugin |-> plugin, kind |-> kind, level |-> level]
  IN  <<Grant("p1", "log", 2), Grant("p1", "log", 1), Grant("p1", "tracing", 0),
        Grant("p1", "metrics", 0), Grant(Unknown, "log", 1)>>

MCShard == [p \in Author \cup {Unknown} |-> 1]

-----------------------------------------------------------------------------
(* Paths to keys and indices that exist or not, of a kind that fits or not, *)
(* and some that are not well-formed; versions with all that tells them     *)
(* apart, one with a number too large.                                      *)
MCNumeral == ("0" :> 0) @@ ("1" :> 1)

MCPaths ==
  {<<>>, <<"a">>, <<"b">>, <<"a", ".", "b">>, <<"a", "[", "0", "]">>, <<"a", "[", "1", "]">>,
   <<"a", "[", "1", "]", ".", "b">>, <<"a", "[", "b", "]">>, <<"b", "]">>, <<"b", "[", "0">>,
   <<".">>}

MCValues ==
  {Scalar("integer", 1), Scalar("float", 3), Map(<<"a">> :> Array(<<Null, Scalar("bool", 1)>>))}

MCInner == {Null, Scalar("bool", 1), Array(<<Null, Scalar("bool", 1)>>)}

MCVersions ==
  LET Word(n) == [numeric |-> FALSE, is |-> n]
      Numeric(n) == [numeric |-> TRUE, is |-> n]
      Of(v, prerelease, build) == [v EXCEPT !.prerelease = prerelease, !.build = build]
  IN  {Plain(0, 1, 0), Plain(0, 2, 0), Plain(1, 0, 0), Plain(1, 0, 1),
       Of(Plain(1, 0, 0), <<>>, <<"b">>)}
        \cup {Of(Plain(1, 0, 0), p, <<>>) :
               p \in {<<Word(1)>>, <<Word(1), Numeric(1)>>, <<Word(2)>>, <<Numeric(0)>>,
                      <<Numeric(2)>>, <<Numeric(4)>>}}

-----------------------------------------------------------------------------
(* The rules.  Of a subject, an object, an action and a priority the rules  *)
(* that tell the readers apart, and two that differ in priority and expiry. *)
MCTop == [p \in {"/srv/f", "/srvx"} |-> "/srv"] @@ ("/var/f" :> "/var") @@ ("/etc/f" :> "/etc")

MCBelow == ("/srv" :> {"/srv/f"}) @@ ("/var" :> {"/var/f"}) @@ ("/" :> DOMAIN MCTop)

MCPrefixed == ("/srv" :> {"/srv/f", "/srvx"}) @@ ("/var" :> {"/var/f"}) @@ ("/" :> DOMAIN MCTop)

PlainRules ==
  {Rule(AnySubject, o, a, 1, "never") :
     o \in {AnyObject, File("/"), File("/srv"), File("/var"), Network("*", "any")},
     a \in {"Allow", "Deny", "Audit", "AllowWithConstraints", "TransformToConstraints"}}

OtherRules ==
  LET Only == OnePlugin("p")
      Both == ManyPlugins({"p"})
  IN  {Rule(Only, Network("h", "80"), "Allow", 2, "never"),
       Rule(Both, File("/srv"), "Deny", 2, "later"),
       Rule(AnySubject, File("/srv"), "Allow", 3, "later"),
       Rule(AnySubject, File("/srv"), "Allow", 0, "past"),
       Rule(Only, File("/"), "Deny", 2, "never"),
       Rule(AnySubject, File("/srv"), "Deny", 0, "never")}

MCNewRules == {Rule(AnySubject, File("/srv"), "AllowWithConstraints", 2, "never")}

(* A rule and a better one that expires, one added. *)
MCCalled ==
  LET plain == Rule(AnySubject, File("/srv"), "Allow", 1, "never")
      better == Rule(ManyPlugins({"p"}), File("/srv"), "Deny", 2, "later")
  IN  {("r1" :> plain) @@ ("r2" :> better)}

MCPolicies ==
  MCCalled \cup
  {s \in [{"r1", "r2", "r3"} -> PlainRules \cup OtherRules \cup {NoRule}] :
     /\ s["r1"] # NoRule /\ s["r2"] # NoRule /\ s["r1"] # s["r2"]
     /\ s["r3"] \in {NoRule} \cup OtherRules
     /\ s["r3"] # NoRule => s["r2"] \in OtherRules}

MCRequest ==
  [kind : {"file"}, path : DOMAIN MCTop, write : BOOLEAN]
    \cup {[kind |-> "network", host |-> h, port |-> "80"] : h \in {"h", "i"}}

(* A request for a file, and a custom one that calls itself one. *)
MCAsked ==
  {[kind |-> "file", path |-> "/srv/f", write |-> FALSE],
   [kind |-> "custom", type |-> "file", operation |-> "o"]}
=============================================================================
