------------------------------- MODULE Policy -------------------------------
(***************************************************************************)
(* lion_policy: what a set of rules says of a request, and the store the   *)
(* rules are in.  Four readers decide: the evaluator                       *)
(* (engine/evaluator.rs), the constraint resolver                          *)
(* (integration/resolver.rs), the capability mapper                        *)
(* (integration/mapper.rs) and the aggregator (engine/aggregator.rs),      *)
(* which merges rules.  File, network and custom objects stand for all     *)
(* kinds.                                                                  *)
(* Rules come from a hash map and are sorted by priority alone: rules of   *)
(* one priority are read in any order, and an operator answers with the    *)
(* set of what the code may answer.                                        *)
(*                                                                         *)
(* The store (store/in_memory.rs) is a concurrent map: add_rule and        *)
(* update_rule look for the id and then insert, and a list of rules is     *)
(* read shard by shard while they change.  The evaluator and the resolver  *)
(* cache what they answer and are used by one thread at a time (&mut       *)
(* self); there is one of each.                                            *)
(***************************************************************************)
EXTENDS RuntimeCalls, FiniteSets, SequencesExt

CONSTANTS
  Below,      \* of a path: the paths that begin with its components
  Prefixed,   \* of a path: the paths whose string begins with it
  Top,        \* of a path: "/tmp", "/etc", "/var" or another directory
  AnyPort     \* a network object that names no port

(* Rules, their subjects and their objects. *)
Rule(subject, object, action, priority, expiry) ==
  [subject |-> subject, object |-> object, action |-> action,
   constraints |-> IF action \in {"Allow", "Deny", "Audit"} THEN {} ELSE {"k"},
   priority |-> priority, expiry |-> expiry]

AnySubject == [kind |-> "any", ids |-> {}]

OnePlugin(p) == [kind |-> "plugin", ids |-> {p}]

ManyPlugins(ids) == [kind |-> "plugins", ids |-> ids]

AnyObject == [kind |-> "any"]

File(path) == [kind |-> "file", path |-> path]

Network(host, port) == [kind |-> "network", host |-> host, port |-> port]

Custom(type, value) == [kind |-> "custom", type |-> type, value |-> value]

is_expired(rule) == rule.expiry = "past"

(* PluginName, PluginTag and PluginRole match no plugin. *)
names(subject, plugin) ==
  subject.kind = "any" \/ (subject.kind = "plugin" /\ plugin \in subject.ids)

lists(subject, plugin) == subject.kind = "plugins" /\ plugin \in subject.ids

host_matches(object, request) ==
  /\ object.host \in {"*", request.host}
  /\ object.port \in {AnyPort, request.port}

object_matches(object, request) ==
  \/ object.kind = "any"
  \/ /\ object.kind = request.kind
     /\ CASE request.kind = "file"   -> request.path \in Below[object.path]
          [] request.kind = "custom" -> /\ object.type = request.type
                                        /\ object.value = request.operation
          [] OTHER                   -> host_matches(object, request)

(* Mutant: rules that have expired still apply. *)
RelevantForEver(rule, plugin, request) ==
  /\ names(rule.subject, plugin) \/ lists(rule.subject, plugin)
  /\ object_matches(rule.object, request)

(* get_relevant_policies *)
relevant(rule, plugin, request) ==
  /\ ~is_expired(rule)
  /\ names(rule.subject, plugin) \/ lists(rule.subject, plugin)
  /\ object_matches(rule.object, request)

(* The resolver looks at the kind of the object only, *)
same_kind(rule, plugin, request) ==
  names(rule.subject, plugin) /\ rule.object.kind \in {"any", request.kind}

(* and the mapper compares a path as a string and no host at all. *)
string_matches(rule, plugin, request) ==
  /\ same_kind(rule, plugin, request)
  /\ rule.object.kind = "file" => request.path \in Prefixed[rule.object.path]

-----------------------------------------------------------------------------
Allow == <<"Allow", {}>>
Deny == <<"Deny", {}>>
NoPolicy == <<"NoPolicy", {}>>
Next_rule == <<"next", {}>>     \* the rule does not decide

AllowWithConstraints(rule) == <<"AllowWithConstraints", rule.constraints>>

Constrains(rule) == rule.action \in {"AllowWithConstraints", "TransformToConstraints"}

(* EvaluationResult::from; an audit is passed over. *)
result_of(rule) ==
  CASE rule.action = "Allow" -> Allow
    [] rule.action = "Deny"  -> Deny
    [] rule.action = "Audit" -> Next_rule
    [] OTHER                 -> AllowWithConstraints(rule)

Sorted(found) ==
  {s \in SetToSeqs(found) : \A i, j \in DOMAIN s : i < j => s[i].priority >= s[j].priority}

(* The result of the first rule that decides, or Deny. *)
FirstDecision(s, results) ==
  LET decide == {i \in DOMAIN s : results[s[i]] # Next_rule}
  IN  IF decide = {} THEN Deny ELSE results[s[Min(decide)]]

(* Every rule that was found has a result. *)
Decisions(results) ==
  IF DOMAIN results = {} THEN {NoPolicy}
  ELSE {FirstDecision(s, results) : s \in Sorted(DOMAIN results)}

(* PolicyEvaluator::evaluate without its cache. *)
evaluate(found) == Decisions([rule \in found |-> result_of(rule)])

is_allowed(result) == result[1] \in {"Allow", "AllowWithConstraints"}

AllowReadOnly == <<"AllowWithConstraints", {"file_operation:read=true,write=false,execute=false"}>>

(* ConstraintResolver::evaluate answers for three directories whatever the *)
(* rule's object is; elsewhere a rule to allow decides only when it is for *)
(* a file and the path begins with its string.                             *)
Resolved(rule, request) ==
  LET file == request.kind = "file"
      top == IF file THEN Top[request.path] ELSE "none"
      writes == file /\ request.write
      covers == file /\ rule.object.kind = "file" /\ request.path \in Prefixed[rule.object.path]
  IN  CASE rule.action = "Allow" -> IF top = "/tmp" \/ covers THEN Allow ELSE Next_rule
        [] rule.action = "Audit" -> Next_rule
        [] rule.action = "Deny"  ->
             IF top = "/tmp" THEN Allow
             ELSE IF top = "/var" /\ ~writes
             THEN AllowReadOnly
             ELSE Deny
        [] Constrains(rule) ->
             IF top = "/etc" /\ (covers \/ rule.action = "AllowWithConstraints") THEN Deny
             ELSE IF top = "/tmp" THEN Allow
             ELSE IF top = "/var" /\ writes /\ covers THEN Deny
             ELSE IF rule.object.kind = "any" \/ covers THEN AllowWithConstraints(rule)
             ELSE Next_rule

resolve(found, request) == Decisions([rule \in found |-> Resolved(rule, request)])

(* ConstraintResolver::get_constraints without its cache. *)
get_constraints(found) == UNION {rule.constraints : rule \in {x \in found : Constrains(x)}}

(* CapabilityMapper::is_allowed_by_policy: no rule is a no. *)
is_allowed_by_policy(found) == {is_allowed(result) : result \in evaluate(found)}

Key(rule) == <<rule.subject, rule.object, rule.action, rule.constraints>>

(* Mutant: the rule with the lowest priority is kept. *)
MergeLowest(all) ==
  {kept \in SUBSET all :
     /\ \A rule \in all : Cardinality({x \in kept : Key(x) = Key(rule)}) = 1
     /\ \A x \in kept, rule \in all : Key(x) = Key(rule) => x.priority <= rule.priority}

(* One rule of every subject, object and action: one with the highest      *)
(* priority, expired or not.                                               *)
merge_policies(all) ==
  {kept \in SUBSET all :
     /\ \A rule \in all : Cardinality({x \in kept : Key(x) = Key(rule)}) = 1
     /\ \A x \in kept, rule \in all : Key(x) = Key(rule) => x.priority >= rule.priority}
-----------------------------------------------------------------------------
(* The store, and the caches. *)

CONSTANTS
  NoRule,       \* no entry in the map
  NewRules,     \* bound: the rules that are added, or replace another
  Asker,        \* the plugins that ask
  Request,      \* what they may ask for a file or the network
  Asked         \* bound: what they ask for in a behaviour

IsRule(rule) ==
  /\ {"subject", "object", "action", "constraints", "priority", "expiry"} \subseteq DOMAIN rule
  /\ rule.subject.kind \in {"any", "plugin", "plugins"}
  /\ rule.object.kind \in {"any", "file", "network", "custom"}
  /\ rule.action \in {"Allow", "Deny", "Audit", "AllowWithConstraints", "TransformToConstraints"}
  /\ rule.priority \in Nat

ASSUME NewRulesAreRules == \A rule \in NewRules : IsRule(rule)

ASSUME RequestsHaveKinds == \A r \in Request : r.kind \in {"file", "network"}

VARIABLES
  rules,      \* the store
  cached,     \* evaluation_cache and constraint_cache: what was answered
  moments,    \* what the store has held since each cache was cleared
  unsettled,  \* the entries answered from rules that changed while listed
  removed     \* the ids that remove_rule took out and none has added since

policyVars == <<rules, cached, moments, unsettled, removed>>

RuleId == DOMAIN rules

Reader == {"evaluator", "resolver"}

Query == [reader : Reader, plugin : Asker, request : Asked]

request_type(request) == IF request.kind = "custom" THEN request.type ELSE request.kind

(* The evaluator caches by request, the resolver by the word for the type   *)
(* of request: a custom request of the type "file" shares the entry of the  *)
(* requests for files.                                                      *)
cache_key(q) ==
  IF q.reader = "evaluator" THEN q
  ELSE [reader |-> q.reader, plugin |-> q.plugin, type |-> request_type(q.request)]

CacheKeys == {cache_key(q) : q \in Query}

NoAnswer == <<>>

PolicyInit(policies) ==
  /\ rules \in policies
  /\ cached = [e \in CacheKeys |-> NoAnswer]
  /\ moments = [reader \in Reader |-> {rules}]
  /\ unsettled = {} /\ removed = {}

Listing(reader) == {t \in Caller : At(t, "listing") /\ caller[t].query.reader = reader}

(* The store changes under the readers. *)
Change(new) ==
  /\ rules' = new
  /\ moments' = [reader \in Reader |-> moments[reader] \cup {new}]
  /\ unsettled' =
       unsettled \cup {cache_key(caller[t].query) : t \in {u \in Caller : At(u, "listing")}}
  /\ UNCHANGED cached

(* add_rule and update_rule up to the look at the map; an add of a removed *)
(* id is allowed to bring it back.                                         *)
AddRule(t) ==
  /\ \E id \in RuleId, rule \in NewRules :
       /\ Call(t, IF rules[id] # NoRule THEN Idle
                  ELSE [pc |-> "insert", id |-> id, rule |-> rule])
       /\ removed' = removed \ {id}
  /\ UNCHANGED <<rules, cached, moments, unsettled>>

UpdateRule(t) ==
  /\ \E id \in RuleId, rule \in NewRules :
       Call(t, IF rules[id] = NoRule THEN Idle
               ELSE [pc |-> "insert", id |-> id, rule |-> rule])
  /\ UNCHANGED policyVars

InsertRule(t) ==
  /\ At(t, "insert")
  /\ Change([rules EXCEPT ![caller[t].id] = caller[t].rule])
  /\ Return(t)
  /\ UNCHANGED removed

Inserting(id) == \E t \in Caller : At(t, "insert") /\ caller[t].id = id

(* An insert that is on its way puts the rule back. *)
RemoveRule(t) ==
  /\ CallAtOnce(t)
  /\ \E id \in RuleId :
       /\ rules[id] # NoRule
       /\ Change([rules EXCEPT ![id] = NoRule])
       /\ removed' = IF Inserting(id) THEN removed ELSE removed \cup {id}

(* clear_rules empties one shard after the other. *)
ClearRules(t) == Call(t, [pc |-> "clear", todo |-> RuleId]) /\ UNCHANGED policyVars

ClearRule(t) ==
  /\ At(t, "clear")
  /\ \E id \in caller[t].todo :
       /\ Change([rules EXCEPT ![id] = NoRule])
       /\ Goto(t, IF caller[t].todo = {id} THEN Idle
                  ELSE [pc |-> "clear", todo |-> caller[t].todo \ {id}])
  /\ UNCHANGED removed

(* The time that a rule was to last is over. *)
Expire ==
  /\ \E id \in RuleId :
       /\ rules[id] # NoRule
       /\ rules[id].expiry = "later"
       /\ Change([rules EXCEPT ![id] = [@ EXCEPT !.expiry = "past"]])
  /\ UNCHANGED <<removed, callVars>>

(* evaluate and get_constraints look in the cache first. *)
Ask(t) ==
  /\ \E q \in Query :
       /\ Listing(q.reader) = {}
       /\ Call(t, IF cached[cache_key(q)] # NoAnswer THEN Idle
                  ELSE [pc |-> "listing", query |-> q, todo |-> RuleId, found |-> {}])
  /\ UNCHANGED policyVars

Matches(rule, q) ==
  IF q.reader = "evaluator" THEN relevant(rule, q.plugin, q.request)
  ELSE same_kind(rule, q.plugin, q.request)

ListRule(t) ==
  /\ At(t, "listing")
  /\ \E id \in caller[t].todo :
       LET rule == rules[id]
           new == IF rule # NoRule /\ Matches(rule, caller[t].query) THEN {rule} ELSE {}
       IN  Goto(t, [caller[t] EXCEPT !.todo = @ \ {id}, !.found = @ \cup new])
  /\ UNCHANGED policyVars

Answers(found, q) ==
  IF q.reader = "evaluator" THEN evaluate(found)
  ELSE {<<"constraints", get_constraints(found)>>}

Answer(t) ==
  /\ At(t, "listing") /\ caller[t].todo = {}
  /\ \E answer \in Answers(caller[t].found, caller[t].query) :
       cached' = [cached EXCEPT ![cache_key(caller[t].query)] = answer]
  /\ Return(t)
  /\ UNCHANGED <<rules, moments, unsettled, removed>>

ClearCache(t) ==
  /\ CallAtOnce(t)
  /\ \E reader \in Reader :
       /\ Listing(reader) = {}
       /\ cached' = [e \in CacheKeys |-> IF e.reader = reader THEN NoAnswer ELSE cached[e]]
       /\ moments' = [moments EXCEPT ![reader] = {rules}]
       /\ unsettled' = {e \in unsettled : e.reader # reader}
  /\ UNCHANGED <<rules, removed>>

PolicyCall(t) ==
  \/ AddRule(t) \/ UpdateRule(t) \/ RemoveRule(t) \/ ClearRules(t) \/ Ask(t) \/ ClearCache(t)

PolicyStep(t) == InsertRule(t) \/ ClearRule(t) \/ ListRule(t) \/ Answer(t)
-----------------------------------------------------------------------------
(* Properties. *)

InForce(held) == {held[id] : id \in {i \in DOMAIN held : held[i] # NoRule}}

(* A rule that the rules in force at one moment leave to decide: no rule    *)
(* that decides comes before it.                                            *)
Right(held, q) ==
  IF q.reader = "resolver"
    THEN {<<"constraints",
            UNION {x.constraints : x \in {y \in InForce(held) :
                     Constrains(y) /\ same_kind(y, q.plugin, q.request)}}>>}
    ELSE LET apply  == {x \in InForce(held) :
                          /\ x.expiry # "past"
                          /\ x.subject.kind = "any" \/ q.plugin \in x.subject.ids
                          /\ object_matches(x.object, q.request)}
             decide == {x \in apply : x.action # "Audit"}
         IN  IF apply = {} THEN {NoPolicy}
             ELSE IF decide = {} THEN {Deny}
             ELSE {result_of(x) : x \in {y \in decide :
                                           \A z \in decide : z.priority <= y.priority}}

(* What the evaluator and the resolver go on answering from their caches    *)
(* (evaluator.rs:68) was right for the rules in force at one moment since   *)
(* the cache was cleared, unless the rules changed while they were listed:  *)
(* a rule that expires, is removed or is added later changes no answer.     *)
(* It was right for a request with that entry, if not for the one asked: a  *)
(* file and a custom request of the type "file" get each other's            *)
(* constraints (resolver.rs:70).                                            *)
(* And a rule that was removed is not back until add_rule is called for it, *)
(* unless an insert was on its way when it was removed (in_memory.rs:66).   *)
AnswersWereRight ==
  /\ \A e \in CacheKeys \ unsettled :
       cached[e] # NoAnswer =>
         \E held \in moments[e.reader], q \in Query :
           cache_key(q) = e /\ cached[e] \in Right(held, q)
  /\ \A id \in removed : rules[id] = NoRule

(* The rules that every reader understands alike. *)
Plainly(rule) ==
  /\ ~is_expired(rule) /\ rule.subject.kind \in {"any", "plugin"}
  /\ rule.object.kind = "file" => Below[rule.object.path] = Prefixed[rule.object.path]
  /\ rule.object.kind = "network" => rule.object.host = "*" /\ rule.object.port = AnyPort

(* Of plain rules the mapper (mapper.rs:124) allows what the evaluator      *)
(* does, and the resolver (resolver.rs:156) nothing more outside its three  *)
(* directories; and the rules that merge_policies (aggregator.rs:131) keeps *)
(* decide as all of them do, unless one that has expired is kept instead of *)
(* one that has not.                                                        *)
RulesAgree ==
  \A plugin \in Asker, r \in Request :
    LET all == InForce(rules)
        Apply(held) == {x \in held : relevant(x, plugin, r)}
        allowed == {is_allowed(result) : result \in evaluate(Apply(all))}
        strings == {x \in all : string_matches(x, plugin, r)}
        kinds == {x \in all : same_kind(x, plugin, r)}
    IN  /\ (\A x \in all : Plainly(x)) =>
             /\ is_allowed_by_policy(strings) = allowed
             /\ \/ r.kind = "file" /\ Top[r.path] \in {"/tmp", "/etc", "/var"}
                \/ \A result \in resolve(kinds, r) : is_allowed(result) => TRUE \in allowed
        /\ (\A x, y \in all : Key(x) = Key(y) => is_expired(x) = is_expired(y)) =>
             \A kept \in merge_policies(all) :
               evaluate(Apply(kept)) \subseteq evaluate(Apply(all))
=============================================================================
