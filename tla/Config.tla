-------------------------------- MODULE Config --------------------------------
(***************************************************************************)
(* lion_core/src/utils: configurations, whose values are reached by paths  *)
(* like a.b[0].c (config.rs), and versions (version.rs).  A path is the    *)
(* sequence of its words and separators; a key is the part of it between   *)
(* two separators, so that a.b] has the key b].                            *)
(***************************************************************************)
EXTENDS RuntimeCalls, SequencesExt

CONSTANTS
  NoConfig, NoVersion,  \* nothing was made yet
  Numeral,              \* of the words that are numbers: their value
  Paths,                \* the paths that are used
  Values,               \* the values that are set, and merged
  Inner,                \* the values that these hold, at any depth
  MaxInteger,           \* i64::MAX
  Versions,             \* the versions that are read
  MaxPart,              \* u32::MAX, of a part of a version
  MaxIdentifier         \* u64::MAX, of a number in a prerelease

(* A path is a sequence, and a word that is a number is one.               *)
ASSUME PathsAssumption ==
  /\ \A path \in Paths : path \in Seq(Range(path))
  /\ \A word \in DOMAIN Numeral : Numeral[word] \in Nat

VARIABLES config, version

configVars == <<config, version>>

ConfigInit == config = NoConfig /\ version = NoVersion

-----------------------------------------------------------------------------
(* Values, and None. *)
NoValue == [kind |-> "none"]

Null == [kind |-> "null"]

Map(entries) == [kind |-> "map", map |-> entries]

Array(elements) == [kind |-> "array", array |-> elements]

(* A scalar: an integer has no fraction. *)
Scalar(kind, value) == [kind |-> kind, is |-> value, fraction |-> FALSE]

IsMap(value) == value.kind = "map"

IsArray(value) == value.kind = "array"

(* What a value of these holds is one of these. *)
Closed(values) ==
  \A value \in values :
    /\ value.kind # "none"
    /\ IsMap(value) => \A key \in DOMAIN value.map : value.map[key] \in values
    /\ IsArray(value) => value.array \in Seq(values)

ASSUME ValuesAssumption == Closed(Values \cup Inner)

KeyPart(name) == [key |-> name]

IndexPart(n) == [index |-> n]

IsKey(part) == DOMAIN part = {"key"}

(* ConfigValue::get and get_index. *)
Child(value, part) ==
  IF IsKey(part)
    THEN IF IsMap(value) /\ part.key \in DOMAIN value.map THEN value.map[part.key] ELSE NoValue
    ELSE IF IsArray(value) /\ part.index < Len(value.array)
           THEN value.array[part.index + 1] ELSE NoValue

(* as_integer takes a float without a fraction, and the cast saturates at  *)
(* i64::MAX, which the comparison rounds up; as_float takes an integer.    *)
FromConfigValue(type, value) ==
  CASE value = NoValue -> NoValue
    [] type = "integer" ->
         IF value.kind = "integer" THEN value.is
         ELSE IF value.kind = "float" /\ ~value.fraction /\ value.is <= MaxInteger + 1
                THEN IF value.is > MaxInteger THEN MaxInteger ELSE value.is
                ELSE NoValue
    [] type = "float" -> IF value.kind \in {"float", "integer"} THEN value.is ELSE NoValue
    [] OTHER -> IF value.kind = type THEN value.is ELSE NoValue

Overlaid(map, over) ==
  [key \in DOMAIN map \cup DOMAIN over |-> IF key \in DOMAIN over THEN over[key] ELSE map[key]]

(* Keys overwrite, and only those at the top; elements are appended;       *)
(* anything else is replaced.                                              *)
MergeValue(value, other) ==
  CASE IsMap(value) /\ IsMap(other) -> Map(Overlaid(value.map, other.map))
    [] IsArray(value) /\ IsArray(other) -> Array(value.array \o other.array)
    [] OTHER -> other

-----------------------------------------------------------------------------
(* Paths. *)

(* A word ends at a dot and at a bracket; what stands in brackets is an    *)
(* index, or nothing when it is no number; what follows a bracket that is  *)
(* not closed is nothing.                                                  *)
WithKey(s) == IF s.word = <<>> THEN s.parts ELSE Append(s.parts, KeyPart(s.word))

WithIndex(s) ==
  IF Len(s.word) = 1 /\ s.word[1] \in DOMAIN Numeral
    THEN Append(s.parts, IndexPart(Numeral[s.word[1]])) ELSE s.parts

Began(parts, in) == [parts |-> parts, word |-> <<>>, in |-> in]

ReadOn(s, c) ==
  CASE c = "." /\ ~s.in -> Began(WithKey(s), FALSE)
    [] c = "[" -> Began(WithKey(s), TRUE)
    [] c = "]" /\ s.in -> Began(WithIndex(s), FALSE)
    [] OTHER -> [s EXCEPT !.word = Append(@, c)]

Read(path) ==
  LET read[k \in 0 .. Len(path)] ==
        IF k = 0 THEN Began(<<>>, FALSE) ELSE ReadOn(read[k - 1], path[k])
  IN  read

parse_path(path) ==
  LET end == Read(path)[Len(path)] IN IF end.in THEN end.parts ELSE WithKey(end)

Parts == [path \in Paths |-> parse_path(path)]

(* What the first k parts lead to. *)
Reached(value, parts) ==
  LET reached[k \in 0 .. Len(parts)] ==
        IF k = 0 THEN value ELSE Child(reached[k - 1], parts[k])
  IN  reached

Get(value, parts) == Reached(value, parts)[Len(parts)]

(* What stands where a part is set: the map or array that is there, or an  *)
(* empty one in place of anything else.                                    *)
Empty(part) == IF IsKey(part) THEN Map(<<>>) ELSE Array(<<>>)

(* Mutant: what is there is replaced whatever it is. *)
HeldAnew(value, part) == Empty(part)

Held(value, part) ==
  IF IF IsKey(part) THEN IsMap(value) ELSE IsArray(value) THEN value ELSE Empty(part)

(* An array is filled up to the index. *)
Placed(held, part, inner, filler) ==
  IF IsKey(part) THEN Map(Overlaid(held.map, [key \in {part.key} |-> inner]))
  ELSE LET size == Len(held.array)
           at == part.index + 1
       IN  Array([i \in 1 .. (IF at > size THEN at ELSE size) |->
                    IF i = at THEN inner ELSE IF i > size THEN filler ELSE held.array[i]])

(* Arrays are filled with Null, or with what the next part needs. *)
Filler(parts, k) == IF k = Len(parts) THEN Null ELSE Empty(parts[k + 1])

(* What comes to stand where the first k - 1 parts lead. *)
Rebuilt(value, parts, new) ==
  LET last == Len(parts)
      rebuilt[k \in 1 .. last + 1] ==
        IF k = last + 1 THEN new
        ELSE Placed(Held(Reached(value, parts)[k - 1], parts[k]), parts[k], rebuilt[k + 1],
                    Filler(parts, k))
  IN  rebuilt

Put(value, parts, new) == Rebuilt(value, parts, new)[1]

(* The last part goes; the others are where they were. *)
Without(value, part) ==
  IF IsKey(part) THEN Map(Restrict(value.map, DOMAIN value.map \ {part.key}))
  ELSE Array(RemoveAt(value.array, part.index + 1))

Cut(value, parts) ==
  Put(value, Front(parts), Without(Get(value, Front(parts)), Last(parts)))

(* A path without parts: its last part is looked for in vain, by a         *)
(* subtraction that underflows.                                            *)
Addresses(path) == path = <<>> \/ Parts[path] # <<>>

get(root, path) == Get(root, Parts[path])

set(root, path, value) == Put(root, Parts[path], value)

remove(root, path) ==
  IF path = <<>> THEN Null
  ELSE IF get(root, path) = NoValue THEN root
  ELSE Cut(root, Parts[path])

-----------------------------------------------------------------------------
(* Versions. *)
ASSUME VersionsAssumption ==
  /\ MaxPart \in Nat /\ MaxIdentifier \in Nat
  /\ \A v \in Versions :
       /\ {v.major, v.minor, v.patch} \subseteq 0 .. MaxPart
       /\ v.prerelease \in Seq([numeric : BOOLEAN, is : Nat])

Sign(a, b) == IF a < b THEN "Less" ELSE IF a > b THEN "Greater" ELSE "Equal"

Opposite(sign) ==
  CASE sign = "Less" -> "Greater" [] sign = "Greater" -> "Less" [] OTHER -> sign

FirstThatDiffers(signs) ==
  LET differing == {i \in DOMAIN signs : signs[i] # "Equal"}
  IN  IF differing = {} THEN "Equal" ELSE signs[Min(differing)]

(* A number that u64 cannot hold counts as 0. *)
Number(identifier) == IF identifier.is > MaxIdentifier THEN 0 ELSE identifier.is

IdentifierSign(a, b) ==
  CASE a.numeric /\ b.numeric -> Sign(Number(a), Number(b))
    [] ~a.numeric /\ ~b.numeric -> Sign(a.is, b.is)
    [] OTHER -> IF a.numeric THEN "Less" ELSE "Greater"

PrereleaseSign(a, b) ==
  CASE a = <<>> \/ b = <<>> -> Sign(Len(b), Len(a))
    [] OTHER ->
         FirstThatDiffers(
           [i \in 1..Min({Len(a), Len(b)}) |-> IdentifierSign(a[i], b[i])]
             \o <<Sign(Len(a), Len(b))>>)

(* The build is not looked at. *)
cmp(v, w) ==
  FirstThatDiffers(<<Sign(v.major, w.major), Sign(v.minor, w.minor), Sign(v.patch, w.patch),
                     PrereleaseSign(v.prerelease, w.prerelease)>>)

is_compatible_with(v, w) ==
  /\ v.major = w.major
  /\ v.major = 0 => v.minor = w.minor
  /\ cmp(v, w) # "Greater"

Plain(major, minor, patch) ==
  [major |-> major, minor |-> minor, patch |-> patch, prerelease |-> <<>>, build |-> <<>>]

(* A release build wraps around. *)
Next32(n) == (n + 1) % (MaxPart + 1)

increment_major(v) == Plain(Next32(v.major), 0, 0)

increment_minor(v) == Plain(v.major, Next32(v.minor), 0)

increment_patch(v) == Plain(v.major, v.minor, Next32(v.patch))

Increments(v) == {increment_major(v), increment_minor(v), increment_patch(v)}

-----------------------------------------------------------------------------
(* Who has a configuration has it alone: the calls return at once. *)
NewConfig(t) ==
  /\ CallAtOnce(t) /\ config = NoConfig
  /\ config' \in {Null, Map(<<>>)} \cup Values

SetPath(t) ==
  /\ CallAtOnce(t) /\ config # NoConfig
  /\ \E path \in Paths, value \in Values :
       Addresses(path) /\ config' = set(config, path, value)

(* The value that get_mut found is overwritten. *)
UpdatePath(t) ==
  /\ CallAtOnce(t) /\ config # NoConfig
  /\ \E path \in Paths, value \in Values :
       /\ Addresses(path) /\ get(config, path) # NoValue
       /\ config' = set(config, path, value)

RemovePath(t) ==
  /\ CallAtOnce(t) /\ config # NoConfig
  /\ \E path \in Paths : Addresses(path) /\ config' = remove(config, path)

MergeConfig(t) ==
  /\ CallAtOnce(t) /\ config # NoConfig
  /\ \E other \in Values : config' = MergeValue(config, other)

ReadVersion(t) == CallAtOnce(t) /\ version' \in Versions

(* At its maximum a part wraps around, or the call panics. *)
IncrementVersion(t) ==
  /\ CallAtOnce(t) /\ version # NoVersion
  /\ version' \in Increments(version)

ConfigCall(t) ==
  \/ /\ NewConfig(t) \/ SetPath(t) \/ UpdatePath(t) \/ RemovePath(t) \/ MergeConfig(t)
     /\ UNCHANGED version
  \/ (ReadVersion(t) \/ IncrementVersion(t)) /\ UNCHANGED config
-----------------------------------------------------------------------------
(* Properties. *)

SharedParts(p, q) ==
  Max({0} \cup {n \in 1..Min({Len(p), Len(q)}) : SubSeq(p, 1, n) = SubSeq(q, 1, n)})

Apart(p, q) == SharedParts(p, q) < Min({Len(p), Len(q)})

(* What is set is read back, also as the type it was set as; another path   *)
(* that leaves the first for a key where that has an index, or the other    *)
(* way round, is lost with what stood there (config.rs:712), one for an     *)
(* index below may have been filled, and every other reads what it did.     *)
SetKeeps(path, value) ==
  LET after == set(config, path, value)
      p == Parts[path]
  IN  /\ get(after, path) = value
      /\ DOMAIN value = DOMAIN Scalar("integer", 0) =>
           FromConfigValue(value.kind, get(after, path)) = value.is
      /\ \A other \in Paths :
           LET q == Parts[other]
               leaves == SharedParts(p, q) + 1
               was == get(config, other)
               is == get(after, other)
           IN  Apart(p, q) =>
                 CASE was # NoValue ->
                        is = IF IsKey(p[leaves]) = IsKey(q[leaves]) THEN was ELSE NoValue
                   [] was = NoValue /\ is # NoValue ->
                        /\ ~IsKey(p[leaves]) /\ ~IsKey(q[leaves]) /\ Len(q) = leaves
                        /\ q[leaves].index < p[leaves].index
                   [] OTHER -> TRUE

(* What is removed is gone, or the next element of its array has moved up;  *)
(* a path that leaves the first for a later element reads the one after it, *)
(* and every other path what it did.                                        *)
RemoveKeeps(path) ==
  LET after == remove(config, path)
      p == Parts[path]
      Moved(q) ==
        IF /\ get(config, path) # NoValue /\ Len(q) >= Len(p)
           /\ SubSeq(q, 1, Len(p) - 1) = Front(p)
           /\ ~IsKey(Last(p)) /\ ~IsKey(q[Len(p)]) /\ q[Len(p)].index >= Last(p).index
          THEN [q EXCEPT ![Len(p)] = IndexPart(q[Len(p)].index + 1)]
          ELSE q
  IN  path # <<>> =>
        \A other \in Paths :
          LET q == Parts[other]
          IN  IF IsPrefix(p, q) /\ IsKey(Last(p)) THEN get(after, other) = NoValue
              ELSE IsPrefix(p, q) \/ Apart(p, q) => get(after, other) = Get(config, Moved(q))

(* The paths agree on every configuration that calls lead to. *)
PathsAgree ==
  config # NoConfig =>
    \A path \in Paths :
      Addresses(path) => RemoveKeeps(path) /\ \A value \in Values : SetKeeps(path, value)

(* Versions are in one order, in which two are equal that differ in their   *)
(* build or in numbers beyond u64 (version.rs:223); what is compatible with *)
(* a version is compatible with whatever that is compatible with; an        *)
(* increment that does not wrap is later, and compatible but for the major  *)
(* one, and but for the minor one of a major version 0 (version.rs:140).    *)
VersionsAgree ==
  version # NoVersion =>
    /\ \A w \in Versions :
         /\ cmp(w, version) = Opposite(cmp(version, w))
         /\ cmp(version, w) = "Equal" =>
              /\ <<version.major, version.minor, version.patch>> = <<w.major, w.minor, w.patch>>
              /\ Len(version.prerelease) = Len(w.prerelease)
              /\ \A i \in DOMAIN w.prerelease :
                   \/ version.prerelease[i] = w.prerelease[i]
                   \/ version.prerelease[i].is > MaxIdentifier
                   \/ w.prerelease[i].is > MaxIdentifier
         /\ \A x \in Versions :
              /\ cmp(version, w) # "Greater" /\ cmp(w, x) # "Greater"
                   => cmp(version, x) # "Greater"
              /\ is_compatible_with(version, w) /\ is_compatible_with(w, x)
                   => is_compatible_with(version, x)
    /\ MaxPart \notin {version.major, version.minor, version.patch} =>
       \A later \in Increments(version) :
         /\ cmp(version, later) = "Less"
         /\ is_compatible_with(version, later) <=>
              later.major = version.major /\ (version.major = 0 => later.minor = version.minor)

ConfigAnswers == PathsAgree /\ VersionsAgree
=============================================================================
