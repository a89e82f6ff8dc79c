-------------------------------- MODULE Locks --------------------------------
(***************************************************************************)
(* lion_concurrency/src/sync.  lock.rs: a mutex and a read-write lock that *)
(* count, in atomics that nothing locks, how often they were taken, missed *)
(* and how long they were held.  The locks inside are parking_lot's.       *)
(* Waiting times are gathered like the times held and left out.            *)
(* atomic.rs: a counter, a flag, a sequence and a version, put to the uses *)
(* they are offered for: to count who is inside, to keep others out, to    *)
(* number things, and to find out whether data changed.  A method is one   *)
(* instruction; sequence and version do not come to the end of 64 bits.    *)
(***************************************************************************)
EXTENDS RuntimeCalls, FiniteSetsExt

CONSTANTS
  HoldTimes,   \* bound: how long a guard may be held, in whole microseconds
  WordSize     \* of the word of a counter, the number of its values

ASSUME HoldsAreTimes == HoldTimes \subseteq Nat

ASSUME WordsHoldCallers == WordSize \in Nat /\ WordSize > Cardinality(Caller)

VARIABLES
  stats,     \* of the mutex, and of the two sides of the read-write lock
  longest,   \* the longest time held since the last reset
  torn,      \* the statistics reset while a guard they count was out
  word,      \* the values of a counter, a flag, a sequence and a version
  history    \* who was inside at the counter's reset, the sequence's resets,
             \* and the updates of the version

lockVars == <<stats, longest, torn>>

atomicVars == <<word, history>>

Lock == {"mutex", "read", "write"}

NoStats == [acquisition_count |-> 0, failed_count |-> 0, total_hold |-> 0, max_hold |-> 0]

LocksInit ==
  /\ stats = [k \in Lock |-> NoStats]
  /\ longest = [k \in Lock |-> 0]
  /\ torn = {}

(* The threads that own the lock inside. (A TrackedMutex that is cloned     *)
(* shares its statistics with a lock of its own; clones are left out.)      *)
Guards(k) ==
  {t \in Caller : caller[t].pc \in {"taken", "guard", "load", "raise"} /\ caller[t].lock = k}

Counted(k) == {t \in Guards(k) : ~At(t, "taken")}

Excludes(k) == CASE k = "mutex" -> {"mutex"}
                 [] k = "read"  -> {"write"}
                 [] k = "write" -> {"read", "write"}

Free(k) == \A l \in Excludes(k) : Guards(l) = {}

(* lock, try_lock and try_lock_for, and so for read and write. *)
AskFor(t) ==
  /\ \E k \in Lock, how \in {"wait", "try", "timed"} :
       Call(t, [pc |-> "ask", lock |-> k, how |-> how])
  /\ UNCHANGED lockVars

TakeLock(t) ==
  At(t, "ask") /\ Free(caller[t].lock) /\ GotoPc(t, "taken") /\ UNCHANGED lockVars

(* Only a time-out is counted as a failure. *)
MissLock(t) ==
  /\ At(t, "ask") /\ ~Free(caller[t].lock) /\ caller[t].how # "wait"
  /\ stats' = IF caller[t].how = "try" THEN stats
              ELSE [stats EXCEPT ![caller[t].lock].failed_count = @ + 1]
  /\ Return(t)
  /\ UNCHANGED <<longest, torn>>

Resetting(k) == \E t \in Caller : At(t, "reset") /\ caller[t].lock = k

CountAcquisition(t) ==
  /\ At(t, "taken")
  /\ LET k == caller[t].lock
     IN  /\ stats' = [stats EXCEPT ![k].acquisition_count = @ + 1]
         /\ torn' = IF Resetting(k) THEN torn \cup {k} ELSE torn
  /\ GotoPc(t, "guard")
  /\ UNCHANGED longest

(* The drop of a guard adds to the statistics before the lock is free.     *)
DropGuard(t) ==
  /\ At(t, "guard")
  /\ \E d \in HoldTimes :
       LET k == caller[t].lock
       IN  /\ stats' = [stats EXCEPT ![k].total_hold = @ + d]
           /\ longest' = [longest EXCEPT ![k] = Max({@, d})]
           /\ Goto(t, [pc |-> "load", lock |-> k, held |-> d])
  /\ UNCHANGED torn

CompareWith(t, max) ==
  IF caller[t].held > max
    THEN Goto(t, [pc |-> "raise", lock |-> caller[t].lock, held |-> caller[t].held, seen |-> max])
    ELSE Return(t)

LoadMaximum(t) ==
  At(t, "load") /\ CompareWith(t, stats[caller[t].lock].max_hold) /\ UNCHANGED lockVars

(* Mutant: a store instead of the compare_exchange. *)
StoreMaximum(t) ==
  /\ At(t, "raise")
  /\ stats' = [stats EXCEPT ![caller[t].lock].max_hold = caller[t].held]
  /\ Return(t)
  /\ UNCHANGED <<longest, torn>>

(* compare_exchange, again with what it found. *)
RaiseMaximum(t) ==
  /\ At(t, "raise")
  /\ LET k == caller[t].lock
     IN  IF stats[k].max_hold = caller[t].seen
           THEN stats' = [stats EXCEPT ![k].max_hold = caller[t].held] /\ Return(t)
           ELSE CompareWith(t, stats[k].max_hold) /\ UNCHANGED stats
  /\ UNCHANGED <<longest, torn>>

(* reset_stats stores one zero after the other. *)
ResetCounts(t) ==
  /\ \E k \in Lock :
       /\ Call(t, [pc |-> "reset", lock |-> k])
       /\ stats' = [stats EXCEPT ![k] = [@ EXCEPT !.acquisition_count = 0, !.failed_count = 0]]
       /\ torn' = IF Counted(k) # {} \/ Resetting(k) THEN torn \cup {k} ELSE torn
  /\ UNCHANGED longest

ResetTimes(t) ==
  /\ At(t, "reset")
  /\ LET k == caller[t].lock
     IN  /\ stats' = [stats EXCEPT ![k] = [@ EXCEPT !.total_hold = 0, !.max_hold = 0]]
         /\ longest' = [longest EXCEPT ![k] = 0]
  /\ Return(t)
  /\ UNCHANGED torn

LockCall(t) == AskFor(t) \/ ResetCounts(t)

LockStep(t) ==
  \/ TakeLock(t) \/ MissLock(t) \/ CountAcquisition(t)
  \/ DropGuard(t) \/ LoadMaximum(t) \/ RaiseMaximum(t) \/ ResetTimes(t)
-----------------------------------------------------------------------------
(* The four of atomic.rs, new. *)
AtomicsInit ==
  /\ word = [counter |-> 0, flag |-> FALSE, sequence |-> 0, version |-> 1]
  /\ history = [forgotten |-> 0, era |-> 0, updates |-> 0]

(* increment and decrement wrap around. *)
Increment == word' = [word EXCEPT !.counter = (@ + 1) % WordSize]

Decrement == word' = [word EXCEPT !.counter = (@ + WordSize - 1) % WordSize]

Inside == {t \in Caller : At(t, "inside")}

CountIn(t) == Call(t, [pc |-> "inside"]) /\ Increment /\ UNCHANGED history

CountOut(t) == At(t, "inside") /\ Return(t) /\ Decrement /\ UNCHANGED history

(* reset, whoever is inside: those will be counted when they leave. *)
ResetCounter(t) ==
  /\ CallAtOnce(t)
  /\ word' = [word EXCEPT !.counter = 0]
  /\ history' = [history EXCEPT !.forgotten = Cardinality(Inside)]

(* try_set swaps, and has set the flag if it was not. *)
Swap == IF word.flag THEN Idle ELSE [pc |-> "holds"]

SetFlag == word' = [word EXCEPT !.flag = TRUE] /\ UNCHANGED history

TrySet(t) == Call(t, Swap) /\ SetFlag

TrySetThen(t) == At(t, "found") /\ Goto(t, Swap) /\ SetFlag

Unset(t) ==
  /\ At(t, "holds") /\ Return(t)
  /\ word' = [word EXCEPT !.flag = FALSE]
  /\ UNCHANGED history

(* wait_for_unset, and at each poll that finds the flag set the time may   *)
(* be up. What it found is old by the time the flag is set.                *)
WaitForUnset(t) == Call(t, [pc |-> "polls"]) /\ UNCHANGED atomicVars

Poll(t) ==
  /\ At(t, "polls")
  /\ IF word.flag THEN Return(t) ELSE GotoPc(t, "found")
  /\ UNCHANGED atomicVars

(* next, and the number is used for a while. *)
NextNumber(t) ==
  /\ Call(t, [pc |-> "numbered", number |-> word.sequence, era |-> history.era])
  /\ word' = [word EXCEPT !.sequence = @ + 1]
  /\ UNCHANGED history

EndNumber(t) == At(t, "numbered") /\ Return(t) /\ UNCHANGED atomicVars

ResetSequence(t) ==
  /\ CallAtOnce(t)
  /\ word' = [word EXCEPT !.sequence = 0]
  /\ history' = [history EXCEPT !.era = @ + 1]

NewVersion ==
  /\ word' = [word EXCEPT !.version = @ + 1]
  /\ history' = [history EXCEPT !.updates = @ + 1]

(* The version is read, the data it belongs to worked on, and then ...     *)
GetVersion(t) ==
  /\ Call(t, [pc |-> "versioned", seen |-> word.version, updates |-> history.updates])
  /\ UNCHANGED atomicVars

(* ... check_and_update compares and exchanges. *)
CheckAndUpdate(t) ==
  /\ At(t, "versioned") /\ Return(t)
  /\ IF word.version = caller[t].seen THEN NewVersion ELSE UNCHANGED atomicVars

AdvanceVersion(t) == CallAtOnce(t) /\ NewVersion

HasChangedSince(version) == word.version > version

AtomicCall(t) ==
  \/ CountIn(t) \/ ResetCounter(t)
  \/ TrySet(t) \/ WaitForUnset(t)
  \/ NextNumber(t) \/ ResetSequence(t)
  \/ GetVersion(t) \/ AdvanceVersion(t)

AtomicStep(t) ==
  \/ CountOut(t)
  \/ Poll(t) \/ TrySetThen(t) \/ Unset(t)
  \/ EndNumber(t)
  \/ CheckAndUpdate(t)
-----------------------------------------------------------------------------
(* Properties. *)

(* The atomics agree with what was done to them: the counter counts who is *)
(* inside, less those a reset forgot, whom it goes below zero for; the     *)
(* flag was set by one thread at most; no number is in use twice, unless   *)
(* the sequence was reset meanwhile; and a version tells of every update.  *)
AtomicsTell ==
  LET Holders == {t \in Caller : At(t, "holds")}
      Numbered == {t \in Caller : At(t, "numbered")}
  IN  /\ word.counter = (WordSize + Cardinality(Inside) - history.forgotten) % WordSize
      /\ Cardinality(Holders) = IF word.flag THEN 1 ELSE 0
      /\ \A t, u \in Numbered :
           t # u /\ caller[t].era = caller[u].era => caller[t].number # caller[u].number
      /\ word.version = 1 + history.updates
      /\ \A t \in Caller :
           At(t, "versioned") =>
             (HasChangedSince(caller[t].seen) <=> history.updates > caller[t].updates)

(* The statistics tell the truth whenever no guard is being dropped: the    *)
(* maximum is the longest time that a guard was held, although readers      *)
(* raise it together without a lock, and the average, which                 *)
(* contention_factor divides by (lock.rs:252), is below it: the time held   *)
(* is at least the longest hold, and at most that for every release.  Holds *)
(* of less than a microsecond count 0, and the average may be 0 with them   *)
(* (lock.rs:270).  What a reset between an acquisition and its release      *)
(* leaves is no such pair: the time held without the acquisition            *)
(* (lock.rs:232).  And the atomics tell what was done to them.              *)
LocksTell ==
  /\ AtomicsTell
  /\ \A k \in Lock \ torn :
       LET s == stats[k] released == s.acquisition_count - Cardinality(Counted(k))
       IN  ~Resetting(k) /\ (\A t \in Guards(k) : caller[t].pc \in {"taken", "guard"}) =>
             /\ s.max_hold = longest[k]
             /\ s.max_hold <= s.total_hold /\ s.total_hold <= s.max_hold * released
=============================================================================
