----------------------------- MODULE RuntimeCalls -----------------------------
(***************************************************************************)
(* The tasks that call the managers of lion_runtime, and the threads that  *)
(* call the pools and locks of lion_concurrency.  A task makes one call at *)
(* a time and keeps in its record where it stands; a call can be suspended *)
(* at every lock and channel, and other tasks run in between.              *)
(***************************************************************************)
EXTENDS Naturals, Sequences, FiniteSets

CONSTANTS
  Caller,     \* the tasks
  MaxCalls    \* bound: calls made together

ASSUME CallersAssumption == IsFiniteSet(Caller) /\ Caller # {}

VARIABLES
  caller,     \* what every task is doing
  calls       \* calls made so far

callVars == <<caller, calls>>

Idle == [pc |-> "idle"]

CallsInit == caller = [t \in Caller |-> Idle] /\ calls = 0

At(t, pc) == caller[t].pc = pc

Goto(t, state) == caller' = [caller EXCEPT ![t] = state] /\ UNCHANGED calls

GotoPc(t, pc) == Goto(t, [caller[t] EXCEPT !.pc = pc])

Return(t) == Goto(t, Idle)

(* A new call that goes on at "state", or that returns at once. *)
Call(t, state) ==
  /\ At(t, "idle") /\ calls < MaxCalls
  /\ calls' = calls + 1
  /\ caller' = [caller EXCEPT ![t] = state]

CallAtOnce(t) == Call(t, Idle)
=============================================================================
