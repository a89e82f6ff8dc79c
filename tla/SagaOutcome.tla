----------------------------- MODULE SagaOutcome ----------------------------
(***************************************************************************)
(* What a saga does to the world, with no mention of statuses, queues or   *)
(* background tasks: a step takes effect only after the steps it depends   *)
(* on, an effect is undone at most once, and the saga is reported          *)
(* completed only when every step has taken effect.                        *)
(***************************************************************************)
EXTENDS Naturals

CONSTANTS
  Steps,      \* the steps of the saga's definition
  DependsOn   \* SagaStepDefinition::dependencies of each step

VARIABLES
  done,      \* done[s]: how often the handler of s has succeeded
  undone,    \* undone[s]: how often the compensation of s has succeeded
  reported   \* the saga is reported completed

vars == <<done, undone, reported>>

Init ==
  /\ done = [s \in Steps |-> 0]
  /\ undone = [s \in Steps |-> 0]
  /\ reported = FALSE

(* A report may be withdrawn, and is made only of a finished saga. *)
Report ==
  /\ reported' \in BOOLEAN
  /\ reported' => reported \/ \A s \in Steps : done'[s] > 0

Do(s) ==
  /\ \A d \in DependsOn[s] : done[d] > 0
  /\ done' = [done EXCEPT ![s] = @ + 1]
  /\ UNCHANGED undone
  /\ Report

Undo(s) ==
  /\ undone[s] < done[s]
  /\ undone' = [undone EXCEPT ![s] = @ + 1]
  /\ UNCHANGED done
  /\ Report

Next ==
  \/ \E s \in Steps : Do(s) \/ Undo(s)
  \/ Report /\ UNCHANGED <<done, undone>>

Spec == Init /\ [][Next]_vars
=============================================================================
