------------------------------- MODULE MCSaga -------------------------------
(***************************************************************************)
(* A chain of three steps for Saga, one more than MaxRounds: a failure of  *)
(* s1 fails the saga, one of s2 triggers compensation, and the saga goes   *)
(* on after one of s3. s1 can be undone; the compensation of s2 has no     *)
(* handler, and s3 has no compensation.                                    *)
(***************************************************************************)
EXTENDS Saga, TLC

CONSTANTS s1, s2, s3

MCSteps == {s1, s2, s3}
MCDependsOn == (s1 :> {}) @@ (s2 :> {s1}) @@ (s3 :> {s2})
MCPosition == (s1 :> 1) @@ (s2 :> 2) @@ (s3 :> 3)
=============================================================================
