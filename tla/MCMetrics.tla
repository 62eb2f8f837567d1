----------------------------- MODULE MCMetrics -----------------------------
(* Instances of Metrics for TLC. *)
EXTENDS Metrics, TLC

CONSTANTS d1, c1, c2, c3

\* Two connections of a DB and one opened with sql.Open.
Mixed == c1 :> d1 @@ c2 :> d1 @@ c3 :> Driver

\* Two connections of a DB.
OneDB == c1 :> d1 @@ c2 :> d1
============================================================================
