----------------------------- MODULE MCMetrics -----------------------------
(***************************************************************************)
(* An instance of Metrics for TLC: all request keys share one path.        *)
(***************************************************************************)
EXTENDS Metrics

MCPathOf == [k \in Kinds |-> CHOOSE p \in Paths : TRUE]
=============================================================================
