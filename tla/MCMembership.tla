---------------------------- MODULE MCMembership ----------------------------
(***************************************************************************)
(* An instance of Membership for TLC: the seed and one node that joins it. *)
(***************************************************************************)
EXTENDS Membership, TLC

CONSTANTS n1, n2
=============================================================================
