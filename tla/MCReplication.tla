--------------------------- MODULE MCReplication ---------------------------
(***************************************************************************)
(* Small instances of Replication for TLC.  Every node has its own clock   *)
(* readings; n1 is the seed.                                               *)
(***************************************************************************)
EXTENDS Replication, TLC

CONSTANTS n1, n2, n3, Shared, Own1, Own2

\* Readings that all nodes may have, and some that only one may have.
MCReadings == [n \in Nodes |-> Shared \cup CASE n = n1 -> Own1 [] n = n2 -> Own2
                                                [] OTHER -> {}]

\* Calls and values are interchangeable.
Symmetry == Permutations(Calls) \cup Permutations(Values)
=============================================================================
