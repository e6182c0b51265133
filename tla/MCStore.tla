------------------------------ MODULE MCStore ------------------------------
(***************************************************************************)
(* Small instances of Store for TLC.  Keys are numbers so that their       *)
(* shard can be computed; the bounds are separate constants.               *)
(***************************************************************************)
EXTENDS Store, TLC

CONSTANTS MaxCalls, MaxCrashes, MaxFaults, MaxStops

MCShardOf == [k \in Keys |-> k % ShardCount]

MCBudget == [calls |-> MaxCalls, crashes |-> MaxCrashes,
             faults |-> MaxFaults, stops |-> MaxStops]

\* Threads and values are interchangeable.
Symmetry == Permutations(Threads) \cup Permutations(Values)
=============================================================================
