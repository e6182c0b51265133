------------------------------- MODULE MCScan -------------------------------
(***************************************************************************)
(* Instances of Scan for TLC.                                              *)
(***************************************************************************)
EXTENDS Scan

MCKeys == 1 .. 4
MCMatching == 2 .. 4
MCShardOf == [k \in MCKeys |-> k % ShardCount]
=============================================================================
