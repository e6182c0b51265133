---------------------------- MODULE LWWRegister ----------------------------
(***************************************************************************)
(* What replication promises, whatever is lost, repeated or overtaken: the *)
(* version a replica holds of a key is one that a write of that key drew,  *)
(* it moves upwards only, and it vanishes only if some call deletes the    *)
(* key.  Version 0 stands for "no entry".                                  *)
(***************************************************************************)
EXTENDS Integers

CONSTANTS
    Replicas,  \* the nodes
    Names      \* the keys

VARIABLES
    issued,    \* per key, the versions drawn so far
    deleted,   \* the keys that some delete has drawn a version for
    held       \* per replica and key, the version held

Init ==
    /\ issued = [k \in Names |-> {}] /\ deleted = {}
    /\ held = [n \in Replicas |-> [k \in Names |-> 0]]

\* A write or a delete of k draws a version, any but 0.
Issue(k) ==
    /\ issued'[k] \subseteq Nat \ {0}
    /\ issued' = [issued EXCEPT ![k] = @ \cup issued'[k]]
    /\ deleted' = deleted \/ deleted' = deleted \cup {k}
    /\ UNCHANGED held

\* n applies a write of k, its own or a replicated one ...
Learn(n, k) ==
    /\ \E v \in issued[k] : /\ v >= held[n][k]
                            /\ held' = [held EXCEPT ![n][k] = v]
    /\ UNCHANGED <<issued, deleted>>

\* ... or a delete.
Forget(n, k) ==
    /\ k \in deleted
    /\ held' = [held EXCEPT ![n][k] = 0]
    /\ UNCHANGED <<issued, deleted>>

Next ==
    \E k \in Names : Issue(k) \/ \E n \in Replicas : Learn(n, k) \/ Forget(n, k)

Spec == Init /\ [][Next]_<<issued, deleted, held>>
=============================================================================
