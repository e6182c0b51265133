---------------------------- MODULE Replication ----------------------------
(***************************************************************************)
(* Writes in a cluster: the PUT and DELETE handlers (internal/api), the    *)
(* fan-out to the peers (internal/cluster/replication.go) and the internal *)
(* handler that applies a replicated write, over a network that loses,     *)
(* delays, reorders and, through the alias of the seed, repeats requests.  *)
(*                                                                         *)
(* A node's store is what Store shows it to be: a version is drawn in one  *)
(* step and the write applied, last write wins, in a later one.  Each call *)
(* of a client is one member of Calls; writes carry no TTL.  Clocks are    *)
(* not synchronised: a node reads any of its Readings at any time.         *)
(***************************************************************************)
EXTENDS KVData

CONSTANTS
    Nodes,      \* the nodes of the cluster
    Calls,      \* the PUT and DELETE calls of all clients
    Kinds,      \* which of "set" and "del" they are
    Readings,   \* per node, what time.Now() may read
    Seed,       \* the peer ID "seed", an alias of ...
    SeedNode    \* ... the node at the seed address

VARIABLES
    db,           \* per node, the map
    lastVersion,  \* per node, the last version NextVersion handed out
    pc, req,      \* per call: next step of the handler, and its request
    requests,     \* replication requests <<call, peer ID>> under way
    waiting,      \* goroutines <<call, peer ID>> waiting for the response
    measured,     \* lags computed and not yet stored
    lastServed,   \* per node, Replicator.lastServed
    lag,          \* per node and peer ID, Peer.ReplicationLag
    disturbed     \* history: keys of a delete, or of a write some node missed

handler == <<pc, req>>
network == <<requests, waiting, measured>>
shown   == <<lastServed, lag>>
vars    == <<db, lastVersion, handler, network, shown, disturbed>>

PeerIDs    == Nodes \cup {Seed}
Address(i) == IF i = Seed THEN SeedNode ELSE i
Message    == Calls \X PeerIDs

\* A call: ver is the version drawn, out the one Set or Delete returned.
Call == [node : Nodes, type : {"set", "del"}, key : Keys,
         val : Values \cup {Nil}, ver : Nat, out : Nat]

\* An entry of a map.
Versioned == [val : Values \cup {Nil}, ver : Nat]

ASSUME NodesAssumption == /\ Seed \notin Nodes /\ SeedNode \in Nodes
                          /\ Kinds \subseteq {"set", "del"}
                          /\ Readings \in [Nodes -> SUBSET (Nat \ {0})]
ASSUME AbsentAssumption == Nil \notin Call \cup Versioned

Go(c, label) == pc' = [pc EXCEPT ![c] = label]

------------------------------------------------------------------------------
(* The handlers of PUT and DELETE.                                           *)

BeginPut(c) ==
    /\ pc[c] = "new" /\ "set" \in Kinds
    /\ \E n \in Nodes, k \in Keys, v \in Values :
        req' = [req EXCEPT ![c] = [node |-> n, type |-> "set", key |-> k, val |-> v,
                                   ver |-> 0, out |-> 0]]
    /\ Go(c, "version")
    /\ UNCHANGED <<db, lastVersion, network, shown, disturbed>>

BeginDelete(c) ==
    /\ pc[c] = "new" /\ "del" \in Kinds
    /\ \E n \in Nodes, k \in Keys :
        /\ req' = [req EXCEPT ![c] = [node |-> n, type |-> "del", key |-> k, val |-> Nil,
                                      ver |-> 0, out |-> 0]]
        /\ disturbed' = disturbed \cup {k}
    /\ Go(c, "version")
    /\ UNCHANGED <<db, lastVersion, network, shown>>

\* The store draws a version from the clock of the node ...
NextVersion(c) ==
    LET n == req[c].node
    IN  /\ pc[c] = "version"
        /\ \E t \in Readings[n] :
            LET v == IF t <= lastVersion[n] THEN lastVersion[n] + 1 ELSE t
            IN  /\ lastVersion' = [lastVersion EXCEPT ![n] = v]
                /\ req' = [req EXCEPT ![c].ver = v]
        /\ Go(c, "apply")
        /\ UNCHANGED <<db, network, shown, disturbed>>

AppliedBlind(m, r, ver) ==  \* mutant: no comparison of versions
    [m EXCEPT ![r.key] = IF r.type = "set" THEN [val |-> r.val, ver |-> ver] ELSE Nil]

AppliedOnce(m, r, ver) ==  \* mutant: an entry is never overwritten
    IF r.type = "set" /\ m[r.key] # Nil THEN m ELSE AppliedBlind(m, r, ver)

\* ... and applies the write.  The map of a node after write r with version ver:
Applied(m, r, ver) ==
    IF ~Wins(ver, m[r.key]) THEN m
    ELSE [m EXCEPT ![r.key] = IF r.type = "set"
                              THEN [val |-> r.val, ver |-> ver]
                              ELSE Nil]

\* A write that lost is answered with the version it lost to.
Returned(m, r) == IF Wins(r.ver, m[r.key]) THEN r.ver ELSE m[r.key].ver

Apply(c) ==
    LET r == req[c]
    IN  /\ pc[c] = "apply"
        /\ db' = [db EXCEPT ![r.node] = Applied(@, r, r.ver)]
        /\ req' = [req EXCEPT ![c].out = Returned(db[r.node], r)]
        /\ Go(c, "replicate")
        /\ UNCHANGED <<lastVersion, network, shown, disturbed>>

\* The WAL refuses the write: 500, and nothing is replicated.
ApplyFails(c) ==
    /\ pc[c] = "apply" /\ Go(c, "failed")
    /\ UNCHANGED <<db, lastVersion, req, network, shown, disturbed>>

Unserved(served, ver) == served  \* mutant: lastServed is not updated

\* UpdateLastServed: the highest version served.
UpdateLastServed(served, ver) == Maximum(served, ver)

ReplicateAgain(c) ==  \* mutant: the handler does not return after replicating
    /\ pc[c] = "replicate"
    /\ requests' = requests \cup ({c} \X (Nodes \ {req[c].node}))
    /\ UNCHANGED <<db, lastVersion, handler, waiting, measured, shown, disturbed>>

ReplicateToDead(c) ==  \* mutant: no live peer is sent the write
    LET n == req[c].node
    IN  /\ pc[c] = "replicate" /\ Go(c, "done")
        /\ lastServed' = [lastServed EXCEPT ![n] = UpdateLastServed(@, req[c].out)]
        /\ UNCHANGED <<db, lastVersion, req, requests, waiting, measured, lag, disturbed>>

\* Replicate: one goroutine for each entry of the peer table that is neither the
\* node itself nor dead.  What the table holds is up to Membership.
Replicate(c) ==
    LET n == req[c].node
    IN  /\ pc[c] = "replicate" /\ Go(c, "done")
        /\ lastServed' = [lastServed EXCEPT ![n] = UpdateLastServed(@, req[c].out)]
        /\ \E peers \in SUBSET (PeerIDs \ {n}) :
            /\ requests' = requests \cup ({c} \X peers)
            /\ waiting' = waiting \cup ({c} \X peers)
            /\ disturbed' = IF \A m \in Nodes \ {n} : \E i \in peers : Address(i) = m
                            THEN disturbed ELSE disturbed \cup {req[c].key}
        /\ UNCHANGED <<db, lastVersion, req, measured, lag>>

------------------------------------------------------------------------------
(* The network, and the handler of /internal/replicate at the peer.          *)

\* The peer applies the write with the version it is sent.
InternalReplicate(m) ==
    LET r == req[m[1]]
        n == Address(m[2])
    IN  /\ m \in requests /\ requests' = requests \ {m}
        /\ db' = [db EXCEPT ![n] = Applied(@, r, r.out)]
        /\ UNCHANGED <<lastVersion, handler, waiting, measured, shown, disturbed>>

\* The request does not arrive, or the peer's store fails.
Lost(m) ==
    /\ m \in requests /\ requests' = requests \ {m}
    /\ disturbed' = disturbed \cup {req[m[1]].key}
    /\ UNCHANGED <<db, lastVersion, handler, waiting, measured, shown>>

\* A response, an error or the timeout ends the wait; the request may still
\* arrive after the timeout.  The lag is computed, with a floor of 0 only if the
\* response was 200, ...
MeasureLag(m) ==
    LET r == req[m[1]]
    IN  /\ m \in waiting /\ waiting' = waiting \ {m}
        /\ \E least \in {0, lastServed[r.node] - r.out} :
            measured' = measured \cup {[node |-> r.node, peer |-> m[2],
                                        lag |-> Maximum(least, lastServed[r.node] - r.out)]}
        /\ UNCHANGED <<db, lastVersion, handler, requests, shown, disturbed>>

\* ... and stored, unless the peer has left the table (as the alias does).
UpdateLag(u) ==
    /\ u \in measured /\ measured' = measured \ {u}
    /\ \/ lag' = [lag EXCEPT ![u.node][u.peer] = u.lag]
       \/ u.peer = Seed /\ UNCHANGED lag
    /\ UNCHANGED <<db, lastVersion, handler, requests, waiting, lastServed, disturbed>>

------------------------------------------------------------------------------
Init ==
    /\ db = [n \in Nodes |-> EmptyMap]
    /\ lastVersion = [n \in Nodes |-> 0]
    /\ pc = [c \in Calls |-> "new"] /\ req = [c \in Calls |-> Nil]
    /\ requests = {} /\ waiting = {} /\ measured = {}
    /\ lastServed = [n \in Nodes |-> 0]
    /\ lag = [n \in Nodes |-> [i \in PeerIDs |-> 0]]
    /\ disturbed = {}

HandlerStep(c) ==
    \/ BeginPut(c) \/ BeginDelete(c) \/ NextVersion(c) \/ Apply(c) \/ ApplyFails(c)
    \/ Replicate(c)

NetworkStep ==
    \/ \E m \in requests : InternalReplicate(m) \/ Lost(m)
    \/ \E m \in waiting : MeasureLag(m)
    \/ \E u \in measured : UpdateLag(u)

Next == (\E c \in Calls : HandlerStep(c)) \/ NetworkStep

Spec == Init /\ [][Next]_vars

(* A handler that has begun runs on, and every request arrives or is lost.   *)
(* Nothing forces a client to call.                                          *)
Fairness ==
    /\ \A c \in Calls : WF_vars(NextVersion(c) \/ Apply(c) \/ ApplyFails(c) \/ Replicate(c))
    /\ WF_vars(NetworkStep)

FairSpec == Spec /\ Fairness

------------------------------------------------------------------------------
(* Properties.                                                               *)

\* Every variable keeps its type, and only a handler that has applied its write
\* and is through with Replicate has requests under way.
TypeOK ==
    /\ db \in [Nodes -> [Keys -> Versioned \cup {Nil}]]
    /\ lastVersion \in [Nodes -> Nat]
    /\ pc \in [Calls -> {"new", "version", "apply", "replicate", "done", "failed"}]
    /\ req \in [Calls -> Call \cup {Nil}]
    /\ \A c \in Calls : pc[c] # "new" => req[c] \in Call
    /\ requests \subseteq Message /\ waiting \subseteq Message
    /\ \A m \in requests \cup waiting : pc[m[1]] = "done"
    /\ measured \subseteq [node : Nodes, peer : PeerIDs, lag : Int]
    /\ lastServed \in [Nodes -> Nat]
    /\ lag \in [Nodes -> [PeerIDs -> Int]]
    /\ disturbed \subseteq Keys

\* The version of k at n, 0 when n has none.
VersionAt(n, k) == IF db[n][k] = Nil THEN 0 ELSE db[n][k].ver

\* No call is being served and no replication request is under way.
Quiet == requests = {} /\ \A c \in Calls : pc[c] \in {"new", "done", "failed"}

\* When all has been delivered, in whatever order and however often, all nodes
\* hold the same version of every key that was not deleted and of which no node
\* missed a write: also when writes of several nodes raced or drew equal versions.
VersionsAgree ==
    Quiet => \A k \in Keys \ disturbed : \A m, n \in Nodes :
                 VersionAt(m, k) = VersionAt(n, k)

\* What src/README.md says of such writes, and does not hold: the nodes agree on
\* the value too.
ValuesAgree ==
    Quiet => \A k \in Keys \ disturbed : \A m, n \in Nodes : db[m][k] = db[n][k]

\* The lag a node shows for a peer is neither negative nor larger than all it has
\* served, in whatever order its goroutines measure and store it.
LagBounded == \A n \in Nodes, i \in PeerIDs : lag[n][i] \in 0 .. lastServed[n]

\* Two nodes that differ in the version of a key do not stay so, unless a request
\* was lost or the key deleted.
Converges ==
    \A m, n \in Nodes, k \in Keys :
        VersionAt(m, k) # VersionAt(n, k)
            ~> (VersionAt(m, k) = VersionAt(n, k) \/ k \in disturbed)

\* The versions drawn for k, and the abstract specification of replication.
Drawn   == {c \in Calls : pc[c] \notin {"new", "version"}}
Issued  == [k \in Keys |-> {req[c].ver : c \in {d \in Drawn : req[d].key = k}}]
Deleted == {req[c].key : c \in {d \in Drawn : req[d].type = "del"}}
Held    == [n \in Nodes |-> [k \in Keys |-> VersionAt(n, k)]]
LWW     == INSTANCE LWWRegister WITH Replicas <- Nodes, Names <- Keys,
                                    issued <- Issued, deleted <- Deleted, held <- Held

\* Every step of the cluster, with requests lost, late or repeated and deletes
\* mixed in, is one the abstract register allows.
ImplementsLWW == LWW!Spec
=============================================================================
