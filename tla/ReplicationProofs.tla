------------------------- MODULE ReplicationProofs -------------------------
(***************************************************************************)
(* For any nodes, keys, values, calls and clock readings: when all calls   *)
(* have returned and all requests have been delivered, the nodes agree on  *)
(* the version of every undisturbed key, and the lags shown are bounded by *)
(* the versions served.                                                    *)
(*                                                                         *)
(* The versions agree because every entry stems from a call (Sourced), and *)
(* what a call ended with is held, in that version or a later one, by its  *)
(* node (Origin) and by every node that has no request of it under way     *)
(* (Delivered).  Deletes would break this, and are accounted for (Deletes).*)
(***************************************************************************)
EXTENDS Replication, TLAPS

Maps == [Keys -> Versioned \cup {Nil}]

\* The call has been applied at its node.
Past(c) == pc[c] \in {"replicate", "done"}

\* Node n holds k in version v or a later one.
AtLeast(n, k, v) == db[n][k] # Nil /\ db[n][k].ver >= v

Sourced ==
    \A n \in Nodes, k \in Keys : db[n][k] # Nil =>
        \E c \in Calls : Past(c) /\ req[c].key = k /\ req[c].out = db[n][k].ver

Deletes == \A c \in Calls : pc[c] # "new" /\ req[c].type = "del" => req[c].key \in disturbed

Origin ==
    \A c \in Calls : Past(c) /\ req[c].key \notin disturbed
                        => AtLeast(req[c].node, req[c].key, req[c].out)

UnderWay(c, n) == \E i \in PeerIDs : Address(i) = n /\ <<c, i>> \in requests

Delivered ==
    \A c \in Calls : pc[c] = "done" /\ req[c].key \notin disturbed =>
        \A n \in Nodes : \/ n = req[c].node \/ UnderWay(c, n)
                         \/ AtLeast(n, req[c].key, req[c].out)

Spread == Sourced /\ Deletes /\ Origin /\ Delivered

\* The lags in every stage of their way to the peer table.
Lags ==
    /\ \A m \in waiting : lastServed[req[m[1]].node] >= req[m[1]].out
    /\ \A u \in measured : u.lag \in 0 .. lastServed[u.node]
    /\ LagBounded

------------------------------------------------------------------------------
(* Applying a write to a map.                                                *)

\* Nil is none of the records it stands for the absence of.
LEMMA NilApart == Nil \notin Call /\ Nil \notin Versioned
BY AbsentAssumption, Zenon

\* The fields of a call.
LEMMA CallFields ==
    ASSUME NEW r \in Call
    PROVE  /\ r.node \in Nodes /\ r.type \in {"set", "del"} /\ r.key \in Keys
           /\ r.val \in Values \cup {Nil} /\ r.ver \in Nat /\ r.out \in Nat
BY DEF Call

\* Set and Delete (store.go) change the entry of their key only, and only if their
\* version is not smaller.
LEMMA AppliedFacts ==
    ASSUME NEW d \in Maps, NEW r \in Call, NEW v \in Nat
    PROVE  /\ Applied(d, r, v) \in Maps
           /\ \A k \in Keys \ {r.key} : Applied(d, r, v)[k] = d[k]
           /\ ~Wins(v, d[r.key]) => Applied(d, r, v) = d
           /\ Wins(v, d[r.key]) /\ r.type = "set"
                => /\ Applied(d, r, v)[r.key] # Nil /\ Applied(d, r, v)[r.key].ver = v
           /\ Wins(v, d[r.key]) /\ r.type = "del" => Applied(d, r, v)[r.key] = Nil
<1> DEFINE e == [val |-> r.val, ver |-> v]
<1>1. r.key \in Keys /\ r.type \in {"set", "del"} /\ r.val \in Values \cup {Nil}
  BY CallFields
<1>2. e \in Versioned /\ e.ver = v
  BY <1>1 DEF Versioned
<1>3. e # Nil
  BY <1>2, NilApart, Zenon
<1> HIDE DEF e
<1>4. Applied(d, r, v) = IF ~Wins(v, d[r.key]) THEN d
                         ELSE [d EXCEPT ![r.key] = IF r.type = "set" THEN e ELSE Nil]
  BY Zenon DEF Applied, e
<1>5. CASE ~Wins(v, d[r.key])
  BY <1>4, <1>5, Zenon
<1>6. CASE Wins(v, d[r.key])
  <2>1. PICK x \in Versioned \cup {Nil} : /\ Applied(d, r, v) = [d EXCEPT ![r.key] = x]
                                         /\ x = IF r.type = "set" THEN e ELSE Nil
    BY <1>2, <1>4, <1>6, Zenon
  <2>2. Applied(d, r, v) \in Maps /\ Applied(d, r, v)[r.key] = x
        /\ \A k \in Keys \ {r.key} : Applied(d, r, v)[k] = d[k]
    BY <1>1, <2>1, Zenon DEF Maps
  <2>3. r.type = "set" => Applied(d, r, v)[r.key] # Nil /\ Applied(d, r, v)[r.key].ver = v
    <3>1. r.type = "set" => Applied(d, r, v)[r.key] = e
      BY <2>1, <2>2
    <3>2. QED
      BY <1>2, <1>3, <3>1, Zenon
  <2>4. r.type = "del" => Applied(d, r, v)[r.key] = Nil
    BY <2>1, <2>2
  <2>5. QED
    BY <1>6, <2>2, <2>3, <2>4, Zenon
<1>7. QED
  BY <1>5, <1>6, Zenon

\* What Set or Delete returns is a version.
LEMMA ReturnedType ==
    ASSUME NEW d \in Maps, NEW r \in Call PROVE Returned(d, r) \in Nat
<1>1. r.key \in Keys /\ r.ver \in Nat
  BY CallFields
<1>2. d[r.key] # Nil => d[r.key].ver \in Nat
  BY <1>1 DEF Maps, Versioned
<1>3. QED
  BY <1>1, <1>2, Zenon DEF Returned, Wins

------------------------------------------------------------------------------
(* Type correctness.                                                         *)

Steps == {"new", "version", "apply", "replicate", "done", "failed"}

\* Go moves one handler on.
LEMMA GoType ==
    ASSUME TypeOK, NEW c \in Calls, NEW l \in Steps, Go(c, l)
    PROVE  pc' \in [Calls -> Steps] /\ pc'[c] = l /\ \A d \in Calls \ {c} : pc'[d] = pc[d]
BY Zenon DEF TypeOK, Go, Steps

\* A handler that has begun has a request.
LEMMA RequestType == ASSUME TypeOK, NEW c \in Calls, pc[c] # "new" PROVE req[c] \in Call
BY Zenon DEF TypeOK

\* A replication request belongs to a handler that is done, and goes to a peer.
LEMMA MessageType ==
    ASSUME TypeOK, NEW m \in requests \cup waiting
    PROVE  /\ m[1] \in Calls /\ m[2] \in PeerIDs /\ m = <<m[1], m[2]>>
           /\ pc[m[1]] = "done" /\ req[m[1]] \in Call
BY DEF TypeOK, Message

\* The address of a peer is a node.
LEMMA AddressType == ASSUME NEW i \in PeerIDs PROVE Address(i) \in Nodes
BY NodesAssumption, Zenon DEF Address, PeerIDs

\* A handler takes a step and the network is left alone.
LEMMA TypeHandler ==
    ASSUME TypeOK, NEW c \in Calls, NEW l \in Steps \ {"new"}, Go(c, l), pc[c] # "done",
           NEW r \in Call, req' = [req EXCEPT ![c] = r],
           db' \in [Nodes -> Maps], lastVersion' \in [Nodes -> Nat],
           disturbed' \subseteq Keys, UNCHANGED <<network, shown>>
    PROVE  TypeOK'
<1>1. pc' \in [Calls -> Steps] /\ pc'[c] = l /\ \A d \in Calls \ {c} : pc'[d] = pc[d]
  BY GoType, Zenon
<1>2. /\ req' \in [Calls -> Call \cup {Nil}] /\ req'[c] = r
      /\ \A d \in Calls \ {c} : req'[d] = req[d]
  BY Zenon DEF TypeOK
<1>3. \A d \in Calls : pc'[d] # "new" => req'[d] \in Call
  BY <1>1, <1>2, Zenon DEF TypeOK
<1>4. requests' = requests /\ waiting' = waiting /\ measured' = measured
      /\ lastServed' = lastServed /\ lag' = lag
  BY Zenon DEF network, shown
<1>5. \A m \in requests \cup waiting : pc'[m[1]] = "done"
  BY <1>1, MessageType, Zenon
<1>6. QED
  BY <1>1, <1>2, <1>3, <1>4, <1>5, Zenon DEF TypeOK, Steps, Maps

\* The handlers of PUT and DELETE.
LEMMA TypeHandlerStep == ASSUME TypeOK, NEW c \in Calls, HandlerStep(c) PROVE TypeOK'
<1> DEFINE r == req[c]
<1> USE DEF Steps
<1>1. /\ db \in [Nodes -> Maps] /\ lastVersion \in [Nodes -> Nat] /\ disturbed \subseteq Keys
      /\ lastServed \in [Nodes -> Nat] /\ req \in [Calls -> Call \cup {Nil}]
  BY Zenon DEF TypeOK, Maps
<1>2. CASE BeginPut(c)
  <2>1. PICK n \in Nodes, k \in Keys, v \in Values :
           req' = [req EXCEPT ![c] = [node |-> n, type |-> "set", key |-> k, val |-> v,
                                      ver |-> 0, out |-> 0]]
    BY <1>2, Zenon DEF BeginPut
  <2>2. [node |-> n, type |-> "set", key |-> k, val |-> v, ver |-> 0, out |-> 0] \in Call
    BY DEF Call
  <2>3. /\ Go(c, "version") /\ pc[c] = "new"
        /\ UNCHANGED <<db, lastVersion, network, shown, disturbed>>
    BY <1>2, Zenon DEF BeginPut
  <2>4. QED
    BY <1>1, <2>1, <2>2, <2>3, TypeHandler, Zenon
<1>3. CASE BeginDelete(c)
  <2>1. PICK n \in Nodes, k \in Keys :
           /\ req' = [req EXCEPT ![c] = [node |-> n, type |-> "del", key |-> k, val |-> Nil,
                                         ver |-> 0, out |-> 0]]
           /\ disturbed' = disturbed \cup {k}
    BY <1>3, Zenon DEF BeginDelete
  <2>2. [node |-> n, type |-> "del", key |-> k, val |-> Nil, ver |-> 0, out |-> 0] \in Call
    BY DEF Call
  <2>3. Go(c, "version") /\ pc[c] = "new" /\ UNCHANGED <<db, lastVersion, network, shown>>
    BY <1>3, Zenon DEF BeginDelete
  <2>4. disturbed' \subseteq Keys
    BY <1>1, <2>1, Zenon
  <2>5. QED
    BY <1>1, <2>1, <2>2, <2>3, <2>4, TypeHandler, Zenon
<1>4. CASE NextVersion(c)
  <2>1. r \in Call /\ pc[c] = "version" /\ Go(c, "apply")
          /\ UNCHANGED <<db, network, shown, disturbed>>
    BY <1>4, RequestType, Zenon DEF NextVersion
  <2>2. r.node \in Nodes
    BY <2>1, CallFields
  <2>3. PICK v : /\ v \in Nat /\ lastVersion' = [lastVersion EXCEPT ![r.node] = v]
                 /\ req' = [req EXCEPT ![c].ver = v]
    <3>1. PICK t \in Readings[r.node] :
            LET v == IF t <= lastVersion[r.node] THEN lastVersion[r.node] + 1 ELSE t
            IN  /\ lastVersion' = [lastVersion EXCEPT ![r.node] = v]
                /\ req' = [req EXCEPT ![c].ver = v]
      BY <1>4, Zenon DEF NextVersion
    <3>2. t \in Nat /\ lastVersion[r.node] \in Nat
      BY <1>1, <2>2, NodesAssumption
    <3>3. (IF t <= lastVersion[r.node] THEN lastVersion[r.node] + 1 ELSE t) \in Nat
      BY <3>2
    <3>4. QED
      BY <3>1, <3>3, Zenon
  <2>4. [r EXCEPT !.ver = v] \in Call
    BY <2>1, <2>3 DEF Call
  <2>5. lastVersion' \in [Nodes -> Nat]
    BY <1>1, <2>2, <2>3, Zenon
  <2>6. QED
    BY <1>1, <2>1, <2>3, <2>4, <2>5, TypeHandler, Zenon
<1>5. CASE Apply(c)
  <2>1. r \in Call /\ pc[c] = "apply" /\ Go(c, "replicate")
          /\ UNCHANGED <<lastVersion, network, shown, disturbed>>
          /\ db' = [db EXCEPT ![r.node] = Applied(@, r, r.ver)]
          /\ req' = [req EXCEPT ![c].out = Returned(db[r.node], r)]
    BY <1>5, RequestType, Zenon DEF Apply
  <2>2. r.node \in Nodes /\ r.ver \in Nat /\ db[r.node] \in Maps
    BY <1>1, <2>1, CallFields
  <2>3. Applied(db[r.node], r, r.ver) \in Maps /\ Returned(db[r.node], r) \in Nat
    BY <2>1, <2>2, AppliedFacts, ReturnedType
  <2>4. db' \in [Nodes -> Maps]
    BY <1>1, <2>1, <2>3, Zenon
  <2>5. [r EXCEPT !.out = Returned(db[r.node], r)] \in Call
    BY <2>1, <2>3 DEF Call
  <2>6. QED
    BY <1>1, <2>1, <2>4, <2>5, TypeHandler, Zenon
<1>6. CASE ApplyFails(c)
  <2>1. r \in Call /\ pc[c] = "apply" /\ Go(c, "failed")
          /\ UNCHANGED <<db, lastVersion, req, network, shown, disturbed>>
    BY <1>6, RequestType, Zenon DEF ApplyFails
  <2>2. req' = [req EXCEPT ![c] = r]
    BY <1>1, <2>1, Zenon
  <2>3. QED
    BY <1>1, <2>1, <2>2, TypeHandler, Zenon
<1>7. CASE Replicate(c)
  <2>1. r \in Call /\ pc[c] = "replicate" /\ Go(c, "done")
          /\ UNCHANGED <<db, lastVersion, req, measured, lag>>
          /\ lastServed' = [lastServed EXCEPT ![r.node] = UpdateLastServed(@, r.out)]
    BY <1>7, RequestType, Zenon DEF Replicate
  <2>2. pc' \in [Calls -> Steps] /\ pc'[c] = "done" /\ \A d \in Calls \ {c} : pc'[d] = pc[d]
    BY <2>1, GoType, Zenon
  <2>3. r.node \in Nodes /\ r.out \in Nat /\ r.key \in Keys
    BY <2>1, CallFields
  <2>4. lastServed' \in [Nodes -> Nat]
    BY <1>1, <2>1, <2>3 DEF UpdateLastServed, Maximum
  <2>5. disturbed' \subseteq Keys
    BY <1>1, <1>7, <2>3, Zenon DEF Replicate
  <2>6. PICK peers \in SUBSET PeerIDs : /\ requests' = requests \cup ({c} \X peers)
                                       /\ waiting' = waiting \cup ({c} \X peers)
    BY <1>7, Zenon DEF Replicate
  <2>7. \A m \in {c} \X peers : m \in Message /\ m[1] = c
    BY DEF Message
  <2>8. requests' \subseteq Message /\ waiting' \subseteq Message
    BY <2>6, <2>7, Zenon DEF TypeOK
  <2>9. \A m \in requests' \cup waiting' : pc'[m[1]] = "done"
    <3>1. SUFFICES ASSUME NEW m \in requests \cup waiting PROVE pc'[m[1]] = "done"
      BY <2>2, <2>6, <2>7, Zenon
    <3>2. QED
      BY <2>1, <2>2, MessageType, Zenon
  <2>10. \A d \in Calls : pc'[d] # "new" => req'[d] \in Call
    BY <2>1, <2>2, Zenon DEF TypeOK
  <2>11. QED
    BY <1>1, <2>1, <2>2, <2>4, <2>5, <2>8, <2>9, <2>10, Zenon DEF TypeOK, Maps
<1>8. QED
  BY <1>2, <1>3, <1>4, <1>5, <1>6, <1>7, Zenon DEF HandlerStep

\* The network and the handler of /internal/replicate.
LEMMA TypeNetworkStep == ASSUME TypeOK, NetworkStep PROVE TypeOK'
<1>1. db \in [Nodes -> Maps] /\ lastServed \in [Nodes -> Nat]
  BY Zenon DEF TypeOK, Maps
<1>2. ASSUME NEW m \in requests, InternalReplicate(m) PROVE TypeOK'
  <2> DEFINE r == req[m[1]]
             n == Address(m[2])
  <2>1. /\ requests' = requests \ {m} /\ db' = [db EXCEPT ![n] = Applied(@, r, r.out)]
        /\ UNCHANGED <<lastVersion, handler, waiting, measured, shown, disturbed>>
    BY <1>2, Zenon DEF InternalReplicate
  <2>2. r \in Call /\ n \in Nodes /\ m[1] \in Calls
    BY MessageType, AddressType, Zenon
  <2>3. r.out \in Nat
    BY <2>2, CallFields
  <2>4. db' \in [Nodes -> Maps]
    BY <1>1, <2>1, <2>2, <2>3, AppliedFacts, Zenon
  <2>5. QED
    BY <2>1, <2>4, Zenon DEF TypeOK, Maps, handler, shown
<1>3. ASSUME NEW m \in requests, Lost(m) PROVE TypeOK'
  <2>1. req[m[1]].key \in Keys
    BY MessageType, CallFields, Zenon
  <2>2. QED
    BY <1>3, <2>1, Zenon DEF Lost, TypeOK, handler, shown
<1>4. ASSUME NEW m \in waiting, MeasureLag(m) PROVE TypeOK'
  <2> DEFINE r == req[m[1]]
  <2>1. r \in Call /\ m[2] \in PeerIDs
    BY MessageType, Zenon
  <2>2. r.node \in Nodes /\ r.out \in Nat
    BY <2>1, CallFields
  <2>3. PICK x \in {0, lastServed[r.node] - r.out} :
            measured' = measured \cup {[node |-> r.node, peer |-> m[2],
                                        lag |-> Maximum(x, lastServed[r.node] - r.out)]}
    BY <1>4, Zenon DEF MeasureLag
  <2>4. Maximum(x, lastServed[r.node] - r.out) \in Int
    BY <1>1, <2>2, <2>3 DEF Maximum
  <2>5. measured' \subseteq [node : Nodes, peer : PeerIDs, lag : Int]
    BY <2>1, <2>2, <2>3, <2>4 DEF TypeOK
  <2>6. waiting' \subseteq waiting
          /\ UNCHANGED <<db, lastVersion, handler, requests, shown, disturbed>>
    BY <1>4, Zenon DEF MeasureLag
  <2>7. QED
    BY <2>5, <2>6, Zenon DEF TypeOK, handler, shown
<1>5. ASSUME NEW u \in measured, UpdateLag(u) PROVE TypeOK'
  <2>1. u.node \in Nodes /\ u.peer \in PeerIDs /\ u.lag \in Int
    BY DEF TypeOK
  <2>2. lag' \in [Nodes -> [PeerIDs -> Int]]
    <3>1. lag \in [Nodes -> [PeerIDs -> Int]]
      BY Zenon DEF TypeOK
    <3>2. lag' = lag \/ lag' = [lag EXCEPT ![u.node] = [lag[u.node] EXCEPT ![u.peer] = u.lag]]
      BY <1>5, Zenon DEF UpdateLag
    <3>3. [lag[u.node] EXCEPT ![u.peer] = u.lag] \in [PeerIDs -> Int]
      BY <2>1, <3>1, Zenon
    <3>4. QED
      BY <2>1, <3>1, <3>2, <3>3, Zenon
  <2>3. measured' \subseteq measured
          /\ UNCHANGED <<db, lastVersion, handler, requests, waiting, lastServed, disturbed>>
    BY <1>5, Zenon DEF UpdateLag
  <2>4. QED
    BY <2>2, <2>3, Zenon DEF TypeOK, handler
<1>6. QED
  BY <1>2, <1>3, <1>4, <1>5, Zenon DEF NetworkStep

\* Type correctness, and that only handlers that are done have requests under way.
THEOREM TypeInvariant == Spec => []TypeOK
<1>1. Init => TypeOK
  BY DEF Init, TypeOK, EmptyMap
<1>2. TypeOK /\ [Next]_vars => TypeOK'
  <2>1. CASE UNCHANGED vars
    BY <2>1, Zenon DEF vars, handler, network, shown, TypeOK
  <2>2. QED
    BY <2>1, TypeHandlerStep, TypeNetworkStep, Zenon DEF Next
<1>3. QED
  BY <1>1, <1>2, PTL DEF Spec

------------------------------------------------------------------------------
(* Versions.                                                                 *)

\* A handler that has not been applied yet, or never will be, takes a step.
LEMMA SpreadBefore ==
    ASSUME TypeOK, Spread, NEW c \in Calls, ~Past(c), ~Past(c)',
           \A d \in Calls \ {c} : pc'[d] = pc[d] /\ req'[d] = req[d],
           db' = db, requests' = requests, disturbed \subseteq disturbed',
           req'[c].type = "del" => req'[c].key \in disturbed'
    PROVE  Spread'
<1>1. Sourced'
  <2>1. \A d \in Calls : Past(d) => pc'[d] = pc[d] /\ req'[d] = req[d]
    BY Zenon
  <2>2. SUFFICES ASSUME NEW n \in Nodes, NEW k \in Keys, db[n][k] # Nil
                 PROVE  \E d \in Calls : Past(d)' /\ req'[d].key = k /\ req'[d].out = db[n][k].ver
    BY Zenon DEF Sourced
  <2>3. PICK d \in Calls : Past(d) /\ req[d].key = k /\ req[d].out = db[n][k].ver
    BY <2>2, Zenon DEF Spread, Sourced
  <2>4. QED
    BY <2>1, <2>3, Zenon DEF Past
<1>5. Deletes'
  BY Zenon DEF Spread, Deletes
<1>2. Origin'
  BY Zenon DEF Spread, Origin, Past, AtLeast
<1>3. Delivered'
  BY Zenon DEF Spread, Delivered, Past, AtLeast, UnderWay
<1>4. QED
  BY <1>1, <1>2, <1>3, <1>5, Zenon DEF Spread

\* At node n the write r is applied with version v.
Writes(n, r, v) ==
    /\ \A m \in Nodes, k \in Keys : m # n \/ k # r.key => db'[m][k] = db[m][k]
    /\ ~Wins(v, db[n][r.key]) => db'[n][r.key] = db[n][r.key]
    /\ Wins(v, db[n][r.key]) /\ r.type = "set"
         => db'[n][r.key] # Nil /\ db'[n][r.key].ver = v
    /\ Wins(v, db[n][r.key]) /\ r.type = "del" => db'[n][r.key] = Nil
    /\ r.key \in Keys /\ r.type \in {"set", "del"} /\ db \in [Nodes -> Maps]

\* That is what Applied does.
LEMMA AppliedWrites ==
    ASSUME TypeOK, NEW n \in Nodes, NEW r \in Call, NEW v \in Nat,
           db' = [db EXCEPT ![n] = Applied(@, r, v)]
    PROVE  Writes(n, r, v)
<1>1. db \in [Nodes -> Maps] /\ r.key \in Keys /\ r.type \in {"set", "del"}
  BY CallFields, Zenon DEF TypeOK, Maps
<1>2. db'[n] = Applied(db[n], r, v) /\ \A m \in Nodes \ {n} : db'[m] = db[m]
  BY <1>1, Zenon
<1>3. PICK d \in Maps : d = db[n]
  BY <1>1, Zenon
<1>4. /\ \A k \in Keys \ {r.key} : db'[n][k] = db[n][k]
      /\ ~Wins(v, db[n][r.key]) => db'[n] = db[n]
      /\ Wins(v, db[n][r.key]) /\ r.type = "set"
           => db'[n][r.key] # Nil /\ db'[n][r.key].ver = v
      /\ Wins(v, db[n][r.key]) /\ r.type = "del" => db'[n][r.key] = Nil
  BY <1>2, <1>3, AppliedFacts
<1>5. \A m \in Nodes, k \in Keys : m # n \/ k # r.key => db'[m][k] = db[m][k]
  BY <1>2, <1>4, Zenon
<1>6. QED
  BY <1>1, <1>4, <1>5, Zenon DEF Writes

\* A write takes no version of an undisturbed key back ...
LEMMA AtLeastKept ==
    ASSUME NEW n \in Nodes, NEW r, NEW v \in Nat, Writes(n, r, v),
           NEW m \in Nodes, NEW k \in Keys, r.key # k \/ r.type = "set",
           NEW x \in Nat, AtLeast(m, k, x)
    PROVE  AtLeast(m, k, x)'
<1>1. CASE m # n \/ k # r.key \/ ~Wins(v, db[n][r.key])
  BY <1>1 DEF AtLeast, Writes
<1>2. CASE m = n /\ k = r.key /\ Wins(v, db[n][r.key])
  <2>1. db[n][k] # Nil /\ db[n][k] \in Versioned /\ db[n][k].ver >= x
    BY <1>2 DEF AtLeast, Writes, Maps
  <2>2. v >= db[n][k].ver
    BY <1>2, <2>1 DEF Wins
  <2>3. db'[n][k] # Nil /\ db'[n][k].ver = v
    BY <1>2 DEF Writes
  <2>4. QED
    BY <1>2, <2>1, <2>2, <2>3 DEF AtLeast, Versioned
<1>3. QED
  BY <1>1, <1>2, Zenon

\* ... and a Set leaves its version, or a later one.
LEMMA AtLeastApplied ==
    ASSUME NEW n \in Nodes, NEW r, NEW v \in Nat, Writes(n, r, v), r.type = "set",
           NEW k, k = r.key
    PROVE  AtLeast(n, k, v)'
<1>1. CASE Wins(v, db[n][k])
  BY <1>1 DEF AtLeast, Writes
<1>2. CASE ~Wins(v, db[n][k])
  <2>1. db'[n][k] = db[n][k]
    BY <1>2 DEF Writes
  <2>2. db[n][k] # Nil /\ ~(v >= db[n][k].ver)
    BY <1>2, Zenon DEF Wins
  <2>3. db[n][k] \in Versioned
    BY <2>2 DEF Maps, Writes
  <2>4. QED
    BY <2>1, <2>2, <2>3 DEF AtLeast, Versioned
<1>3. QED
  BY <1>1, <1>2, Zenon

\* Every entry after a write is an old one or has the version of the write.
LEMMA EntryFrom ==
    ASSUME NEW n \in Nodes, NEW r, NEW v \in Nat, Writes(n, r, v),
           NEW m \in Nodes, NEW k \in Keys, db'[m][k] # Nil
    PROVE  \/ db[m][k] # Nil /\ db'[m][k].ver = db[m][k].ver
           \/ m = n /\ k = r.key /\ Wins(v, db[n][r.key]) /\ db'[m][k].ver = v
BY DEF Writes

\* The fields of a call that has begun.
LEMMA BegunFields ==
    ASSUME TypeOK, NEW c \in Calls, pc[c] # "new"
    PROVE  /\ req[c].node \in Nodes /\ req[c].type \in {"set", "del"} /\ req[c].key \in Keys
           /\ req[c].ver \in Nat /\ req[c].out \in Nat
BY RequestType, CallFields, Zenon

\* A handler applies its write: the node then holds what the call is answered with.
LEMMA SpreadApply == ASSUME TypeOK, Spread, NEW c \in Calls, Apply(c) PROVE Spread'
<1>1. PICK r \in Call : r = req[c]
  BY RequestType, Zenon DEF Apply
<1>2. PICK n \in Nodes, k \in Keys, v \in Nat, x \in Nat :
          n = r.node /\ k = r.key /\ v = r.ver /\ x = Returned(db[n], r)
  BY CallFields, ReturnedType, Zenon DEF TypeOK, Maps
<1>3. /\ pc[c] = "apply" /\ Go(c, "replicate") /\ db' = [db EXCEPT ![n] = Applied(@, r, v)]
      /\ req' = [req EXCEPT ![c].out = x] /\ requests' = requests /\ disturbed' = disturbed
  BY <1>1, <1>2, Zenon DEF Apply, network
<1>4. Writes(n, r, v)
  BY <1>3, AppliedWrites, Zenon
<1>5. pc'[c] = "replicate" /\ \A d \in Calls \ {c} : pc'[d] = pc[d]
  BY <1>3, GoType, Zenon DEF Steps
<1>6. \A d \in Calls \ {c} : req'[d] = req[d]
  BY <1>3, Zenon DEF TypeOK
<1>7. req'[c].node = n /\ req'[c].key = k /\ req'[c].type = r.type /\ req'[c].out = x
  BY <1>1, <1>2, <1>3 DEF TypeOK, Call
<1>8. r.type = "del" => k \in disturbed
  BY <1>1, <1>2, <1>3, Zenon DEF Spread, Deletes
<1>9. \A d \in Calls : Past(d) => d # c
  BY <1>3, Zenon DEF Past
<1>10. \A m \in Nodes, j \in Keys \ disturbed, y \in Nat : AtLeast(m, j, y) => AtLeast(m, j, y)'
  <2>1. TAKE m \in Nodes, j \in Keys \ disturbed, y \in Nat
  <2>2. HAVE AtLeast(m, j, y)
  <2>3. r.key # j \/ r.type = "set"
    BY <1>2, <1>8, CallFields, Zenon
  <2>4. QED
    BY <1>4, <2>2, <2>3, AtLeastKept, Zenon
<1>11. Sourced'
  <2>1. SUFFICES ASSUME NEW m \in Nodes, NEW j \in Keys, db'[m][j] # Nil
                 PROVE  \E d \in Calls : Past(d)' /\ req'[d].key = j /\ req'[d].out = db'[m][j].ver
    BY Zenon DEF Sourced
  <2>2. CASE db[m][j] # Nil /\ db'[m][j].ver = db[m][j].ver
    <3>1. PICK d \in Calls : Past(d) /\ req[d].key = j /\ req[d].out = db[m][j].ver
      BY <2>2, Zenon DEF Spread, Sourced
    <3>2. d # c
      BY <1>9, <3>1, Zenon
    <3>3. QED
      BY <1>5, <1>6, <2>2, <3>1, <3>2, Zenon DEF Past
  <2>3. CASE m = n /\ j = r.key /\ Wins(v, db[n][r.key]) /\ db'[m][j].ver = v
    <3>1. x = v
      BY <1>2, <2>3, Zenon DEF Returned
    <3>2. QED
      BY <1>2, <1>5, <1>7, <2>3, <3>1, Zenon DEF Past
  <2>4. \/ db[m][j] # Nil /\ db'[m][j].ver = db[m][j].ver
        \/ m = n /\ j = r.key /\ Wins(v, db[n][r.key]) /\ db'[m][j].ver = v
    BY <1>4, <2>1, EntryFrom
  <2>5. QED
    BY <2>2, <2>3, <2>4, Zenon
<1>12. Deletes'
  <2>1. SUFFICES ASSUME NEW d \in Calls, pc'[d] # "new", req'[d].type = "del"
                 PROVE  req'[d].key \in disturbed
    BY <1>3, Zenon DEF Deletes
  <2>2. CASE d = c
    BY <1>7, <1>8, <2>1, <2>2, Zenon
  <2>3. CASE d # c
    BY <1>5, <1>6, <2>1, <2>3, Zenon DEF Spread, Deletes
  <2>4. QED
    BY <2>2, <2>3, Zenon
<1>13. ASSUME NEW d \in Calls, d # c, Past(d), req[d].key \notin disturbed,
              NEW m \in Nodes, AtLeast(m, req[d].key, req[d].out)
       PROVE  AtLeast(m, req[d].key, req[d].out)'
  <2>1. PICK j \in Keys, y \in Nat : j = req[d].key /\ y = req[d].out
    BY <1>13, BegunFields, Zenon DEF Past
  <2>2. req'[d].key = j /\ req'[d].out = y
    BY <1>6, <1>13, <2>1, Zenon
  <2>3. AtLeast(m, j, y)'
    BY <1>10, <1>13, <2>1, Zenon
  <2>4. QED
    BY <2>2, <2>3, Zenon DEF AtLeast
<1>14. k \notin disturbed => AtLeast(n, k, x)'
  <2>1. HAVE k \notin disturbed
  <2>2. r.type = "set"
    BY <1>8, <2>1, CallFields, Zenon
  <2>3. CASE Wins(v, db[n][k])
    <3>1. x = v
      BY <1>2, <2>3, Zenon DEF Returned
    <3>2. QED
      BY <1>2, <1>4, <2>2, <3>1, AtLeastApplied, Zenon
  <2>4. CASE ~Wins(v, db[n][k])
    <3>1. x = db[n][k].ver /\ db[n][k] # Nil
      BY <1>2, <2>4, Zenon DEF Returned, Wins
    <3>2. db'[n][k] = db[n][k]
      BY <1>2, <1>4, <2>4 DEF Writes
    <3>3. QED
      BY <3>1, <3>2 DEF AtLeast
  <2>5. QED
    BY <2>3, <2>4, Zenon
<1>15. Origin'
  <2>1. SUFFICES ASSUME NEW d \in Calls, Past(d)', req'[d].key \notin disturbed
                 PROVE  AtLeast(req[d].node, req[d].key, req[d].out)'
    BY <1>3, Zenon DEF Origin
  <2>2. CASE d = c
    BY <1>7, <1>14, <2>1, <2>2, Zenon DEF AtLeast
  <2>3. CASE d # c
    <3>1. Past(d) /\ req'[d] = req[d]
      BY <1>5, <1>6, <2>1, <2>3, Zenon DEF Past
    <3>2. PICK m \in Nodes : m = req[d].node
      BY <3>1, BegunFields, Zenon DEF Past
    <3>3. AtLeast(m, req[d].key, req[d].out)
      BY <2>1, <3>1, <3>2, Zenon DEF Spread, Origin
    <3>4. AtLeast(m, req[d].key, req[d].out)'
      BY <1>13, <2>1, <2>3, <3>1, <3>3, Zenon
    <3>5. QED
      BY <3>1, <3>2, <3>4, Zenon DEF AtLeast
  <2>4. QED
    BY <2>2, <2>3, Zenon
<1>16. Delivered'
  <2>1. SUFFICES ASSUME NEW d \in Calls, pc'[d] = "done", req'[d].key \notin disturbed,
                        NEW m \in Nodes, m # req'[d].node, ~UnderWay(d, m)
                 PROVE  AtLeast(m, req[d].key, req[d].out)'
    BY <1>3, Zenon DEF Delivered, UnderWay
  <2>2. d # c /\ pc[d] = "done" /\ req'[d] = req[d] /\ Past(d)
    BY <1>5, <1>6, <2>1, Zenon DEF Past
  <2>3. AtLeast(m, req[d].key, req[d].out)
    BY <2>1, <2>2, Zenon DEF Spread, Delivered
  <2>4. QED
    BY <1>13, <2>1, <2>2, <2>3, Zenon
<1>17. QED
  BY <1>11, <1>12, <1>15, <1>16, Zenon DEF Spread

\* A handler replicates: the write is under way to every other node, or its key
\* becomes a disturbed one.
LEMMA SpreadReplicate == ASSUME TypeOK, Spread, NEW c \in Calls, Replicate(c) PROVE Spread'
<1>1. /\ pc[c] = "replicate" /\ Go(c, "done") /\ db' = db /\ req' = req
  BY Zenon DEF Replicate
<1>2. PICK peers \in SUBSET (PeerIDs \ {req[c].node}) :
          /\ requests' = requests \cup ({c} \X peers)
          /\ disturbed' = IF \A m \in Nodes \ {req[c].node} : \E i \in peers : Address(i) = m
                          THEN disturbed ELSE disturbed \cup {req[c].key}
  BY Zenon DEF Replicate
<1>3. pc'[c] = "done" /\ \A d \in Calls \ {c} : pc'[d] = pc[d]
  BY <1>1, GoType, Zenon DEF Steps
<1>4. disturbed \subseteq disturbed' /\ requests \subseteq requests'
  BY <1>2, Zenon
<1>5. \A d \in Calls : Past(d)' <=> Past(d)
  BY <1>1, <1>3, Zenon DEF Past
<1>6. Sourced'
  <2>1. SUFFICES ASSUME NEW n \in Nodes, NEW k \in Keys, db'[n][k] # Nil
                 PROVE  \E d \in Calls : Past(d)' /\ req'[d].key = k /\ req'[d].out = db'[n][k].ver
    BY Zenon DEF Sourced
  <2>2. PICK d \in Calls : Past(d) /\ req[d].key = k /\ req[d].out = db[n][k].ver
    BY <1>1, <2>1, Zenon DEF Spread, Sourced
  <2>3. QED
    BY <1>1, <1>5, <2>2, Zenon
<1>7. Deletes'
  <2>1. \A d \in Calls : pc'[d] # "new" => pc[d] # "new"
    BY <1>1, <1>3, Zenon
  <2>2. QED
    BY <1>1, <1>4, <2>1, Zenon DEF Spread, Deletes
<1>8. Origin'
  <2>1. SUFFICES ASSUME NEW d \in Calls, Past(d), req[d].key \notin disturbed'
                 PROVE  AtLeast(req[d].node, req[d].key, req[d].out)
    BY <1>1, <1>5, Zenon DEF Origin, AtLeast
  <2>2. QED
    BY <1>4, <2>1, Zenon DEF Spread, Origin
<1>9. Delivered'
  <2>1. SUFFICES ASSUME NEW d \in Calls, pc'[d] = "done", req[d].key \notin disturbed',
                        NEW m \in Nodes, m # req[d].node
                 PROVE  UnderWay(d, m)' \/ AtLeast(m, req[d].key, req[d].out)
    BY <1>1, Zenon DEF Delivered, AtLeast
  <2>2. CASE d = c
    <3>1. PICK i \in peers : Address(i) = m
      BY <1>2, <2>1, <2>2, Zenon
    <3>2. <<c, i>> \in requests' /\ i \in PeerIDs
      BY <1>2, <3>1, Zenon
    <3>3. QED
      BY <2>2, <3>1, <3>2, Zenon DEF UnderWay
  <2>3. CASE d # c
    <3>1. UnderWay(d, m) \/ AtLeast(m, req[d].key, req[d].out)
      BY <1>3, <1>4, <2>1, <2>3, Zenon DEF Spread, Delivered
    <3>2. QED
      BY <1>4, <3>1, Zenon DEF UnderWay
  <2>4. QED
    BY <2>2, <2>3, Zenon
<1>10. QED
  BY <1>6, <1>7, <1>8, <1>9, Zenon DEF Spread

\* The handlers of PUT and DELETE.
LEMMA SpreadHandlerStep == ASSUME TypeOK, Spread, NEW c \in Calls, HandlerStep(c) PROVE Spread'
<1> USE DEF Steps
<1>1. ASSUME NEW l \in Steps, NEW r, Go(c, l), req' = [req EXCEPT ![c] = r],
             pc[c] \notin {"replicate", "done"}, l \notin {"replicate", "done"},
             db' = db, UNCHANGED network, disturbed \subseteq disturbed',
             r.type = "del" => r.key \in disturbed'
      PROVE  Spread'
  <2>1. pc'[c] = l /\ \A d \in Calls \ {c} : pc'[d] = pc[d]
    BY <1>1, GoType, Zenon
  <2>2. req'[c] = r /\ \A d \in Calls \ {c} : req'[d] = req[d]
    BY <1>1, Zenon DEF TypeOK
  <2>3. ~Past(c) /\ ~Past(c)'
    BY <1>1, <2>1, Zenon DEF Past
  <2>4. requests' = requests
    BY <1>1, Zenon DEF network
  <2>5. QED
    BY <1>1, <2>1, <2>2, <2>3, <2>4, SpreadBefore, Zenon
<1>2. CASE BeginPut(c)
  <2>1. PICK r : r.type = "set" /\ req' = [req EXCEPT ![c] = r]
    <3>1. PICK n \in Nodes, k \in Keys, v \in Values :
             req' = [req EXCEPT ![c] = [node |-> n, type |-> "set", key |-> k, val |-> v,
                                        ver |-> 0, out |-> 0]]
      BY <1>2, Zenon DEF BeginPut
    <3>2. [node |-> n, type |-> "set", key |-> k, val |-> v, ver |-> 0, out |-> 0].type = "set"
      OBVIOUS
    <3>3. QED
      BY <3>1, <3>2, Zenon
  <2>2. QED
    BY <1>1, <1>2, <2>1, Zenon DEF BeginPut
<1>3. CASE BeginDelete(c)
  <2>1. PICK r : /\ r.type = "del" /\ req' = [req EXCEPT ![c] = r]
                 /\ disturbed' = disturbed \cup {r.key}
    <3>1. PICK n \in Nodes, k \in Keys :
             /\ req' = [req EXCEPT ![c] = [node |-> n, type |-> "del", key |-> k, val |-> Nil,
                                           ver |-> 0, out |-> 0]]
             /\ disturbed' = disturbed \cup {k}
      BY <1>3, Zenon DEF BeginDelete
    <3> DEFINE r == [node |-> n, type |-> "del", key |-> k, val |-> Nil, ver |-> 0, out |-> 0]
    <3>2. r.type = "del" /\ r.key = k
      OBVIOUS
    <3>3. QED
      BY <3>1, <3>2, Zenon
  <2>2. QED
    BY <1>1, <1>3, <2>1, Zenon DEF BeginDelete
<1>4. CASE NextVersion(c)
  <2>1. /\ pc[c] = "version" /\ Go(c, "apply") /\ UNCHANGED <<db, network, disturbed>>
        /\ \E v : req' = [req EXCEPT ![c].ver = v]
    BY <1>4, Zenon DEF NextVersion
  <2>2. PICK v, r : r = [req[c] EXCEPT !.ver = v] /\ req' = [req EXCEPT ![c] = r]
    BY <2>1, Zenon
  <2>3. r.type = req[c].type /\ r.key = req[c].key
    BY <2>1, <2>2, RequestType DEF Call
  <2>4. req[c].type = "del" => req[c].key \in disturbed
    BY <2>1, Zenon DEF Spread, Deletes
  <2>5. r.type = "del" => r.key \in disturbed'
    BY <2>1, <2>3, <2>4, Zenon
  <2>6. QED
    BY <1>1, <2>1, <2>2, <2>5, Zenon
<1>5. CASE ApplyFails(c)
  <2>1. /\ pc[c] = "apply" /\ Go(c, "failed") /\ UNCHANGED <<db, network, disturbed>>
        /\ req' = [req EXCEPT ![c] = req[c]]
    BY <1>5, Zenon DEF ApplyFails, TypeOK
  <2>2. req[c].type = "del" => req[c].key \in disturbed
    BY <2>1, Zenon DEF Spread, Deletes
  <2>3. QED
    BY <1>1, <2>1, <2>2, Zenon
<1>6. QED
  BY <1>2, <1>3, <1>4, <1>5, SpreadApply, SpreadReplicate, Zenon DEF HandlerStep

\* The peer's handler: a request that is delivered leaves its version, or a later one.
LEMMA SpreadDelivery ==
    ASSUME TypeOK, Spread, NEW q \in requests, InternalReplicate(q) PROVE Spread'
<1>1. PICK c \in Calls, i \in PeerIDs : q = <<c, i>> /\ c = q[1] /\ i = q[2]
  BY MessageType, Zenon
<1>2. pc[c] = "done" /\ req[c] \in Call
  BY <1>1, MessageType, Zenon
<1>3. PICK n \in Nodes, r \in Call, v \in Nat, k \in Keys :
          n = Address(i) /\ r = req[c] /\ v = r.out /\ k = r.key
  BY <1>2, CallFields, AddressType, Zenon
<1>4. /\ db' = [db EXCEPT ![n] = Applied(@, r, v)] /\ requests' = requests \ {q}
      /\ pc' = pc /\ req' = req /\ disturbed' = disturbed
  BY <1>1, <1>3, Zenon DEF InternalReplicate, handler
<1>5. Writes(n, r, v)
  BY <1>4, AppliedWrites, Zenon
<1>6. r.type = "del" => k \in disturbed
  BY <1>2, <1>3, Zenon DEF Spread, Deletes
<1>7. \A m \in Nodes, j \in Keys \ disturbed, y \in Nat : AtLeast(m, j, y) => AtLeast(m, j, y)'
  <2>1. TAKE m \in Nodes, j \in Keys \ disturbed, y \in Nat
  <2>2. HAVE AtLeast(m, j, y)
  <2>3. r.key # j \/ r.type = "set"
    BY <1>3, <1>6, CallFields, Zenon
  <2>4. QED
    BY <1>5, <2>2, <2>3, AtLeastKept, Zenon
<1>8. Sourced'
  <2>1. SUFFICES ASSUME NEW m \in Nodes, NEW j \in Keys, db'[m][j] # Nil
                 PROVE  \E d \in Calls : Past(d)' /\ req[d].key = j /\ req[d].out = db'[m][j].ver
    BY <1>4, Zenon DEF Sourced
  <2>2. CASE db[m][j] # Nil /\ db'[m][j].ver = db[m][j].ver
    <3>1. PICK d \in Calls : Past(d) /\ req[d].key = j /\ req[d].out = db[m][j].ver
      BY <2>2, Zenon DEF Spread, Sourced
    <3>2. QED
      BY <1>4, <2>2, <3>1, Zenon DEF Past
  <2>3. CASE m = n /\ j = r.key /\ Wins(v, db[n][r.key]) /\ db'[m][j].ver = v
    BY <1>2, <1>3, <1>4, <2>3, Zenon DEF Past
  <2>4. \/ db[m][j] # Nil /\ db'[m][j].ver = db[m][j].ver
        \/ m = n /\ j = r.key /\ Wins(v, db[n][r.key]) /\ db'[m][j].ver = v
    BY <1>5, <2>1, EntryFrom
  <2>5. QED
    BY <2>2, <2>3, <2>4, Zenon
<1>9. Deletes'
  BY <1>4, Zenon DEF Spread, Deletes
<1>10. Origin'
  <2>1. SUFFICES ASSUME NEW d \in Calls, Past(d), req[d].key \notin disturbed
                 PROVE  AtLeast(req[d].node, req[d].key, req[d].out)'
    BY <1>4, Zenon DEF Origin, Past
  <2>2. PICK m \in Nodes, j \in Keys, y \in Nat : m = req[d].node /\ j = req[d].key /\ y = req[d].out
    BY <2>1, BegunFields, Zenon DEF Past
  <2>3. AtLeast(m, j, y)'
    BY <1>7, <2>1, <2>2, Zenon DEF Spread, Origin
  <2>4. QED
    BY <1>4, <2>2, <2>3, Zenon DEF AtLeast
<1>11. Delivered'
  <2>1. SUFFICES ASSUME NEW d \in Calls, pc[d] = "done", req[d].key \notin disturbed,
                        NEW m \in Nodes, m # req[d].node, ~UnderWay(d, m)'
                 PROVE  AtLeast(m, req[d].key, req[d].out)'
    BY <1>4, Zenon DEF Delivered
  <2>2. PICK j \in Keys, y \in Nat : j = req[d].key /\ y = req[d].out
    BY <2>1, BegunFields, Zenon
  <2>3. CASE UnderWay(d, m)
    <3>1. PICK h \in PeerIDs : Address(h) = m /\ <<d, h>> \in requests
      BY <2>3, Zenon DEF UnderWay
    <3>2. <<d, h>> = q
      BY <1>4, <2>1, <3>1, Zenon DEF UnderWay
    <3>3. d = c /\ h = i
      BY <1>1, <3>2
    <3>4. r.type = "set" /\ m = n /\ j = k /\ y = v
      BY <1>3, <1>6, <2>1, <2>2, <3>1, <3>3, CallFields, Zenon
    <3>5. AtLeast(n, k, v)'
      BY <1>3, <1>5, <3>4, AtLeastApplied, Zenon
    <3>6. QED
      BY <1>4, <2>2, <3>4, <3>5, Zenon DEF AtLeast
  <2>4. CASE ~UnderWay(d, m)
    <3>1. AtLeast(m, j, y)'
      BY <1>7, <2>1, <2>2, <2>4, Zenon DEF Spread, Delivered
    <3>2. QED
      BY <1>4, <2>2, <3>1, Zenon DEF AtLeast
  <2>5. QED
    BY <2>3, <2>4, Zenon
<1>12. QED
  BY <1>8, <1>9, <1>10, <1>11, Zenon DEF Spread

\* A step that changes none of what Spread is about.
LEMMA SpreadKept ==
    ASSUME Spread, UNCHANGED <<pc, req, db, requests, disturbed>> PROVE Spread'
<1>1. Sourced' /\ Deletes'
  BY Zenon DEF Spread, Sourced, Deletes, Past
<1>2. Origin'
  BY Zenon DEF Spread, Origin, Past, AtLeast
<1>3. Delivered'
  BY Zenon DEF Spread, Delivered, UnderWay, AtLeast
<1>4. QED
  BY <1>1, <1>2, <1>3, Zenon DEF Spread

\* The network: a request that is lost disturbs its key.
LEMMA SpreadNetworkStep == ASSUME TypeOK, Spread, NetworkStep PROVE Spread'
<1>1. ASSUME NEW q \in requests, Lost(q) PROVE Spread'
  <2>1. PICK c \in Calls, i \in PeerIDs : q = <<c, i>> /\ c = q[1]
    BY MessageType, Zenon
  <2>2. /\ requests' = requests \ {q} /\ disturbed' = disturbed \cup {req[c].key}
        /\ pc' = pc /\ req' = req /\ db' = db
    BY <1>1, <2>1, Zenon DEF Lost, handler
  <2>3. Sourced' /\ Deletes'
    BY <2>2, Zenon DEF Spread, Sourced, Deletes, Past
  <2>4. Origin'
    BY <2>2, Zenon DEF Spread, Origin, Past, AtLeast
  <2>5. Delivered'
    <3>1. SUFFICES ASSUME NEW d \in Calls, pc[d] = "done", req[d].key \notin disturbed, d # c,
                          NEW m \in Nodes, m # req[d].node
                   PROVE  UnderWay(d, m)' \/ AtLeast(m, req[d].key, req[d].out)
      BY <2>2, Zenon DEF Delivered, AtLeast
    <3>2. CASE UnderWay(d, m)
      <4>1. PICK h \in PeerIDs : Address(h) = m /\ <<d, h>> \in requests
        BY <3>2, Zenon DEF UnderWay
      <4>2. <<d, h>> # q
        BY <2>1, <3>1
      <4>3. QED
        BY <2>2, <4>1, <4>2, Zenon DEF UnderWay
    <3>3. QED
      BY <3>1, <3>2, Zenon DEF Spread, Delivered
  <2>6. QED
    BY <2>3, <2>4, <2>5, Zenon DEF Spread
<1>2. ASSUME NEW m \in waiting, MeasureLag(m) PROVE Spread'
  BY <1>2, SpreadKept, Zenon DEF MeasureLag, handler
<1>3. ASSUME NEW u \in measured, UpdateLag(u) PROVE Spread'
  BY <1>3, SpreadKept, Zenon DEF UpdateLag, handler
<1>4. QED
  BY <1>1, <1>2, <1>3, SpreadDelivery, Zenon DEF NetworkStep

\* Spread is inductive.
LEMMA SpreadInvariant == Spec => []Spread
<1>1. Init => Spread
  <2>1. Init => Sourced
    <3>1. Init => \A n \in Nodes, k \in Keys : db[n][k] = Nil
      BY DEF Init, EmptyMap
    <3>2. QED
      BY <3>1, Zenon DEF Sourced
  <2>2. Init => \A c \in Calls : pc[c] = "new"
    BY Zenon DEF Init
  <2>3. QED
    BY <2>1, <2>2, Zenon DEF Spread, Deletes, Origin, Delivered, Past
<1>2. TypeOK /\ Spread /\ [Next]_vars => Spread'
  <2>1. CASE UNCHANGED vars
    BY <2>1, SpreadKept, Zenon DEF vars, handler, network
  <2>2. QED
    BY <2>1, SpreadHandlerStep, SpreadNetworkStep, Zenon DEF Next
<1>3. QED
  BY <1>1, <1>2, TypeInvariant, PTL DEF Spec

\* When all has been delivered, in whatever order and however often, all nodes hold
\* the same version of every undisturbed key.
THEOREM VersionAgreement == Spec => []VersionsAgree
<1>1. TypeOK /\ Spread => VersionsAgree
  <2>1. SUFFICES ASSUME TypeOK, Spread, Quiet, NEW k \in Keys \ disturbed,
                        NEW m \in Nodes, NEW n \in Nodes
                 PROVE  VersionAt(m, k) = VersionAt(n, k)
    BY Zenon DEF VersionsAgree
  <2>2. ASSUME NEW x \in Nodes, NEW y \in Nodes, db[x][k] # Nil
        PROVE  AtLeast(y, k, db[x][k].ver)
    <3>1. PICK c \in Calls : Past(c) /\ req[c].key = k /\ req[c].out = db[x][k].ver
      BY <2>1, <2>2, Zenon DEF Spread, Sourced
    <3>2. pc[c] = "done"
      BY <2>1, <3>1, Zenon DEF Quiet, Past
    <3>3. ~UnderWay(c, y)
      BY <2>1, Zenon DEF Quiet, UnderWay
    <3>4. QED
      BY <2>1, <3>1, <3>2, <3>3, Zenon DEF Spread, Origin, Delivered
  <2>3. \A x \in Nodes : db[x][k] # Nil => db[x][k].ver \in Nat
    BY <2>1 DEF TypeOK, Versioned
  <2>4. QED
    BY <2>2, <2>3 DEF VersionAt, AtLeast
<1>2. QED
  BY <1>1, TypeInvariant, SpreadInvariant, PTL

------------------------------------------------------------------------------
(* Lags.                                                                     *)

\* What a handler does before Replicate leaves the lags alone: only handlers that
\* are done have goroutines waiting.
LEMMA LagsBefore ==
    ASSUME TypeOK, Lags, NEW c \in Calls, pc[c] # "done", UNCHANGED <<network, shown>>,
           \A d \in Calls \ {c} : req'[d] = req[d]
    PROVE  Lags'
<1>1. waiting' = waiting /\ measured' = measured /\ lastServed' = lastServed /\ lag' = lag
  BY Zenon DEF network, shown
<1>2. \A m \in waiting : req'[m[1]] = req[m[1]]
  BY MessageType, Zenon
<1>3. QED
  BY <1>1, <1>2, Zenon DEF Lags, LagBounded

\* Replicate raises lastServed to the version it sends.
LEMMA LagsReplicate == ASSUME TypeOK, Lags, NEW c \in Calls, Replicate(c) PROVE Lags'
<1>1. PICK n \in Nodes, x \in Nat : n = req[c].node /\ x = req[c].out
  BY BegunFields, Zenon DEF Replicate
<1>2. /\ lastServed' = [lastServed EXCEPT ![n] = Maximum(@, x)]
      /\ req' = req /\ measured' = measured /\ lag' = lag
  BY <1>1, Zenon DEF Replicate, UpdateLastServed
<1>3. \A m \in waiting' : m \in waiting \/ m[1] = c
  <2>1. PICK peers \in SUBSET PeerIDs : waiting' = waiting \cup ({c} \X peers)
    BY Zenon DEF Replicate
  <2>2. \A m \in {c} \X peers : m[1] = c
    OBVIOUS
  <2>3. QED
    BY <2>1, <2>2, Zenon
<1>4. /\ \A m \in Nodes : lastServed'[m] >= lastServed[m] /\ lastServed[m] \in Nat
                           /\ lastServed'[m] \in Nat
      /\ lastServed'[n] >= x
  BY <1>2 DEF TypeOK, Maximum
<1>5. \A m \in waiting' : lastServed'[req[m[1]].node] >= req[m[1]].out
  <2>1. ASSUME NEW m \in waiting PROVE lastServed'[req[m[1]].node] >= req[m[1]].out
    <3>1. req[m[1]].node \in Nodes /\ req[m[1]].out \in Nat
      BY MessageType, CallFields, Zenon
    <3>2. lastServed[req[m[1]].node] >= req[m[1]].out
      BY Zenon DEF Lags
    <3>3. QED
      BY <1>4, <3>1, <3>2
  <2>2. QED
    BY <1>1, <1>3, <1>4, <2>1, Zenon
<1>6. ASSUME NEW m \in Nodes, NEW l, l \in 0 .. lastServed[m] PROVE l \in 0 .. lastServed'[m]
  BY <1>4, <1>6
<1>7. \A u \in measured : u.node \in Nodes
  BY DEF TypeOK
<1>8. \A u \in measured : u.lag \in 0 .. lastServed'[u.node]
  BY <1>6, <1>7, Zenon DEF Lags
<1>9. LagBounded'
  BY <1>2, <1>6, Zenon DEF Lags, LagBounded
<1>10. QED
  BY <1>2, <1>5, <1>8, <1>9, Zenon DEF Lags

\* The handlers of PUT and DELETE.
LEMMA LagsHandlerStep == ASSUME TypeOK, Lags, NEW c \in Calls, HandlerStep(c) PROVE Lags'
<1>1. CASE BeginPut(c)
  BY <1>1, LagsBefore, Zenon DEF BeginPut, TypeOK
<1>2. CASE BeginDelete(c)
  BY <1>2, LagsBefore, Zenon DEF BeginDelete, TypeOK
<1>3. CASE NextVersion(c)
  BY <1>3, LagsBefore, Zenon DEF NextVersion, TypeOK
<1>4. CASE Apply(c)
  BY <1>4, LagsBefore, Zenon DEF Apply, TypeOK
<1>5. CASE ApplyFails(c)
  BY <1>5, LagsBefore, Zenon DEF ApplyFails
<1>6. QED
  BY <1>1, <1>2, <1>3, <1>4, <1>5, LagsReplicate, Zenon DEF HandlerStep

\* The goroutines of Replicate: the lag they measure is a difference of versions
\* served, and lastServed does not fall until they store it.
LEMMA LagsNetworkStep == ASSUME TypeOK, Lags, NetworkStep PROVE Lags'
<1>1. ASSUME NEW m \in requests, InternalReplicate(m) \/ Lost(m) PROVE Lags'
  BY <1>1, Zenon DEF InternalReplicate, Lost, handler, shown, Lags, LagBounded
<1>2. ASSUME NEW m \in waiting, MeasureLag(m) PROVE Lags'
  <2>1. PICK n \in Nodes, x \in Nat : n = req[m[1]].node /\ x = req[m[1]].out
    BY MessageType, CallFields, Zenon
  <2>2. lastServed[n] >= x /\ lastServed[n] \in Nat
    BY <2>1, Zenon DEF Lags, TypeOK
  <2>3. PICK least \in {0, lastServed[n] - x} :
            measured' = measured \cup {[node |-> n, peer |-> m[2],
                                        lag |-> Maximum(least, lastServed[n] - x)]}
    BY <1>2, <2>1, Zenon DEF MeasureLag
  <2>4. Maximum(least, lastServed[n] - x) \in 0 .. lastServed[n]
    BY <2>2, <2>3 DEF Maximum
  <2>5. /\ waiting' = waiting \ {m} /\ req' = req /\ lastServed' = lastServed /\ lag' = lag
    BY <1>2, Zenon DEF MeasureLag, handler, shown
  <2>6. \A u \in measured' : u.lag \in 0 .. lastServed[u.node]
    BY <2>3, <2>4 DEF Lags
  <2>7. QED
    BY <2>5, <2>6, Zenon DEF Lags, LagBounded
<1>3. ASSUME NEW u \in measured, UpdateLag(u) PROVE Lags'
  <2>1. u.node \in Nodes /\ u.peer \in PeerIDs /\ u.lag \in 0 .. lastServed[u.node]
    BY DEF TypeOK, Lags
  <2>2. /\ waiting' = waiting /\ measured' = measured \ {u} /\ req' = req
        /\ lastServed' = lastServed
    BY <1>3, Zenon DEF UpdateLag, handler
  <2>3. \A n \in Nodes, i \in PeerIDs : lag'[n][i] = lag[n][i] \/ (n = u.node /\ lag'[n][i] = u.lag)
    <3>1. lag \in [Nodes -> [PeerIDs -> Int]]
      BY Zenon DEF TypeOK
    <3>2. lag' = lag \/ lag' = [lag EXCEPT ![u.node] = [lag[u.node] EXCEPT ![u.peer] = u.lag]]
      BY <1>3, Zenon DEF UpdateLag
    <3>3. PICK g : g = [lag[u.node] EXCEPT ![u.peer] = u.lag]
      BY Zenon
    <3>4. \A i \in PeerIDs : g[i] = lag[u.node][i] \/ g[i] = u.lag
      BY <2>1, <3>1, <3>3, Zenon
    <3>5. \A n \in Nodes : lag'[n] = lag[n] \/ (n = u.node /\ lag'[n] = g)
      BY <2>1, <3>1, <3>2, <3>3
    <3>6. QED
      <4>1. TAKE n \in Nodes, i \in PeerIDs
      <4>2. CASE lag'[n] = lag[n]
        BY <4>2, Zenon
      <4>3. CASE n = u.node /\ lag'[n] = g
        BY <3>4, <4>3, Zenon
      <4>4. QED
        BY <3>5, <4>2, <4>3, Zenon
  <2>4. LagBounded'
    BY <2>1, <2>2, <2>3, Zenon DEF Lags, LagBounded
  <2>5. QED
    BY <2>2, <2>4, Zenon DEF Lags
<1>4. QED
  BY <1>1, <1>2, <1>3, Zenon DEF NetworkStep

\* The lag a node shows for a peer is neither negative nor larger than all it has served.
THEOREM LagsBounded == Spec => []LagBounded
<1>1. Init => Lags
  BY DEF Init, Lags, LagBounded
<1>2. TypeOK /\ Lags /\ [Next]_vars => Lags'
  <2>1. CASE UNCHANGED vars
    BY <2>1, Zenon DEF vars, handler, network, shown, Lags, LagBounded
  <2>2. QED
    BY <2>1, LagsHandlerStep, LagsNetworkStep, Zenon DEF Next
<1>3. QED
  BY <1>1, <1>2, TypeInvariant, PTL DEF Spec, Lags
=============================================================================
