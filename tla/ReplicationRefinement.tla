----------------------- MODULE ReplicationRefinement -----------------------
(***************************************************************************)
(* Replication implements LWWRegister, for any nodes, keys, values, calls  *)
(* and clock readings.                                                     *)
(*                                                                         *)
(* A call's NextVersion is an Issue.  A write that is applied, at its own  *)
(* node or at a peer, is a Learn or a Forget, or a stuttering step when it *)
(* loses; all other steps stutter.  For the version applied to be one that *)
(* was issued, a call that lost must answer, and replicate, the version of *)
(* another call of its key: that is the invariant Traced.                  *)
(***************************************************************************)
EXTENDS ReplicationProofs

Traced ==
    /\ \A c \in Drawn : req[c].ver \in Nat \ {0}
    /\ \A c \in Calls : Past(c) =>
           \E d \in Drawn : req[d].key = req[c].key /\ req[d].ver = req[c].out

\* What a call has drawn stays as it is.
Recorded ==
    /\ Drawn \subseteq Drawn'
    /\ \A d \in Drawn : /\ req'[d].key = req[d].key /\ req'[d].ver = req[d].ver
                        /\ req'[d].type = req[d].type

Mapped == <<Issued, Deleted, Held>>

------------------------------------------------------------------------------
(* Versions are drawn once.                                                  *)

\* A call that is applied has drawn a version.
LEMMA PastDrawn == ASSUME NEW c \in Calls, Past(c) PROVE c \in Drawn
BY Zenon DEF Past, Drawn

\* A step that applies nothing keeps Traced.
LEMMA TracedKept ==
    ASSUME Traced, Recorded, \A c \in Drawn' \ Drawn : req'[c].ver \in Nat \ {0},
           \A c \in Calls : Past(c)' => Past(c) /\ req'[c].out = req[c].out
    PROVE  Traced'
<1>1. \A c \in Drawn' : req'[c].ver \in Nat \ {0}
  BY Zenon DEF Traced, Recorded
<1>2. ASSUME NEW c \in Calls, Past(c)'
      PROVE  \E d \in Drawn' : req'[d].key = req'[c].key /\ req'[d].ver = req'[c].out
  <2>1. Past(c) /\ c \in Drawn /\ req'[c].out = req[c].out
    BY <1>2, PastDrawn, Zenon
  <2>2. PICK d \in Drawn : req[d].key = req[c].key /\ req[d].ver = req[c].out
    BY <2>1, Zenon DEF Traced
  <2>3. QED
    BY <2>1, <2>2, Zenon DEF Recorded
<1>3. QED
  BY <1>1, <1>2, Zenon DEF Traced

\* The calls that have drawn a version, when one handler moves on.
LEMMA DrawnGo ==
    ASSUME TypeOK, NEW c \in Calls, NEW l \in Steps, Go(c, l)
    PROVE  Drawn' = IF l \in {"new", "version"} THEN Drawn \ {c} ELSE Drawn \cup {c}
<1>1. pc'[c] = l /\ \A d \in Calls \ {c} : pc'[d] = pc[d]
  BY GoType, Zenon
<1>2. QED
  BY <1>1, Zenon DEF Drawn

\* A handler before its NextVersion, or after its Apply, takes a step.
LEMMA AsideStep ==
    ASSUME TypeOK, Traced, NEW c \in Calls,
           BeginPut(c) \/ BeginDelete(c) \/ ApplyFails(c) \/ Replicate(c)
    PROVE  Traced' /\ Recorded /\ Drawn' = Drawn /\ db' = db
<1> USE DEF Steps
<1>1. CASE BeginPut(c) \/ BeginDelete(c)
  <2>1. pc[c] = "new" /\ Go(c, "version") /\ db' = db /\ \A d \in Calls \ {c} : req'[d] = req[d]
    BY <1>1, Zenon DEF BeginPut, BeginDelete, TypeOK
  <2>2. c \notin Drawn /\ Drawn' = Drawn
    BY <2>1, DrawnGo, Zenon DEF Drawn
  <2>3. Recorded
    BY <2>1, <2>2, Zenon DEF Recorded, Drawn
  <2>4. \A d \in Calls : Past(d)' => Past(d) /\ req'[d].out = req[d].out
    BY <2>1, GoType, Zenon DEF Past
  <2>5. QED
    BY <2>1, <2>2, <2>3, <2>4, TracedKept, Zenon
<1>2. CASE ApplyFails(c) \/ Replicate(c)
  <2>1. /\ db' = db /\ req' = req
        /\ \E l \in Steps : /\ pc[c] \notin {"new", "version"} /\ l \notin {"new", "version"}
                            /\ Go(c, l) /\ (l = "done" => pc[c] = "replicate") /\ l # "replicate"
    BY <1>2, Zenon DEF ApplyFails, Replicate
  <2>2. c \in Drawn /\ Drawn' = Drawn
    BY <2>1, DrawnGo, Zenon DEF Drawn
  <2>3. Recorded
    BY <2>1, <2>2, Zenon DEF Recorded
  <2>4. \A d \in Calls : Past(d)' => Past(d) /\ req'[d].out = req[d].out
    BY <2>1, GoType, Zenon DEF Past
  <2>5. QED
    BY <2>1, <2>2, <2>3, <2>4, TracedKept, Zenon
<1>3. QED
  BY <1>1, <1>2, Zenon

\* NextVersion draws a version for its call.
LEMMA VersionStep ==
    ASSUME TypeOK, Traced, NEW c \in Calls, NextVersion(c)
    PROVE  /\ Traced' /\ Recorded /\ c \notin Drawn /\ Drawn' = Drawn \cup {c} /\ db' = db
           /\ req'[c].key = req[c].key /\ req'[c].key \in Keys /\ req'[c].ver \in Nat \ {0}
<1> USE DEF Steps
<1>1. /\ pc[c] = "version" /\ Go(c, "apply") /\ db' = db /\ req[c] \in Call
      /\ req \in [Calls -> Call \cup {Nil}] /\ lastVersion \in [Nodes -> Nat]
  BY RequestType, Zenon DEF NextVersion, TypeOK
<1>2. PICK n \in Nodes : n = req[c].node
  BY <1>1, CallFields, Zenon
<1>3. PICK t \in Readings[n] :
         req' = [req EXCEPT ![c].ver = IF t <= lastVersion[n] THEN lastVersion[n] + 1 ELSE t]
  BY <1>2, Zenon DEF NextVersion
<1>4. t \in Nat \ {0} /\ lastVersion[n] \in Nat
  BY <1>1, NodesAssumption
<1>5. PICK v \in Nat \ {0} : v = IF t <= lastVersion[n] THEN lastVersion[n] + 1 ELSE t
  BY <1>4
<1>6. req' = [req EXCEPT ![c] = [req[c] EXCEPT !.ver = v]]
  BY <1>3, <1>5, Zenon
<1>7. req'[c] = [req[c] EXCEPT !.ver = v] /\ \A d \in Calls \ {c} : req'[d] = req[d]
  BY <1>1, <1>6, Zenon
<1>8. req'[c].key = req[c].key /\ req'[c].key \in Keys /\ req'[c].ver = v
  BY <1>1, <1>7 DEF Call
<1>9. c \notin Drawn /\ Drawn' = Drawn \cup {c}
  BY <1>1, DrawnGo, Zenon DEF Drawn
<1>10. Recorded
  BY <1>7, <1>9, Zenon DEF Recorded, Drawn
<1>11. \A d \in Calls : Past(d)' => Past(d) /\ req'[d].out = req[d].out
  BY <1>1, <1>7, GoType, Zenon DEF Past
<1>12. QED
  BY <1>1, <1>5, <1>8, <1>9, <1>10, <1>11, TracedKept, Zenon

\* Apply answers with the version of its call, or with that of one it lost to.
LEMMA ApplyStep ==
    ASSUME TypeOK, Spread, Traced, NEW c \in Calls, Apply(c)
    PROVE  Traced' /\ Recorded /\ Drawn' = Drawn
<1> USE DEF Steps
<1>1. PICK r \in Call : r = req[c] /\ pc[c] = "apply" /\ Go(c, "replicate")
  BY RequestType, Zenon DEF Apply
<1>2. PICK n \in Nodes, k \in Keys, v \in Nat, x \in Nat :
          n = r.node /\ k = r.key /\ v = r.ver /\ x = Returned(db[n], r)
  BY CallFields, ReturnedType, Zenon DEF TypeOK, Maps
<1>3. req' = [req EXCEPT ![c].out = x]
  BY <1>1, <1>2, Zenon DEF Apply
<1>4. /\ req'[c].key = k /\ req'[c].ver = v /\ req'[c].type = r.type /\ req'[c].out = x
      /\ \A d \in Calls \ {c} : req'[d] = req[d]
  BY <1>1, <1>2, <1>3 DEF TypeOK, Call
<1>5. c \in Drawn /\ Drawn' = Drawn
  BY <1>1, DrawnGo, Zenon DEF Drawn
<1>6. Recorded
  BY <1>1, <1>2, <1>4, <1>5, Zenon DEF Recorded, Drawn
<1>7. \A d \in Drawn' : req'[d].ver \in Nat \ {0}
  BY <1>5, <1>6, Zenon DEF Traced, Recorded
<1>8. ASSUME NEW d \in Calls, Past(d)'
      PROVE  \E e \in Drawn' : req'[e].key = req'[d].key /\ req'[e].ver = req'[d].out
  <2>1. CASE d # c
    <3>1. Past(d) /\ req'[d] = req[d]
      BY <1>1, <1>4, <1>8, <2>1, GoType, Zenon DEF Past
    <3>2. PICK e \in Drawn : req[e].key = req[d].key /\ req[e].ver = req[d].out
      BY <3>1, Zenon DEF Traced
    <3>3. QED
      BY <1>6, <3>1, <3>2, Zenon DEF Recorded
  <2>2. CASE d = c /\ Wins(v, db[n][k])
    <3>1. x = v
      BY <1>2, <2>2, Zenon DEF Returned
    <3>2. QED
      BY <1>4, <1>5, <2>2, <3>1, Zenon
  <2>3. CASE d = c /\ ~Wins(v, db[n][k])
    <3>1. x = db[n][k].ver /\ db[n][k] # Nil
      BY <1>2, <2>3, Zenon DEF Returned, Wins
    <3>2. PICK b \in Calls : Past(b) /\ req[b].key = k /\ req[b].out = x
      BY <3>1, Zenon DEF Spread, Sourced
    <3>3. PICK e \in Drawn : req[e].key = k /\ req[e].ver = x
      BY <3>2, Zenon DEF Traced
    <3>4. QED
      BY <1>4, <1>6, <2>3, <3>3, Zenon DEF Recorded
  <2>4. QED
    BY <2>1, <2>2, <2>3, Zenon
<1>9. QED
  BY <1>5, <1>6, <1>7, <1>8, Zenon DEF Traced

------------------------------------------------------------------------------
(* The steps of the abstract register.                                       *)

\* What the mapped sets hold.
LEMMA MapMembers ==
    /\ \A k \in Keys : \A v :
         /\ v \in Issued[k] <=> \E d \in Drawn : req[d].key = k /\ req[d].ver = v
         /\ v \in Issued'[k] <=> \E d \in Drawn' : req'[d].key = k /\ req'[d].ver = v
    /\ \A k : /\ k \in Deleted <=> \E d \in Drawn : req[d].type = "del" /\ req[d].key = k
              /\ k \in Deleted' <=> \E d \in Drawn' : req'[d].type = "del" /\ req'[d].key = k
    /\ Issued = [k \in Keys |-> Issued[k]] /\ Issued' = [k \in Keys |-> Issued'[k]]
<1>1. ASSUME NEW k \in Keys, NEW v
      PROVE  /\ v \in Issued[k] <=> \E d \in Drawn : req[d].key = k /\ req[d].ver = v
             /\ v \in Issued'[k] <=> \E d \in Drawn' : req'[d].key = k /\ req'[d].ver = v
  <2>1. /\ Issued[k] = {req[c].ver : c \in {d \in Drawn : req[d].key = k}}
        /\ Issued'[k] = {req'[c].ver : c \in {d \in Drawn' : req'[d].key = k}}
    BY Zenon DEF Issued
  <2>2. QED
    BY <2>1, Zenon
<1>2. ASSUME NEW k
      PROVE  /\ k \in Deleted <=> \E d \in Drawn : req[d].type = "del" /\ req[d].key = k
             /\ k \in Deleted' <=> \E d \in Drawn' : req'[d].type = "del" /\ req'[d].key = k
  BY Zenon DEF Deleted
<1>3. Issued = [k \in Keys |-> Issued[k]] /\ Issued' = [k \in Keys |-> Issued'[k]]
  BY Zenon DEF Issued
<1>4. QED
  BY <1>1, <1>2, <1>3, Zenon

\* When nobody draws a version, the issued versions and the deletes stay.
LEMMA MapKept ==
    ASSUME Recorded, Drawn' = Drawn PROVE Issued' = Issued /\ Deleted' = Deleted
<1>1. ASSUME NEW k \in Keys PROVE Issued'[k] = Issued[k]
  <2>1. \A v : v \in Issued'[k] <=> v \in Issued[k]
    BY MapMembers DEF Recorded
  <2>2. QED
    BY <2>1, Zenon
<1>2. Issued' = Issued
  BY <1>1, MapMembers, Zenon
<1>3. \A k : k \in Deleted' <=> k \in Deleted
  BY MapMembers DEF Recorded
<1>4. Deleted' = Deleted
  BY <1>3, Zenon
<1>5. QED
  BY <1>2, <1>4, Zenon

\* A call that draws a version issues it.
LEMMA IssueStep ==
    ASSUME TypeOK, Traced, NEW c \in Calls, NextVersion(c)
    PROVE  \E k \in Keys : LWW!Issue(k)
<1>1. PICK k \in Keys, v \in Nat \ {0} : req'[c].key = k /\ req'[c].ver = v
  BY VersionStep, Zenon
<1>2. Recorded /\ c \notin Drawn /\ Drawn' = Drawn \cup {c} /\ db' = db
  BY VersionStep, Zenon
<1>3. ASSUME NEW j \in Keys \ {k} PROVE Issued'[j] = Issued[j]
  <2>1. \A x : x \in Issued'[j] <=> x \in Issued[j]
    BY <1>1, <1>2, MapMembers DEF Recorded
  <2>2. QED
    BY <2>1, Zenon
<1>4. Issued'[k] = Issued[k] \cup {v}
  <2>1. \A x : x \in Issued'[k] <=> x \in Issued[k] \/ x = v
    BY <1>1, <1>2, MapMembers DEF Recorded
  <2>2. QED
    BY <2>1, Zenon
<1>5. Issued[k] \subseteq Nat \ {0}
  BY Zenon DEF Issued, Traced
<1>6. Issued' = [Issued EXCEPT ![k] = Issued[k] \cup Issued'[k]]
  BY <1>3, <1>4, MapMembers, Zenon
<1>7. Deleted' = Deleted \/ Deleted' = Deleted \cup {k}
  <2>1. \A x : x \in Deleted' <=> x \in Deleted \/ (req'[c].type = "del" /\ x = k)
    BY <1>1, <1>2, MapMembers DEF Recorded
  <2>2. QED
    BY <2>1, Zenon
<1>8. Held' = Held
  BY <1>2, Zenon DEF Held, VersionAt
<1>9. Issued'[k] \subseteq Nat \ {0}
  BY <1>1, <1>4, <1>5, Zenon
<1>10. QED
  BY <1>6, <1>7, <1>8, <1>9, Zenon DEF LWW!Issue

\* A write that is applied is learnt, or forgets the key, or loses.
LEMMA WriteStep ==
    ASSUME NEW n \in Nodes, NEW r, NEW v \in Nat, Writes(n, r, v), NEW k \in Keys, k = r.key,
           v \in Issued[k], r.type = "del" => k \in Deleted,
           Issued' = Issued, Deleted' = Deleted
    PROVE  [LWW!Next]_Mapped
<1>1. ASSUME NEW x, x = VersionAt(n, k)', \A m \in Nodes, j \in Keys :
                        m # n \/ j # k => VersionAt(m, j)' = VersionAt(m, j)
      PROVE  Held' = [Held EXCEPT ![n][k] = x]
  <2>1. PICK g : g = [Held[n] EXCEPT ![k] = x]
    BY Zenon
  <2>2. Held[n] = [j \in Keys |-> VersionAt(n, j)]
    BY Zenon DEF Held
  <2>3. g = [j \in Keys |-> VersionAt(n, j)']
    BY <1>1, <2>1, <2>2, Zenon
  <2>4. Held'[n] = g
    BY <2>3, Zenon DEF Held
  <2>5. \A m \in Nodes \ {n} : Held'[m] = Held[m]
    BY <1>1, Zenon DEF Held
  <2>6. Held' = [Held EXCEPT ![n] = g]
    BY <2>4, <2>5, Zenon DEF Held
  <2>7. QED
    BY <2>1, <2>6, Zenon
<1>2. \A m \in Nodes, j \in Keys : m # n \/ j # k => VersionAt(m, j)' = VersionAt(m, j)
  BY DEF Writes, VersionAt
<1>3. Held[n][k] = VersionAt(n, k)
  BY Zenon DEF Held
<1>4. CASE Wins(v, db[n][k]) /\ r.type = "set"
  <2>1. VersionAt(n, k)' = v
    BY <1>4 DEF Writes, VersionAt
  <2>2. Held' = [Held EXCEPT ![n][k] = v]
    BY <1>1, <1>2, <2>1, Zenon
  <2>3. v >= Held[n][k]
    BY <1>3, <1>4 DEF Wins, VersionAt
  <2>4. LWW!Learn(n, k)
    BY <2>2, <2>3, Zenon DEF LWW!Learn
  <2>5. QED
    BY <2>4, Zenon DEF LWW!Next
<1>5. CASE Wins(v, db[n][k]) /\ r.type = "del"
  <2>1. VersionAt(n, k)' = 0
    BY <1>5 DEF Writes, VersionAt
  <2>2. Held' = [Held EXCEPT ![n][k] = 0]
    BY <1>1, <1>2, <2>1, Zenon
  <2>3. LWW!Forget(n, k)
    BY <1>5, <2>2, Zenon DEF LWW!Forget
  <2>4. QED
    BY <2>3, Zenon DEF LWW!Next
<1>6. CASE ~Wins(v, db[n][k])
  <2>1. VersionAt(n, k)' = VersionAt(n, k)
    BY <1>6 DEF Writes, VersionAt
  <2>2. Held' = Held
    BY <1>2, <2>1, Zenon DEF Held
  <2>3. QED
    BY <2>2, Zenon DEF Mapped
<1>7. QED
  BY <1>4, <1>5, <1>6, Zenon DEF Writes

\* Every step of the cluster is one of the register, or none.
LEMMA RefinedStep ==
    ASSUME TypeOK, Spread, Traced, [Next]_vars PROVE Traced' /\ [LWW!Next]_Mapped
<1>1. ASSUME Recorded, Drawn' = Drawn, db' = db PROVE UNCHANGED Mapped
  BY <1>1, MapKept, Zenon DEF Mapped, Held, VersionAt
<1>2. ASSUME UNCHANGED handler PROVE Recorded /\ Drawn' = Drawn /\ Traced'
  <2>1. Recorded /\ Drawn' = Drawn
    BY <1>2, Zenon DEF handler, Recorded, Drawn
  <2>2. \A c \in Calls : Past(c)' => Past(c) /\ req'[c].out = req[c].out
    BY <1>2, Zenon DEF handler, Past
  <2>3. QED
    BY <2>1, <2>2, TracedKept, Zenon
<1>3. ASSUME NEW c \in Calls, BeginPut(c) \/ BeginDelete(c) \/ ApplyFails(c) \/ Replicate(c)
      PROVE  Traced' /\ [LWW!Next]_Mapped
  BY <1>1, <1>3, AsideStep, Zenon
<1>4. ASSUME NEW c \in Calls, NextVersion(c) PROVE Traced' /\ [LWW!Next]_Mapped
  BY <1>4, VersionStep, IssueStep, Zenon DEF LWW!Next
<1>5. ASSUME NEW c \in Calls, Apply(c) PROVE Traced' /\ [LWW!Next]_Mapped
  <2>1. PICK r \in Call : r = req[c] /\ pc[c] = "apply"
    BY <1>5, RequestType, Zenon DEF Apply
  <2>2. PICK n \in Nodes, k \in Keys, v \in Nat : n = r.node /\ k = r.key /\ v = r.ver
    BY CallFields, Zenon
  <2>3. Writes(n, r, v)
    BY <1>5, <2>1, <2>2, AppliedWrites, Zenon DEF Apply
  <2>4. c \in Drawn
    BY <2>1, Zenon DEF Drawn
  <2>5. v \in Issued[k] /\ (r.type = "del" => k \in Deleted)
    BY <2>1, <2>2, <2>4, Zenon DEF Issued, Deleted
  <2>6. QED
    BY <1>5, <2>2, <2>3, <2>5, ApplyStep, MapKept, WriteStep, Zenon
<1>6. ASSUME NEW q \in requests, InternalReplicate(q) PROVE Traced' /\ [LWW!Next]_Mapped
  <2>1. PICK c \in Calls, r \in Call, n \in Nodes :
            c = q[1] /\ r = req[c] /\ n = Address(q[2]) /\ pc[c] = "done"
    BY MessageType, AddressType, Zenon
  <2>2. PICK k \in Keys, v \in Nat : k = r.key /\ v = r.out
    BY CallFields, Zenon
  <2>3. Writes(n, r, v) /\ UNCHANGED handler
    BY <1>6, <2>1, <2>2, AppliedWrites, Zenon DEF InternalReplicate
  <2>4. Past(c) /\ c \in Drawn
    BY <2>1, Zenon DEF Past, Drawn
  <2>5. PICK d \in Drawn : req[d].key = k /\ req[d].ver = v
    BY <2>1, <2>2, <2>4, Zenon DEF Traced
  <2>6. v \in Issued[k] /\ (r.type = "del" => k \in Deleted)
    BY <2>1, <2>2, <2>4, <2>5, Zenon DEF Issued, Deleted
  <2>7. QED
    BY <1>2, <2>2, <2>3, <2>6, MapKept, WriteStep, Zenon
<1>7. CASE UNCHANGED handler /\ db' = db
  BY <1>1, <1>2, <1>7, Zenon
<1>8. ASSUME NetworkStep, \A q \in requests : ~InternalReplicate(q)
      PROVE  UNCHANGED handler /\ db' = db
  BY <1>8, Zenon DEF NetworkStep, Lost, MeasureLag, UpdateLag
<1>9. QED
  BY <1>3, <1>4, <1>5, <1>6, <1>7, <1>8, Zenon DEF Next, HandlerStep, vars

\* Whatever is lost, repeated or overtaken, replication is a last-write-wins register:
\* a node holds only versions some call of the key drew, gives them up only for later
\* ones, and loses an entry only if a delete of the key has drawn a version.
THEOREM Implementation == Spec => ImplementsLWW
<1>1. Init => Traced /\ LWW!Init
  <2>1. Init => Drawn = {} /\ \A c \in Calls : ~Past(c)
    BY Zenon DEF Init, Drawn, Past
  <2>2. Init => Traced
    BY <2>1, Zenon DEF Traced
  <2>3. Init => Issued = [k \in Keys |-> {}] /\ Deleted = {}
    BY <2>1, Zenon DEF Issued, Deleted
  <2>4. Init => Held = [n \in Nodes |-> [k \in Keys |-> 0]]
    BY DEF Init, Held, VersionAt, EmptyMap
  <2>5. QED
    BY <2>2, <2>3, <2>4, Zenon DEF LWW!Init
<1>2. TypeOK /\ Spread /\ Traced /\ [Next]_vars => Traced' /\ [LWW!Next]_Mapped
  BY RefinedStep, Zenon
<1>3. QED
  BY <1>1, <1>2, TypeInvariant, SpreadInvariant, PTL DEF Spec, ImplementsLWW, LWW!Spec, Mapped
=============================================================================
