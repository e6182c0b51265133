-------------------------- MODULE MembershipProofs --------------------------
(***************************************************************************)
(* For any nodes, clocks, windows and bounds: no node but the seed is a    *)
(* peer of itself; a peer is suspected or held for dead only with cause,   *)
(* and declared dead only after a whole window of suspicion.               *)
(*                                                                         *)
(* The invariants follow a name and a rumour wherever they can be: in      *)
(* tables, in the responses being merged, in the update that MergePeers    *)
(* has decided upon and not yet made, in the copies checkSuspicious acts   *)
(* on and in the pings whose sender has given up.                          *)
(***************************************************************************)
EXTENDS Membership, TLAPS

Tables == [PeerIDs -> Peer \cup {Nil}]

\* TypeOK without what it says of nodes that are their own peers.
Types ==
    /\ now \in Nat /\ up \in [Nodes -> BOOLEAN]
    /\ table \in [Nodes -> Tables]
    /\ ping \in [Nodes -> Ping \cup {Nil}]
    /\ check \in [Nodes -> SUBSET PeerIDs]
    /\ stray \subseteq Nodes \X Nodes
    /\ faults \in Nat
    /\ since \in [Nodes -> [PeerIDs -> Nat]]
    /\ found \subseteq PeerIDs \X States

\* Nothing that the ping g of n may yet enter into n's table is n.
PingElsewhere(g, n) ==
    /\ g.id # n /\ g.actual # n
    /\ \A r \in g.rest : r.id # n
    /\ g.write # Nil => g.write.id # n

\* No node but the seed is a peer of itself, or about to become one.
Elsewhere ==
    /\ \A n \in Nodes \ {SeedNode} : /\ table[n][n] = Nil /\ n \notin check[n]
                                     /\ ping[n] # Nil => PingElsewhere(ping[n], n)
    /\ \A s \in stray : s[2] # SeedNode => s[1] # s[2]

\* An entry was made after its suspicion began.
Timed == \A n \in Nodes, i \in PeerIDs :
            /\ since[n][i] <= now
            /\ IsSuspect(table[n][i]) => since[n][i] <= table[n][i].seen

\* State st of peer i is something that a node has found out.
Cause(i, st) == st # "alive" => <<i, st>> \in found

EntryCaused(e, i) == e # Nil => Cause(i, e.st)

TablesCaused == \A n \in Nodes, i \in PeerIDs : EntryCaused(table[n][i], i)

ChecksCaused == \A n \in Nodes : \A i \in check[n] : Cause(i, "dead")

PingCaused(g) ==
    /\ \A r \in g.rest : Cause(r.id, r.st)
    /\ g.write # Nil => Cause(g.write.id, g.write.st)

PingsCaused == \A n \in Nodes : ping[n] # Nil => PingCaused(ping[n])

Caused == TablesCaused /\ ChecksCaused /\ PingsCaused

------------------------------------------------------------------------------
(* The pieces the actions are made of.                                       *)

\* AddOrUpdate (peer.go) sets one entry, to the state given and the present time.
LEMMA AddOrUpdateType ==
    ASSUME now \in Nat, NEW t \in Tables, NEW i \in PeerIDs, NEW st \in States
    PROVE  /\ AddOrUpdate(t, i, st) \in Tables
           /\ AddOrUpdate(t, i, st)[i] = [st |-> st, seen |-> now]
           /\ \A j \in PeerIDs \ {i} : AddOrUpdate(t, i, st)[j] = t[j]
BY DEF AddOrUpdate, Tables, Peer

\* Nil is none of the records it stands for the absence of.
LEMMA NilApart == Nil \notin Peer /\ Nil \notin Ping /\ Nil \notin [id : PeerIDs, st : States]
BY NodesAssumption, Zenon

\* A new ping is a ping.
LEMMA NewPingType == ASSUME NEW i \in PeerIDs, NEW was \in States \cup {""}
                     PROVE  NewPing(i, was) \in Ping /\ NewPing(i, was) # Nil
<1>1. NewPing(i, was) \in Ping
  BY DEF NewPing, Ping
<1>2. QED
  BY <1>1, NilApart, Zenon

\* The address of a peer is a node.
LEMMA AddressType == ASSUME NEW i \in PeerIDs PROVE Address(i) \in Nodes
BY NodesAssumption, Zenon DEF Address, PeerIDs

\* What a table lists to others are remote peers.
LEMMA ListedType == ASSUME NEW t \in Tables PROVE Listed(t) \subseteq Remote
BY NodesAssumption DEF Listed, Tables, Peer, Remote

\* MergePeers decides on a state or on nothing.
LEMMA ResolveType == ASSUME NEW e, NEW r \in Remote PROVE Resolve(e, r) \in States \cup {Nil}
BY Zenon DEF Resolve, Remote, States

\* SetTable replaces the table of one node.
LEMMA SetTableType ==
    ASSUME Types, NEW n \in Nodes, NEW t \in Tables, SetTable(n, t)
    PROVE  /\ table' \in [Nodes -> Tables]
           /\ table'[n] = t
           /\ \A m \in Nodes \ {n} : table'[m] = table[m]
           /\ since' \in [Nodes -> [PeerIDs -> Nat]]
<1>1. /\ table' \in [Nodes -> Tables]
      /\ table'[n] = t
      /\ \A m \in Nodes \ {n} : table'[m] = table[m]
  BY Zenon DEF Types, SetTable, Tables
<1> DEFINE f == [i \in PeerIDs |-> IF ~IsSuspect(t[i]) THEN 0
                                  ELSE IF IsSuspect(table[n][i]) THEN since[n][i] ELSE now]
<1>2. f \in [PeerIDs -> Nat]
  BY DEF Types
<1>3. since' = [since EXCEPT ![n] = f]
  BY Zenon DEF SetTable
<1> HIDE DEF f
<1>4. since' \in [Nodes -> [PeerIDs -> Nat]]
  BY <1>2, <1>3, Zenon DEF Types
<1> QED
  BY <1>1, <1>4, Zenon

\* AddOrUpdate on the table of one node.
LEMMA UpdateType ==
    ASSUME Types, NEW n \in Nodes, NEW i \in PeerIDs, NEW st \in States,
           SetTable(n, AddOrUpdate(table[n], i, st))
    PROVE  /\ table' \in [Nodes -> Tables]
           /\ \A m \in Nodes \ {n} : table'[m] = table[m]
           /\ table'[n][i] = [st |-> st, seen |-> now]
           /\ \A j \in PeerIDs \ {i} : table'[n][j] = table[n][j]
           /\ since' \in [Nodes -> [PeerIDs -> Nat]]
<1>1. table[n] \in Tables /\ now \in Nat
  BY Zenon DEF Types, Tables
<1> DEFINE t == AddOrUpdate(table[n], i, st)
<1>2. t \in Tables /\ t[i] = [st |-> st, seen |-> now] /\ \A j \in PeerIDs \ {i} : t[j] = table[n][j]
  BY <1>1, AddOrUpdateType
<1> HIDE DEF t
<1>3. SetTable(n, t)
  BY DEF t
<1>4. QED
  BY <1>2, <1>3, SetTableType, Zenon

\* The ping of one node is replaced by g or ended.
LEMMA PingType ==
    ASSUME Types, NEW n \in Nodes, NEW g \in Ping \cup {Nil}, ping' = [ping EXCEPT ![n] = g]
    PROVE  /\ ping' \in [Nodes -> Ping \cup {Nil}]
           /\ ping'[n] = g
           /\ \A m \in Nodes \ {n} : ping'[m] = ping[m]
BY Zenon DEF Types

------------------------------------------------------------------------------
(* Type correctness.                                                         *)

\* n's table gets the entry of one peer, as AddOrUpdate makes it.
Puts(n, i, st) == SetTable(n, AddOrUpdate(table[n], i, st))

\* n's table loses entries.
Clears(n) == \E t \in Tables : /\ SetTable(n, t)
                               /\ \A j \in PeerIDs : t[j] \in {table[n][j], Nil}

\* The ways in which tables change.
TableChange ==
    /\ now' = now
    /\ \/ UNCHANGED <<table, since>>
       \/ \E n \in Nodes, i \in PeerIDs, st \in States : Puts(n, i, st)
       \/ \E n \in Nodes : Clears(n)

\* What a ping is made of.
LEMMA PingParts ==
    ASSUME Types, NEW n \in Nodes, ping[n] # Nil
    PROVE  /\ ping[n] \in Ping /\ ping[n].id \in PeerIDs
           /\ ping[n].actual \in PeerIDs \cup {Nil} /\ ping[n].rest \subseteq Remote
           /\ ping[n].write \in [id : PeerIDs, st : States] \cup {Nil}
<1>1. ping[n] \in Ping
  BY Zenon DEF Types
<1> QED
  BY <1>1 DEF Ping

\* The peer that Adopt enters.
LEMMA AdoptedType ==
    ASSUME Types, NEW n \in Nodes, Adopt(n)
    PROVE  \E i \in PeerIDs : /\ i = IF ping[n].actual = Nil THEN ping[n].id ELSE ping[n].actual
                              /\ Puts(n, i, "alive")
<1>1. ping[n] # Nil
  BY Zenon DEF Adopt
<1>2. ping[n].id \in PeerIDs /\ ping[n].actual \in PeerIDs \cup {Nil}
  BY <1>1, PingParts, Zenon
<1> QED
  BY <1>2, Zenon DEF Adopt, Puts

\* The steps of a ping change one table at most.
LEMMA PingTable == ASSUME Types, NEW n \in Nodes, PingStep(n) PROVE TableChange
<1> DEFINE g == ping[n]
<1> USE DEF States
<1>1. g # Nil /\ now' = now
  BY Zenon DEF PingStep, PingFails, PingGarbled, InternalPing, DropSeed, Adopt, MergeGet,
               MergeWrite, MergeDone
<1>2. /\ g.id \in PeerIDs
      /\ g.write \in [id : PeerIDs, st : States] \cup {Nil}
  BY <1>1, PingParts, Zenon
<1>3. CASE PingFails(n)
  BY <1>1, <1>2, <1>3, Zenon DEF PingFails, Puts, TableChange
<1>4. CASE PingGarbled(n) \/ MergeGet(n) \/ MergeDone(n)
  BY <1>1, <1>4, Zenon DEF PingGarbled, MergeGet, MergeDone, TableChange
<1>5. CASE InternalPing(n)
  <2>1. Address(g.id) \in Nodes /\ n \in PeerIDs
    BY <1>2, AddressType, Zenon DEF PeerIDs
  <2> QED
    BY <1>1, <1>5, <2>1, Zenon DEF InternalPing, Greeted, Puts, TableChange
<1>6. CASE DropSeed(n)
  <2> DEFINE t == [table[n] EXCEPT ![Seed] = Nil]
  <2>1. table[n] \in Tables
    BY Zenon DEF Types
  <2>2. t \in Tables /\ \A j \in PeerIDs : t[j] \in {table[n][j], Nil}
    BY <2>1 DEF Tables
  <2>3. SetTable(n, t)
    BY <1>6, Zenon DEF DropSeed
  <2> QED
    BY <1>1, <2>2, <2>3, Zenon DEF Clears, TableChange
<1>7. CASE Adopt(n)
  BY <1>1, <1>7, AdoptedType, Zenon DEF TableChange
<1>8. CASE MergeWrite(n)
  <2>1. Puts(n, g.write.id, g.write.st) /\ g.write # Nil
    BY <1>8, Zenon DEF MergeWrite, Puts
  <2>2. g.write.id \in PeerIDs /\ g.write.st \in States
    BY <1>2, <2>1
  <2> QED
    BY <1>1, <2>1, <2>2, Zenon DEF TableChange
<1> QED
  BY <1>3, <1>4, <1>5, <1>6, <1>7, <1>8, Zenon DEF PingStep

\* So do the other steps, the clock's excepted, which changes none.
LEMMA OtherTable ==
    ASSUME Types,
           \/ \E n \in Nodes : Start(n) \/ Tick(n) \/ CheckStart(n) \/ CheckDead(n) \/ Crash(n)
           \/ \E s \in stray : StrayPing(s)
    PROVE  TableChange
<1> USE DEF States
<1>1. ASSUME NEW n \in Nodes, Start(n) \/ Tick(n) \/ CheckStart(n) PROVE TableChange
  BY <1>1, Zenon DEF Start, Tick, TickAt, CheckStart, Puts, TableChange, PeerIDs
<1>2. ASSUME NEW n \in Nodes, CheckDead(n) PROVE TableChange
  <2>1. check[n] \subseteq PeerIDs
    BY Zenon DEF Types
  <2> QED
    BY <1>2, <2>1, Zenon DEF CheckDead, Puts, TableChange
<1>3. ASSUME NEW n \in Nodes, Crash(n) PROVE TableChange
  <2>1. NoPeers \in Tables /\ \A j \in PeerIDs : NoPeers[j] \in {table[n][j], Nil}
    BY Zenon DEF NoPeers, Tables
  <2> QED
    BY <1>3, <2>1, Zenon DEF Crash, Clears, TableChange
<1>4. ASSUME NEW s \in stray, StrayPing(s) PROVE TableChange
  <2>1. s[1] \in Nodes /\ s[2] \in Nodes /\ s[1] \in PeerIDs
    BY DEF Types, PeerIDs
  <2> QED
    BY <1>4, <2>1, Zenon DEF StrayPing, Greeted, Puts, TableChange
<1> QED
  BY <1>1, <1>2, <1>3, <1>4, Zenon

\* A change of a table keeps the types.
LEMMA TableChangeType ==
    ASSUME Types, TableChange
    PROVE  table' \in [Nodes -> Tables] /\ since' \in [Nodes -> [PeerIDs -> Nat]]
<1>1. CASE UNCHANGED <<table, since>>
  BY <1>1, Zenon DEF Types
<1>2. ASSUME NEW n \in Nodes, NEW i \in PeerIDs, NEW st \in States, Puts(n, i, st)
      PROVE  table' \in [Nodes -> Tables] /\ since' \in [Nodes -> [PeerIDs -> Nat]]
  BY <1>2, UpdateType, Zenon DEF Puts
<1>3. ASSUME NEW n \in Nodes, Clears(n)
      PROVE  table' \in [Nodes -> Tables] /\ since' \in [Nodes -> [PeerIDs -> Nat]]
  BY <1>3, SetTableType, Zenon DEF Clears
<1> QED
  BY <1>1, <1>2, <1>3, Zenon DEF TableChange

\* A ping of m that fails is counted if m runs.
LEMMA LosesType == ASSUME Types, NEW m, Loses(m) PROVE faults' \in Nat
BY DEF Types, Loses

\* A request that outlives its sender's interest goes from a node to a node.
LEMMA AbandonsType ==
    ASSUME Types, NEW n \in Nodes, Abandons(n) PROVE stray' \subseteq Nodes \X Nodes
<1>1. CASE UNCHANGED stray
  BY <1>1, Zenon DEF Types
<1>2. CASE ping[n] # Nil /\ stray' = stray \cup {<<n, Address(ping[n].id)>>}
  <2>1. Address(ping[n].id) \in Nodes
    BY <1>2, PingParts, AddressType, Zenon
  <2> QED
    BY <1>2, <2>1 DEF Types
<1> QED
  BY <1>1, <1>2, Zenon DEF Abandons

\* A step of a ping but its failure replaces the ping of n by a ping, or ends it.
LEMMA PingNext ==
    ASSUME Types, NEW n \in Nodes,
           InternalPing(n) \/ DropSeed(n) \/ Adopt(n) \/ MergeGet(n) \/ MergeWrite(n)
               \/ MergeDone(n)
    PROVE  \E h \in Ping \cup {Nil} : ping' = [ping EXCEPT ![n] = h]
<1> DEFINE g == ping[n]
<1>1. g # Nil
  BY Zenon DEF InternalPing, DropSeed, Adopt, MergeGet, MergeWrite, MergeDone
<1>2. /\ g \in Ping /\ g.id \in PeerIDs /\ g.rest \subseteq Remote
      /\ g.write \in [id : PeerIDs, st : States] \cup {Nil}
  BY <1>1, PingParts, Zenon
<1>3. CASE InternalPing(n)
  <2> DEFINE m == Address(g.id)
             t == AddOrUpdate(table[m], n, "alive")
             R == ToMerge(n, Listed(t) \cup {Self(m)})
  <2>1. m \in Nodes /\ n \in PeerIDs /\ m \in PeerIDs
    BY <1>2, AddressType, Zenon DEF PeerIDs
  <2>2. PICK a : /\ a \in IF g.id = Seed THEN FirstAt(t) ELSE {g.id}
                 /\ ping' = [ping EXCEPT ![n] = [g EXCEPT !.at = "answered", !.actual = a,
                                                          !.rest = R]]
    BY <1>3, Zenon DEF InternalPing, Greeted
  <2>3. R \subseteq Remote
    <3>1. table[m] \in Tables /\ now \in Nat /\ "alive" \in States
      BY <2>1, Zenon DEF Types, States
    <3>2. t \in Tables
      BY <2>1, <3>1, AddOrUpdateType
    <3>3. Listed(t) \subseteq Remote
      BY <3>2, ListedType
    <3>4. Self(m) \in Remote
      BY <2>1, <3>1 DEF Self, Remote
    <3> QED
      BY <3>3, <3>4, Zenon DEF ToMerge
  <2>4. a \in PeerIDs \cup {Nil}
    BY <1>2, <2>2, NodesAssumption, Zenon DEF FirstAt, PeerIDs
  <2> HIDE DEF R
  <2>5. [g EXCEPT !.at = "answered", !.actual = a, !.rest = R] \in Ping
    BY <1>2, <2>3, <2>4 DEF Ping
  <2> QED
    BY <2>2, <2>5, Zenon
<1>4. CASE DropSeed(n)
  <2>1. [g EXCEPT !.at = "adopt"] \in Ping
    BY <1>2 DEF Ping
  <2> QED
    BY <1>4, <2>1, Zenon DEF DropSeed
<1>5. CASE Adopt(n)
  <2>1. [g EXCEPT !.at = "merge"] \in Ping
    BY <1>2 DEF Ping
  <2> QED
    BY <1>5, <2>1, Zenon DEF Adopt
<1>6. CASE MergeWrite(n)
  <2>1. [g EXCEPT !.write = Nil] \in Ping
    BY <1>2 DEF Ping
  <2> QED
    BY <1>6, <2>1, Zenon DEF MergeWrite
<1>7. CASE MergeGet(n)
  <2>1. PICK r \in g.rest : ping' = [ping EXCEPT ![n] =
            [g EXCEPT !.rest = @ \ {r},
                      !.write = IF Resolve(table[n][r.id], r) = Nil THEN Nil
                                ELSE [id |-> r.id, st |-> Resolve(table[n][r.id], r)]]]
    BY <1>7, Zenon DEF MergeGet
  <2> DEFINE st == Resolve(table[n][r.id], r)
             w == IF st = Nil THEN Nil ELSE [id |-> r.id, st |-> st]
  <2>2. r \in Remote /\ st \in States \cup {Nil}
    BY <1>2, ResolveType, Zenon
  <2> HIDE DEF st
  <2>3. w \in [id : PeerIDs, st : States] \cup {Nil}
    BY <2>2 DEF Remote
  <2> HIDE DEF w
  <2>4. [g EXCEPT !.rest = g.rest \ {r}, !.write = w] \in Ping
    BY <1>2, <2>3 DEF Ping
  <2> QED
    BY <2>1, <2>4, Zenon DEF w, st
<1>8. CASE MergeDone(n)
  BY <1>8, Zenon DEF MergeDone
<1> QED
  BY <1>3, <1>4, <1>5, <1>6, <1>7, <1>8, Zenon

\* The steps of a ping keep the types.
LEMMA PingStepTypes == ASSUME Types, NEW n \in Nodes, PingStep(n) PROVE Types'
<1>1. /\ table' \in [Nodes -> Tables] /\ since' \in [Nodes -> [PeerIDs -> Nat]]
      /\ now' = now
  BY PingTable, TableChangeType, Zenon DEF TableChange
<1>2. UNCHANGED <<up, check>>
  BY Zenon DEF PingStep, PingFails, PingGarbled, InternalPing, DropSeed, Adopt, MergeGet,
               MergeWrite, MergeDone
<1>3. CASE PingFails(n) \/ PingGarbled(n)
  <2>1. ping[n] # Nil /\ Loses(Address(ping[n].id)) /\ ping' = [ping EXCEPT ![n] = Nil]
    BY <1>3, Zenon DEF PingFails, PingGarbled
  <2>2. ping' \in [Nodes -> Ping \cup {Nil}] /\ faults' \in Nat
    BY <2>1, PingType, LosesType, Zenon
  <2>3. stray' \subseteq Nodes \X Nodes
    BY <1>3, AbandonsType, Zenon DEF PingFails, PingGarbled, Types
  <2>4. found' = found \/ found' = found \cup {<<ping[n].id, "suspect">>}
    BY <1>3, Zenon DEF PingFails, PingGarbled
  <2>5. ping[n].id \in PeerIDs
    BY <2>1, PingParts, Zenon
  <2>6. found' \subseteq PeerIDs \X States
    BY <2>4, <2>5 DEF Types, States
  <2> QED
    BY <1>1, <1>2, <2>2, <2>3, <2>6, Zenon DEF Types
<1>4. CASE InternalPing(n) \/ DropSeed(n) \/ Adopt(n) \/ MergeGet(n) \/ MergeWrite(n)
               \/ MergeDone(n)
  <2>1. ping' \in [Nodes -> Ping \cup {Nil}]
    BY <1>4, PingNext, PingType, Zenon
  <2>2. UNCHANGED <<stray, faults, found>>
    BY <1>4, Zenon DEF InternalPing, DropSeed, Adopt, MergeGet, MergeWrite, MergeDone
  <2> QED
    BY <1>1, <1>2, <2>1, <2>2, Zenon DEF Types
<1> QED
  BY <1>3, <1>4, Zenon DEF PingStep

\* So do the others.
LEMMA OtherTypes ==
    ASSUME Types,
           \/ \E n \in Nodes : Start(n) \/ Tick(n) \/ CheckStart(n) \/ CheckDead(n) \/ Crash(n)
           \/ \E s \in stray : StrayPing(s)
    PROVE  Types'
<1>1. /\ table' \in [Nodes -> Tables] /\ since' \in [Nodes -> [PeerIDs -> Nat]]
      /\ now' = now
  BY OtherTable, TableChangeType, Zenon DEF TableChange
<1>2. ASSUME NEW n \in Nodes, Start(n) PROVE Types'
  <2>1. NewPing(Seed, "") \in Ping
    BY NewPingType, Zenon DEF PeerIDs
  <2>2. ping' \in [Nodes -> Ping \cup {Nil}]
    BY <1>2, <2>1, PingType, Zenon DEF Start, Types
  <2>3. up' \in [Nodes -> BOOLEAN] /\ UNCHANGED <<check, stray, faults, found>>
    BY <1>2, Zenon DEF Start, Types
  <2> QED
    BY <1>1, <2>2, <2>3, Zenon DEF Types
<1>3. ASSUME NEW n \in Nodes, Tick(n) PROVE Types'
  <2>1. PICK i \in PeerIDs : TickAt(n, i)
    BY <1>3, Zenon DEF Tick
  <2>2. table[n][i] \in Peer
    BY <2>1, Zenon DEF TickAt, Types, Tables
  <2>3. table[n][i].st \in States
    BY <2>2 DEF Peer
  <2>4. ping' \in [Nodes -> Ping \cup {Nil}]
    BY <2>1, <2>3, NewPingType, PingType, Zenon DEF TickAt
  <2>5. UNCHANGED <<up, check, stray, faults, found>>
    BY <2>1, Zenon DEF TickAt
  <2> QED
    BY <1>1, <2>4, <2>5, Zenon DEF Types
<1>4. ASSUME NEW n \in Nodes, CheckStart(n) PROVE Types'
  <2>1. Expired(n) \subseteq PeerIDs
    BY Zenon DEF Expired
  <2>2. check' \in [Nodes -> SUBSET PeerIDs]
    BY <1>4, <2>1, Zenon DEF CheckStart, Types
  <2>3. found' \subseteq PeerIDs \X States
    BY <1>4, <2>1 DEF CheckStart, Types, States
  <2>4. UNCHANGED <<up, ping, stray, faults>>
    BY <1>4, Zenon DEF CheckStart
  <2> QED
    BY <1>1, <2>2, <2>3, <2>4, Zenon DEF Types
<1>5. ASSUME NEW n \in Nodes, CheckDead(n) PROVE Types'
  <2>1. check' \in [Nodes -> SUBSET PeerIDs]
    BY <1>5 DEF CheckDead, Types
  <2>2. UNCHANGED <<up, ping, stray, faults, found>>
    BY <1>5, Zenon DEF CheckDead
  <2> QED
    BY <1>1, <2>1, <2>2, Zenon DEF Types
<1>6. ASSUME NEW n \in Nodes, Crash(n) PROVE Types'
  <2>1. /\ ping' \in [Nodes -> Ping \cup {Nil}] /\ stray' \subseteq Nodes \X Nodes
        /\ up' \in [Nodes -> BOOLEAN] /\ found' = found
    BY <1>6, PingType, AbandonsType, Zenon DEF Crash, Types
  <2>2. faults' \in Nat /\ check' \in [Nodes -> SUBSET PeerIDs]
    BY <1>6 DEF Crash, Types
  <2> QED
    BY <1>1, <2>1, <2>2, Zenon DEF Types
<1>7. ASSUME NEW s \in stray, StrayPing(s) PROVE Types'
  BY <1>1, <1>7, Zenon DEF StrayPing, Types
<1> QED
  BY <1>2, <1>3, <1>4, <1>5, <1>6, <1>7, Zenon

\* Every step keeps the types.
LEMMA TypeStep == ASSUME Types, [Next]_vars PROVE Types'
<1>1. CASE UNCHANGED vars
  BY <1>1, Zenon DEF vars, Types
<1>2. ASSUME NEW n \in Nodes, PingStep(n) PROVE Types'
  BY <1>2, PingStepTypes, Zenon
<1>3. CASE Clock
  <2>1. now' \in Nat
    BY <1>3 DEF Clock, Types
  <2> QED
    BY <1>3, <2>1, Zenon DEF Clock, Types
<1> QED
  BY <1>1, <1>2, <1>3, OtherTypes, Zenon DEF Next

\* The types hold always.
LEMMA TypesInvariant == Spec => []Types
<1>1. Init => Types
  BY NodesAssumption, BoundAssumption DEF Init, Types, Tables, NoPeers
<1> QED
  BY <1>1, TypeStep, PTL DEF Spec

------------------------------------------------------------------------------
(* No node but the seed is a peer of itself.                                 *)

\* The target of a ping is another node, or the seed.
LEMMA TargetElsewhere ==
    ASSUME Elsewhere, NEW n \in Nodes, ping[n] # Nil, Address(ping[n].id) # SeedNode
    PROVE  n # Address(ping[n].id)
<1>1. ping[n].id = Address(ping[n].id)
  BY Zenon DEF Address
<1>2. n # SeedNode => ping[n].id # n
  BY Zenon DEF Elsewhere, PingElsewhere
<1> QED
  BY <1>1, <1>2, Zenon

\* An entry for another peer does not make a node a peer of itself.
LEMMA PutElsewhere ==
    ASSUME Types, Elsewhere, NEW m \in Nodes, NEW i \in PeerIDs, NEW st \in States,
           Puts(m, i, st), m # SeedNode => i # m
    PROVE  \A n \in Nodes \ {SeedNode} : table'[n][n] = Nil
<1>1. /\ \A n \in Nodes \ {m} : table'[n] = table[n]
      /\ \A j \in PeerIDs \ {i} : table'[m][j] = table[m][j]
  BY UpdateType, Zenon DEF Puts
<1> QED
  BY <1>1, Zenon DEF Elsewhere, PeerIDs

\* Nor does the loss of entries.
LEMMA ClearElsewhere ==
    ASSUME Types, Elsewhere, NEW m \in Nodes, Clears(m)
    PROVE  \A n \in Nodes \ {SeedNode} : table'[n][n] = Nil
<1>1. PICK t \in Tables : SetTable(m, t) /\ \A j \in PeerIDs : t[j] \in {table[m][j], Nil}
  BY Zenon DEF Clears
<1>2. table'[m] = t /\ \A n \in Nodes \ {m} : table'[n] = table[n]
  BY <1>1, SetTableType, Zenon
<1> QED
  BY <1>1, <1>2, Zenon DEF Elsewhere, PeerIDs

\* A step of n that keeps the tables clear, extends no check, adds no request whose
\* sender has given up but one to another node, and leaves n a ping for others.
LEMMA ElsewhereFrame ==
    ASSUME Types, Elsewhere, NEW n \in Nodes,
           \A k \in Nodes \ {SeedNode} : table'[k][k] = Nil,
           \A k \in Nodes : check'[k] \subseteq check[k],
           \A k \in Nodes \ {n} : ping'[k] = ping[k],
           n # SeedNode /\ ping'[n] # Nil => PingElsewhere(ping'[n], n),
           \A s \in stray' \ stray : s[2] # SeedNode => s[1] # s[2]
    PROVE  Elsewhere'
<1>1. ASSUME NEW k \in Nodes \ {SeedNode}, ping'[k] # Nil PROVE PingElsewhere(ping'[k], k)
  BY <1>1, Zenon DEF Elsewhere
<1>2. \A k \in Nodes \ {SeedNode} : k \notin check'[k]
  BY Zenon DEF Elsewhere
<1>3. \A s \in stray' : s[2] # SeedNode => s[1] # s[2]
  BY Zenon DEF Elsewhere
<1> QED
  BY <1>1, <1>2, <1>3, Zenon DEF Elsewhere, PingElsewhere

\* A request that outlives its sender's interest is meant for another node.
LEMMA AbandonsElsewhere ==
    ASSUME Types, Elsewhere, NEW n \in Nodes, Abandons(n)
    PROVE  \A s \in stray' \ stray : s[2] # SeedNode => s[1] # s[2]
<1>1. CASE UNCHANGED stray
  BY <1>1, Zenon
<1>2. CASE ping[n] # Nil /\ stray' = stray \cup {<<n, Address(ping[n].id)>>}
  <2>1. Address(ping[n].id) # SeedNode => n # Address(ping[n].id)
    BY <1>2, TargetElsewhere, Zenon
  <2> QED
    BY <1>2, <2>1
<1> QED
  BY <1>1, <1>2, Zenon DEF Abandons

\* The steps of a ping.
LEMMA PingStepElsewhere ==
    ASSUME Types, Types', Elsewhere, NEW n \in Nodes, PingStep(n) PROVE Elsewhere'
<1> DEFINE g == ping[n]
<1> USE DEF States
<1>1. g # Nil /\ check' = check
  BY Zenon DEF PingStep, PingFails, PingGarbled, InternalPing, DropSeed, Adopt, MergeGet,
               MergeWrite, MergeDone
<1>2. /\ g \in Ping /\ g.id \in PeerIDs /\ g.rest \subseteq Remote
      /\ g.write \in [id : PeerIDs, st : States] \cup {Nil}
  BY <1>1, PingParts, Zenon
<1>3. n # SeedNode => PingElsewhere(g, n)
  BY <1>1, Zenon DEF Elsewhere
<1>4. table' = table => \A k \in Nodes \ {SeedNode} : table'[k][k] = Nil
  BY Zenon DEF Elsewhere
<1>5. CASE PingFails(n) \/ PingGarbled(n)
  <2>1. ping'[n] = Nil /\ \A k \in Nodes \ {n} : ping'[k] = ping[k]
    BY <1>5, PingType, Zenon DEF PingFails, PingGarbled
  <2>2. \A s \in stray' \ stray : s[2] # SeedNode => s[1] # s[2]
    BY <1>5, AbandonsElsewhere, Zenon DEF PingFails, PingGarbled
  <2>3. \A k \in Nodes \ {SeedNode} : table'[k][k] = Nil
    <3>1. n # SeedNode => g.id # n
      BY <1>3, Zenon DEF PingElsewhere
    <3>2. table' = table \/ Puts(n, g.id, "suspect")
      BY <1>5, Zenon DEF PingFails, PingGarbled, Puts
    <3> QED
      BY <1>2, <1>4, <3>1, <3>2, PutElsewhere, Zenon
  <2> QED
    BY <1>1, <2>1, <2>2, <2>3, ElsewhereFrame, Zenon
<1>6. CASE ~(PingFails(n) \/ PingGarbled(n))
  <2>1. stray' = stray /\ \E h \in Ping \cup {Nil} : ping' = [ping EXCEPT ![n] = h]
    BY <1>6, PingNext, Zenon DEF PingStep, InternalPing, DropSeed, Adopt, MergeGet,
                                 MergeWrite, MergeDone
  <2>2. \A k \in Nodes \ {n} : ping'[k] = ping[k]
    BY <2>1, PingType, Zenon
  <2>3. SUFFICES /\ \A k \in Nodes \ {SeedNode} : table'[k][k] = Nil
                 /\ n # SeedNode /\ ping'[n] # Nil => PingElsewhere(ping'[n], n)
    BY <1>1, <2>1, <2>2, <2>3, ElsewhereFrame, Zenon
  <2>4. CASE InternalPing(n)
    <3> DEFINE m == Address(g.id)
               t == AddOrUpdate(table[m], n, "alive")
               R == ToMerge(n, Listed(t) \cup {Self(m)})
    <3>1. m \in Nodes /\ n \in PeerIDs
      BY <1>2, AddressType, Zenon DEF PeerIDs
    <3>2. m # SeedNode => n # m
      BY <1>1, TargetElsewhere, Zenon
    <3>3. \A k \in Nodes \ {SeedNode} : table'[k][k] = Nil
      BY <2>4, <3>1, <3>2, PutElsewhere, Zenon DEF InternalPing, Greeted, Puts
    <3>4. PICK a : /\ a \in IF g.id = Seed THEN FirstAt(t) ELSE {g.id}
                   /\ ping' = [ping EXCEPT ![n] = [g EXCEPT !.at = "answered", !.actual = a,
                                                            !.rest = R]]
      BY <2>4, Zenon DEF InternalPing, Greeted
    <3> DEFINE h == [g EXCEPT !.at = "answered", !.actual = a, !.rest = R]
    <3>5. \A r \in R : r.id # n
      BY Zenon DEF ToMerge
    <3> HIDE DEF R
    <3>6. h.id = g.id /\ h.actual = a /\ h.rest = R /\ h.write = g.write
      BY <1>2 DEF Ping
    <3> HIDE DEF h
    <3>7. ping'[n] = h
      BY <3>4, Zenon DEF h, Types
    <3>8. n # SeedNode => a # n
      BY <1>3, <3>4, NodesAssumption, Zenon DEF FirstAt, PingElsewhere, PeerIDs
    <3>9. n # SeedNode => PingElsewhere(h, n)
      BY <1>3, <3>5, <3>6, <3>8, Zenon DEF PingElsewhere
    <3> QED
      BY <3>3, <3>7, <3>9, Zenon
  <2>5. CASE DropSeed(n) \/ Adopt(n) \/ MergeWrite(n)
    <3>1. PICK h : /\ ping' = [ping EXCEPT ![n] = h] /\ h.rest = g.rest
                   /\ h.id = g.id /\ h.actual = g.actual
                   /\ h.write = g.write \/ h.write = Nil
      <4>1. \A x \in {"adopt", "merge"} :
               /\ [g EXCEPT !.at = x].rest = g.rest /\ [g EXCEPT !.at = x].write = g.write
               /\ [g EXCEPT !.at = x].id = g.id /\ [g EXCEPT !.at = x].actual = g.actual
        BY <1>2 DEF Ping
      <4>2. /\ [g EXCEPT !.write = Nil].rest = g.rest
            /\ [g EXCEPT !.write = Nil].write = Nil
            /\ [g EXCEPT !.write = Nil].id = g.id
            /\ [g EXCEPT !.write = Nil].actual = g.actual
        BY <1>2 DEF Ping
      <4> QED
        BY <2>5, <4>1, <4>2, Zenon DEF DropSeed, Adopt, MergeWrite
    <3>2. ping'[n] = h
      BY <3>1, Zenon DEF Types
    <3>3. n # SeedNode => PingElsewhere(h, n)
      BY <1>3, <3>1, Zenon DEF PingElsewhere
    <3>4. CASE DropSeed(n)
      <4>1. Clears(n)
        <5> DEFINE t == [table[n] EXCEPT ![Seed] = Nil]
        <5>1. table[n] \in Tables
          BY Zenon DEF Types
        <5>2. t \in Tables /\ \A j \in PeerIDs : t[j] \in {table[n][j], Nil}
          BY <5>1 DEF Tables
        <5> QED
          BY <3>4, <5>2, Zenon DEF DropSeed, Clears
      <4> QED
        BY <3>2, <3>3, <4>1, ClearElsewhere, Zenon
    <3>5. CASE Adopt(n)
      <4>1. PICK i \in PeerIDs : /\ i = IF g.actual = Nil THEN g.id ELSE g.actual
                                 /\ Puts(n, i, "alive")
        BY <3>5, AdoptedType, Zenon
      <4>2. n # SeedNode => i # n
        BY <1>3, <4>1, Zenon DEF PingElsewhere
      <4> QED
        BY <3>2, <3>3, <4>1, <4>2, PutElsewhere, Zenon
    <3>6. CASE MergeWrite(n)
      <4>1. Puts(n, g.write.id, g.write.st) /\ g.write # Nil
        BY <3>6, Zenon DEF MergeWrite, Puts
      <4>2. g.write.id \in PeerIDs /\ g.write.st \in States
        BY <1>2, <4>1
      <4>3. n # SeedNode => g.write.id # n
        BY <1>3, <4>1, Zenon DEF PingElsewhere
      <4> QED
        BY <3>2, <3>3, <4>1, <4>2, <4>3, PutElsewhere, Zenon
    <3> QED
      BY <2>5, <3>4, <3>5, <3>6, Zenon
  <2>6. CASE MergeGet(n)
    <3>1. PICK r \in g.rest : ping' = [ping EXCEPT ![n] =
              [g EXCEPT !.rest = @ \ {r},
                        !.write = IF Resolve(table[n][r.id], r) = Nil THEN Nil
                                  ELSE [id |-> r.id, st |-> Resolve(table[n][r.id], r)]]]
      BY <2>6, Zenon DEF MergeGet
    <3> DEFINE st == Resolve(table[n][r.id], r)
               w == IF st = Nil THEN Nil ELSE [id |-> r.id, st |-> st]
               h == [g EXCEPT !.rest = g.rest \ {r}, !.write = w]
    <3> HIDE DEF st
    <3>2. w # Nil => w.id = r.id
      <4>1. [id |-> r.id, st |-> st].id = r.id
        OBVIOUS
      <4> QED
        BY <4>1, Zenon
    <3> HIDE DEF w
    <3>3. h.id = g.id /\ h.actual = g.actual /\ h.rest = g.rest \ {r} /\ h.write = w
      BY <1>2 DEF Ping
    <3> HIDE DEF h
    <3>4. ping'[n] = h /\ table' = table
      BY <2>6, <3>1, Zenon DEF h, w, st, MergeGet, Types
    <3>5. n # SeedNode => PingElsewhere(h, n)
      BY <1>3, <3>2, <3>3, Zenon DEF PingElsewhere
    <3> QED
      BY <1>4, <3>4, <3>5, Zenon
  <2>7. CASE MergeDone(n)
    <3>1. ping'[n] = Nil /\ table' = table
      BY <2>7, Zenon DEF MergeDone, Types
    <3> QED
      BY <1>4, <3>1, Zenon
  <2> QED
    BY <1>6, <2>4, <2>5, <2>6, <2>7, Zenon DEF PingStep
<1> QED
  BY <1>5, <1>6, Zenon

\* The other steps.
LEMMA OtherElsewhere ==
    ASSUME Types, Elsewhere,
           \/ \E n \in Nodes : Start(n) \/ Tick(n) \/ CheckStart(n) \/ CheckDead(n) \/ Crash(n)
           \/ \E s \in stray : StrayPing(s)
    PROVE  Elsewhere'
<1> USE DEF States
<1>1. table' = table => \A k \in Nodes \ {SeedNode} : table'[k][k] = Nil
  BY Zenon DEF Elsewhere
<1>2. ASSUME NEW n \in Nodes, NEW i \in PeerIDs, NEW was, i # n
      PROVE  PingElsewhere(NewPing(i, was), n)
  <2>1. /\ NewPing(i, was).id = i /\ NewPing(i, was).actual = i
        /\ NewPing(i, was).rest = {} /\ NewPing(i, was).write = Nil
    BY DEF NewPing
  <2> QED
    BY <1>2, <2>1, Zenon DEF PingElsewhere
<1>3. ASSUME NEW n \in Nodes, Start(n) PROVE Elsewhere'
  <2>1. check' = check /\ stray' = stray /\ \A k \in Nodes \ {n} : ping'[k] = ping[k]
    BY <1>3, Zenon DEF Start, Types
  <2>2. Seed \in PeerIDs /\ Seed # n
    BY NodesAssumption, Zenon DEF PeerIDs
  <2>3. \A k \in Nodes \ {SeedNode} : table'[k][k] = Nil
    BY <1>1, <1>3, <2>2, PutElsewhere, Zenon DEF Start, Puts
  <2>4. n # SeedNode => ping'[n] = NewPing(Seed, "")
    BY <1>3, Zenon DEF Start, Types
  <2>5. n # SeedNode => PingElsewhere(ping'[n], n)
    BY <1>2, <2>2, <2>4, Zenon
  <2> QED
    BY <2>1, <2>3, <2>5, ElsewhereFrame, Zenon
<1>4. ASSUME NEW n \in Nodes, Tick(n) PROVE Elsewhere'
  <2>1. PICK i \in PeerIDs : TickAt(n, i)
    BY <1>4, Zenon DEF Tick
  <2>2. /\ table' = table /\ check' = check /\ stray' = stray /\ i # n
        /\ ping'[n] = NewPing(i, table[n][i].st) /\ \A k \in Nodes \ {n} : ping'[k] = ping[k]
    BY <2>1, Zenon DEF TickAt, Types
  <2>3. PingElsewhere(ping'[n], n) /\ \A k \in Nodes \ {SeedNode} : table'[k][k] = Nil
    BY <1>1, <1>2, <2>2, Zenon
  <2> QED
    BY <2>2, <2>3, ElsewhereFrame, Zenon
<1>5. ASSUME NEW n \in Nodes, CheckStart(n) PROVE Elsewhere'
  <2>1. UNCHANGED <<table, ping, stray>> /\ check' = [check EXCEPT ![n] = Expired(n)]
    BY <1>5, Zenon DEF CheckStart
  <2>2. n # SeedNode => n \notin Expired(n)
    BY Zenon DEF Elsewhere, Expired, IsSuspect
  <2>3. \A k \in Nodes \ {SeedNode} : k \notin check'[k]
    BY <2>1, <2>2, Zenon DEF Elsewhere, Types
  <2> QED
    BY <2>1, <2>3, Zenon DEF Elsewhere, PingElsewhere
<1>6. ASSUME NEW n \in Nodes, CheckDead(n) PROVE Elsewhere'
  <2>1. PICK i \in check[n] : /\ Puts(n, i, "dead") /\ check' = [check EXCEPT ![n] = @ \ {i}]
                              /\ UNCHANGED <<ping, stray>>
    BY <1>6, Zenon DEF CheckDead, Puts
  <2>2. i \in PeerIDs /\ (n # SeedNode => i # n)
    BY Zenon DEF Types, Elsewhere
  <2>3. \A k \in Nodes \ {SeedNode} : table'[k][k] = Nil
    BY <2>1, <2>2, PutElsewhere, Zenon
  <2>4. \A k \in Nodes : check'[k] \subseteq check[k]
    BY <2>1 DEF Types
  <2>5. n # SeedNode /\ ping'[n] # Nil => PingElsewhere(ping'[n], n)
    BY <2>1, Zenon DEF Elsewhere
  <2> QED
    BY <2>1, <2>3, <2>4, <2>5, ElsewhereFrame, Zenon
<1>7. ASSUME NEW n \in Nodes, Crash(n) PROVE Elsewhere'
  <2>1. NoPeers \in Tables /\ \A j \in PeerIDs : NoPeers[j] \in {table[n][j], Nil}
    BY Zenon DEF NoPeers, Tables
  <2>2. \A k \in Nodes \ {SeedNode} : table'[k][k] = Nil
    BY <1>7, <2>1, ClearElsewhere, Zenon DEF Crash, Clears
  <2>3. \A k \in Nodes : check'[k] \subseteq check[k]
    BY <1>7 DEF Crash, Types
  <2>4. ping'[n] = Nil /\ \A k \in Nodes \ {n} : ping'[k] = ping[k]
    BY <1>7, Zenon DEF Crash, Types
  <2>5. \A s \in stray' \ stray : s[2] # SeedNode => s[1] # s[2]
    BY <1>7, AbandonsElsewhere, Zenon DEF Crash
  <2> QED
    BY <2>2, <2>3, <2>4, <2>5, ElsewhereFrame, Zenon
<1>8. ASSUME NEW s \in stray, StrayPing(s) PROVE Elsewhere'
  <2>1. s[1] \in Nodes /\ s[2] \in Nodes /\ s[1] \in PeerIDs
    BY DEF Types, PeerIDs
  <2>2. s[2] # SeedNode => s[1] # s[2]
    BY Zenon DEF Elsewhere
  <2>3. UNCHANGED <<ping, check>> /\ stray' \subseteq stray
    BY <1>8, Zenon DEF StrayPing
  <2>4. \A k \in Nodes \ {SeedNode} : table'[k][k] = Nil
    BY <1>1, <1>8, <2>1, <2>2, PutElsewhere, Zenon DEF StrayPing, Greeted, Puts
  <2> QED
    BY <2>3, <2>4, Zenon DEF Elsewhere
<1> QED
  BY <1>3, <1>4, <1>5, <1>6, <1>7, <1>8, Zenon

\* Every step.
LEMMA ElsewhereStep == ASSUME Types, Types', Elsewhere, [Next]_vars PROVE Elsewhere'
<1>1. CASE Clock \/ UNCHANGED vars
  BY <1>1, Zenon DEF Clock, vars, Elsewhere
<1>2. ASSUME NEW n \in Nodes, PingStep(n) PROVE Elsewhere'
  BY <1>2, PingStepElsewhere, Zenon
<1> QED
  BY <1>1, <1>2, OtherElsewhere, Zenon DEF Next

\* Type correctness; and no node but the seed gets itself into its peer table,
\* though responses list it and MergePeers goes through them (gossip.go).
THEOREM TypeInvariant == Spec => []TypeOK
<1>1. Init => Elsewhere
  <2> SUFFICES ASSUME Init PROVE Elsewhere
    OBVIOUS
  <2>1. /\ \A n \in Nodes : table[n][n] = Nil /\ check[n] = {} /\ ping[n] = Nil
        /\ stray = {}
    BY Zenon DEF Init, NoPeers, PeerIDs
  <2> QED
    BY <2>1, Zenon DEF Elsewhere
<1>2. Types /\ Elsewhere => TypeOK
  BY Zenon DEF Types, Elsewhere, TypeOK, Tables
<1> QED
  BY <1>1, <1>2, TypesInvariant, ElsewhereStep, PTL DEF Spec

------------------------------------------------------------------------------
(* The suspicion window.                                                     *)

\* Replacing a table by one whose entries are old ones or new ones.
LEMMA TimedSet ==
    ASSUME Types, Timed, now' = now, NEW n \in Nodes, NEW t \in Tables, SetTable(n, t),
           \A i \in PeerIDs : t[i] = table[n][i] \/ t[i] = Nil \/ t[i].seen = now
    PROVE  Timed'
<1>1. table'[n] = t /\ \A m \in Nodes \ {n} : table'[m] = table[m]
  BY SetTableType, Zenon
<1>2. /\ \A m \in Nodes \ {n} : since'[m] = since[m]
      /\ \A i \in PeerIDs : since'[n][i] = IF ~IsSuspect(t[i]) THEN 0
                                           ELSE IF IsSuspect(table[n][i]) THEN since[n][i] ELSE now
  BY Zenon DEF SetTable, Types
<1>3. ASSUME NEW i \in PeerIDs
      PROVE  since'[n][i] <= now /\ (IsSuspect(t[i]) => since'[n][i] <= t[i].seen)
  <2>1. /\ now \in Nat /\ since[n][i] \in Nat
        /\ since[n][i] <= now /\ (IsSuspect(table[n][i]) => since[n][i] <= table[n][i].seen)
    BY Zenon DEF Types, Timed
  <2>2. CASE ~IsSuspect(t[i])
    BY <1>2, <2>1, <2>2
  <2>3. CASE IsSuspect(t[i]) /\ t[i] = table[n][i]
    BY <1>2, <2>1, <2>3, Zenon
  <2>4. CASE IsSuspect(t[i]) /\ t[i].seen = now
    BY <1>2, <2>1, <2>4
  <2> QED
    BY <2>2, <2>3, <2>4, Zenon DEF IsSuspect
<1>4. \A i \in PeerIDs : IsSuspect(table[n][i])' = IsSuspect(t[i])
  BY <1>1, Zenon DEF IsSuspect
<1>5. \A m \in Nodes \ {n}, i \in PeerIDs : IsSuspect(table[m][i])' = IsSuspect(table[m][i])
  BY <1>1, Zenon DEF IsSuspect
<1> QED
  BY <1>1, <1>2, <1>3, <1>4, <1>5, Zenon DEF Timed

\* Every step keeps Timed.
LEMMA TimedStep == ASSUME Types, Timed, [Next]_vars PROVE Timed'
<1>1. CASE Clock \/ UNCHANGED vars
  <2>1. UNCHANGED <<table, since>> /\ (now' = now \/ now' = now + 1)
    BY <1>1, Zenon DEF Clock, vars
  <2>2. \A n \in Nodes, i \in PeerIDs : since[n][i] \in Nat /\ now \in Nat
    BY Zenon DEF Types
  <2>3. \A n \in Nodes, i \in PeerIDs : since'[n][i] <= now'
    BY <2>1, <2>2 DEF Timed
  <2> QED
    BY <2>1, <2>3, Zenon DEF Timed, IsSuspect
<1>2. CASE TableChange
  <2>1. now' = now
    BY <1>2, Zenon DEF TableChange
  <2>2. CASE UNCHANGED <<table, since>>
    BY <2>1, <2>2, Zenon DEF Timed, IsSuspect
  <2>3. ASSUME NEW n \in Nodes, NEW i \in PeerIDs, NEW st \in States, Puts(n, i, st)
        PROVE  Timed'
    <3> DEFINE t == AddOrUpdate(table[n], i, st)
    <3>1. table[n] \in Tables /\ now \in Nat
      BY Zenon DEF Types
    <3>2. /\ t \in Tables /\ t[i] = [st |-> st, seen |-> now]
          /\ \A j \in PeerIDs \ {i} : t[j] = table[n][j]
      BY <3>1, AddOrUpdateType
    <3> HIDE DEF t
    <3>3. t[i].seen = now
      BY <3>2
    <3>4. SetTable(n, t)
      BY <2>3, Zenon DEF Puts, t
    <3> QED
      BY <2>1, <3>2, <3>3, <3>4, TimedSet, Zenon
  <2>4. ASSUME NEW n \in Nodes, Clears(n) PROVE Timed'
    BY <2>1, <2>4, TimedSet, Zenon DEF Clears
  <2> QED
    BY <1>2, <2>2, <2>3, <2>4, Zenon DEF TableChange
<1> QED
  BY <1>1, <1>2, PingTable, OtherTable, Zenon DEF Next

\* Timed holds always.
LEMMA TimedInvariant == Spec => []Timed
<1>1. Init => Timed
  <2> SUFFICES ASSUME Init PROVE Timed
    OBVIOUS
  <2>1. \A n \in Nodes, i \in PeerIDs : table[n][i] = Nil /\ since[n][i] = 0
    BY Zenon DEF Init, NoPeers
  <2>2. now = 1
    BY Zenon DEF Init
  <2> QED
    BY <2>1, <2>2 DEF Timed, IsSuspect
<1> QED
  BY <1>1, TypesInvariant, TimedStep, PTL DEF Spec

\* Only a peer that was suspect for the whole window is picked to be declared dead.
LEMMA PickedAfterWindow ==
    ASSUME Types, Timed, [Next]_vars, NEW n \in Nodes, NEW i \in check'[n] \ check[n]
    PROVE  IsSuspect(table[n][i]) /\ now >= since[n][i] + Window
<1>1. PICK m \in Nodes : CheckStart(m)
  <2>1. CASE UNCHANGED check
    BY <2>1, Zenon
  <2>2. ASSUME NEW m \in Nodes, CheckDead(m) \/ Crash(m) PROVE FALSE
    <3>1. check'[n] \subseteq check[n]
      BY <2>2 DEF CheckDead, Crash, Types
    <3> QED
      BY <3>1, Zenon
  <2> QED
    BY <2>1, <2>2, Zenon DEF Next, vars, Start, Tick, TickAt, PingStep, PingFails, PingGarbled,
            InternalPing, DropSeed, Adopt, MergeGet, MergeWrite, MergeDone, StrayPing, Clock
<1>2. m = n /\ i \in Expired(n)
  BY <1>1, Zenon DEF CheckStart, Types
<1>3. i \in PeerIDs /\ IsSuspect(table[n][i]) /\ now - table[n][i].seen >= Window
  BY <1>2, Zenon DEF Expired
<1>4. /\ table[n][i] \in Peer /\ since[n][i] \in Nat /\ now \in Nat
      /\ since[n][i] <= table[n][i].seen
  <2>1. table[n] \in Tables /\ since[n][i] \in Nat /\ now \in Nat
    BY <1>3, Zenon DEF Types
  <2>2. table[n][i] \in Peer
    BY <1>3, <2>1, Zenon DEF Tables, IsSuspect
  <2>3. since[n][i] <= table[n][i].seen
    BY <1>3, Zenon DEF Timed
  <2> QED
    BY <2>1, <2>2, <2>3, Zenon
<1>5. table[n][i].seen \in Nat
  BY <1>4 DEF Peer
<1> QED
  BY <1>3, <1>4, <1>5, BoundAssumption

\* checkSuspicious picks only peers that its node has held for suspect, without a
\* break, for the whole suspicion window.
THEOREM DeathAfterWindow == Spec => DeadAfterWindow
<1>1. Types /\ Timed /\ [Next]_vars
         => [\A n \in Nodes : \A i \in check'[n] \ check[n] :
               IsSuspect(table[n][i]) /\ now >= since[n][i] + Window]_vars
  BY PickedAfterWindow, Zenon
<1> QED
  BY <1>1, TypesInvariant, TimedInvariant, PTL DEF Spec, DeadAfterWindow

------------------------------------------------------------------------------
(* Cause.                                                                    *)

\* What was found out once was found out.
LEMMA CauseLasts ==
    ASSUME found \subseteq found', NEW i, NEW st, Cause(i, st) PROVE Cause(i, st)'
BY Zenon DEF Cause

\* No step forgets what was found out.
LEMMA FoundLasts == ASSUME [Next]_vars PROVE found \subseteq found'
BY Zenon DEF Next, vars, Start, Tick, TickAt, CheckStart, CheckDead, Crash, PingStep, PingFails,
        PingGarbled, InternalPing, DropSeed, Adopt, MergeGet, MergeWrite, MergeDone,
        StrayPing, Clock

\* A step that leaves the tables alone, or takes entries away, keeps them warranted ...
LEMMA TablesKept ==
    ASSUME Types, TablesCaused, found \subseteq found',
           table' = table \/ \E n \in Nodes : Clears(n)
    PROVE  TablesCaused'
<1>1. \A k \in Nodes, j \in PeerIDs : table'[k][j] \in {table[k][j], Nil}
  <2>1. ASSUME NEW n \in Nodes, Clears(n)
        PROVE  \A k \in Nodes, j \in PeerIDs : table'[k][j] \in {table[k][j], Nil}
    <3>1. PICK t \in Tables : SetTable(n, t) /\ \A j \in PeerIDs : t[j] \in {table[n][j], Nil}
      BY <2>1, Zenon DEF Clears
    <3>2. table'[n] = t /\ \A m \in Nodes \ {n} : table'[m] = table[m]
      BY <3>1, SetTableType, Zenon
    <3> QED
      BY <3>1, <3>2, Zenon
  <2> QED
    BY <2>1, Zenon
<1> QED
  BY <1>1, CauseLasts, Zenon DEF TablesCaused, EntryCaused

\* ... and so does one that enters a state with cause.
LEMMA TableWritten ==
    ASSUME Types, TablesCaused, found \subseteq found', NEW n \in Nodes, NEW i \in PeerIDs,
           NEW st \in States, Puts(n, i, st), Cause(i, st)'
    PROVE  TablesCaused'
<1>1. /\ \A m \in Nodes \ {n} : table'[m] = table[m]
      /\ table'[n][i] = [st |-> st, seen |-> now]
      /\ \A j \in PeerIDs \ {i} : table'[n][j] = table[n][j]
  BY UpdateType, Zenon DEF Puts
<1>2. table'[n][i].st = st
  BY <1>1
<1>3. EntryCaused(table[n][i], i)'
  BY <1>2, Zenon DEF EntryCaused, Cause
<1>4. ASSUME NEW m \in Nodes, NEW j \in PeerIDs, m # n \/ j # i
      PROVE  EntryCaused(table[m][j], j)'
  <2>1. table'[m][j] = table[m][j]
    BY <1>1, <1>4, Zenon
  <2>2. EntryCaused(table[m][j], j)
    BY Zenon DEF TablesCaused
  <2> QED
    BY <2>1, <2>2, CauseLasts, Zenon DEF EntryCaused
<1> QED
  BY <1>3, <1>4, Zenon DEF TablesCaused

\* What a ping carries stays warranted.
LEMMA PingLasts ==
    ASSUME found \subseteq found', NEW g, PingCaused(g) PROVE PingCaused(g)'
BY CauseLasts, Zenon DEF PingCaused

\* A step that keeps the tables warranted, extends no check and changes at most the
\* ping of n, to one that carries nothing without cause.
LEMMA CausedFrame ==
    ASSUME Caused, found \subseteq found', TablesCaused', NEW n \in Nodes,
           \A k \in Nodes : check'[k] \subseteq check[k],
           \A k \in Nodes \ {n} : ping'[k] = ping[k],
           ping'[n] = ping[n] \/ (ping'[n] # Nil => PingCaused(ping'[n]))
    PROVE  Caused'
<1>1. ChecksCaused'
  BY CauseLasts, Zenon DEF Caused, ChecksCaused
<1>2. \A k \in Nodes : ping'[k] # Nil => PingCaused(ping'[k])
  BY Zenon DEF Caused, PingsCaused
<1>3. ASSUME NEW k \in Nodes, ping'[k] # Nil PROVE PingCaused(ping[k])'
  <2>1. PICK g : g = ping'[k] /\ PingCaused(g)
    BY <1>2, <1>3, Zenon
  <2>2. (\A r \in g.rest : Cause(r.id, r.st)) /\ (g.write # Nil => Cause(g.write.id, g.write.st))
    BY <2>1, Zenon DEF PingCaused
  <2>3. \A j, st : Cause(j, st) => Cause(j, st)'
    BY CauseLasts, Zenon
  <2>4. /\ \A r \in g.rest : Cause(r.id, r.st)'
        /\ g.write # Nil => Cause(g.write.id, g.write.st)'
    BY <2>2, <2>3, Zenon
  <2> QED
    BY <2>1, <2>4, Zenon DEF PingCaused, Cause
<1> QED
  BY <1>1, <1>3, Zenon DEF Caused, PingsCaused

\* Being alive needs no cause.
LEMMA AliveCaused == ASSUME NEW i PROVE Cause(i, "alive") /\ Cause(i, "alive")'
BY Zenon DEF Cause

\* What a table lists to others is warranted as the table is.
LEMMA ListedCaused ==
    ASSUME NEW t \in Tables, \A i \in PeerIDs : EntryCaused(t[i], i), NEW r \in Listed(t)
    PROVE  Cause(r.id, r.st)
<1>1. PICK i \in PeerIDs : t[i] # Nil /\ r = [id |-> i, st |-> t[i].st, seen |-> t[i].seen]
  BY Zenon DEF Listed
<1>2. r.id = i /\ r.st = t[i].st
  BY <1>1
<1> QED
  BY <1>1, <1>2, Zenon DEF EntryCaused

\* MergePeers decides on nothing that is not warranted by the response.
LEMMA ResolveCaused ==
    ASSUME NEW e, NEW r \in Remote, Cause(r.id, r.st), Resolve(e, r) # Nil
    PROVE  Cause(r.id, Resolve(e, r))
BY AliveCaused, Zenon DEF Resolve

\* A failed ping is the cause of its own suspicion.
LEMMA CausedFails ==
    ASSUME Types, Caused, found \subseteq found', NEW n \in Nodes, PingFails(n) \/ PingGarbled(n)
    PROVE  Caused'
<1>1. /\ ping[n] # Nil /\ ping' = [ping EXCEPT ![n] = Nil] /\ check' = check
  BY Zenon DEF PingFails, PingGarbled
<1>2. ping'[n] = Nil /\ \A m \in Nodes \ {n} : ping'[m] = ping[m]
  BY <1>1, PingType, Zenon
<1>3. PICK i \in PeerIDs : i = ping[n].id
  BY <1>1, PingParts, Zenon
<1>4. TablesCaused'
  <2>1. CASE table' = table
    BY <2>1, TablesKept, Zenon DEF Caused
  <2>2. CASE PingFails(n) /\ Puts(n, i, "suspect")
    <3>1. found' = found \cup {<<i, "suspect">>}
      BY <1>3, <2>2, Zenon DEF PingFails
    <3>2. Cause(i, "suspect")'
      BY <3>1, Zenon DEF Cause
    <3> QED
      BY <2>2, <3>2, TableWritten, Zenon DEF Caused, States
  <2> QED
    BY <1>3, <2>1, <2>2, Zenon DEF PingFails, PingGarbled, Puts
<1> QED
  BY <1>1, <1>2, <1>4, CausedFrame, Zenon

\* The handler of a ping, and the steps of pingPeer that follow a response.
LEMMA CausedAnswered ==
    ASSUME Types, Types', Caused, found \subseteq found', NEW n \in Nodes,
           InternalPing(n) \/ DropSeed(n) \/ Adopt(n) \/ MergeGet(n) \/ MergeWrite(n)
               \/ MergeDone(n)
    PROVE  Caused'
<1> DEFINE g == ping[n]
<1> USE DEF States
<1>1. g # Nil /\ check' = check /\ found' = found
  BY Zenon DEF InternalPing, DropSeed, Adopt, MergeGet, MergeWrite, MergeDone
<1>2. /\ g \in Ping /\ g.id \in PeerIDs /\ g.rest \subseteq Remote
      /\ g.write \in [id : PeerIDs, st : States] \cup {Nil} /\ PingCaused(g)
  BY <1>1, PingParts, Zenon DEF Caused, PingsCaused
<1>3. \A m \in Nodes \ {n} : ping'[m] = ping[m]
  BY PingNext, PingType, Zenon
<1>4. SUFFICES TablesCaused' /\ (ping'[n] # Nil => PingCaused(ping'[n]))
  BY <1>1, <1>3, <1>4, CausedFrame, Zenon
<1>5. CASE InternalPing(n)
  <2> DEFINE m == Address(g.id)
             t == AddOrUpdate(table[m], n, "alive")
             R == ToMerge(n, Listed(t) \cup {Self(m)})
  <2>1. m \in Nodes /\ n \in PeerIDs
    BY <1>2, AddressType, Zenon DEF PeerIDs
  <2>2. SetTable(m, t)
    BY <1>5, Zenon DEF InternalPing, Greeted
  <2>3. TablesCaused'
    BY <2>1, <2>2, AliveCaused, TableWritten, Zenon DEF Puts, Caused
  <2>4. t \in Tables /\ table'[m] = t
    <3>1. table[m] \in Tables /\ now \in Nat
      BY <2>1, Zenon DEF Types
    <3>2. t \in Tables
      BY <2>1, <3>1, AddOrUpdateType
    <3> QED
      BY <2>1, <2>2, <3>2, SetTableType, Zenon
  <2>5. \A j \in PeerIDs : EntryCaused(t[j], j)
    <3>1. \A j \in PeerIDs : table'[m][j] # Nil /\ table'[m][j].st # "alive"
                                  => <<j, table'[m][j].st>> \in found'
      BY <2>1, <2>3, Zenon DEF TablesCaused, EntryCaused, Cause
    <3> QED
      BY <1>1, <2>4, <3>1, Zenon DEF EntryCaused, Cause
  <2>6. \A r \in R : Cause(r.id, r.st)
    <3>1. Self(m).st = "alive"
      BY DEF Self
    <3>2. Cause(Self(m).id, Self(m).st)
      BY <3>1, AliveCaused
    <3> QED
      BY <2>4, <2>5, <3>2, ListedCaused, Zenon DEF ToMerge
  <2>7. PICK a : ping' = [ping EXCEPT ![n] = [g EXCEPT !.at = "answered", !.actual = a,
                                                       !.rest = R]]
    BY <1>5, Zenon DEF InternalPing, Greeted
  <2> DEFINE h == [g EXCEPT !.at = "answered", !.actual = a, !.rest = R]
  <2> HIDE DEF R
  <2>8. h.rest = R /\ h.write = g.write
    BY <1>2 DEF Ping
  <2> HIDE DEF h
  <2>9. PingCaused(h)
    BY <1>2, <2>6, <2>8, Zenon DEF PingCaused
  <2>10. ping'[n] = h
    BY <2>7, Zenon DEF h, Types
  <2> QED
    BY <2>3, <2>9, <2>10, Zenon
<1>6. CASE DropSeed(n) \/ Adopt(n) \/ MergeWrite(n)
  <2>1. TablesCaused'
    <3>1. CASE DropSeed(n)
      <4> DEFINE t == [table[n] EXCEPT ![Seed] = Nil]
      <4>1. table[n] \in Tables
        BY Zenon DEF Types
      <4>2. t \in Tables /\ \A j \in PeerIDs : t[j] \in {table[n][j], Nil}
        BY <4>1 DEF Tables
      <4>3. Clears(n)
        BY <3>1, <4>2, Zenon DEF DropSeed, Clears
      <4> QED
        BY <4>3, TablesKept, Zenon DEF Caused
    <3>2. CASE Adopt(n)
      <4>1. PICK i \in PeerIDs : Puts(n, i, "alive")
        BY <3>2, AdoptedType, Zenon
      <4> QED
        BY <4>1, AliveCaused, TableWritten, Zenon DEF Caused
    <3>3. CASE MergeWrite(n)
      <4>1. Puts(n, g.write.id, g.write.st) /\ g.write # Nil
        BY <3>3, Zenon DEF MergeWrite, Puts
      <4>2. g.write.id \in PeerIDs /\ g.write.st \in States
        BY <1>2, <4>1
      <4>3. PICK j \in PeerIDs, st \in States : j = g.write.id /\ st = g.write.st
        BY <4>2
      <4>4. Puts(n, j, st) /\ Cause(j, st)'
        <5>1. Cause(j, st)
          BY <1>2, <4>1, <4>3, Zenon DEF PingCaused
        <5> QED
          BY <4>1, <4>3, <5>1, CauseLasts, Zenon
      <4> QED
        BY <4>4, TableWritten, Zenon DEF Caused
    <3> QED
      BY <1>6, <3>1, <3>2, <3>3, Zenon
  <2>2. PICK h : /\ ping' = [ping EXCEPT ![n] = h] /\ h.rest = g.rest
                 /\ h.write = g.write \/ h.write = Nil
    <3>1. /\ [g EXCEPT !.at = "adopt"].rest = g.rest
          /\ [g EXCEPT !.at = "adopt"].write = g.write
          /\ [g EXCEPT !.at = "merge"].rest = g.rest
          /\ [g EXCEPT !.at = "merge"].write = g.write
          /\ [g EXCEPT !.write = Nil].rest = g.rest
          /\ [g EXCEPT !.write = Nil].write = Nil
      BY <1>2 DEF Ping
    <3> QED
      BY <1>6, <3>1, Zenon DEF DropSeed, Adopt, MergeWrite
  <2>3. PingCaused(h) /\ ping'[n] = h
    BY <1>2, <2>2, Zenon DEF PingCaused, Types
  <2> QED
    BY <2>1, <2>3, Zenon
<1>7. CASE MergeGet(n)
  <2>1. PICK r \in g.rest : ping' = [ping EXCEPT ![n] =
            [g EXCEPT !.rest = @ \ {r},
                      !.write = IF Resolve(table[n][r.id], r) = Nil THEN Nil
                                ELSE [id |-> r.id, st |-> Resolve(table[n][r.id], r)]]]
    BY <1>7, Zenon DEF MergeGet
  <2> DEFINE st == Resolve(table[n][r.id], r)
             w == IF st = Nil THEN Nil ELSE [id |-> r.id, st |-> st]
             h == [g EXCEPT !.rest = g.rest \ {r}, !.write = w]
  <2>2. r \in Remote /\ Cause(r.id, r.st)
    BY <1>2, Zenon DEF PingCaused
  <2>3. st # Nil => Cause(r.id, st)
    BY <2>2, ResolveCaused, Zenon
  <2> HIDE DEF st
  <2>4. w # Nil => Cause(w.id, w.st)
    <3>1. CASE st = Nil
      BY <3>1, Zenon
    <3>2. CASE st # Nil
      <4>1. w = [id |-> r.id, st |-> st]
        BY <3>2, Zenon
      <4>2. w.id = r.id /\ w.st = st
        BY <4>1
      <4> QED
        BY <2>3, <3>2, <4>2, Zenon
    <3> QED
      BY <3>1, <3>2, Zenon
  <2> HIDE DEF w
  <2>5. h.rest = g.rest \ {r} /\ h.write = w
    BY <1>2 DEF Ping
  <2> HIDE DEF h
  <2>6. PingCaused(h)
    BY <1>2, <2>4, <2>5, Zenon DEF PingCaused
  <2>7. ping'[n] = h /\ table' = table
    BY <1>7, <2>1, Zenon DEF h, w, st, MergeGet, Types
  <2>8. TablesCaused'
    BY <2>7, TablesKept, Zenon DEF Caused
  <2> QED
    BY <2>6, <2>7, <2>8, Zenon
<1>8. CASE MergeDone(n)
  <2>1. ping'[n] = Nil /\ table' = table
    BY <1>8, Zenon DEF MergeDone, Types
  <2> QED
    BY <2>1, TablesKept, Zenon DEF Caused
<1> QED
  BY <1>5, <1>6, <1>7, <1>8, Zenon

\* The other steps: above all the check for expired suspicions.
LEMMA CausedOthers ==
    ASSUME Types, Caused, found \subseteq found',
           \/ \E n \in Nodes : Start(n) \/ Tick(n) \/ CheckStart(n) \/ CheckDead(n) \/ Crash(n)
           \/ \E s \in stray : StrayPing(s)
    PROVE  Caused'
<1> USE DEF States
<1>1. \A i, was : PingCaused(NewPing(i, was))
  BY DEF PingCaused, NewPing
<1>2. ASSUME NEW n \in Nodes, Start(n) PROVE Caused'
  <2>1. TablesCaused'
    BY <1>2, TablesKept, AliveCaused, TableWritten, Zenon DEF Start, Puts, Caused, PeerIDs
  <2>2. check' = check /\ \A k \in Nodes \ {n} : ping'[k] = ping[k]
    BY <1>2, Zenon DEF Start, Types
  <2>3. ping'[n] = ping[n] \/ ping'[n] = NewPing(Seed, "")
    BY <1>2, Zenon DEF Start, Types
  <2>4. ping'[n] = ping[n] \/ PingCaused(ping'[n])
    BY <1>1, <2>3, Zenon DEF PeerIDs
  <2> QED
    BY <2>1, <2>2, <2>4, CausedFrame, Zenon
<1>3. ASSUME NEW n \in Nodes, Tick(n) PROVE Caused'
  <2>1. PICK i \in PeerIDs : TickAt(n, i)
    BY <1>3, Zenon DEF Tick
  <2>2. /\ table' = table /\ check' = check
        /\ ping'[n] = NewPing(i, table[n][i].st) /\ \A k \in Nodes \ {n} : ping'[k] = ping[k]
    BY <2>1, Zenon DEF TickAt, Types
  <2>3. TablesCaused' /\ PingCaused(ping'[n])
    BY <1>1, <2>2, TablesKept, Zenon DEF Caused
  <2> QED
    BY <2>2, <2>3, CausedFrame, Zenon
<1>4. ASSUME NEW n \in Nodes, CheckStart(n) PROVE Caused'
  <2>1. /\ table' = table /\ ping' = ping /\ check' = [check EXCEPT ![n] = Expired(n)]
        /\ found' = found \cup (Expired(n) \X {"dead"})
    BY <1>4, Zenon DEF CheckStart
  <2>2. \A i \in Expired(n) : <<i, "dead">> \in found'
    BY <2>1
  <2>3. ChecksCaused'
    <3>1. ASSUME NEW k \in Nodes, NEW i \in check'[k] PROVE Cause(i, "dead")'
      <4>1. CASE k = n
        BY <2>1, <2>2, <3>1, <4>1, Zenon DEF Cause, Types
      <4>2. CASE k # n
        <5>1. i \in check[k]
          BY <2>1, <3>1, <4>2, Zenon DEF Types
        <5> QED
          BY <5>1, CauseLasts, Zenon DEF Caused, ChecksCaused
      <4> QED
        BY <4>1, <4>2, Zenon
    <3> QED
      BY <3>1, Zenon DEF ChecksCaused
  <2>4. TablesCaused'
    BY <2>1, TablesKept, Zenon DEF Caused
  <2>5. PingsCaused'
    BY <2>1, PingLasts, Zenon DEF Caused, PingsCaused
  <2> QED
    BY <2>3, <2>4, <2>5, Zenon DEF Caused
<1>5. ASSUME NEW n \in Nodes, CheckDead(n) PROVE Caused'
  <2>1. PICK i \in check[n] : Puts(n, i, "dead") /\ check' = [check EXCEPT ![n] = @ \ {i}]
    BY <1>5, Zenon DEF CheckDead, Puts
  <2>2. i \in PeerIDs /\ Cause(i, "dead")'
    BY CauseLasts, Zenon DEF Types, Caused, ChecksCaused
  <2>3. TablesCaused'
    BY <2>1, <2>2, TableWritten, Zenon DEF Caused
  <2>4. (\A k \in Nodes : check'[k] \subseteq check[k])
    BY <2>1 DEF Types
  <2>5. ping' = ping
    BY <1>5, Zenon DEF CheckDead
  <2> QED
    BY <2>3, <2>4, <2>5, CausedFrame, Zenon
<1>6. ASSUME NEW n \in Nodes, Crash(n) PROVE Caused'
  <2>1. NoPeers \in Tables /\ \A j \in PeerIDs : NoPeers[j] \in {table[n][j], Nil}
    BY Zenon DEF NoPeers, Tables
  <2>2. Clears(n)
    BY <1>6, <2>1, Zenon DEF Crash, Clears
  <2>3. TablesCaused'
    BY <2>2, TablesKept, Zenon DEF Caused
  <2>4. \A k \in Nodes : check'[k] \subseteq check[k]
    BY <1>6 DEF Crash, Types
  <2>5. ping'[n] = Nil /\ \A k \in Nodes \ {n} : ping'[k] = ping[k]
    BY <1>6, Zenon DEF Crash, Types
  <2> QED
    BY <2>3, <2>4, <2>5, CausedFrame, Zenon
<1>7. ASSUME NEW s \in stray, StrayPing(s) PROVE Caused'
  <2>1. s[1] \in Nodes /\ s[2] \in Nodes /\ s[1] \in PeerIDs
    BY DEF Types, PeerIDs
  <2>2. check' = check /\ ping' = ping
    BY <1>7, Zenon DEF StrayPing
  <2>3. TablesCaused'
    BY <1>7, <2>1, TablesKept, AliveCaused, TableWritten, Zenon DEF StrayPing, Greeted, Puts, Caused
  <2> QED
    BY <2>1, <2>2, <2>3, CausedFrame, Zenon
<1> QED
  BY <1>2, <1>3, <1>4, <1>5, <1>6, <1>7, Zenon

\* Every step preserves cause.
LEMMA CausedStep == ASSUME Types, Types', Caused, [Next]_vars PROVE Caused'
<1>1. found \subseteq found'
  BY FoundLasts, Zenon
<1>2. CASE Clock \/ UNCHANGED vars
  <2>1. UNCHANGED <<table, ping, check>>
    BY <1>2, Zenon DEF Clock, vars
  <2>2. TablesCaused'
    BY <1>1, <2>1, TablesKept, Zenon DEF Caused
  <2> QED
    BY <1>1, <2>1, <2>2, CausedFrame, NodesAssumption, Zenon
<1>3. ASSUME NEW n \in Nodes, PingStep(n) PROVE Caused'
  BY <1>1, <1>3, CausedFails, CausedAnswered, Zenon DEF PingStep
<1> QED
  BY <1>1, <1>2, <1>3, CausedOthers, Zenon DEF Next

\* A node holds a peer for suspect only if a ping of it has failed, and for dead only
\* if the check of some node found its suspicion expired.
THEOREM SuspicionCaused == Spec => []SuspicionHasCause
<1>1. Init => Caused
  <2> SUFFICES ASSUME Init PROVE Caused
    OBVIOUS
  <2>1. /\ \A n \in Nodes, i \in PeerIDs : table[n][i] = Nil
        /\ \A n \in Nodes : check[n] = {} /\ ping[n] = Nil
    BY Zenon DEF Init, NoPeers
  <2> QED
    BY <2>1, Zenon DEF Caused, TablesCaused, EntryCaused, ChecksCaused, PingsCaused
<1>2. Caused => SuspicionHasCause
  BY Zenon DEF Caused, TablesCaused, EntryCaused, Cause, SuspicionHasCause
<1> QED
  BY <1>1, <1>2, TypesInvariant, CausedStep, PTL DEF Spec
=============================================================================
