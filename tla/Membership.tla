----------------------------- MODULE Membership -----------------------------
(***************************************************************************)
(* Gossip membership (internal/cluster/gossip.go and peer.go, and the      *)
(* handler of /internal/ping): every node keeps a table of peers, pings    *)
(* one of them at each tick, merges the table that comes back, and         *)
(* declares dead what stays suspect for longer than the suspicion window.  *)
(*                                                                         *)
(* A section under the mutex of a table is one step.  A ping acts on the   *)
(* copy of the peer that its tick took, a merge on a response that grows   *)
(* old, and the suspicion check on copies too; between any two of their    *)
(* steps other goroutines may change the table.                            *)
(***************************************************************************)
EXTENDS Integers, FiniteSets

CONSTANTS
    Nodes,       \* node IDs; a node's address is identified with its ID
    Seed,        \* the peer ID "seed": a temporary name of ...
    SeedNode,    \* ... the node at the configured seed address
    SeedListed,  \* whether that is also the address the node advertises
    Nil,         \* no table entry, no ping
    Window,      \* suspicionWindow
    MaxTime,     \* bound on the clock
    MaxFaults,   \* bound on crashes and on failed pings of a node that runs
    MaxPings,    \* bound on pings under way at once, of all nodes
    MaxStray     \* bound on requests whose sender has given up

VARIABLES
    now,         \* the clock
    up,          \* per node: whether it runs
    table,       \* per node, the peer table
    ping,        \* per node, the ping under way or Nil
    check,       \* per node, the peers checkSuspicious has yet to declare dead
    stray,       \* pings <<sender, target>> the sender has given up
    faults,      \* crashes and failed pings of a running node left
    since,       \* history: per node and peer it suspects, since when without a break
    found        \* history: <<peer, state>> that some node found out by itself

vars == <<now, up, table, ping, check, stray, faults, since, found>>

PeerIDs    == Nodes \cup {Seed}
Address(i) == IF i = Seed THEN SeedNode ELSE i
States     == {"alive", "suspect", "dead"}

\* A table entry: State and LastSeen, which in a suspect entry is SuspiciousAt too;
\* and an entry in a response.
Peer   == [st : States, seen : Nat]
Remote == [id : PeerIDs, st : States, seen : Nat]

\* A ping: the peer and its state as copied by tick() ("" for bootstrap), how far
\* it is, the ID the response gives to the peer (Nil if it does not list the seed's
\* address), the remote peers yet to be merged, and the update decided upon.
Ping == [id : PeerIDs, was : States \cup {""},
         at : {"sent", "answered", "adopt", "merge"}, actual : PeerIDs \cup {Nil},
         rest : SUBSET Remote, write : [id : PeerIDs, st : States] \cup {Nil}]

ASSUME NodesAssumption == /\ Seed \notin Nodes /\ SeedNode \in Nodes
                          /\ SeedListed \in BOOLEAN /\ Nil \notin PeerIDs
                          /\ Nil \notin Peer \cup Ping \cup [id : PeerIDs, st : States]
ASSUME BoundAssumption == Window \in Nat /\ MaxTime \in Nat
                          /\ MaxFaults \in Nat /\ MaxPings \in Nat /\ MaxStray \in Nat

\* PeerManager.AddOrUpdate, which UpdateRTT follows at once where it is called.
AddOrUpdate(t, i, st) ==
    [t EXCEPT ![i] = [st |-> st, seen |-> now]]

IsSuspect(e) == e # Nil /\ e.st = "suspect"

\* n's table becomes t; the history notes the peers whose suspicion begins or ends.
SetTable(n, t) ==
    /\ table' = [table EXCEPT ![n] = t]
    /\ since' = [since EXCEPT ![n] = [i \in PeerIDs |->
                    IF ~IsSuspect(t[i]) THEN 0
                    ELSE IF IsSuspect(table[n][i]) THEN @[i] ELSE now]]

NoPeers == [i \in PeerIDs |-> Nil]

------------------------------------------------------------------------------
(* pingPeer: sending, and the ways in which it fails.                        *)

NewPing(i, was) == [id |-> i, was |-> was, at |-> "sent", actual |-> i, rest |-> {},
                    write |-> Nil]

\* gossipLoop's tick pings some peer that is not the node itself and not dead.
\* A ping times out (200 ms) before the next tick, and bootstrap's before the
\* first one (1 s): a node has one ping under way.
TickAt(n, i) ==
    /\ up[n] /\ ping[n] = Nil /\ Cardinality({m \in Nodes : ping[m] # Nil}) < MaxPings
    /\ i # n /\ table[n][i] # Nil /\ table[n][i].st # "dead"
    /\ ping' = [ping EXCEPT ![n] = NewPing(i, table[n][i].st)]
    /\ UNCHANGED <<now, up, table, since, check, stray, faults, found>>

Tick(n) == \E i \in PeerIDs : TickAt(n, i)

\* The process starts with an empty table; with a seed address, bootstrap adds
\* the seed under its temporary name and pings it.
Start(n) ==
    /\ ~up[n] /\ up' = [up EXCEPT ![n] = TRUE]
    /\ IF n = SeedNode
       THEN UNCHANGED <<table, since, ping>>
       ELSE /\ SetTable(n, AddOrUpdate(table[n], Seed, "alive"))
            /\ ping' = [ping EXCEPT ![n] = NewPing(Seed, "")]
    /\ UNCHANGED <<now, check, stray, faults, found>>

\* A ping of m fails: always possible if m is down, else within the bound.
Loses(m) == IF up[m] THEN faults > 0 /\ faults' = faults - 1 ELSE UNCHANGED faults

SeedSuspected(g) == g.id = Seed  \* mutant: no other peer becomes suspect

\* A peer that was alive when the ping began becomes suspect, and so does the seed.
Suspected(g) == g.was = "alive" \/ g.id = Seed

\* A request whose sender is gone or has given up may still arrive.
Abandons(n) ==
    \/ UNCHANGED stray
    \/ /\ ping[n] # Nil /\ ping[n].at = "sent" /\ Cardinality(stray) < MaxStray
       /\ stray' = stray \cup {<<n, Address(ping[n].id)>>}

\* No response in time, or one that is not 200.
PingFails(n) ==
    LET g == ping[n]
    IN  /\ g # Nil /\ g.at \in {"sent", "answered"}
        /\ ping' = [ping EXCEPT ![n] = Nil]
        /\ IF Suspected(g)
           THEN SetTable(n, AddOrUpdate(table[n], g.id, "suspect"))
           ELSE UNCHANGED <<table, since>>
        /\ Abandons(n)
        /\ found' = found \cup {<<g.id, "suspect">>}
        /\ Loses(Address(g.id))
        /\ UNCHANGED <<now, up, check>>

\* The response cannot be read or decoded: the ping ends.
PingGarbled(n) ==
    /\ ping[n] # Nil /\ ping[n].at = "answered"
    /\ ping' = [ping EXCEPT ![n] = Nil]
    /\ Loses(Address(ping[n].id))
    /\ UNCHANGED <<now, up, table, since, check, stray, found>>

------------------------------------------------------------------------------
(* handleInternalPing at the target: the sender is alive, and the response   *)
(* is the table with the target itself appended.                             *)

NotGreeted(t, n) == t  \* mutant: the sender is not entered

Greeted(t, n) == AddOrUpdate(t, n, "alive")

Listed(t) == {[id |-> i, st |-> t[i].st, seen |-> t[i].seen] :
                    i \in {j \in PeerIDs : t[j] # Nil}}

Self(m) == [id |-> m, st |-> "alive", seen |-> now]

\* The IDs under which a response of the seed with table t may first list the
\* configured address: those of the table, which come in any order, before the
\* seed's own.  No entry has it when the seed advertises another address and does
\* not itself know of a peer by the temporary name.
FirstAt(t) ==
    LET known == {i \in {Seed} \cup (IF SeedListed THEN {SeedNode} ELSE {}) : t[i] # Nil}
    IN  IF known # {} THEN known ELSE {IF SeedListed THEN SeedNode ELSE Nil}

AllMerged(n, rs) == rs  \* mutant: the node itself too

\* The entries of a response that MergePeers considers: not the node itself.
ToMerge(n, rs) == {r \in rs : r.id # n}

InternalPing(n) ==
    LET g == ping[n]
        m == Address(g.id)
        t == Greeted(table[m], n)
    IN  /\ g # Nil /\ g.at = "sent" /\ up[m]
        /\ SetTable(m, t)
        /\ \E a \in IF g.id = Seed THEN FirstAt(t) ELSE {g.id} :
            ping' = [ping EXCEPT ![n] =
                [g EXCEPT !.at = "answered", !.actual = a,
                          !.rest = ToMerge(n, Listed(t) \cup {Self(m)})]]
        /\ UNCHANGED <<now, up, check, stray, faults, found>>

\* A ping arrives that the sender no longer waits for.
StrayPing(s) ==
    /\ s \in stray /\ stray' = stray \ {s}
    /\ \/ UNCHANGED <<table, since>>
       \/ up[s[2]] /\ SetTable(s[2], Greeted(table[s[2]], s[1]))
    /\ UNCHANGED <<now, up, ping, check, faults, found>>

------------------------------------------------------------------------------
(* pingPeer: a successful response.                                          *)

\* The temporary entry of the seed is deleted, if the response says who it is ...
DropSeed(n) ==
    LET g == ping[n]
    IN  /\ g # Nil /\ g.at = "answered" /\ g.id = Seed /\ g.actual # Nil
        /\ SetTable(n, [table[n] EXCEPT ![Seed] = Nil])
        /\ ping' = [ping EXCEPT ![n].at = "adopt"]
        /\ UNCHANGED <<now, up, check, stray, faults, found>>

\* ... the peer is alive ...
Adopt(n) ==
    LET g == ping[n]
    IN  /\ g # Nil
        /\ g.at = "adopt" \/ (g.at = "answered" /\ (g.id # Seed \/ g.actual = Nil))
        /\ SetTable(n, AddOrUpdate(table[n], IF g.actual = Nil THEN g.id ELSE g.actual,
                                   "alive"))
        /\ ping' = [ping EXCEPT ![n].at = "merge"]
        /\ UNCHANGED <<now, up, check, stray, faults, found>>

\* Mutant: a peer known by hearsay only is suspect.
ResolveWary(e, r) ==
    IF e = Nil THEN IF r.st # "dead" THEN "suspect" ELSE Nil
    ELSE IF e.st = "dead" THEN Nil
    ELSE IF r.st = "dead" THEN "dead"
    ELSE IF r.st = "suspect" /\ e.st = "alive" THEN "suspect"
    ELSE IF r.st = "alive" /\ e.st = "suspect" /\ r.seen > e.seen + Window THEN "alive"
    ELSE Nil

\* ... and the response is merged.  The state a remote peer r gives to the local
\* entry e, Nil if it changes nothing: dead over suspect over alive, where dead is
\* final and suspicion yields only to a much later sighting.
Resolve(e, r) ==
    IF e = Nil THEN IF r.st # "dead" THEN r.st ELSE Nil
    ELSE IF e.st = "dead" THEN Nil
    ELSE IF r.st = "dead" THEN "dead"
    ELSE IF r.st = "suspect" /\ e.st = "alive" THEN "suspect"
    ELSE IF r.st = "alive" /\ e.st = "suspect" /\ r.seen > e.seen + Window THEN "alive"
    ELSE Nil

\* MergePeers reads the local entry of a remote peer and decides ...
MergeGet(n) ==
    LET g == ping[n]
    IN  /\ g # Nil /\ g.at = "merge" /\ g.write = Nil
        /\ \E r \in g.rest :
            LET st == Resolve(table[n][r.id], r)
            IN  ping' = [ping EXCEPT ![n] =
                    [g EXCEPT !.rest = @ \ {r},
                              !.write = IF st = Nil THEN Nil
                                        ELSE [id |-> r.id, st |-> st]]]
        /\ UNCHANGED <<now, up, table, since, check, stray, faults, found>>

\* ... and updates it in a second step, whatever it has become.
MergeWrite(n) ==
    LET g == ping[n]
    IN  /\ g # Nil /\ g.at = "merge" /\ g.write # Nil
        /\ SetTable(n, AddOrUpdate(table[n], g.write.id, g.write.st))
        /\ ping' = [ping EXCEPT ![n].write = Nil]
        /\ UNCHANGED <<now, up, check, stray, faults, found>>

MergeDone(n) ==
    LET g == ping[n]
    IN  /\ g # Nil /\ g.at = "merge" /\ g.write = Nil /\ g.rest = {}
        /\ ping' = [ping EXCEPT ![n] = Nil]
        /\ UNCHANGED <<now, up, table, since, check, stray, faults, found>>

------------------------------------------------------------------------------
(* checkSuspicious: copies the table, then declares peers dead one by one.   *)

ExpiredEarly(n) ==  \* mutant: one unit of time early
    {i \in PeerIDs : IsSuspect(table[n][i]) /\ now - table[n][i].seen >= Window - 1}

Expired(n) ==
    {i \in PeerIDs : IsSuspect(table[n][i]) /\ now - table[n][i].seen >= Window}

CheckStart(n) ==
    /\ up[n] /\ check[n] = {}
    /\ check' = [check EXCEPT ![n] = Expired(n)]
    /\ found' = found \cup (Expired(n) \X {"dead"})
    /\ UNCHANGED <<now, up, table, ping, stray, faults, since>>

CheckDead(n) ==
    /\ \E i \in check[n] : /\ SetTable(n, AddOrUpdate(table[n], i, "dead"))
                           /\ check' = [check EXCEPT ![n] = @ \ {i}]
    /\ UNCHANGED <<now, up, ping, stray, faults, found>>

------------------------------------------------------------------------------
\* The process stops or dies; its table is in memory only.
Crash(n) ==
    /\ up[n] /\ faults > 0 /\ faults' = faults - 1
    /\ up' = [up EXCEPT ![n] = FALSE]
    /\ SetTable(n, NoPeers)
    /\ ping' = [ping EXCEPT ![n] = Nil]
    /\ check' = [check EXCEPT ![n] = {}]
    /\ Abandons(n)
    /\ UNCHANGED <<now, found>>

Clock ==
    /\ now < MaxTime /\ now' = now + 1
    /\ UNCHANGED <<up, table, since, ping, check, stray, faults, found>>

Init ==
    /\ now = 1 /\ up = [n \in Nodes |-> FALSE]
    /\ table = [n \in Nodes |-> NoPeers]
    /\ ping = [n \in Nodes |-> Nil]
    /\ check = [n \in Nodes |-> {}]
    /\ stray = {} /\ faults = MaxFaults
    /\ since = [n \in Nodes |-> [i \in PeerIDs |-> 0]] /\ found = {}

PingStep(n) ==
    \/ PingFails(n) \/ PingGarbled(n) \/ InternalPing(n)
    \/ DropSeed(n) \/ Adopt(n)
    \/ MergeGet(n) \/ MergeWrite(n) \/ MergeDone(n)

Next ==
    \/ \E n \in Nodes : \/ Start(n) \/ Tick(n) \/ CheckStart(n) \/ CheckDead(n) \/ Crash(n)
                        \/ PingStep(n)
    \/ \E s \in stray : StrayPing(s)
    \/ Clock

Spec == Init /\ [][Next]_vars

(* The loops of a running node are scheduled and pick every candidate again  *)
(* and again, and a ping ends.  Nothing forces a node to start or the clock  *)
(* to advance.  That pings of a running node get through is due to           *)
(* MaxFaults.                                                                *)
Fairness ==
    \A n \in Nodes : /\ \A i \in PeerIDs : SF_vars(TickAt(n, i))
                     /\ WF_vars(PingStep(n))

FairSpec == Spec /\ Fairness

------------------------------------------------------------------------------
(* Properties.                                                               *)

\* Every variable keeps its type, and no node is a peer of itself, however its
\* name comes back to it in responses and pings.  (The seed may be: the temporary
\* name that others have for it reaches it by gossip, and it pings that address.)
TypeOK ==
    /\ now \in Nat /\ up \in [Nodes -> BOOLEAN]
    /\ table \in [Nodes -> [PeerIDs -> Peer \cup {Nil}]]
    /\ ping \in [Nodes -> Ping \cup {Nil}]
    /\ check \in [Nodes -> SUBSET PeerIDs]
    /\ stray \subseteq Nodes \X Nodes
    /\ faults \in Nat
    /\ since \in [Nodes -> [PeerIDs -> Nat]]
    /\ found \subseteq PeerIDs \X States
    /\ \A n \in Nodes \ {SeedNode} : table[n][n] = Nil

\* No rumour without a cause: a node holds a peer for suspect only if a ping of that
\* peer has failed somewhere, and for dead only if the check of some node found its
\* suspicion expired, whatever stale copies and tables went round.
SuspicionHasCause ==
    \A n \in Nodes, i \in PeerIDs :
        table[n][i] # Nil /\ table[n][i].st # "alive" => <<i, table[n][i].st>> \in found

\* checkSuspicious sets out to declare dead only peers that its node has held for
\* suspect without a break for the whole suspicion window: any sign of life that was
\* entered before the check starts the window anew.
DeadAfterWindow ==
    [][\A n \in Nodes : \A i \in check'[n] \ check[n] :
         IsSuspect(table[n][i]) /\ now >= since[n][i] + Window]_vars

\* A peer that stays down does not stay alive in the table of a running node.
Detects ==
    \A n \in Nodes, i \in PeerIDs :
        (/\ up[n] /\ ~up[Address(i)]
         /\ table[n][i] # Nil /\ table[n][i].st = "alive")
            ~> \/ table[n][i] = Nil \/ table[n][i].st # "alive"
               \/ ~up[n] \/ up[Address(i)]

\* A node and the seed, while both run, come to know one another, unless the node
\* holds the seed for dead.  (It never pings it again then, and the seed, if it has
\* restarted with an empty table, does not know whom to ping: they stay apart.)
Joins ==
    \A n \in Nodes \ {SeedNode} :
        (up[n] /\ up[SeedNode])
            ~> \/ table[n][SeedNode] # Nil /\ table[SeedNode][n] # Nil
               \/ ~up[n] \/ ~up[SeedNode]
               \/ \E i \in {Seed, SeedNode} :
                    table[n][i] # Nil /\ table[n][i].st = "dead"
=============================================================================
