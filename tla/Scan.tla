-------------------------------- MODULE Scan --------------------------------
(***************************************************************************)
(* Listing keys page by page: Store.Scan with its hand-written quicksort,  *)
(* the list handler of the HTTP API, and a client that follows the cursor  *)
(* from page to page while other calls change the map.                     *)
(*                                                                         *)
(* Scan visits the shards one after the other, so even one page mixes      *)
(* several states of the map.  Keys are naturals, ordered as the strings   *)
(* are; an entry is its expiry (0: none), all that Scan reads of it.       *)
(***************************************************************************)
EXTENDS Integers, Sequences, FiniteSets, Functions

CONSTANTS
    Keys,          \* keys, positive integers
    Matching,      \* the keys that start with the listing's prefix
    ShardCount,    \* number of shards
    ShardOf,       \* shard of each key
    TTLs,          \* TTLs of Sets, 0 for none
    Limits,        \* limits the client asks for, 0 for none
    DefaultLimit,  \* limit of a request that gives none
    MaxLimit,      \* largest limit the handler accepts
    MaxTime        \* bound of the clock

\* The keys that come up are finitely many strings: naturals with the same order.
ASSUME ScanAssumption ==
    /\ Keys \subseteq Nat \ {0} /\ IsFiniteSet(Keys) /\ Matching \subseteq Keys
    /\ ShardCount \in Nat \ {0} /\ ShardOf \in [Keys -> 0 .. ShardCount - 1]
    /\ TTLs \subseteq Nat /\ Limits \subseteq Int
    /\ DefaultLimit \in Nat \ {0} /\ MaxLimit \in Nat \ {0} /\ MaxTime \in Nat \ {0}

NoCursor == 0
Absent == -1       \* no entry

VARIABLES
    now,           \* the clock
    db,            \* expiry of each key's entry, or Absent
    pc,            \* the listing: "gather", "sort", "between" two pages, "done"
    scanAt,        \* Scan's clock read, while it is of use
    shard,         \* next shard to visit
    allKeys,       \* keys gathered by this Scan, and then sorted
    calls,         \* the calls of quickSort under way or to come, as ranges
    i, j,          \* partition's indices
    limit,         \* limit of this page
    cursor,        \* cursor of this page
    listed,        \* history: keys returned by this listing so far
    stayed,        \* history: matching keys live ever since the listing began
    seen           \* history: matching keys that were in the map at some moment of
                   \* this Scan and had not expired at its clock read

page == <<scanAt, shard, allKeys, calls, i, j, limit, cursor, listed>>
vars == <<now, db, pc, page, stayed, seen>>

IsLive(exp, t) == exp # Absent /\ (exp = 0 \/ t <= exp)
LiveKeys == {k \in Matching : IsLive(db[k], now)}

Init ==
    /\ now = 1 /\ db = [k \in Keys |-> Absent]
    /\ pc = "done" /\ scanAt = 0 /\ shard = 0 /\ allKeys = <<>>
    /\ calls = {} /\ i = 0 /\ j = 0
    /\ limit = 0 /\ cursor = NoCursor
    /\ listed = <<>> /\ stayed = {} /\ seen = {}

------------------------------------------------------------------------------
(* A page is requested and its keys are gathered.                            *)

\* The handler's limit: the default unless a positive one is given, capped.
EffectiveLimit(asked) ==
    IF asked > 0 THEN (IF asked > MaxLimit THEN MaxLimit ELSE asked) ELSE DefaultLimit

\* A page is requested, the first one without a cursor and the others with the
\* cursor of the page before; Scan reads the clock once.
BeginPage ==
    /\ pc \in {"between", "done"} /\ pc' = "gather"
    /\ scanAt' = now /\ shard' = 0 /\ allKeys' = <<>>
    /\ \E asked \in Limits : limit' = EffectiveLimit(asked)
    /\ seen' = LiveKeys
    /\ IF pc = "done" THEN listed' = <<>> /\ stayed' = LiveKeys
                      ELSE UNCHANGED <<listed, stayed>>
    /\ UNCHANGED <<now, db, calls, i, j, cursor>>

\* Visit(ks): the keys of ks that are in the shard, in any order, are gathered.
Visit(ks) ==
    /\ pc = "gather" /\ shard < ShardCount
    /\ LET found == {k \in ks : ShardOf[k] = shard}
       IN  \E s \in Injection(1 .. Cardinality(found), found) : allKeys' = allKeys \o s
    /\ shard' = shard + 1
    /\ UNCHANGED <<now, db, pc, scanAt, calls, i, j, limit, cursor, listed, stayed, seen>>

\* Mutants: entries that have expired are listed; the prefix is ignored.
GatherShardExpired == Visit({k \in Matching : db[k] # Absent})
GatherShardAnyPrefix == Visit({k \in Keys : IsLive(db[k], scanAt)})

\* The next shard is read under its lock, in the map's iteration order, which
\* Go leaves open.
GatherShard == Visit({k \in Matching : IsLive(db[k], scanAt)})

------------------------------------------------------------------------------
(* sortStrings, once all shards are read.  Ranges count from 1.              *)

\* A call of quickSort that does something, as a set of ranges.
QuickSort(low, high) == IF low < high THEN {<<low, high>>} ELSE {}

\* The left half is sorted before the right one: next is the leftmost range.
Leftmost(c, cs) == c \in cs /\ \A d \in cs : c[1] <= d[1]

\* partition is entered for the next of the calls cs, if any is left.
Enter(cs) ==
    /\ calls' = cs
    /\ IF cs = {} THEN i' = 0 /\ j' = 0
       ELSE \E c \in cs : Leftmost(c, cs) /\ i' = c[1] - 1 /\ j' = c[1]

\* All shards are read; the clock read is of no use any more.
SortStrings ==
    /\ pc = "gather" /\ shard = ShardCount /\ pc' = "sort"
    /\ Enter(QuickSort(1, Len(allKeys)))
    /\ scanAt' = 0
    /\ UNCHANGED <<now, db, shard, allKeys, limit, cursor, listed, stayed, seen>>

Swap(a, x, y) == [a EXCEPT ![x] = a[y], ![y] = a[x]]

\* One iteration of partition's loop: what is smaller than the pivot, the last
\* element of the range, moves to the front.
PartitionStep ==
    \E c \in calls :
        /\ pc = "sort" /\ Leftmost(c, calls) /\ j < c[2]
        /\ IF allKeys[j] < allKeys[c[2]]
           THEN i' = i + 1 /\ allKeys' = Swap(allKeys, i + 1, j)
           ELSE UNCHANGED <<i, allKeys>>
        /\ j' = j + 1
        /\ UNCHANGED <<now, db, pc, scanAt, shard, calls, limit, cursor, listed,
                       stayed, seen>>

\* Mutant: the pivot stays at the end.
PartitionEndLeavesPivot ==
    \E c \in calls :
        /\ pc = "sort" /\ Leftmost(c, calls) /\ j = c[2]
        /\ Enter((calls \ {c}) \cup QuickSort(c[1], i) \cup QuickSort(i + 2, c[2]))
        /\ UNCHANGED <<now, db, pc, scanAt, shard, allKeys, limit, cursor, listed,
                       stayed, seen>>

\* The pivot moves to its place, and quickSort is called for both sides of it.
PartitionEnd ==
    \E c \in calls :
        /\ pc = "sort" /\ Leftmost(c, calls) /\ j = c[2]
        /\ allKeys' = Swap(allKeys, i + 1, c[2])
        /\ Enter((calls \ {c}) \cup QuickSort(c[1], i) \cup QuickSort(i + 2, c[2]))
        /\ UNCHANGED <<now, db, pc, scanAt, shard, limit, cursor, listed, stayed, seen>>

------------------------------------------------------------------------------
(* The page is cut out.                                                      *)

\* The keys from the first one in S on.
From(keys, S) ==
    LET at == {n \in 1 .. Len(keys) : keys[n] \in S}
    IN  IF at = {} THEN <<>>
        ELSE SubSeq(keys, CHOOSE f \in at : \A n \in at : f <= n, Len(keys))

\* Mutant: the page starts with the cursor itself.
AfterCursorInclusive(keys) ==
    IF cursor = NoCursor THEN keys ELSE From(keys, {k \in Keys : k >= cursor})

\* The page starts behind the cursor, which need not be a key any more.
AfterCursor(keys) ==
    IF cursor = NoCursor THEN keys ELSE From(keys, {k \in Keys : k > cursor})

\* Mutant: the next cursor is the first key that did not fit.
NextCursorSkips(rest) ==
    IF Len(rest) > limit THEN rest[limit + 1] ELSE NoCursor

\* The last key of the page, if keys are left after it.
NextCursor(rest) ==
    IF Len(rest) > limit THEN rest[limit] ELSE NoCursor

\* The keys are sorted: cut the page out, answer.  Scan's locals are gone.
EndPage ==
    LET rest == AfterCursor(allKeys)
    IN  /\ pc = "sort" /\ calls = {}
        /\ listed' = listed \o SubSeq(rest, 1, IF Len(rest) > limit THEN limit ELSE Len(rest))
        /\ cursor' = NextCursor(rest)
        /\ pc' = IF cursor' = NoCursor THEN "done" ELSE "between"
        /\ scanAt' = 0 /\ shard' = 0 /\ allKeys' = <<>> /\ limit' = 0 /\ seen' = {}
        /\ UNCHANGED <<now, db, calls, i, j, stayed>>

------------------------------------------------------------------------------
(* What other calls do meanwhile.                                            *)

\* The expiries of Sets that have begun by now: Set fixes the expiry first.
Expiries == {IF ttl = 0 THEN 0 ELSE began + ttl : ttl \in TTLs, began \in 1 .. now}

\* A Set installs its entry, which may have expired since the call began.
Set(k, exp) ==
    /\ db' = [db EXCEPT ![k] = exp]
    /\ stayed' = IF IsLive(exp, now) THEN stayed ELSE stayed \ {k}
    /\ seen' = IF pc = "gather" /\ IsLive(exp, scanAt)
               THEN seen \cup ({k} \cap Matching) ELSE seen
    /\ UNCHANGED <<now, pc, page>>

Delete(k) ==
    /\ db[k] # Absent
    /\ db' = [db EXCEPT ![k] = Absent]
    /\ stayed' = stayed \ {k}
    /\ UNCHANGED <<now, pc, page, seen>>

\* The reaper or a Get removes an expired entry.
Reap(k) ==
    /\ db[k] # Absent /\ ~IsLive(db[k], now)
    /\ db' = [db EXCEPT ![k] = Absent]
    /\ UNCHANGED <<now, pc, page, stayed, seen>>

Tick ==
    /\ now < MaxTime /\ now' = now + 1
    /\ stayed' = {k \in stayed : IsLive(db[k], now')}
    /\ UNCHANGED <<db, pc, page, seen>>

------------------------------------------------------------------------------
ScanStep == \/ BeginPage \/ GatherShard
            \/ SortStrings \/ PartitionStep \/ PartitionEnd
            \/ EndPage

Next ==
    \/ ScanStep
    \/ \E k \in Keys : (\E exp \in Expiries : Set(k, exp)) \/ Delete(k) \/ Reap(k)
    \/ Tick

Spec == Init /\ [][Next]_vars

------------------------------------------------------------------------------
(* Properties.                                                               *)

\* Every variable keeps its type; only keys with the prefix are gathered and listed.
TypeOK ==
    /\ now \in 1 .. MaxTime /\ db \in [Keys -> Int]
    /\ pc \in {"gather", "sort", "between", "done"} /\ shard \in 0 .. ShardCount
    /\ allKeys \in Seq(Matching) /\ listed \in Seq(Matching)
    /\ \A c \in calls : /\ c[1] \in 1 .. Len(allKeys) /\ c[2] \in 1 .. Len(allKeys)
                        /\ c[1] < c[2]
    /\ i \in 0 .. Len(allKeys) /\ j \in 0 .. Len(allKeys)
    /\ cursor \in Matching \cup {NoCursor}
    /\ stayed \subseteq Matching /\ seen \subseteq Matching

\* The keys of a whole listing are in ascending order and no key appears twice,
\* whatever is set, deleted or expires between and during the pages: quickSort
\* sorts and Scan resumes behind the cursor.
Ascending == \A x, y \in 1 .. Len(listed) : x < y => listed[x] < listed[y]

\* After each page, every matching key that stayed in the map since the listing
\* began is listed, up to the cursor, and all of them after the last page.
StayedListed ==
    pc \in {"between", "done"} =>
       \A k \in stayed \cap Matching :
          (cursor = NoCursor \/ k <= cursor) => k \in Range(listed)

\* A page lists only keys that were in the map at some moment of the Scan that
\* returned it, in an entry that had not expired when Scan read the clock.  (The
\* entry of a Set that took long may have expired after that and before it came.)
ListedWasLive ==
    [][\A n \in Len(listed) + 1 .. Len(listed') : listed'[n] \in seen]_vars

\* Every page but the last moves the cursor up, so a listing ends after at most
\* as many pages as there are keys, although other calls never stop changing the
\* map.
CursorAdvances == [][pc = "sort" /\ pc' = "between" => cursor' > cursor]_vars
=============================================================================
