------------------------- MODULE StoreSafetyProofs -------------------------
(***************************************************************************)
(* Proofs about Store, continued: no live entry is reaped, versions are    *)
(* monotonic when the clock is, and a restart after a clean stop brings    *)
(* back the map.                                                           *)
(***************************************************************************)
EXTENDS StoreProofs

USE DEF memory, thread, reaper, snapper, disk, history

------------------------------------------------------------------------------
(* What every proof below needs: nothing is in progress while the process is *)
(* down or recovering, a thread on its way to the map carries a mutation,    *)
(* and the reaper's clock read lies in the past.                             *)

QuietInv == ~Running => /\ snapPc = "idle" /\ reapAt = 0
                        /\ \A t \in Threads : pc[t] = "idle"

CallInv == \A t \in Threads : pc[t] \in {"version", "append", "apply"}
                                 => req[t].type \in {"set", "del"}

ReapInv == reapAt <= now

SInv == TInv /\ QuietInv /\ CallInv /\ ReapInv

\* SInv holds when the node is first started.
LEMMA SInvInit == Init => SInv
BY TInvInit DEF Init, SInv, QuietInv, CallInv, ReapInv

\* A call that begins keeps SInv.
LEMMA BeginSafe ==
    ASSUME TInv, QuietInv, CallInv, ReapInv, NEW t \in Threads,
           NEW r \in Request, r.type \in {"set", "del"}, Begin(t, r)
    PROVE  QuietInv' /\ CallInv' /\ ReapInv'
BY Zenon DEF TInv, TypeOK, QuietInv, CallInv, ReapInv, Begin, Go, Running, Modes

\* A step of a call keeps SInv.
LEMMA ThreadSafe ==
    ASSUME SInv, NEW t \in Threads, ThreadStep(t)
    PROVE  QuietInv' /\ CallInv' /\ ReapInv'
<1> USE DEF SInv
<1>1. CASE BeginSet(t)
  <2>1. PICK k \in Keys, v \in Values, ttl \in TTLs, ver \in Versions :
          Begin(t, [type |-> "set", key |-> k, val |-> v, ver |-> ver,
                    exp |-> IF ttl > 0 THEN now + ttl ELSE 0])
    BY <1>1, Zenon DEF BeginSet
  <2>2. [type |-> "set", key |-> k, val |-> v, ver |-> ver,
         exp |-> IF ttl > 0 THEN now + ttl ELSE 0] \in Request
    BY CallAssumption DEF Request, TInv, TypeOK
  <2> QED
    BY <2>1, <2>2, BeginSafe, Zenon
<1>2. CASE BeginDelete(t)
  <2>1. PICK k \in Keys, ver \in Versions :
          Begin(t, [type |-> "del", key |-> k, val |-> Nil, ver |-> ver, exp |-> 0])
    BY <1>2, Zenon DEF BeginDelete
  <2>2. [type |-> "del", key |-> k, val |-> Nil, ver |-> ver, exp |-> 0] \in Request
    BY CallAssumption, Zenon DEF Request
  <2> QED
    BY <2>1, <2>2, BeginSafe, Zenon
<1>3. CASE BeginGet(t)
  BY <1>3, Zenon
  DEF BeginGet, Go, TInv, TypeOK, QuietInv, CallInv, ReapInv, Running, Modes
<1>4. CASE NextVersion(t)
  <2>1. /\ req[t] \in Request /\ req' = [req EXCEPT ![t].ver = lastVersion']
        /\ pc' = [pc EXCEPT ![t] = "append"] /\ pc[t] = "version"
        /\ UNCHANGED <<mode, now, reapAt, snapPc>> /\ Running
    BY <1>4, Zenon DEF NextVersion, Go, TInv, TypeOK
  <2>2. \A u \in Threads : req'[u].type = req[u].type
    BY <2>1, Zenon DEF TInv, TypeOK, Request
  <2> QED
    BY <2>1, <2>2, Zenon DEF TInv, TypeOK, QuietInv, CallInv, ReapInv, Running
<1>5. CASE WALAppend(t)
  <2>1. /\ pc' = [pc EXCEPT ![t] = "apply"] /\ pc[t] = "append" /\ Running
        /\ UNCHANGED <<req, mode, now, reapAt, snapPc>>
    BY <1>5, Zenon DEF WALAppend, Go
  <2> QED
    BY <2>1, Zenon DEF TInv, TypeOK, QuietInv, CallInv, ReapInv, Running
<1>6. CASE \/ WALAppendFails(t) \/ Apply(t) \/ LazyReap(t) \/ GetCheck(t)
  <2>1. /\ \/ pc' = [pc EXCEPT ![t] = "idle"] /\ req' = [req EXCEPT ![t] = Nil]
           \/ pc' = [pc EXCEPT ![t] = "lazyreap"] /\ req' = req
        /\ UNCHANGED <<mode, now, reapAt, snapPc>> /\ Running
    BY <1>6, Zenon DEF WALAppendFails, Apply, LazyReap, GetCheck, Return, Go
  <2> QED
    BY <2>1 DEF TInv, TypeOK, QuietInv, CallInv, ReapInv, Running
<1> QED
  BY <1>1, <1>2, <1>3, <1>4, <1>5, <1>6, Zenon DEF ThreadStep

\* SInv is inductive.
LEMMA SInvNext == SInv /\ [Next]_vars => SInv'
<1> SUFFICES ASSUME SInv, [Next]_vars PROVE QuietInv' /\ CallInv' /\ ReapInv'
  BY TInvNext, Zenon DEF SInv
<1> USE DEF SInv
<1>1. ASSUME NEW t \in Threads, ThreadStep(t) PROVE QuietInv' /\ CallInv' /\ ReapInv'
  BY <1>1, ThreadSafe, Zenon
<1>2. CASE ReapStart \/ ReapShard
  BY <1>2 DEF ReapStart, ReapShard, TInv, TypeOK, QuietInv, CallInv, ReapInv, Running
<1>3. CASE SnapStep
  <2>1. /\ Running /\ Running' /\ UNCHANGED <<thread, now, reapAt>>
    BY <1>3, Zenon DEF SnapStep, CompactorSnapshot, FinalSnapshot, SnapLockWAL,
                SnapLockShard, SnapDump, SnapRename, SnapTruncate, SnapFail,
                AfterSnapshot, Running, Modes
  <2> QED
    BY <2>1, Zenon DEF QuietInv, CallInv, ReapInv
<1>4. CASE Exit \/ Crash \/ ReplayFatal
  <2>1. Vanish /\ now' = now
    BY <1>4, Zenon DEF Exit, Crash, ReplayFatal
  <2> QED
    BY <2>1 DEF Vanish, Unlock, TInv, TypeOK, QuietInv, CallInv, ReapInv
<1>5. CASE Start
  <2>1. reapAt = 0 /\ mode = "down" /\ mode' = "load" /\ now' \in Nat
    BY <1>5 DEF Start, QuietInv, Running, Maximum, TInv, TypeOK
  <2> QED
    BY <1>5, <2>1 DEF Start, QuietInv, CallInv, ReapInv, Running
<1>6. CASE Shutdown \/ Drained \/ DrainTimeout \/ StopReaper
  BY <1>6, Zenon DEF Shutdown, Drained, DrainTimeout, StopReaper, QuietInv, CallInv,
              ReapInv, Running, Modes
<1>7. CASE LoadSnapshot \/ ReplayRecord \/ ReplayDone
  <2>1. ~Running /\ UNCHANGED <<thread, reapAt, snapPc>>
    BY <1>7, Zenon DEF LoadSnapshot, ReplayRecord, ReplayDone, Running, Modes
  <2>2. reapAt = 0 /\ now' \in Nat
    BY <1>7, <2>1, ReplayedClock, Zenon DEF LoadSnapshot, ReplayDone, QuietInv, TInv, TypeOK
  <2>3. ReapInv'
    BY <2>1, <2>2 DEF ReapInv
  <2> QED
    BY <2>1, <2>3, Zenon DEF QuietInv, CallInv
<1>8. CASE Tick
  BY <1>8 DEF Tick, TInv, TypeOK, QuietInv, CallInv, ReapInv, Running
<1>9. CASE UNCHANGED vars
  BY <1>9, Zenon DEF vars, QuietInv, CallInv, ReapInv, Running
<1> QED
  BY <1>1, <1>2, <1>3, <1>4, <1>5, <1>6, <1>7, <1>8, <1>9, Zenon
  DEF Next, LifeCycleStep

------------------------------------------------------------------------------
(* Live entries are only superseded.                                         *)

\* What LiveEntrySuperseded says of one step and one key.
SupersededOrKept(k) ==
    (Running /\ Running' /\ Live(db[k], now)) =>
        IF db'[k] # Nil THEN db'[k].ver >= db[k].ver
        ELSE \E t \in Threads :
                /\ pc[t] = "apply" /\ pc'[t] = "idle"
                /\ req[t].type = "del" /\ req[t].key = k
                /\ req[t].ver >= db[k].ver

\* An entry that a step leaves alone is not superseded unduly.
LEMMA KeptIsFine ==
    ASSUME SInv, NEW k \in Keys, db'[k] = db[k]
    PROVE  SupersededOrKept(k)
BY DEF SInv, TInv, TypeOK, Entry, SupersededOrKept, Live

\* The map update of Set and Delete replaces a live entry only by a version not smaller.
LEMMA ApplySupersedes ==
    ASSUME SInv, NEW t \in Threads, Apply(t), NEW k \in Keys
    PROVE  SupersededOrKept(k)
<1> DEFINE r == req[t]
<1>1. /\ r \in Request /\ r.type \in {"set", "del"} /\ r.key \in Keys
      /\ EntryOf(r) \in Entry /\ EntryOf(r).ver = r.ver
      /\ pc[t] = "apply" /\ pc'[t] = "idle" /\ r.ver \in Nat
  BY EntryOfType, Zenon
  DEF Apply, Return, Go, SInv, TInv, TypeOK, CallInv, Request, EntryOf
<1>2. db \in [Keys -> Entry \cup {Nil}]
  BY Zenon DEF SInv, TInv, TypeOK
<1>3. CASE db'[k] = db[k]
  BY <1>3, KeptIsFine, Zenon
<1>4. CASE db'[k] # db[k]
  <2>1. CASE r.type = "set"
    <3>1. /\ r.key = k /\ db'[k] = EntryOf(r)
          /\ db[k] = Nil \/ r.ver >= db[k].ver
      BY <1>1, <1>2, <1>4, <2>1, Zenon DEF Apply, ApplyRecord, ApplySet, Wins
    <3> QED
      BY <3>1, <1>1, NilAssumption, Zenon DEF SupersededOrKept, Live
  <2>2. CASE r.type = "del"
    <3>1. r.key = k /\ db'[k] = Nil /\ db[k] # Nil /\ r.ver >= db[k].ver
      BY <1>1, <1>2, <1>4, <2>2, Zenon DEF Apply, ApplyRecord, ApplyDelete, Wins
    <3> QED
      BY <3>1, <2>2, <1>1, Zenon DEF SupersededOrKept
  <2> QED
    BY <1>1, <2>1, <2>2, Zenon
<1> QED
  BY <1>3, <1>4, Zenon

\* Every step allows LiveEntrySuperseded.
LEMMA Supersedes ==
    ASSUME SInv, [Next]_vars, NEW k \in Keys
    PROVE  SupersededOrKept(k)
<1> USE DEF SInv
<1>1. CASE UNCHANGED db
  BY <1>1, KeptIsFine, Zenon
<1>2. ASSUME NEW t \in Threads, Apply(t) PROVE SupersededOrKept(k)
  BY <1>2, ApplySupersedes, Zenon
<1>3. ASSUME NEW t \in Threads, LazyReap(t) PROVE SupersededOrKept(k)
  <2>1. /\ req[t].key \in Keys
        /\ \/ UNCHANGED db
           \/ /\ IsExpired(db[req[t].key], now)
              /\ db' = [db EXCEPT ![req[t].key] = Nil]
    BY <1>3, Zenon DEF LazyReap, TInv, TypeOK, Request
  <2>2. db'[k] = db[k] \/ IsExpired(db[k], now)
    BY <2>1, Zenon DEF TInv, TypeOK
  <2>3. CASE IsExpired(db[k], now)
    <3>1. ~Live(db[k], now)
      BY <2>3 DEF IsExpired, Live, TInv, TypeOK, Entry
    <3> QED
      BY <3>1, Zenon DEF SupersededOrKept
  <2> QED
    BY <2>2, <2>3, KeptIsFine, Zenon
<1>4. CASE ReapShard
  <2>1. db'[k] = db[k] \/ (db[k] # Nil /\ IsExpired(db[k], reapAt))
    BY <1>4, Zenon DEF ReapShard, Expired, Present
  <2>2. CASE db[k] # Nil /\ IsExpired(db[k], reapAt)
    <3>1. ~Live(db[k], now)
      BY <2>2 DEF IsExpired, Live, TInv, TypeOK, Entry, ReapInv
    <3> QED
      BY <3>1, Zenon DEF SupersededOrKept
  <2> QED
    BY <2>1, <2>2, KeptIsFine, Zenon
<1>5. CASE Exit \/ Crash \/ ReplayFatal
  BY <1>5, Zenon DEF Exit, Crash, ReplayFatal, Vanish, Running, SupersededOrKept
<1>6. CASE LoadSnapshot \/ ReplayRecord
  BY <1>6, Zenon DEF LoadSnapshot, ReplayRecord, Running, SupersededOrKept
<1>7. ASSUME NEW t \in Threads,
             \/ BeginSet(t) \/ BeginDelete(t) \/ BeginGet(t) \/ NextVersion(t)
             \/ WALAppend(t) \/ WALAppendFails(t) \/ GetCheck(t)
      PROVE  SupersededOrKept(k)
  <2>1. UNCHANGED db
    BY <1>7 DEF BeginSet, BeginDelete, Begin, BeginGet, NextVersion, WALAppend,
                WALAppendFails, GetCheck
  <2> QED
    BY <2>1, <1>1, Zenon
<1>8. CASE \/ ReapStart \/ SnapStep \/ Tick \/ UNCHANGED vars
           \/ Shutdown \/ Drained \/ DrainTimeout \/ StopReaper \/ Start \/ ReplayDone
  <2>1. UNCHANGED db
    BY <1>8, Zenon DEF ReapStart, SnapStep, CompactorSnapshot, FinalSnapshot, SnapLockWAL,
                SnapLockShard, SnapDump, SnapRename, SnapTruncate, SnapFail, Tick,
                vars, Shutdown, Drained, DrainTimeout, StopReaper, Start, ReplayDone
  <2> QED
    BY <2>1, <1>1, Zenon
<1> QED
  BY <1>2, <1>3, <1>4, <1>5, <1>6, <1>7, <1>8, Zenon DEF Next, ThreadStep, LifeCycleStep

\* No interleaving of calls, reaper, snapshots and shutdown makes a live entry of
\* a running node disappear or go back to an older version.
THEOREM EntriesSuperseded == Spec => LiveEntrySuperseded
<1>1. SInv /\ [Next]_vars => [\A k \in Keys : SupersededOrKept(k)]_vars
  BY Supersedes, Zenon
<1>2. Spec => [][\A k \in Keys : SupersededOrKept(k)]_vars
  BY <1>1, SInvInit, SInvNext, PTL DEF Spec
<1> QED
  BY <1>2, Zenon DEF LiveEntrySuperseded, SupersededOrKept

------------------------------------------------------------------------------
(* Versions, when the clock is not set back across restarts.                 *)

\* Whatever was issued before is covered by lastVersion or by the clock.
VersionInv ==
    /\ Running => maxIssued <= lastVersion \/ maxIssued < now
    /\ mode \in {"load", "replay"} => maxIssued < now

FreshVersion ==
    \A t \in Threads : pc[t] = "version" /\ pc'[t] = "append"
                          => req'[t].ver > maxIssued

\* A version that is drawn is above all drawn before.
LEMMA NextVersionFresh ==
    ASSUME SInv, VersionInv, NEW t \in Threads, NextVersion(t)
    PROVE  VersionInv' /\ FreshVersion
<1> DEFINE v == IF now <= lastVersion THEN lastVersion + 1 ELSE now
<1>1. /\ lastVersion' = v /\ maxIssued' = Maximum(maxIssued, v)
      /\ req' = [req EXCEPT ![t].ver = v] /\ req[t] \in Request
      /\ pc' = [pc EXCEPT ![t] = "append"]
      /\ Running /\ UNCHANGED <<now, mode>>
  BY Zenon DEF NextVersion, Go, SInv, TInv, TypeOK
<1>2. now \in Nat /\ lastVersion \in Nat /\ maxIssued \in Nat
  BY Zenon DEF SInv, TInv, TypeOK
<1>3. v > maxIssued
  BY <1>1, <1>2 DEF VersionInv
<1>4. maxIssued' = v
  BY <1>1, <1>2, <1>3 DEF Maximum
<1>5. VersionInv'
  BY <1>1, <1>2, <1>4 DEF VersionInv, Running
<1>6. FreshVersion
  <2> SUFFICES ASSUME NEW u \in Threads, pc[u] = "version", pc'[u] = "append"
               PROVE  req'[u].ver > maxIssued
    BY Zenon DEF FreshVersion
  <2>1. u = t
    BY <1>1, Zenon DEF SInv, TInv, TypeOK
  <2>2. req'[t].ver = v
    BY <1>1, Zenon DEF SInv, TInv, TypeOK, Request
  <2> QED
    BY <2>1, <2>2, <1>3, Zenon
<1> QED
  BY <1>5, <1>6, Zenon

\* VersionInv is inductive.
LEMMA VersionNext ==
    ASSUME ClockSetBack = FALSE, SInv, VersionInv, [Next]_vars
    PROVE  VersionInv' /\ (FreshVersion \/ UNCHANGED vars)
<1> USE DEF SInv
<1>0. now \in Nat /\ lastVersion \in Nat /\ maxIssued \in Nat /\ mode \in Modes
  BY Zenon DEF TInv, TypeOK
<1>1. ASSUME NEW t \in Threads, NextVersion(t) PROVE VersionInv' /\ FreshVersion
  BY <1>1, NextVersionFresh, Zenon
<1>2. ASSUME NEW t \in Threads,
             \/ BeginSet(t) \/ BeginDelete(t) \/ BeginGet(t) \/ WALAppend(t)
             \/ WALAppendFails(t) \/ Apply(t) \/ GetCheck(t) \/ LazyReap(t)
      PROVE  VersionInv' /\ FreshVersion
  <2>1. UNCHANGED <<now, mode, lastVersion, maxIssued>>
    BY <1>2 DEF BeginSet, BeginDelete, Begin, BeginGet, WALAppend, WALAppendFails,
                Apply, GetCheck, LazyReap
  <2>2. pc[t] # "version" /\ pc' = [pc EXCEPT ![t] = pc'[t]]
    <3>1. CASE BeginSet(t) \/ BeginDelete(t) \/ BeginGet(t)
      BY <3>1 DEF BeginSet, BeginDelete, Begin, BeginGet, Go, TInv, TypeOK
    <3>2. CASE WALAppend(t) \/ WALAppendFails(t) \/ Apply(t)
      BY <3>2, Zenon DEF WALAppend, WALAppendFails, Apply, Return, Go, TInv, TypeOK
    <3>3. CASE GetCheck(t) \/ LazyReap(t)
      BY <3>3, Zenon DEF GetCheck, LazyReap, Return, Go, TInv, TypeOK
    <3> QED
      BY <1>2, <3>1, <3>2, <3>3, Zenon
  <2>3. \A u \in Threads : pc[u] = "version" => pc'[u] = pc[u]
    BY <2>2, Zenon DEF TInv, TypeOK
  <2> QED
    BY <2>1, <2>3 DEF VersionInv, FreshVersion, Running
<1>3. CASE ReapStart \/ ReapShard \/ SnapStep
  <2>1. Running /\ Running' /\ UNCHANGED <<now, lastVersion, maxIssued, pc>>
    BY <1>3, Zenon DEF ReapStart, ReapShard, SnapStep, CompactorSnapshot, FinalSnapshot,
                SnapLockWAL, SnapLockShard, SnapDump, SnapRename, SnapTruncate,
                SnapFail, AfterSnapshot, Running, Modes
  <2> QED
    BY <2>1, Zenon DEF VersionInv, FreshVersion, Running
<1>4. CASE Exit \/ Crash \/ ReplayFatal
  BY <1>4, Zenon DEF Exit, Crash, ReplayFatal, Vanish, VersionInv, FreshVersion, Running
<1>5. CASE Start
  BY <1>0, <1>5 DEF Start, Maximum, VersionInv, FreshVersion, Running
<1>6. CASE Shutdown \/ Drained \/ DrainTimeout \/ StopReaper
  BY <1>6, Zenon DEF Shutdown, Drained, DrainTimeout, StopReaper, VersionInv,
              FreshVersion, Running, Modes
<1>7. CASE LoadSnapshot \/ ReplayRecord \/ ReplayDone
  <2>1. /\ UNCHANGED <<pc, maxIssued>> /\ maxIssued < now
        /\ mode' \in {"replay", "up"}
    BY <1>7, Zenon DEF LoadSnapshot, ReplayRecord, ReplayDone, VersionInv
  <2>2. now' \in Nat /\ now' >= now
    <3>1. CASE LoadSnapshot \/ ReplayDone
      BY <1>0, <3>1 DEF LoadSnapshot, ReplayDone
    <3>2. CASE ReplayRecord
      BY <3>2, ReplayedClock, Zenon DEF SInv
    <3> QED
      BY <1>7, <3>1, <3>2, Zenon
  <2>3. maxIssued' < now'
    BY <1>0, <2>1, <2>2
  <2> QED
    BY <2>1, <2>3, Zenon DEF VersionInv, FreshVersion, Running
<1>8. CASE Tick
  BY <1>0, <1>8 DEF Tick, VersionInv, FreshVersion, Running
<1>9. CASE UNCHANGED vars
  BY <1>9, Zenon DEF vars, VersionInv, Running
<1> QED
  BY <1>1, <1>2, <1>3, <1>4, <1>5, <1>6, <1>7, <1>8, <1>9, Zenon
  DEF Next, ThreadStep, LifeCycleStep

\* NextVersion never repeats or undercuts a version it issued, also before a
\* restart, as long as the clock of the restarted process has passed them.
THEOREM VersionsMonotonic ==
    ASSUME ClockSetBack = FALSE PROVE Spec => MonotonicVersions
<1>1. Init => SInv /\ VersionInv
  BY SInvInit, Zenon DEF Init, VersionInv, Running
<1>2. SInv /\ VersionInv /\ [Next]_vars
        => SInv' /\ VersionInv' /\ [FreshVersion]_vars
  BY SInvNext, VersionNext, Zenon
<1>3. Spec => [][FreshVersion]_vars
  BY <1>1, <1>2, PTL DEF Spec
<1> QED
  BY <1>3, Zenon DEF MonotonicVersions, FreshVersion

------------------------------------------------------------------------------
(* A clean stop, when the clock is not set back across restarts.             *)

\* The map m is x, but for entries of x that have expired by time t.
Faded(m, x, t) ==
    \A k \in Keys : m[k] = x[k] \/ (m[k] = Nil /\ x[k] # Nil /\ IsExpired(x[k], t))

\* From the moment the last handler returns until the node is up again, nothing
\* but expiry separates the map, and once the final snapshot is taken the files,
\* from the map of that moment.  A compactor that was already at work when main
\* began to stop has dumped an earlier map; main waits for it, so only what a
\* snapshot writes after mode "final" counts.
CleanInv ==
    atExit # Nil =>
      /\ mode \notin {"up", "draining"} /\ \A t \in Threads : pc[t] = "idle"
      /\ mode \in {"final", "finalsnap", "closing", "walclose", "replay"}
            => Faded(db, atExit, now)
      /\ mode \in {"finalsnap", "closing", "walclose"} =>
            /\ snapPc = "rename" => Faded(tmp, atExit, now)
            /\ snapPc = "truncate" => Faded(snap, atExit, now)
      /\ mode \in {"closing", "walclose", "down", "load", "replay"}
            => wal = <<>> /\ Faded(snap, atExit, now)

\* What CleanStopRestores says of one step.
RestoresAtExit ==
    mode = "replay" /\ mode' = "up" /\ atExit # Nil =>
       \A k \in Keys : Live(atExit[k], now) \/ Live(db[k], now) => db[k] = atExit[k]

\* What has expired stays expired.
LEMMA FadedLater ==
    ASSUME NEW m, NEW x \in [Keys -> Entry \cup {Nil}], NEW t1 \in Nat, NEW t2 \in Nat,
           t1 <= t2, Faded(m, x, t1)
    PROVE  Faded(m, x, t2)
BY DEF Faded, IsExpired, Entry

\* Removing expired entries leaves nothing but expiry between two maps.
LEMMA FadesOn ==
    ASSUME NEW m, NEW n, NEW x, NEW t, Faded(m, x, t),
           \A k \in Keys : n[k] = m[k] \/ (n[k] = Nil /\ m[k] # Nil /\ IsExpired(m[k], t))
    PROVE  Faded(n, x, t)
BY Zenon DEF Faded

\* The steps that change neither the mode nor what CleanInv speaks of, except
\* that expired entries leave the map or the clock advances.
LEMMA CleanFrame ==
    ASSUME SInv, SInv', CleanInv, now <= now',
           UNCHANGED <<mode, pc, snapPc, tmp, snap, wal, atExit>>,
           \A k \in Keys : \/ db'[k] = db[k]
                           \/ db'[k] = Nil /\ db[k] # Nil /\ IsExpired(db[k], now)
    PROVE  CleanInv'
<1> SUFFICES ASSUME atExit # Nil PROVE CleanInv'
  BY Zenon DEF CleanInv
<1>1. atExit \in [Keys -> Entry \cup {Nil}] /\ now \in Nat /\ now' \in Nat
  BY Zenon DEF SInv, TInv, TypeOK
<1>2. ASSUME NEW m, Faded(m, atExit, now) PROVE Faded(m, atExit, now')
  BY <1>1, <1>2, FadedLater, Zenon
<1>3. Faded(db, atExit, now) => Faded(db', atExit, now')
  BY <1>2, FadesOn, Zenon
<1> QED
  BY <1>2, <1>3, Zenon DEF CleanInv

\* No step of CreateSnapshot disturbs a clean stop: each one writes what the map
\* holds then, or gives up.
LEMMA SnapClean ==
    ASSUME SInv, SInv', CleanInv, SnapStep
    PROVE  CleanInv'
<1> SUFFICES ASSUME atExit' # Nil PROVE CleanInv'
  BY Zenon DEF CleanInv
<1>1. CASE SnapFail
  BY <1>1, Zenon DEF SnapFail
<1>2. CASE CompactorSnapshot \/ FinalSnapshot \/ SnapLockShard
  <2>1. /\ UNCHANGED <<now, db, pc, tmp, wal, snap, atExit>>
        /\ snapPc' \in {"lock", "dump"}
        /\ mode' = mode \/ (mode = "final" /\ mode' = "finalsnap")
    BY <1>2, Zenon DEF CompactorSnapshot, FinalSnapshot, SnapLockWAL, SnapLockShard
  <2> QED
    BY <2>1, Zenon DEF CleanInv
<1>3. CASE SnapDump
  <2>1. /\ UNCHANGED <<now, mode, db, pc, wal, snap, atExit>> /\ snapPc' = "rename"
        /\ tmp' = [k \in Keys |-> IF db[k] # Nil /\ ~IsExpired(db[k], now)
                                  THEN db[k] ELSE Nil]
    BY <1>3, Zenon DEF SnapDump
  <2>2. \A k \in Keys : \/ tmp'[k] = db[k]
                        \/ tmp'[k] = Nil /\ db[k] # Nil /\ IsExpired(db[k], now)
    BY <2>1, Zenon
  <2>3. Faded(db, atExit, now) => Faded(tmp', atExit, now)
    BY <2>2, FadesOn, Zenon
  <2> QED
    BY <2>1, <2>3, Zenon DEF CleanInv
<1>4. CASE SnapRename
  <2>1. /\ UNCHANGED <<now, mode, db, pc, wal, tmp, atExit>>
        /\ snapPc = "rename" /\ snapPc' = "truncate" /\ snap' = tmp /\ Running
    BY <1>4, Zenon DEF SnapRename
  <2> QED
    BY <2>1, Zenon DEF CleanInv, Running
<1>5. CASE SnapTruncate
  <2>1. /\ UNCHANGED <<now, db, pc, snap, atExit>> /\ wal' = <<>>
        /\ snapPc = "truncate" /\ snapPc' = "idle" /\ Running
        /\ mode' = IF mode = "finalsnap" THEN "closing" ELSE mode
    BY <1>5, Zenon DEF SnapTruncate, Unlock, AfterSnapshot
  <2> QED
    BY <2>1, Zenon DEF CleanInv, Running
<1> QED
  BY <1>1, <1>2, <1>3, <1>4, <1>5, Zenon DEF SnapStep

\* Recovery after a clean stop loads the final snapshot and finds no record.
LEMMA LifeCycleClean ==
    ASSUME ClockSetBack = FALSE, SInv, SInv', CleanInv, LifeCycleStep
    PROVE  CleanInv' /\ RestoresAtExit
<1>1. CASE Shutdown \/ DrainTimeout
  BY <1>1, Zenon DEF Shutdown, DrainTimeout, CleanInv, RestoresAtExit
<1>2. CASE Drained
  <2>1. /\ mode' = "final" /\ atExit' = db /\ UNCHANGED <<now, db, pc>>
        /\ \A t \in Threads : pc[t] = "idle"
    BY <1>2, Zenon DEF Drained
  <2>2. Faded(db, db, now)
    BY Zenon DEF Faded
  <2> QED
    BY <2>1, <2>2, Zenon DEF CleanInv, RestoresAtExit
<1>3. CASE StopReaper
  <2>1. /\ UNCHANGED <<now, db, pc, snapPc, tmp, snap, wal, atExit>>
        /\ mode = "closing" /\ mode' = "walclose"
    BY <1>3, Zenon DEF StopReaper
  <2> QED
    BY <2>1, Zenon DEF CleanInv, RestoresAtExit
<1>4. CASE Exit \/ ReplayFatal
  <2>1. /\ mode \in {"walclose", "replay"} /\ mode' = "down" /\ snapPc' = "idle"
        /\ UNCHANGED <<now, wal, snap, atExit>> /\ \A t \in Threads : pc'[t] = "idle"
    BY <1>4, Zenon DEF Exit, ReplayFatal, Vanish, Unlock
  <2> QED
    BY <2>1, Zenon DEF CleanInv, RestoresAtExit
<1>5. CASE Crash
  BY <1>5, Zenon DEF Crash, Vanish, CleanInv, RestoresAtExit
<1>6. CASE Start
  <2>1. /\ mode = "down" /\ mode' = "load" /\ now' = Maximum(now, maxIssued + 1)
        /\ UNCHANGED <<pc, snapPc, wal, snap, atExit>>
    BY <1>6, Zenon DEF Start
  <2>2. now \in Nat /\ maxIssued \in Nat /\ now' \in Nat
    BY Zenon DEF SInv, TInv, TypeOK
  <2>3. now <= now'
    BY <2>1, <2>2 DEF Maximum
  <2>4. atExit # Nil => atExit \in [Keys -> Entry \cup {Nil}]
    BY Zenon DEF SInv, TInv, TypeOK
  <2> QED
    BY <2>1, <2>2, <2>3, <2>4, FadedLater, Zenon DEF CleanInv, RestoresAtExit
<1>7. CASE LoadSnapshot
  <2>1. /\ mode = "load" /\ mode' = "replay" /\ db' = snap
        /\ UNCHANGED <<now, pc, snapPc, wal, snap, atExit>>
    BY <1>7, Zenon DEF LoadSnapshot
  <2> QED
    BY <2>1, Zenon DEF CleanInv, RestoresAtExit
<1>8. CASE ReplayRecord
  <2>1. mode = "replay" /\ mode' = mode /\ atExit' = atExit /\ replayPos <= Len(wal)
    BY <1>8, Zenon DEF ReplayRecord
  <2>2. wal # <<>>
    BY <2>1 DEF SInv, TInv, TypeOK
  <2> QED
    BY <2>1, <2>2, Zenon DEF CleanInv, RestoresAtExit
<1>9. CASE ReplayDone
  <2>1. mode = "replay" /\ atExit' = Nil
    BY <1>9, Zenon DEF ReplayDone
  <2>2. ASSUME atExit # Nil, NEW k \in Keys, Live(atExit[k], now) \/ Live(db[k], now)
        PROVE  db[k] = atExit[k]
    <3>1. \/ db[k] = atExit[k]
          \/ db[k] = Nil /\ atExit[k] # Nil /\ IsExpired(atExit[k], now)
      BY <2>1, <2>2, Zenon DEF CleanInv, Faded
    <3>2. atExit[k] \in Entry \cup {Nil} /\ now \in Nat
      BY <2>2, Zenon DEF SInv, TInv, TypeOK
    <3> QED
      BY <2>2, <3>1, <3>2 DEF Live, IsExpired, Entry
  <2> QED
    BY <2>1, <2>2, Zenon DEF CleanInv, RestoresAtExit
<1> QED
  BY <1>1, <1>2, <1>3, <1>4, <1>5, <1>6, <1>7, <1>8, <1>9, Zenon DEF LifeCycleStep

\* CleanInv is inductive.
LEMMA CleanNext ==
    ASSUME ClockSetBack = FALSE, SInv, SInv', CleanInv, [Next]_vars
    PROVE  CleanInv' /\ RestoresAtExit
<1>0. now \in Nat /\ now' \in Nat
  BY Zenon DEF SInv, TInv, TypeOK
<1>1. ASSUME NEW t \in Threads, ThreadStep(t) PROVE CleanInv' /\ RestoresAtExit
  <2>1. (mode = "up" \/ pc[t] # "idle") /\ UNCHANGED <<mode, atExit>>
    BY <1>1, Zenon DEF ThreadStep, BeginSet, BeginDelete, Begin, BeginGet, NextVersion,
          WALAppend, WALAppendFails, Apply, GetCheck, LazyReap
  <2> QED
    BY <2>1, Zenon DEF CleanInv, RestoresAtExit
<1>2. CASE ReapStart \/ ReapShard \/ Tick \/ UNCHANGED vars
  <2>1. /\ UNCHANGED <<mode, pc, snapPc, tmp, snap, wal, atExit>>
        /\ now' = now \/ now' = now + 1
    BY <1>2, Zenon DEF ReapStart, ReapShard, Tick, vars
  <2>2. now <= now'
    BY <1>0, <2>1
  <2>3. ASSUME NEW k \in Keys
        PROVE  \/ db'[k] = db[k]
               \/ db'[k] = Nil /\ db[k] # Nil /\ IsExpired(db[k], now)
    <3>1. CASE ReapShard
      <4>1. \/ db'[k] = db[k]
            \/ db'[k] = Nil /\ db[k] # Nil /\ IsExpired(db[k], reapAt)
        BY <3>1, Zenon DEF ReapShard, Expired, Present
      <4>2. db[k] # Nil /\ IsExpired(db[k], reapAt) => IsExpired(db[k], now)
        <5>1. /\ reapAt \in Nat /\ reapAt <= now
              /\ db[k] # Nil => db[k].exp \in Nat
          BY Zenon DEF SInv, TInv, TypeOK, ReapInv, Entry
        <5> QED
          BY <1>0, <5>1 DEF IsExpired
      <4> QED
        BY <4>1, <4>2, Zenon
    <3> QED
      BY <1>2, <3>1, Zenon DEF ReapStart, Tick, vars
  <2> QED
    BY <2>1, <2>2, <2>3, CleanFrame, Zenon DEF RestoresAtExit
<1>3. CASE SnapStep
  <2>1. Running
    BY <1>3, Zenon DEF SnapStep, CompactorSnapshot, FinalSnapshot, SnapLockShard, SnapDump,
          SnapRename, SnapTruncate, SnapFail, Running, Modes
  <2> QED
    BY <1>3, <2>1, SnapClean, Zenon DEF RestoresAtExit, Running
<1> QED
  BY <1>1, <1>2, <1>3, LifeCycleClean, Zenon DEF Next

\* When all handlers finished before the final snapshot and no disk write failed,
\* the next start restores exactly the live entries: whatever the compactor and
\* the reaper did while the node was stopping.
THEOREM CleanStopRestored ==
    ASSUME ClockSetBack = FALSE PROVE Spec => CleanStopRestores
<1>1. Init => SInv /\ CleanInv
  BY SInvInit, Zenon DEF Init, CleanInv
<1>2. SInv /\ CleanInv /\ [Next]_vars
        => SInv' /\ CleanInv' /\ [RestoresAtExit]_vars
  BY SInvNext, CleanNext, Zenon
<1>3. Spec => [][RestoresAtExit]_vars
  BY <1>1, <1>2, PTL DEF Spec
<1> QED
  BY <1>3, Zenon DEF CleanStopRestores, RestoresAtExit
=============================================================================
