-------------------------------- MODULE Store --------------------------------
(***************************************************************************)
(* The storage engine of one node (internal/store, and the start-up and    *)
(* shut-down sequence of cmd/server/main.go): request threads, the TTL     *)
(* reaper and the snapshot compactor over the sharded map, the WAL file    *)
(* and the snapshot file, with crashes, restarts and failing disk writes.  *)
(*                                                                         *)
(* A critical section of a shard mutex, of versionMu or of the WAL mutex   *)
(* is one step; a thread can be preempted between any two of them.  The    *)
(* one lock holder that spans several steps is CreateSnapshot, so locks    *)
(* are represented by its progress: the WAL mutex is held iff snapPc is    *)
(* not "idle", and shards 0 .. locked-1 are held.                          *)
(***************************************************************************)
EXTENDS KVData

CONSTANTS
    Threads,        \* request-serving goroutines
    ShardCount,     \* number of shards
    ShardOf,        \* shard of each key (FNV-1a modulo ShardCount)
    Calls,          \* the store calls clients make, within {"set","del","get"}
    TTLs,           \* time-to-live of a Set; 0 = no expiry
    Versions,       \* version argument; 0 = local write, others replicated
    Compaction,     \* whether the periodic compactor runs
    Tails,          \* what a write cut short by a crash or an error leaves
    ClockSetBack,   \* whether the clock may be set back across a restart
    Budget,         \* bounds: number of calls, crashes, I/O faults, stops
    MaxTime         \* bound on the clock

VARIABLES
    now,            \* the clock, read by time.Now(); starts at 1
    mode,           \* life cycle of the process
    db,             \* in-memory map, all shards together
    keyCount,       \* atomic counter behind Size()
    lastVersion,    \* last version NextVersion handed out
    pc, req,        \* per thread: next step, and the call it executes
    reapAt,         \* `now` captured by the running reap(), 0 when idle
    reapShard,      \* next shard reap() visits
    snapPc,         \* progress of CreateSnapshot
    locked,         \* shards CreateSnapshot has locked, in index order
    tmp,            \* contents of snapshot.bin.tmp
    wal,            \* the WAL file
    snap,           \* the snapshot file
    replayPos,      \* next piece of the WAL that Replay reads
    budget,         \* what is left of Budget
    straddled,      \* history: threads whose logged record a snapshot cut off
    unlogged,       \* history: keys changed by such a thread since
    newest,         \* history: per key, the highest-version mutation applied
    maxIssued,      \* history: highest version NextVersion ever handed out
    atExit          \* history: the map at the last clean stop, or Nil

memory  == <<db, keyCount, lastVersion>>
thread  == <<pc, req>>
reaper  == <<reapAt, reapShard>>
snapper == <<snapPc, locked, tmp>>
disk    == <<wal, snap>>
history == <<straddled, unlogged, newest, maxIssued, atExit>>
vars    == <<now, mode, memory, thread, reaper, snapper, disk, replayPos,
             budget, history>>

Shards    == 0 .. ShardCount - 1
BudgetOf  == {"calls", "crashes", "faults", "stops"}
Modes     == {"down", "load", "replay", "up", "draining", "final",
              "finalsnap", "closing", "walclose"}

ASSUME ShardAssumption  == /\ ShardCount \in Nat \ {0}
                           /\ ShardOf \in [Keys -> Shards]
ASSUME CallAssumption   == /\ Calls \subseteq {"set", "del", "get"}
                           /\ TTLs \subseteq Nat
                           /\ Versions \subseteq Nat
ASSUME SwitchAssumption == /\ Compaction \in BOOLEAN
                           /\ ClockSetBack \in BOOLEAN
                           /\ Tails \subseteq {"none", "hdr", "body", "full"}
ASSUME BoundAssumption  == /\ Budget \in [BudgetOf -> Nat]
                           /\ MaxTime \in Nat

Spend(b) == budget[b] > 0 /\ budget' = [budget EXCEPT ![b] = @ - 1]

\* main has finished recovery and linked the WAL: goroutines are running.
Running == mode \in Modes \ {"down", "load", "replay"}

WALFree      == snapPc = "idle"
ShardFree(i) == i >= locked

\* What an interrupted or failed write leaves of record r.
Written(r, frag) == IF frag = "none" THEN <<>> ELSE <<[rec |-> r, frag |-> frag]>>

\* History: r has been applied (or, on equal footing, discarded as stale).
Newest(n, r) == IF n[r.key] = Nil \/ r.ver >= n[r.key].ver
                THEN [n EXCEPT ![r.key] = r] ELSE n

------------------------------------------------------------------------------
(* Threads: Set, Delete and Get.                                             *)

Go(t, label) == pc' = [pc EXCEPT ![t] = label]

Return(t) == Go(t, "idle") /\ req' = [req EXCEPT ![t] = Nil]

\* Set and Delete are called; Set fixes the expiry before anything else.
Begin(t, r) ==
    /\ mode = "up" /\ pc[t] = "idle" /\ r.type \in Calls
    /\ Spend("calls")
    /\ Go(t, IF r.ver = 0 THEN "version" ELSE "append")
    /\ req' = [req EXCEPT ![t] = r]
    /\ UNCHANGED <<now, mode, memory, reaper, snapper, disk, replayPos, history>>

BeginSet(t) ==
    \E k \in Keys, v \in Values, ttl \in TTLs, ver \in Versions :
        Begin(t, [type |-> "set", key |-> k, val |-> v, ver |-> ver,
                  exp |-> IF ttl > 0 THEN now + ttl ELSE 0])

BeginDelete(t) ==
    \E k \in Keys, ver \in Versions :
        Begin(t, [type |-> "del", key |-> k, val |-> Nil, ver |-> ver, exp |-> 0])

\* Mutant: the clock alone.
NextVersionClock(t) ==
    /\ Running /\ pc[t] = "version"
    /\ lastVersion' = now /\ maxIssued' = Maximum(maxIssued, now)
    /\ req' = [req EXCEPT ![t].ver = now]
    /\ Go(t, "append")
    /\ UNCHANGED <<now, mode, db, keyCount, reaper, snapper, disk, replayPos,
                   budget, straddled, unlogged, newest, atExit>>

NextVersion(t) ==
    LET v == IF now <= lastVersion THEN lastVersion + 1 ELSE now
    IN  /\ Running /\ pc[t] = "version"
        /\ lastVersion' = v
        /\ req' = [req EXCEPT ![t].ver = v]
        /\ Go(t, "append")
        /\ maxIssued' = Maximum(maxIssued, v)
        /\ UNCHANGED <<now, mode, db, keyCount, reaper, snapper, disk, replayPos,
                       budget, straddled, unlogged, newest, atExit>>

\* WAL.Append under the WAL mutex: frame, write and sync.
WALAppend(t) ==
    /\ Running /\ pc[t] = "append" /\ WALFree
    /\ wal' = wal \o Written(req[t], "full")
    /\ Go(t, "apply")
    /\ UNCHANGED <<now, mode, memory, req, reaper, snapper, snap, replayPos,
                   budget, history>>

\* WAL.Append returns an error and the call fails.  A refused key or a write
\* that fails at once leaves nothing, a short write leaves a fragment, and a
\* failed sync leaves the whole record in the file.
WALAppendFails(t) ==
    /\ Running /\ pc[t] = "append" /\ WALFree
    /\ Spend("faults")
    /\ \E frag \in Tails : wal' = wal \o Written(req[t], frag)
    /\ Return(t)
    /\ UNCHANGED <<now, mode, memory, reaper, snapper, snap, replayPos, history>>

\* The effect of a logged mutation on the map, under the shard lock.
ApplySetBlind(r) ==  \* mutant: no conflict resolution
    /\ db' = [db EXCEPT ![r.key] = EntryOf(r)]
    /\ keyCount' = IF db[r.key] = Nil THEN keyCount + 1 ELSE keyCount

ApplySet(r) ==
    IF Wins(r.ver, db[r.key])
    THEN /\ db' = [db EXCEPT ![r.key] = EntryOf(r)]
         /\ keyCount' = IF db[r.key] = Nil THEN keyCount + 1 ELSE keyCount
    ELSE UNCHANGED <<db, keyCount>>

ApplyDelete(r) ==
    IF db[r.key] # Nil /\ Wins(r.ver, db[r.key])
    THEN /\ db' = [db EXCEPT ![r.key] = Nil]
         /\ keyCount' = keyCount - 1
    ELSE UNCHANGED <<db, keyCount>>

ApplyRecord(r) == IF r.type = "set" THEN ApplySet(r) ELSE ApplyDelete(r)

\* The second half of Set and Delete; the call returns without an error.
Apply(t) ==
    LET r == req[t]
    IN  /\ Running /\ pc[t] = "apply" /\ ShardFree(ShardOf[r.key])
        /\ ApplyRecord(r)
        /\ Return(t)
        /\ newest' = Newest(newest, r)
        /\ straddled' = straddled \ {t}
        /\ unlogged' = IF db' = db THEN unlogged
                       ELSE IF t \in straddled THEN unlogged \cup {r.key}
                       ELSE unlogged \ {r.key}
        /\ UNCHANGED <<now, mode, lastVersion, reaper, snapper, disk, replayPos,
                       budget, maxIssued, atExit>>

\* Get reads the entry under the read lock ...
BeginGet(t) ==
    /\ mode = "up" /\ pc[t] = "idle" /\ "get" \in Calls
    /\ \E k \in Keys :
        /\ ShardFree(ShardOf[k]) /\ db[k] # Nil
        /\ req' = [req EXCEPT ![t] = [type |-> "get", key |-> k, val |-> db[k].val,
                                      ver |-> db[k].ver, exp |-> db[k].exp]]
    /\ Spend("calls")
    /\ Go(t, "check")
    /\ UNCHANGED <<now, mode, memory, reaper, snapper, disk, replayPos, history>>

\* ... and looks at its expiry after releasing it.
GetCheck(t) ==
    /\ Running /\ pc[t] = "check"
    /\ IF IsExpired(req[t], now) THEN Go(t, "lazyreap") /\ UNCHANGED req
                                 ELSE Return(t)
    /\ UNCHANGED <<now, mode, memory, reaper, snapper, disk, replayPos, budget,
                   history>>

\* Mutants: no double check; presence re-checked but not the expiry.
LazyReapUnchecked(t) ==
    /\ Running /\ pc[t] = "lazyreap" /\ ShardFree(ShardOf[req[t].key])
    /\ db' = [db EXCEPT ![req[t].key] = Nil] /\ keyCount' = keyCount - 1
    /\ Return(t)
    /\ UNCHANGED <<now, mode, lastVersion, reaper, snapper, disk, replayPos,
                   budget, history>>

LazyReapAnyEntry(t) ==
    LazyReapUnchecked(t) /\ db[req[t].key] # Nil

\* Lazy reap, with the double check under the write lock.
LazyReap(t) ==
    LET k == req[t].key
    IN  /\ Running /\ pc[t] = "lazyreap" /\ ShardFree(ShardOf[k])
        /\ IF db[k] # Nil /\ IsExpired(db[k], now)
           THEN db' = [db EXCEPT ![k] = Nil] /\ keyCount' = keyCount - 1
           ELSE UNCHANGED <<db, keyCount>>
        /\ Return(t)
        /\ UNCHANGED <<now, mode, lastVersion, reaper, snapper, disk, replayPos,
                       budget, history>>

------------------------------------------------------------------------------
(* The TTL reaper goroutine.                                                 *)

\* The ticker fires: reap() reads the clock once for the whole pass.
ReapStart ==
    /\ Running /\ mode # "walclose" /\ reapAt = 0
    /\ reapAt' = now /\ reapShard' = 0
    /\ UNCHANGED <<now, mode, memory, thread, snapper, disk, replayPos, budget,
                   history>>

\* The keys one iteration of reap() deletes.
Expired(i, t) == {k \in Present(db) : ShardOf[k] = i /\ IsExpired(db[k], t)}

\* Mutant: the loop stops one shard early.
ReapShardShort ==
    /\ Running /\ reapAt # 0 /\ ShardFree(reapShard)
    /\ LET gone == Expired(reapShard, reapAt)
       IN  /\ db' = [k \in Keys |-> IF k \in gone THEN Nil ELSE db[k]]
           /\ keyCount' = keyCount - Cardinality(gone)
    /\ IF reapShard + 2 < ShardCount
       THEN reapShard' = reapShard + 1 /\ UNCHANGED reapAt
       ELSE reapShard' = 0 /\ reapAt' = 0
    /\ UNCHANGED <<now, mode, lastVersion, thread, snapper, disk, replayPos,
                   budget, history>>

ReapShard ==
    /\ Running /\ reapAt # 0 /\ ShardFree(reapShard)
    /\ LET gone == Expired(reapShard, reapAt)
       IN  /\ db' = [k \in Keys |-> IF k \in gone THEN Nil ELSE db[k]]
           /\ keyCount' = keyCount - Cardinality(gone)
    /\ IF reapShard + 1 < ShardCount
       THEN reapShard' = reapShard + 1 /\ UNCHANGED reapAt
       ELSE reapShard' = 0 /\ reapAt' = 0
    /\ UNCHANGED <<now, mode, lastVersion, thread, snapper, disk, replayPos,
                   budget, history>>

------------------------------------------------------------------------------
(* CreateSnapshot: run by the compactor and, once, by the shutdown sequence. *)
(* Every return runs the deferred unlocks and removes the temporary file.    *)

\* The final snapshot is over, whether it succeeded or not.
AfterSnapshot == mode' = IF mode = "finalsnap" THEN "closing" ELSE mode

Unlock == snapPc' = "idle" /\ locked' = 0 /\ tmp' = EmptyMap

SnapLockWAL ==
    /\ WALFree /\ snapPc' = "lock"
    /\ UNCHANGED <<now, memory, thread, reaper, locked, tmp, disk, replayPos,
                   budget, history>>

\* The compactor's tick.  The stop channel does not interrupt a snapshot, and
\* select may still pick a tick when it is closed: one can start at any time.
CompactorSnapshot == Running /\ Compaction /\ SnapLockWAL /\ UNCHANGED mode

\* The snapshot that main takes once the HTTP server is down.
FinalSnapshot == mode = "final" /\ SnapLockWAL /\ mode' = "finalsnap"

\* Mutants: one lock too many; the dump starts after the WAL lock alone.
SnapLockShardPastEnd ==
    /\ Running /\ snapPc = "lock"
    /\ locked' = locked + 1
    /\ snapPc' = IF locked < ShardCount THEN "lock" ELSE "dump"
    /\ UNCHANGED <<now, mode, memory, thread, reaper, tmp, disk, replayPos,
                   budget, history>>

SnapLockNoShard ==
    /\ Running /\ snapPc = "lock" /\ snapPc' = "dump"
    /\ UNCHANGED <<now, mode, memory, thread, reaper, locked, tmp, disk, replayPos,
                   budget, history>>

\* The shards are locked one by one, in index order.
SnapLockShard ==
    /\ Running /\ snapPc = "lock"
    /\ locked' = locked + 1
    /\ snapPc' = IF locked + 1 < ShardCount THEN "lock" ELSE "dump"
    /\ UNCHANGED <<now, mode, memory, thread, reaper, tmp, disk, replayPos,
                   budget, history>>

\* Mutant: an entry counts as expired in its last instant.
SnapDumpAtExpiry ==
    /\ Running /\ snapPc = "dump"
    /\ tmp' = [k \in Keys |-> IF db[k] # Nil /\ (db[k].exp = 0 \/ now < db[k].exp)
                              THEN db[k] ELSE Nil]
    /\ snapPc' = "rename"
    /\ UNCHANGED <<now, mode, memory, thread, reaper, locked, disk, replayPos,
                   budget, history>>

\* The entries that are not expired go to the temporary file.
SnapDump ==
    /\ Running /\ snapPc = "dump"
    /\ tmp' = [k \in Keys |-> IF db[k] # Nil /\ ~IsExpired(db[k], now)
                              THEN db[k] ELSE Nil]
    /\ snapPc' = "rename"
    /\ UNCHANGED <<now, mode, memory, thread, reaper, locked, disk, replayPos,
                   budget, history>>

SnapRename ==
    /\ Running /\ snapPc = "rename"
    /\ snap' = tmp
    /\ snapPc' = "truncate"
    /\ unlogged' = {}
    /\ UNCHANGED <<now, mode, memory, thread, reaper, locked, tmp, wal, replayPos,
                   budget, straddled, newest, maxIssued, atExit>>

SnapTruncate ==
    /\ Running /\ snapPc = "truncate"
    /\ wal' = <<>>
    /\ Unlock /\ AfterSnapshot
    /\ straddled' = {t \in Threads : pc[t] = "apply"}
    /\ UNCHANGED <<now, memory, thread, reaper, snap, replayPos, budget,
                   unlogged, newest, maxIssued, atExit>>

\* Mutants: the WAL is truncated although the snapshot failed; the error path
\* keeps the locks.
SnapFailTruncates ==
    /\ Running /\ snapPc \in {"dump", "rename", "truncate"}
    /\ Spend("faults")
    /\ Unlock /\ AfterSnapshot
    /\ wal' = <<>> /\ atExit' = Nil
    /\ UNCHANGED <<now, memory, thread, reaper, snap, replayPos, straddled,
                   unlogged, newest, maxIssued>>

SnapFailKeepsLocks ==
    /\ Running /\ snapPc \in {"dump", "rename", "truncate"}
    /\ Spend("faults")
    /\ snapPc' = "failed" /\ AfterSnapshot
    /\ UNCHANGED <<now, memory, thread, reaper, locked, tmp, disk, replayPos,
                   history>>

\* Opening, writing, syncing, renaming or truncating fails.
SnapFail ==
    /\ Running /\ snapPc \in {"dump", "rename", "truncate"}
    /\ Spend("faults")
    /\ Unlock /\ AfterSnapshot
    /\ atExit' = Nil
    /\ UNCHANGED <<now, memory, thread, reaper, disk, replayPos, straddled,
                   unlogged, newest, maxIssued>>

------------------------------------------------------------------------------
(* Shutdown, crash and recovery.                                             *)

\* A signal arrives: the listener closes and no new call begins.
Shutdown ==
    /\ mode = "up" /\ Spend("stops") /\ mode' = "draining"
    /\ UNCHANGED <<now, memory, thread, reaper, snapper, disk, replayPos, history>>

\* srv.Shutdown returns when the last handler has ...
Drained ==
    /\ mode = "draining" /\ \A t \in Threads : pc[t] = "idle"
    /\ mode' = "final" /\ atExit' = db
    /\ UNCHANGED <<now, memory, thread, reaper, snapper, disk, replayPos, budget,
                   straddled, unlogged, newest, maxIssued>>

\* ... or after five seconds, with handlers still at work.
DrainTimeout ==
    /\ mode = "draining" /\ \E t \in Threads : pc[t] # "idle"
    /\ mode' = "final"
    /\ UNCHANGED <<now, memory, thread, reaper, snapper, disk, replayPos, budget,
                   history>>

\* The process is gone, and its memory with it; the history forgets the keys
\* whose last mutation was in memory only.
Vanish ==
    /\ mode' = "down"
    /\ db' = EmptyMap /\ keyCount' = 0 /\ lastVersion' = 0
    /\ pc' = [t \in Threads |-> "idle"] /\ req' = [t \in Threads |-> Nil]
    /\ reapAt' = 0 /\ reapShard' = 0
    /\ Unlock
    /\ replayPos' = 1
    /\ straddled' = {} /\ unlogged' = {}
    /\ newest' = [k \in Keys |-> IF k \in unlogged THEN Nil ELSE newest[k]]

\* Close waits for the reaper to see the stop channel between two passes ...
StopReaper ==
    /\ mode = "closing" /\ reapAt = 0 /\ mode' = "walclose"
    /\ UNCHANGED <<now, memory, thread, reaper, snapper, disk, replayPos, budget,
                   history>>

\* ... and for the WAL mutex; then main returns.
Exit ==
    /\ mode = "walclose" /\ WALFree
    /\ Vanish
    /\ UNCHANGED <<now, disk, budget, maxIssued, atExit>>

\* The process dies.  An Append in progress may have reached the file in part.
Crash ==
    /\ mode # "down" /\ Spend("crashes")
    /\ \/ UNCHANGED wal
       \/ /\ Running /\ WALFree
          /\ \E t \in Threads, frag \in Tails :
                pc[t] = "append" /\ wal' = wal \o Written(req[t], frag)
    /\ Vanish
    /\ atExit' = Nil
    /\ UNCHANGED <<now, snap, maxIssued>>

\* The process is started again.  Unless the clock is set back, a restart takes
\* longer than the nanoseconds by which versions may run ahead of the clock.
Start ==
    /\ mode = "down" /\ mode' = "load"
    /\ IF ClockSetBack THEN now' \in 1 .. now
                       ELSE now' = Maximum(now, maxIssued + 1)
    /\ UNCHANGED <<memory, thread, reaper, snapper, disk, replayPos, budget,
                   history>>

\* Mutant: the loaded keys are not counted.
LoadSnapshotUncounted ==
    /\ mode = "load" /\ mode' = "replay"
    /\ db' = snap
    /\ UNCHANGED <<now, keyCount, lastVersion, thread, reaper, snapper, disk,
                   replayPos, budget, history>>

\* LoadSnapshot: every record of the file, live or not, goes to the map.
LoadSnapshot ==
    /\ mode = "load" /\ mode' = "replay"
    /\ db' = snap
    /\ keyCount' = Cardinality(Present(snap))
    /\ \E v \in {0} \cup {snap[k].ver : k \in Present(snap)} :
        /\ \A k \in Present(snap) : snap[k].ver <= v
        /\ lastVersion' = v
    /\ UNCHANGED <<now, thread, reaper, snapper, disk, replayPos, budget, history>>

\* main turns the expiry of a record into a TTL and Set turns it back into an
\* expiry, with a clock read of its own: d later is the expiry of the entry.
Restarted(r, d) == [r EXCEPT !.exp = IF @ = 0 THEN 0 ELSE @ + d]

\* Replay applies one record through Set or Delete, which log nothing since the
\* store has no WAL yet.  A set whose expiry has come is skipped.
ReplayRecord ==
    /\ mode = "replay" /\ replayPos <= Len(wal) /\ wal[replayPos].frag = "full"
    /\ LET r == wal[replayPos].rec
       IN  IF r.type = "set" /\ r.exp # 0 /\ r.exp <= now
           THEN UNCHANGED <<now, db, keyCount, newest>>
           ELSE \E later \in now .. Maximum(now, MaxTime) :
                   /\ now' = later
                   /\ ApplyRecord(Restarted(r, later - now))
                   /\ newest' = Newest(newest, Restarted(r, later - now))
    /\ replayPos' = replayPos + 1
    /\ UNCHANGED <<mode, lastVersion, thread, reaper, snapper, disk, budget,
                   straddled, unlogged, maxIssued, atExit>>


\* Only a part of the record's header was written.
HeaderCutShort(i) == wal[i].frag = "hdr"

LastRecordLeft == replayPos >= Len(wal)  \* mutant: off by one

\* What is left of the file is shorter than a record header: a normal end.
OnlyHeaderBytesLeft ==
    \A i \in replayPos .. Len(wal) : HeaderCutShort(i)

ReplayDone ==
    /\ mode = "replay" /\ OnlyHeaderBytesLeft
    /\ mode' = "up" /\ atExit' = Nil
    /\ UNCHANGED <<now, memory, thread, reaper, snapper, disk, replayPos, budget,
                   straddled, unlogged, newest, maxIssued>>

\* A fragment that more bytes follow, or that has a header and no payload, is a
\* short read or a checksum mismatch: log.Fatalf.  Several header fragments may
\* add up to a header.
ReplayFatal ==
    /\ mode = "replay" /\ replayPos <= Len(wal) /\ wal[replayPos].frag # "full"
    /\ ~(HeaderCutShort(replayPos) /\ replayPos = Len(wal))
    /\ Vanish
    /\ UNCHANGED <<now, disk, budget, maxIssued, atExit>>

Tick ==
    /\ now < MaxTime /\ now' = now + 1
    /\ UNCHANGED <<mode, memory, thread, reaper, snapper, disk, replayPos, budget,
                   history>>

------------------------------------------------------------------------------
Init ==
    /\ now = 1 /\ mode = "down"
    /\ db = EmptyMap /\ keyCount = 0 /\ lastVersion = 0
    /\ pc = [t \in Threads |-> "idle"] /\ req = [t \in Threads |-> Nil]
    /\ reapAt = 0 /\ reapShard = 0
    /\ snapPc = "idle" /\ locked = 0 /\ tmp = EmptyMap
    /\ wal = <<>> /\ snap = EmptyMap /\ replayPos = 1
    /\ budget = Budget
    /\ straddled = {} /\ unlogged = {}
    /\ newest = EmptyMap /\ maxIssued = 0 /\ atExit = Nil

ThreadStep(t) ==
    \/ BeginSet(t) \/ BeginDelete(t) \/ BeginGet(t)
    \/ NextVersion(t) \/ WALAppend(t) \/ WALAppendFails(t) \/ Apply(t)
    \/ GetCheck(t) \/ LazyReap(t)

SnapStep ==
    \/ CompactorSnapshot \/ FinalSnapshot \/ SnapLockShard
    \/ SnapDump \/ SnapRename \/ SnapTruncate \/ SnapFail

LifeCycleStep ==
    \/ Shutdown \/ Drained \/ DrainTimeout \/ StopReaper \/ Exit \/ Crash
    \/ Start \/ LoadSnapshot \/ ReplayRecord \/ ReplayDone \/ ReplayFatal

Next ==
    \/ \E t \in Threads : ThreadStep(t)
    \/ ReapStart \/ ReapShard
    \/ SnapStep
    \/ LifeCycleStep
    \/ Tick

Spec == Init /\ [][Next]_vars

(* Goroutines are scheduled fairly.  A step that takes a mutex which a        *)
(* snapshot may hold gets strong fairness: a Go mutex hands itself to the     *)
(* longest waiter once one has starved for a millisecond.  So does the        *)
(* reaper's choice between its ticker and the closed stop channel, which      *)
(* select makes at random.  Nothing forces a call, a snapshot, a fault, a     *)
(* crash, a signal or the clock; a process that is down is started again.     *)
Fairness ==
    /\ \A t \in Threads : /\ WF_vars(NextVersion(t)) /\ WF_vars(GetCheck(t))
                          /\ SF_vars(WALAppend(t)) /\ SF_vars(Apply(t))
                          /\ SF_vars(LazyReap(t))
    /\ WF_vars(ReapStart) /\ SF_vars(ReapShard)
    /\ WF_vars(SnapLockShard \/ SnapDump \/ SnapRename \/ SnapTruncate)
    /\ WF_vars(Drained \/ DrainTimeout)
    /\ SF_vars(FinalSnapshot) /\ SF_vars(StopReaper) /\ SF_vars(Exit)
    /\ WF_vars(Start) /\ WF_vars(LoadSnapshot)
    /\ WF_vars(ReplayRecord) /\ WF_vars(ReplayDone)

FairSpec == Spec /\ Fairness

------------------------------------------------------------------------------
(* Properties.                                                               *)

\* Types; a thread inside a call has a request, and no more locks are held than
\* there are shards.
TypeOK ==
    /\ now \in Nat \ {0} /\ mode \in Modes
    /\ db \in [Keys -> Entry \cup {Nil}] /\ keyCount \in Int
    /\ lastVersion \in Nat
    /\ pc \in [Threads -> {"idle", "version", "append", "apply", "check",
                           "lazyreap"}]
    /\ req \in [Threads -> Request \cup {Nil}]
    /\ \A t \in Threads : pc[t] # "idle" => req[t] \in Request
    /\ reapAt \in Nat /\ reapShard \in Shards
    /\ snapPc \in {"idle", "lock", "dump", "rename", "truncate"}
    /\ locked \in 0 .. ShardCount
    /\ tmp \in [Keys -> Entry \cup {Nil}] /\ snap \in [Keys -> Entry \cup {Nil}]
    /\ wal \in Seq(Piece) /\ replayPos \in Nat \ {0}
    /\ budget \in [BudgetOf -> Nat]
    /\ straddled \subseteq Threads /\ unlogged \subseteq Keys
    /\ newest \in [Keys -> Request \cup {Nil}] /\ maxIssued \in Nat
    /\ atExit \in [Keys -> Entry \cup {Nil}] \cup {Nil}

\* Size() is the number of entries in the map: no interleaving of Set, Delete,
\* lazy reap, reaper and recovery counts a key twice or forgets one.
SizeExact == keyCount = Cardinality({k \in Keys : db[k] # Nil})

\* The expiry in e, if any, has not passed at time t.
Live(e, t) == e # Nil /\ (e.exp = 0 \/ t <= e.exp)

\* A live entry of a running node gives way only to a mutation of its key with
\* a version that is not smaller: a Delete that is being applied, or a Set.
\* Neither reap() with its clock read long ago, nor Get's lazy reap of an entry
\* that was meanwhile overwritten, removes it.
LiveEntrySuperseded ==
    [][\A k \in Keys :
         (Running /\ Running' /\ Live(db[k], now)) =>
            IF db'[k] # Nil THEN db'[k].ver >= db[k].ver
            ELSE \E t \in Threads :
                    /\ pc[t] = "apply" /\ pc'[t] = "idle"
                    /\ req[t].type = "del" /\ req[t].key = k
                    /\ req[t].ver >= db[k].ver]_vars

\* Replay will reach the i-th piece of the file.
Readable(i) == \A j \in 1 .. i : wal[j].frag = "full"

\* Replaying the record r made the entry e, or would make it: the expiry of e is
\* that of the record or, after a restart, a later one.
Makes(r, e) ==
    /\ r.type = "set" /\ r.val = e.val /\ r.ver = e.ver
    /\ r.exp = e.exp \/ (0 < r.exp /\ r.exp < e.exp)

\* The entry e of k would survive a crash.
OnDisk(k, e) ==
    \/ snap[k] = e
    \/ \E i \in DOMAIN wal : Readable(i) /\ wal[i].rec.key = k /\ Makes(wal[i].rec, e)

\* Every live entry of a running node is in the snapshot or in the readable part
\* of the WAL, at every point of a snapshot and of a failed one, except the
\* entries that a Set logged before a snapshot and applied after it.
Durable == Running => \A k \in Keys \ unlogged : Live(db[k], now) => OnDisk(k, db[k])

\* Last write wins, across crashes and restarts: of all mutations of a key that
\* were applied, the one with the highest version determines what the map holds.
NewestWins ==
    Running => \A k \in Keys : newest[k] # Nil =>
        IF db[k] # Nil THEN db[k].ver >= newest[k].ver
        ELSE newest[k].type = "del" \/ (newest[k].exp # 0 /\ now >= newest[k].exp)

\* A version NextVersion generates is above all it generated before, in this or
\* in an earlier run of the process.
MonotonicVersions ==
    [][\A t \in Threads : pc[t] = "version" /\ pc'[t] = "append"
                              => req'[t].ver > maxIssued]_vars

\* When all handlers finished before the final snapshot and it succeeded, the
\* next start restores exactly the live entries the node had.
CleanStopRestores ==
    [][mode = "replay" /\ mode' = "up" /\ atExit # Nil =>
         \A k \in Keys : Live(atExit[k], now) \/ Live(db[k], now)
                            => db[k] = atExit[k]]_vars

\* What the code's comments say, and does not hold: every live entry of a running
\* node is on disk.
AckedDurable == Running => \A k \in Keys : Live(db[k], now) => OnDisk(k, db[k])

\* Every call returns, whatever snapshots, reaps, faults and shutdowns it meets.
CallsReturn == \A t \in Threads : pc[t] # "idle" ~> pc[t] = "idle"

\* An entry that has expired does not stay in the map: it is reaped, or a new
\* Set takes its place.
ExpiredGoes ==
    \A k \in Keys : (db[k] # Nil /\ ~Live(db[k], now))
                        ~> (db[k] = Nil \/ Live(db[k], now))

\* All records of the WAL are whole but perhaps the last, of which less than a
\* header was written.
Recoverable ==
    \A i \in DOMAIN wal : wal[i].frag = "full" \/ (wal[i].frag = "hdr" /\ i = Len(wal))


\* A node that was told to stop stops, whatever its compactor, its reaper and
\* its handlers are doing.
StopCompletes == mode = "draining" ~> mode = "down"
=============================================================================
