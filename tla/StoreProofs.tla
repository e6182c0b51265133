---------------------------- MODULE StoreProofs ----------------------------
(***************************************************************************)
(* Proofs about Store for every set of keys, values and threads, every     *)
(* number of shards and every setting of the other constants.              *)
(***************************************************************************)
EXTENDS Store, TLAPS, FiniteSetTheorems

------------------------------------------------------------------------------
(* Types, and what CreateSnapshot holds at each of its steps.                *)

LockInv ==
    /\ snapPc = "idle" => locked = 0
    /\ snapPc = "lock" => locked < ShardCount
    /\ snapPc \in {"dump", "rename", "truncate"} => locked = ShardCount

TInv == TypeOK /\ LockInv

USE DEF memory, thread, reaper, snapper, disk, history

\* The entry a record describes.
LEMMA EntryOfType == ASSUME NEW r \in Request PROVE EntryOf(r) \in Entry
BY Zenon DEF Request, Entry, EntryOf

\* The log after a write, whole or torn.
LEMMA WrittenType ==
    ASSUME NEW r \in Request, NEW f \in {"none", "hdr", "body", "full"}
    PROVE  Written(r, f) \in Seq(Piece)
<1>1. CASE f = "none"
  BY <1>1 DEF Written
<1>2. CASE f # "none"
  <2>1. [rec |-> r, frag |-> f] \in Piece
    BY <1>2, Zenon DEF Piece
  <2> QED
    BY <1>2, <2>1 DEF Written
<1> QED
  BY <1>1, <1>2, Zenon

\* Shards exist and every key has one.
LEMMA ShardFacts ==
    /\ ShardCount \in Nat /\ ShardCount > 0
    /\ 0 \in Shards
    /\ \A k \in Keys : ShardOf[k] \in Shards
BY ShardAssumption DEF Shards

\* TInv holds when the node is first started.
LEMMA TInvInit == Init => TInv
BY ShardFacts, BoundAssumption DEF Init, TInv, TypeOK, LockInv, EmptyMap, Modes

\* The thread steps that change neither the map nor the files.
LEMMA BeginType ==
    ASSUME TInv, NEW t \in Threads, NEW r \in Request, Begin(t, r)
    PROVE  TInv'
BY DEF TInv, TypeOK, LockInv, Begin, Go, Spend, BudgetOf

\* A Set begins.
LEMMA BeginSetType ==
    ASSUME TInv, NEW t \in Threads, BeginSet(t)
    PROVE  TInv'
<1>1. PICK k \in Keys, v \in Values, ttl \in TTLs, ver \in Versions :
        Begin(t, [type |-> "set", key |-> k, val |-> v, ver |-> ver,
                  exp |-> IF ttl > 0 THEN now + ttl ELSE 0])
  BY Zenon DEF BeginSet
<1>2. [type |-> "set", key |-> k, val |-> v, ver |-> ver,
       exp |-> IF ttl > 0 THEN now + ttl ELSE 0] \in Request
  BY CallAssumption DEF Request, TInv, TypeOK
<1> QED
  BY <1>1, <1>2, BeginType, Zenon

\* A Delete begins.
LEMMA BeginDeleteType ==
    ASSUME TInv, NEW t \in Threads, BeginDelete(t)
    PROVE  TInv'
<1>1. PICK k \in Keys, ver \in Versions :
        Begin(t, [type |-> "del", key |-> k, val |-> Nil, ver |-> ver, exp |-> 0])
  BY Zenon DEF BeginDelete
<1>2. [type |-> "del", key |-> k, val |-> Nil, ver |-> ver, exp |-> 0] \in Request
  BY CallAssumption, Zenon DEF Request
<1> QED
  BY <1>1, <1>2, BeginType, Zenon

\* A Get has read its shard.
LEMMA BeginGetType ==
    ASSUME TInv, NEW t \in Threads, BeginGet(t)
    PROVE  TInv'
<1>1. PICK k \in Keys :
        /\ db[k] # Nil
        /\ req' = [req EXCEPT ![t] = [type |-> "get", key |-> k, val |-> db[k].val,
                                      ver |-> db[k].ver, exp |-> db[k].exp]]
  BY Zenon DEF BeginGet
<1>2. [type |-> "get", key |-> k, val |-> db[k].val,
       ver |-> db[k].ver, exp |-> db[k].exp] \in Request
  BY <1>1, Zenon DEF Request, TInv, TypeOK, Entry
<1> QED
  BY <1>1, <1>2 DEF BeginGet, TInv, TypeOK, LockInv, Go, Spend, BudgetOf

\* A version is drawn.
LEMMA NextVersionType ==
    ASSUME TInv, NEW t \in Threads, NextVersion(t)
    PROVE  TInv'
<1> DEFINE v == IF now <= lastVersion THEN lastVersion + 1 ELSE now
<1>1. v \in Nat /\ Maximum(maxIssued, v) \in Nat
  BY DEF TInv, TypeOK, Maximum
<1>2. req' = [req EXCEPT ![t].ver = v] /\ req[t] \in Request
  BY Zenon DEF NextVersion, TInv, TypeOK
<1>3. req' \in [Threads -> Request \cup {Nil}] /\ req'[t] \in Request
  BY <1>1, <1>2, Zenon DEF TInv, TypeOK, Request
<1> QED
  BY <1>1, <1>2, <1>3, Zenon DEF NextVersion, TInv, TypeOK, LockInv, Go

\* A record is logged.
LEMMA WALAppendType ==
    ASSUME TInv, NEW t \in Threads, WALAppend(t)
    PROVE  TInv'
<1>1. req[t] \in Request
  BY Zenon DEF WALAppend, TInv, TypeOK
<1>2. wal' \in Seq(Piece)
  BY <1>1, WrittenType DEF WALAppend, TInv, TypeOK
<1> QED
  BY <1>1, <1>2, Zenon DEF WALAppend, TInv, TypeOK, LockInv, Go

\* A record is not logged, or only in part.
LEMMA WALAppendFailsType ==
    ASSUME TInv, NEW t \in Threads, WALAppendFails(t)
    PROVE  TInv'
<1>1. req[t] \in Request
  BY Zenon DEF WALAppendFails, TInv, TypeOK
<1>2. wal' \in Seq(Piece)
  <2>1. PICK frag \in Tails : wal' = wal \o Written(req[t], frag)
    BY Zenon DEF WALAppendFails
  <2>2. Written(req[t], frag) \in Seq(Piece)
    BY <1>1, WrittenType, SwitchAssumption, Zenon
  <2> QED
    BY <2>1, <2>2 DEF TInv, TypeOK
<1>3. /\ pc' = [pc EXCEPT ![t] = "idle"] /\ req' = [req EXCEPT ![t] = Nil]
      /\ budget["faults"] > 0
      /\ budget' = [budget EXCEPT !["faults"] = @ - 1]
      /\ UNCHANGED <<now, mode, memory, reaper, snapper, snap, replayPos, history>>
  BY Zenon DEF WALAppendFails, Return, Go, Spend
<1> QED
  BY <1>2, <1>3 DEF TInv, TypeOK, LockInv, BudgetOf

\* The effect of a mutation on the map and its counter.
LEMMA ApplyRecordType ==
    ASSUME db \in [Keys -> Entry \cup {Nil}], keyCount \in Int,
           NEW r \in Request, ApplyRecord(r)
    PROVE  db' \in [Keys -> Entry \cup {Nil}] /\ keyCount' \in Int
BY EntryOfType DEF ApplyRecord, ApplySet, ApplyDelete

\* The history of the newest mutation.
LEMMA NewestType ==
    ASSUME NEW n \in [Keys -> Request \cup {Nil}], NEW r \in Request
    PROVE  Newest(n, r) \in [Keys -> Request \cup {Nil}]
BY Zenon DEF Newest, Request

\* A mutation is applied to the map.
LEMMA ApplyType ==
    ASSUME TInv, NEW t \in Threads, Apply(t)
    PROVE  TInv'
<1>1. req[t] \in Request /\ req[t].key \in Keys
  BY Zenon DEF Apply, TInv, TypeOK, Request
<1>2. db' \in [Keys -> Entry \cup {Nil}] /\ keyCount' \in Int
  BY <1>1, ApplyRecordType, Zenon DEF Apply, TInv, TypeOK
<1>3. newest' \in [Keys -> Request \cup {Nil}]
  BY <1>1, NewestType, Zenon DEF Apply, TInv, TypeOK
<1>4. straddled' \subseteq Threads /\ unlogged' \subseteq Keys
  BY <1>1, Zenon DEF Apply, TInv, TypeOK
<1>5. /\ pc' = [pc EXCEPT ![t] = "idle"] /\ req' = [req EXCEPT ![t] = Nil]
      /\ UNCHANGED <<now, mode, lastVersion, reaper, snapper, disk, replayPos,
                     budget, maxIssued, atExit>>
  BY Zenon DEF Apply, Return, Go
<1> QED
  BY <1>2, <1>3, <1>4, <1>5, Zenon DEF TInv, TypeOK, LockInv

\* Get decides whether its entry has expired.
LEMMA GetCheckType ==
    ASSUME TInv, NEW t \in Threads, GetCheck(t)
    PROVE  TInv'
BY Zenon DEF GetCheck, Return, Go, TInv, TypeOK, LockInv

\* Get reaps an expired entry.
LEMMA LazyReapType ==
    ASSUME TInv, NEW t \in Threads, LazyReap(t)
    PROVE  TInv'
BY DEF LazyReap, Return, Go, TInv, TypeOK, LockInv

\* The reaper starts a pass and reaps a shard.
LEMMA ReapType ==
    ASSUME TInv, ReapStart \/ ReapShard
    PROVE  TInv'
<1>1. CASE ReapStart
  BY <1>1, ShardFacts, Zenon DEF ReapStart, TInv, TypeOK, LockInv
<1>2. CASE ReapShard
  <2> DEFINE gone == Expired(reapShard, reapAt)
  <2>1. gone \subseteq Keys
    BY Zenon DEF Expired, Present
  <2>2. IsFiniteSet(gone) /\ Cardinality(gone) \in Nat
    BY <2>1, KeysAssumption, FS_Subset, FS_CardinalityType, Zenon
  <2>3. /\ db' = [k \in Keys |-> IF k \in gone THEN Nil ELSE db[k]]
        /\ keyCount' = keyCount - Cardinality(gone)
    BY <1>2, Zenon DEF ReapShard
  <2>4. db' \in [Keys -> Entry \cup {Nil}] /\ keyCount' \in Int
    BY <2>2, <2>3 DEF TInv, TypeOK
  <2>5. reapShard' \in Shards /\ reapAt' \in Nat
    BY <1>2, ShardFacts DEF ReapShard, TInv, TypeOK, Shards
  <2> QED
    BY <1>2, <2>4, <2>5, Zenon DEF ReapShard, TInv, TypeOK, LockInv
<1> QED
  BY <1>1, <1>2, Zenon

\* CreateSnapshot, step by step.
LEMMA SnapStepType ==
    ASSUME TInv, SnapStep
    PROVE  TInv'
<1>1. CASE CompactorSnapshot
  BY <1>1, ShardFacts, Zenon
  DEF CompactorSnapshot, SnapLockWAL, WALFree, TInv, TypeOK, LockInv
<1>2. CASE FinalSnapshot
  BY <1>2, ShardFacts, Zenon
  DEF FinalSnapshot, SnapLockWAL, WALFree, TInv, TypeOK, LockInv, Modes
<1>3. CASE SnapLockShard
  BY <1>3, ShardFacts DEF SnapLockShard, TInv, TypeOK, LockInv
<1>4. CASE SnapDump
  BY <1>4, Zenon DEF SnapDump, TInv, TypeOK, LockInv
<1>5. CASE SnapRename
  BY <1>5, Zenon DEF SnapRename, TInv, TypeOK, LockInv
<1>6. CASE SnapTruncate
  BY <1>6, ShardFacts
  DEF SnapTruncate, Unlock, AfterSnapshot, EmptyMap, TInv, TypeOK, LockInv, Modes
<1>7. CASE SnapFail
  BY <1>7, ShardFacts
  DEF SnapFail, Unlock, AfterSnapshot, EmptyMap, Spend, BudgetOf, TInv, TypeOK,
      LockInv, Modes
<1> QED
  BY <1>1, <1>2, <1>3, <1>4, <1>5, <1>6, <1>7, Zenon DEF SnapStep

\* Every way a process ends leaves the initial values behind.
LEMMA VanishType ==
    ASSUME TInv, Vanish, now' = now, snap' = snap, wal' \in Seq(Piece),
           budget' \in [BudgetOf -> Nat], maxIssued' = maxIssued,
           atExit' \in [Keys -> Entry \cup {Nil}] \cup {Nil}
    PROVE  TInv'
BY ShardFacts DEF Vanish, Unlock, EmptyMap, TInv, TypeOK, LockInv, Modes

\* The process ends.
LEMMA CrashType ==
    ASSUME TInv, Crash
    PROVE  TInv'
<1>1. wal' \in Seq(Piece)
  <2>1. CASE UNCHANGED wal
    BY <2>1, Zenon DEF TInv, TypeOK
  <2>2. CASE \E t \in Threads, frag \in Tails :
                pc[t] = "append" /\ wal' = wal \o Written(req[t], frag)
    <3>1. PICK t \in Threads, frag \in Tails :
                pc[t] = "append" /\ wal' = wal \o Written(req[t], frag)
      BY <2>2, Zenon
    <3>2. Written(req[t], frag) \in Seq(Piece)
      BY <3>1, WrittenType, SwitchAssumption, Zenon DEF TInv, TypeOK
    <3> QED
      BY <3>1, <3>2 DEF TInv, TypeOK
  <2> QED
    BY <2>1, <2>2, Zenon DEF Crash
<1>2. budget' \in [BudgetOf -> Nat]
  BY DEF Crash, Spend, BudgetOf, TInv, TypeOK
<1>3. /\ Vanish /\ now' = now /\ snap' = snap /\ maxIssued' = maxIssued
      /\ atExit' = Nil
  BY Zenon DEF Crash
<1> QED
  BY <1>1, <1>2, <1>3, VanishType, Zenon

\* The snapshot is loaded.
LEMMA LoadSnapshotType ==
    ASSUME TInv, LoadSnapshot
    PROVE  TInv'
<1>1. Cardinality(Present(snap)) \in Nat
  BY KeysAssumption, FS_Subset, FS_CardinalityType, Zenon DEF Present
<1>2. lastVersion' \in Nat
  BY DEF LoadSnapshot, Present, TInv, TypeOK, Entry
<1>3. /\ mode' = "replay" /\ db' = snap /\ keyCount' = Cardinality(Present(snap))
      /\ UNCHANGED <<now, thread, reaper, snapper, disk, replayPos, budget, history>>
  BY Zenon DEF LoadSnapshot
<1> QED
  BY <1>1, <1>2, <1>3 DEF TInv, TypeOK, LockInv, Modes

\* The map after a record has been replayed.
LEMMA ReplayedType ==
    ASSUME TInv, ReplayRecord
    PROVE  wal[replayPos].rec \in Request
<1>1. wal \in Seq(Piece) /\ replayPos \in 1 .. Len(wal)
  BY DEF ReplayRecord, TInv, TypeOK
<1>2. wal[replayPos] \in Piece
  BY <1>1
<1> QED
  BY <1>2, Zenon DEF Piece

\* A record whose TTL is started anew is the same record up to its expiry.
LEMMA RestartedType ==
    ASSUME NEW r \in Request, NEW d \in Nat
    PROVE  /\ Restarted(r, d) \in Request
           /\ Restarted(r, d).type = r.type /\ Restarted(r, d).key = r.key
           /\ Restarted(r, d).val = r.val /\ Restarted(r, d).ver = r.ver
           /\ Restarted(r, d).exp = IF r.exp = 0 THEN 0 ELSE r.exp + d
           /\ r.exp = 0 => Restarted(r, d) = r
<1> DEFINE e == IF r.exp = 0 THEN 0 ELSE r.exp + d
<1>1. r.exp \in Nat
  BY Zenon DEF Request
<1>2. e \in Nat
  BY <1>1
<1>3. Restarted(r, d) = [r EXCEPT !.exp = e]
  BY Zenon DEF Restarted
<1> HIDE DEF e
<1>4. /\ Restarted(r, d) \in Request
      /\ Restarted(r, d).type = r.type /\ Restarted(r, d).key = r.key
      /\ Restarted(r, d).val = r.val /\ Restarted(r, d).ver = r.ver
      /\ Restarted(r, d).exp = e
      /\ r.exp = e => Restarted(r, d) = r
  BY <1>2, <1>3 DEF Request
<1> QED
  BY <1>4, Zenon DEF e

\* What the step of Replay does with the map: nothing when the record has
\* expired; else it applies the record, whose TTL starts when Set reads the clock.
LEMMA ReplayedStep ==
    ASSUME TInv, ReplayRecord
    PROVE  \/ /\ wal[replayPos].rec.exp # 0
              /\ UNCHANGED <<now, db, keyCount, newest>>
           \/ \E d \in Nat :
                 /\ now' = now + d
                 /\ ApplyRecord(Restarted(wal[replayPos].rec, d))
                 /\ newest' = Newest(newest, Restarted(wal[replayPos].rec, d))
<1>1. SUFFICES ASSUME NEW later \in now .. Maximum(now, MaxTime), now' = later,
                      ApplyRecord(Restarted(wal[replayPos].rec, later - now)),
                      newest' = Newest(newest, Restarted(wal[replayPos].rec, later - now))
               PROVE  \E d \in Nat :
                        /\ now' = now + d
                        /\ ApplyRecord(Restarted(wal[replayPos].rec, d))
                        /\ newest' = Newest(newest, Restarted(wal[replayPos].rec, d))
  BY Zenon DEF ReplayRecord
<1>2. now \in Nat /\ later \in Int /\ later >= now
  BY DEF TInv, TypeOK
<1>3. later - now \in Nat /\ now' = now + (later - now)
  BY <1>1, <1>2
<1> QED
  BY <1>1, <1>3, Zenon

\* The clock does not run backwards while a record is replayed.
LEMMA ReplayedClock ==
    ASSUME TInv, ReplayRecord
    PROVE  now' \in Nat \ {0} /\ now' >= now
<1>1. now \in Nat \ {0}
  BY Zenon DEF TInv, TypeOK
<1>2. now' = now \/ \E d \in Nat : now' = now + d
  BY ReplayedStep, Zenon
<1> QED
  BY <1>1, <1>2

\* A record is replayed.
LEMMA ReplayRecordType ==
    ASSUME TInv, ReplayRecord
    PROVE  TInv'
<1> DEFINE r == wal[replayPos].rec
<1>1. r \in Request
  BY ReplayedType, Zenon
<1>2. /\ db' \in [Keys -> Entry \cup {Nil}] /\ keyCount' \in Int
      /\ newest' \in [Keys -> Request \cup {Nil}]
  <2>1. CASE UNCHANGED <<db, keyCount, newest>>
    BY <2>1, Zenon DEF TInv, TypeOK
  <2>2. ASSUME NEW d \in Nat, ApplyRecord(Restarted(r, d)),
               newest' = Newest(newest, Restarted(r, d))
        PROVE  /\ db' \in [Keys -> Entry \cup {Nil}] /\ keyCount' \in Int
               /\ newest' \in [Keys -> Request \cup {Nil}]
    <3>1. Restarted(r, d) \in Request
      BY <1>1, RestartedType, Zenon
    <3> QED
      BY <2>2, <3>1, ApplyRecordType, NewestType, Zenon DEF TInv, TypeOK
  <2> QED
    BY <2>1, <2>2, ReplayedStep, Zenon
<1>3. /\ replayPos' = replayPos + 1
      /\ UNCHANGED <<mode, lastVersion, thread, reaper, snapper, disk, budget,
                     straddled, unlogged, maxIssued, atExit>>
  BY Zenon DEF ReplayRecord
<1>4. now' \in Nat \ {0}
  BY ReplayedClock, Zenon
<1> QED
  BY <1>2, <1>3, <1>4 DEF TInv, TypeOK, LockInv

\* Start-up, shutdown and the clock.
LEMMA LifeCycleType ==
    ASSUME TInv, LifeCycleStep
    PROVE  TInv'
<1>1. CASE Shutdown
  BY <1>1 DEF Shutdown, Spend, BudgetOf, TInv, TypeOK, LockInv, Modes
<1>2. CASE Drained
  BY <1>2, Zenon DEF Drained, TInv, TypeOK, LockInv, Modes
<1>3. CASE DrainTimeout
  BY <1>3, Zenon DEF DrainTimeout, TInv, TypeOK, LockInv, Modes
<1>4. CASE StopReaper
  BY <1>4, Zenon DEF StopReaper, TInv, TypeOK, LockInv, Modes
<1>5. CASE Exit
  BY <1>5, VanishType, Zenon DEF Exit, TInv, TypeOK
<1>6. CASE Crash
  BY <1>6, CrashType, Zenon
<1>7. CASE Start
  BY <1>7 DEF Start, Maximum, TInv, TypeOK, LockInv, Modes
<1>8. CASE LoadSnapshot
  BY <1>8, LoadSnapshotType, Zenon
<1>9. CASE ReplayRecord
  BY <1>9, ReplayRecordType, Zenon
<1>10. CASE ReplayDone
  BY <1>10, Zenon DEF ReplayDone, TInv, TypeOK, LockInv, Modes
<1>11. CASE ReplayFatal
  BY <1>11, VanishType, Zenon DEF ReplayFatal, TInv, TypeOK
<1> QED
  BY <1>1, <1>2, <1>3, <1>4, <1>5, <1>6, <1>7, <1>8, <1>9, <1>10, <1>11, Zenon
  DEF LifeCycleStep

\* TInv is inductive.
LEMMA TInvNext == TInv /\ [Next]_vars => TInv'
<1> SUFFICES ASSUME TInv, [Next]_vars PROVE TInv'
  OBVIOUS
<1>1. ASSUME NEW t \in Threads, ThreadStep(t) PROVE TInv'
  BY <1>1, BeginSetType, BeginDeleteType, BeginGetType, NextVersionType,
     WALAppendType, WALAppendFailsType, ApplyType, GetCheckType, LazyReapType, Zenon
  DEF ThreadStep
<1>2. CASE Tick
  BY <1>2 DEF Tick, TInv, TypeOK, LockInv
<1>3. CASE UNCHANGED vars
  BY <1>3, Zenon DEF vars, TInv, TypeOK, LockInv
<1> QED
  BY <1>1, <1>2, <1>3, ReapType, SnapStepType, LifeCycleType, Zenon DEF Next

\* Every variable keeps its type, and CreateSnapshot holds no shard, some of the
\* shards or all of them according to the step it has reached.
THEOREM TypeInvariant == Spec => [](TypeOK /\ LockInv)
<1>1. Spec => []TInv
  BY TInvInit, TInvNext, PTL DEF Spec
<1> QED
  BY <1>1, PTL DEF TInv

------------------------------------------------------------------------------
(* The key counter.                                                          *)

\* Adding a key to the map and removing one.
LEMMA PresentFinite ==
    ASSUME NEW d PROVE IsFiniteSet(Present(d)) /\ Cardinality(Present(d)) \in Nat
BY KeysAssumption, FS_Subset, FS_CardinalityType, Zenon DEF Present

\* Putting an entry adds its key to those present.
LEMMA PresentPut ==
    ASSUME NEW d \in [Keys -> Entry \cup {Nil}], NEW k \in Keys, NEW e \in Entry
    PROVE  Cardinality(Present([d EXCEPT ![k] = e])) =
              IF d[k] = Nil THEN Cardinality(Present(d)) + 1
                            ELSE Cardinality(Present(d))
<1>1. Present([d EXCEPT ![k] = e]) = Present(d) \cup {k}
  BY NilAssumption, Zenon DEF Present
<1>2. k \in Present(d) <=> d[k] # Nil
  BY Zenon DEF Present
<1> QED
  BY <1>1, <1>2, PresentFinite, FS_AddElement, Zenon

\* Removing an entry removes its key.
LEMMA PresentDrop ==
    ASSUME NEW d \in [Keys -> Entry \cup {Nil}], NEW k \in Keys, d[k] # Nil
    PROVE  Cardinality(Present([d EXCEPT ![k] = Nil])) = Cardinality(Present(d)) - 1
<1>1. Present([d EXCEPT ![k] = Nil]) = Present(d) \ {k}
  BY Zenon DEF Present
<1>2. k \in Present(d)
  BY Zenon DEF Present
<1> QED
  BY <1>1, <1>2, PresentFinite, FS_RemoveElement, Zenon

\* SizeExact in terms of the keys present.
LEMMA SizeExactIsPresent == SizeExact <=> keyCount = Cardinality(Present(db))
BY Zenon DEF SizeExact, Present

\* Set and Delete count what they add and remove.
LEMMA ApplyRecordSize ==
    ASSUME TInv, SizeExact, NEW r \in Request, ApplyRecord(r)
    PROVE  SizeExact'
<1>1. r.key \in Keys /\ EntryOf(r) \in Entry
  BY EntryOfType, Zenon DEF Request
<1>2. /\ db \in [Keys -> Entry \cup {Nil}] /\ keyCount = Cardinality(Present(db))
      /\ Cardinality(Present(db)) \in Nat
  BY SizeExactIsPresent, PresentFinite, Zenon DEF TInv, TypeOK
<1>3. keyCount' = Cardinality(Present(db'))
  <2>1. CASE UNCHANGED <<db, keyCount>>
    BY <2>1, <1>2, Zenon
  <2>2. CASE /\ db' = [db EXCEPT ![r.key] = EntryOf(r)]
             /\ keyCount' = IF db[r.key] = Nil THEN keyCount + 1 ELSE keyCount
    BY <2>2, <1>1, <1>2, PresentPut, Zenon
  <2>3. CASE /\ db[r.key] # Nil
             /\ db' = [db EXCEPT ![r.key] = Nil]
             /\ keyCount' = keyCount - 1
    BY <2>3, <1>1, <1>2, PresentDrop, Zenon
  <2> QED
    BY <2>1, <2>2, <2>3, Zenon DEF ApplyRecord, ApplySet, ApplyDelete
<1> QED
  BY <1>3, SizeExactIsPresent, Zenon DEF SizeExact, Present

\* So does the lazy reap of Get.
LEMMA LazyReapSize ==
    ASSUME TInv, SizeExact, NEW t \in Threads, LazyReap(t)
    PROVE  SizeExact'
<1> DEFINE k == req[t].key
<1>1. k \in Keys /\ db \in [Keys -> Entry \cup {Nil}]
  BY Zenon DEF LazyReap, TInv, TypeOK, Request
<1>2. CASE UNCHANGED <<db, keyCount>>
  BY <1>2, Zenon DEF SizeExact
<1>3. CASE db[k] # Nil /\ db' = [db EXCEPT ![k] = Nil] /\ keyCount' = keyCount - 1
  <2>1. keyCount' = Cardinality(Present(db'))
    BY <1>1, <1>3, PresentDrop, SizeExactIsPresent, Zenon
  <2> QED
    BY <2>1, Zenon DEF SizeExact, Present
<1> QED
  BY <1>2, <1>3, Zenon DEF LazyReap

\* So does the reaper.
LEMMA ReapShardSize ==
    ASSUME TInv, SizeExact, ReapShard
    PROVE  SizeExact'
<1> DEFINE gone == Expired(reapShard, reapAt)
<1>1. gone \subseteq Present(db)
  BY Zenon DEF Expired
<1>2. /\ db' = [k \in Keys |-> IF k \in gone THEN Nil ELSE db[k]]
      /\ keyCount' = keyCount - Cardinality(gone)
  BY Zenon DEF ReapShard
<1>3. Present(db') = Present(db) \ gone
  BY <1>2, Zenon DEF Present
<1>4. Present(db) \cap gone = gone
  BY <1>1, Zenon
<1>5. Cardinality(Present(db) \ gone) = Cardinality(Present(db)) - Cardinality(gone)
  BY <1>4, PresentFinite, FS_Difference
<1>6. keyCount' = Cardinality(Present(db'))
  BY <1>2, <1>3, <1>5, SizeExactIsPresent, Zenon
<1> QED
  BY <1>6, Zenon DEF SizeExact, Present

\* An empty map has size 0.
LEMMA EmptySize == ASSUME db' = EmptyMap, keyCount' = 0 PROVE SizeExact'
<1>1. {k \in Keys : db'[k] # Nil} = {}
  BY Zenon DEF EmptyMap
<1> QED
  BY <1>1, FS_EmptySet, Zenon DEF SizeExact

\* SizeExact is inductive given TInv.
LEMMA SizeNext == TInv /\ SizeExact /\ [Next]_vars => SizeExact'
<1> SUFFICES ASSUME TInv, SizeExact, [Next]_vars PROVE SizeExact'
  OBVIOUS
<1>1. CASE UNCHANGED <<db, keyCount>>
  BY <1>1, Zenon DEF SizeExact
<1>2. ASSUME NEW t \in Threads, Apply(t) PROVE SizeExact'
  <2>1. req[t] \in Request /\ ApplyRecord(req[t])
    BY <1>2, Zenon DEF Apply, TInv, TypeOK
  <2> QED
    BY <2>1, ApplyRecordSize, Zenon
<1>3. ASSUME NEW t \in Threads, LazyReap(t) PROVE SizeExact'
  BY <1>3, LazyReapSize, Zenon
<1>4. CASE ReapShard
  BY <1>4, ReapShardSize, Zenon
<1>5. CASE Exit \/ Crash \/ ReplayFatal
  BY <1>5, EmptySize, Zenon DEF Exit, Crash, ReplayFatal, Vanish
<1>6. CASE LoadSnapshot
  BY <1>6, Zenon DEF LoadSnapshot, SizeExact, Present
<1>7. CASE ReplayRecord
  <2>1. wal[replayPos].rec \in Request
    BY <1>7, ReplayedType, Zenon
  <2>2. \A d \in Nat : Restarted(wal[replayPos].rec, d) \in Request
    BY <2>1, RestartedType, Zenon
  <2> QED
    BY <1>1, <1>7, <2>2, ReplayedStep, ApplyRecordSize, Zenon
<1>8. ASSUME NEW t \in Threads,
             \/ BeginSet(t) \/ BeginDelete(t) \/ BeginGet(t) \/ NextVersion(t)
             \/ WALAppend(t) \/ WALAppendFails(t) \/ GetCheck(t)
      PROVE  SizeExact'
  <2>1. UNCHANGED <<db, keyCount>>
    BY <1>8 DEF BeginSet, BeginDelete, Begin, BeginGet, NextVersion, WALAppend,
                WALAppendFails, GetCheck
  <2> QED
    BY <2>1, <1>1, Zenon
<1>9. CASE \/ ReapStart \/ SnapStep \/ Tick \/ UNCHANGED vars
           \/ Shutdown \/ Drained \/ DrainTimeout \/ StopReaper \/ Start \/ ReplayDone
  <2>1. UNCHANGED <<db, keyCount>>
    BY <1>9, Zenon DEF ReapStart, SnapStep, CompactorSnapshot, FinalSnapshot, SnapLockWAL,
                SnapLockShard, SnapDump, SnapRename, SnapTruncate, SnapFail, Tick,
                vars, Shutdown, Drained, DrainTimeout, StopReaper, Start, ReplayDone
  <2> QED
    BY <2>1, <1>1, Zenon
<1> QED
  BY <1>2, <1>3, <1>4, <1>5, <1>6, <1>7, <1>8, <1>9, Zenon
  DEF Next, ThreadStep, LifeCycleStep

\* Size() equals the number of entries of the map in every reachable state.
THEOREM SizeCorrect == Spec => []SizeExact
<1>1. Init => SizeExact
  <2> SUFFICES ASSUME Init PROVE SizeExact
    OBVIOUS
  <2>1. {k \in Keys : db[k] # Nil} = {}
    BY Zenon DEF Init, EmptyMap
  <2> QED
    BY <2>1, FS_EmptySet, Zenon DEF Init, SizeExact
<1> QED
  BY <1>1, TInvInit, TInvNext, SizeNext, PTL DEF Spec
=============================================================================
